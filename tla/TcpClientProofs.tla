--------------------------- MODULE TcpClientProofs ---------------------------
(***************************************************************************)
(* Proofs about the TCP client for every set of TimerIDs and every program *)
(* that makes no calls but CallsThatWork: its types, its timer, what the   *)
(* scheduler watches it for, and its cache.                                *)
(***************************************************************************)
EXTENDS TcpClient, SequenceTheorems, TLAPS

(* The callbacks that run: OnError and OnConnectTimout may reconnect, and  *)
(* OnConnected is called inside them.                                      *)
Stacks == {<<>>, <<"Update">>, <<"Register">>, <<"KeepRest">>, <<"Disconnect">>,
           <<"Register", "Disconnect">>}

(* An attempt is under way in the loop only, with its timer set. *)
Attempt ==
    told = "connecting" =>
        calls = <<>> /\ registered = "OUT" /\ timers = {m_AsyncConnectTimerId}

(* Otherwise no timer is set, but while OnConnectTimout runs for OnWriteable. *)
NoAttempt ==
    told # "connecting" =>
        \/ timers = {}
        \/ calls = <<"Disconnect">> /\ told = "idle" /\ timers = {m_AsyncConnectTimerId}

(* What the scheduler watches for, in the loop and in each callback. *)
Watching ==
    /\ calls = <<>> /\ told = "connected" => registered = "IN"
    /\ calls = <<>> /\ told = "idle" => registered = "no"
    /\ calls = <<"KeepRest">> => registered = IF told = "connected" THEN "IN" ELSE "no"
    /\ calls # <<>> /\ Head(calls) = "Register" => registered = "no"
    /\ calls = <<"Update">> => (told = "connected" \/ registered = "no")

(* The program is told of a connection only while there is a socket, whose *)
(* cache is its own; in OnConnected and OnMessage, exactly while.          *)
ToldOpen ==
    /\ told # "idle" => Socket.mode # "none" /\ cached # "old"
    /\ calls # <<>> /\ Head(calls) # "Disconnect" /\ told = "idle" => Socket.mode = "none"

(* The inductive invariant. *)
ClientInv == TypeOK /\ calls \in Stacks /\ Attempt /\ NoAttempt /\ Watching /\ ToldOpen

-----------------------------------------------------------------------------
(* connect() leaves a socket of the same mode. *)
LEMMA ConnectKeepsMode ==
  ASSUME NEW s \in Sockets, NEW ret, ConnectCall(s, ret)
  PROVE  Socket' \in Sockets /\ Socket'.mode = s.mode
BY DEF ConnectCall, NoSocket, Sockets

(* A Connect uses a socket that is open. *)
LEMMA OpenedIsOpen ==
  ASSUME NEW mode \in {"blocking", "nonblocking"}, Socket \in Sockets
  PROVE  Opened(mode) \in Sockets /\ Opened(mode).mode # "none"
BY DEF Opened, Sockets

(* The place the program calls from is the callback that runs, or the loop. *)
LEMMA PlaceOfCall ==
  ASSUME calls \in Stacks
  PROVE  /\ Allowed("Connect") => calls = <<>>
         /\ Allowed("ConnectWithTimeout") => calls = <<>>
         /\ Allowed("Reconnect") => calls = <<>> \/ calls = <<"Disconnect">>
BY ClientAssumption DEF Stacks, Allowed, CallsThatWork, Methods

(* OnConnected inside Connect, called from the loop or from OnError or     *)
(* OnConnectTimout.                                                        *)
LEMMA PushedRegister ==
  ASSUME calls \in {<<>>, <<"Disconnect">>}
  PROVE  <<"Register">> \o calls \in {<<"Register">>, <<"Register", "Disconnect">>}
<1>1. CASE calls = <<>>
  <2>1. <<"Register">> \o <<>> = <<"Register">>
    OBVIOUS
  <2> QED
    BY <1>1, <2>1
<1>2. CASE calls = <<"Disconnect">>
  <2> DEFINE r == <<"Register">>
             d == <<"Disconnect">>
             both == <<"Register", "Disconnect">>
  <2>a. r \in Seq(Remainders) /\ d \in Seq(Remainders) /\ both \in Seq(Remainders)
    BY DEF Remainders
  <2>b. /\ Len(r) = 1 /\ Len(d) = 1 /\ Len(both) = 2
        /\ r[1] = both[1] /\ d[1] = both[2]
    OBVIOUS
  <2> HIDE DEF r, d, both
  <2>c. /\ r \o d \in Seq(Remainders) /\ Len(r \o d) = 2
        /\ (r \o d)[1] = both[1] /\ (r \o d)[2] = both[2]
    BY <2>a, <2>b, ConcatProperties
  <2>d. \A i \in 1..Len(r \o d) : (r \o d)[i] = both[i]
    BY <2>c
  <2>e. r \o d = both
    BY <2>a, <2>b, <2>c, <2>d, SeqEqual
  <2>1. <<"Register">> \o <<"Disconnect">> = <<"Register", "Disconnect">>
    BY <2>e DEF r, d, both
  <2> QED
    BY <1>2, <2>1
<1> QED
  BY <1>1, <1>2

(* The stacks are told apart, and taken apart. *)
LEMMA StacksApart ==
  /\ Stacks \subseteq Seq(Remainders)
  /\ \A s \in Stacks \ {<<>>} : Tail(s) \in Stacks
  /\ \A s \in Stacks \ {<<>>} :
        /\ Head(s) = "Register" <=> s \in {<<"Register">>, <<"Register", "Disconnect">>}
        /\ \A h \in {"Update", "KeepRest", "Disconnect"} : Head(s) = h <=> s = <<h>>
  /\ Tail(<<"Register", "Disconnect">>) = <<"Disconnect">>
  /\ \A h \in Remainders : Tail(<<h>>) = <<>> /\ <<h>> # <<>>
  /\ <<"Register", "Disconnect">> # <<>>
<1>1. Stacks \subseteq Seq(Remainders)
  BY DEF Stacks, Remainders
<1>2. \A h \in Remainders : Tail(<<h>>) = <<>> /\ Head(<<h>>) = h /\ <<h>> # <<>>
  OBVIOUS
<1>3. /\ Tail(<<"Register", "Disconnect">>) = <<"Disconnect">>
      /\ Head(<<"Register", "Disconnect">>) = "Register"
      /\ <<"Register", "Disconnect">> # <<>>
      /\ \A h \in Remainders : <<h>> # <<"Register", "Disconnect">>
  OBVIOUS
<1>4. \A g, h \in Remainders : g # h => <<g>> # <<h>>
  OBVIOUS
<1> QED
  BY <1>1, <1>2, <1>3, <1>4 DEF Stacks, Remainders

LEMMA InitInv == Init => ClientInv
BY DEF Init, ClientInv, TypeOK, Stacks, Attempt, NoAttempt, Watching, ToldOpen, NoSocket,
       Sockets, Remainders

-----------------------------------------------------------------------------
(* Every call of the program keeps the invariant. *)
LEMMA ConnectKeepsInv == ClientInv /\ Connect => ClientInv'
<1> SUFFICES ASSUME ClientInv, Connect PROVE ClientInv'
  OBVIOUS
<1>1. calls = <<>> /\ told = "idle"
  BY PlaceOfCall DEF ClientInv, Connect
<1>2. registered = "no" /\ timers = {}
  BY <1>1 DEF ClientInv, Watching, NoAttempt
<1>3. PICK ret \in Results : ConnectCall(Opened("blocking"), ret) /\ ConnectReturns(ret)
  BY DEF Connect
<1>4. Socket' \in Sockets /\ Socket'.mode # "none"
  BY <1>3, OpenedIsOpen, ConnectKeepsMode DEF ClientInv, TypeOK
<1>5. UNCHANGED <<registered, m_AsyncConnectTimerId, timers>>
  BY DEF Connect
<1>6. CASE ret = "ok"
  <2>1. cached' = "nothing" /\ told' = "connected" /\ calls' = <<"Register">>
    BY <1>1, <1>3, <1>6 DEF ConnectReturns
  <2>2. calls' \in Stacks /\ calls' \in Seq(Remainders) /\ Head(calls') = "Register"
        /\ calls' \notin {<<>>, <<"KeepRest">>, <<"Update">>, <<"Disconnect">>}
    BY <2>1, StacksApart DEF Stacks, Remainders
  <2> QED
    BY <1>2, <1>4, <1>5, <2>1, <2>2 DEF ClientInv, TypeOK, Attempt, NoAttempt, Watching, ToldOpen
<1>7. CASE ret # "ok"
  <2>1. UNCHANGED <<cached, told, calls>>
    BY <1>3, <1>7 DEF ConnectReturns
  <2> QED
    BY <1>1, <1>2, <1>4, <1>5, <2>1 DEF ClientInv, TypeOK, Attempt, NoAttempt, Watching, ToldOpen
<1> QED
  BY <1>6, <1>7

LEMMA ConnectWithTimeoutKeepsInv == ClientInv /\ ConnectWithTimeout => ClientInv'
<1> SUFFICES ASSUME ClientInv, ConnectWithTimeout PROVE ClientInv'
  OBVIOUS
<1>1. calls = <<>> /\ told = "idle"
  BY PlaceOfCall DEF ClientInv, ConnectWithTimeout
<1>2. registered = "no" /\ timers = {}
  BY <1>1 DEF ClientInv, Watching, NoAttempt
<1>3. PICK ret \in Results :
        /\ ConnectCall(Opened("nonblocking"), ret)
        /\ IF ret = "fails"
           THEN UNCHANGED <<registered, m_AsyncConnectTimerId, timers, cached, told>>
           ELSE /\ \E id \in FreshTimerIDs :
                       m_AsyncConnectTimerId' = id /\ timers' = timers \cup {id}
                /\ registered' = Watched(registered, "OUT", Opened("nonblocking"))
                /\ cached' = "nothing"
                /\ told' = "connecting"
  BY DEF ConnectWithTimeout
<1>4. Socket' \in Sockets /\ Socket'.mode # "none"
  BY <1>3, OpenedIsOpen, ConnectKeepsMode DEF ClientInv, TypeOK
<1>5. calls' = calls
  BY DEF ConnectWithTimeout
<1>6. CASE ret = "fails"
  BY <1>1, <1>2, <1>3, <1>4, <1>5, <1>6
     DEF ClientInv, TypeOK, Attempt, NoAttempt, Watching, ToldOpen
<1>7. CASE ret # "fails"
  <2>1. /\ m_AsyncConnectTimerId' \in TimerIDs
        /\ timers' = {m_AsyncConnectTimerId'}
    BY <1>2, <1>3, <1>7 DEF FreshTimerIDs
  <2>2. registered' = "OUT"
    BY <1>2, <1>3, <1>7, OpenedIsOpen DEF Watched, ClientInv, TypeOK
  <2>3. cached' = "nothing" /\ told' = "connecting"
    BY <1>3, <1>7
  <2> QED
    BY <1>1, <1>4, <1>5, <2>1, <2>2, <2>3
       DEF ClientInv, TypeOK, Attempt, NoAttempt, Watching, ToldOpen
<1> QED
  BY <1>6, <1>7

(* After Disconnect the client has no timer, no registration and no socket, *)
(* wherever it was called.                                                  *)
LEMMA DisconnectLeavesNothing ==
  ASSUME ClientInv, DoDisconnect, calls' \in Stacks
  PROVE  ClientInv'
<1>1. timers \subseteq {m_AsyncConnectTimerId}
  BY DEF ClientInv, Attempt, NoAttempt
<1>2. /\ timers' = {} /\ m_AsyncConnectTimerId' = NoTimer /\ registered' = "no"
      /\ Socket' = NoSocket /\ told' = "idle"
  BY <1>1 DEF DoDisconnect, Closed
<1>3. cached' \in {"nothing", "old"}
  BY DEF DoDisconnect, Stale
<1>4. calls' \in Seq(Remainders)
  BY StacksApart
<1>5. Socket'.mode = "none" /\ Socket' \in Sockets
  BY <1>2 DEF NoSocket, Sockets
<1> QED
  BY <1>2, <1>3, <1>4, <1>5 DEF ClientInv, TypeOK, Attempt, NoAttempt, Watching, ToldOpen

LEMMA ReconnectKeepsInv == ClientInv /\ Reconnect => ClientInv'
<1> SUFFICES ASSUME ClientInv, Reconnect PROVE ClientInv'
  OBVIOUS
<1>1. calls \in {<<>>, <<"Disconnect">>}
  BY PlaceOfCall DEF ClientInv, Reconnect
<1>2. timers \subseteq {m_AsyncConnectTimerId}
  BY DEF ClientInv, Attempt, NoAttempt
<1>3. timers' = {} /\ m_AsyncConnectTimerId' = NoTimer /\ registered' = "no"
  BY <1>2 DEF Reconnect, Closed
<1> DEFINE fresh == [NoSocket EXCEPT !.mode = "blocking"]
<1>4. PICK ret \in Results :
        /\ ConnectCall(fresh, ret)
        /\ IF ret = "ok"
           THEN cached' = "nothing" /\ told' = "connected" /\ calls' = <<"Register">> \o calls
           ELSE cached' = Stale /\ told' = "idle" /\ UNCHANGED calls
  BY DEF Reconnect
<1>5. fresh \in Sockets /\ fresh.mode = "blocking"
  BY DEF NoSocket, Sockets
<1>6. Socket' \in Sockets /\ Socket'.mode # "none"
  <2> HIDE DEF fresh
  <2> QED
    BY <1>4, <1>5, ConnectKeepsMode
<1>7. CASE ret = "ok"
  <2>1. cached' = "nothing" /\ told' = "connected"
    BY <1>4, <1>7
  <2>2. calls' \in {<<"Register">>, <<"Register", "Disconnect">>}
    BY <1>1, <1>4, <1>7, PushedRegister
  <2>3. calls' \in Stacks /\ calls' \in Seq(Remainders) /\ Head(calls') = "Register"
        /\ calls' \notin {<<>>, <<"KeepRest">>, <<"Update">>, <<"Disconnect">>}
    BY <2>2, StacksApart DEF Stacks, Remainders
  <2> QED
    BY <1>3, <1>6, <2>1, <2>3 DEF ClientInv, TypeOK, Attempt, NoAttempt, Watching, ToldOpen
<1>8. CASE ret # "ok"
  <2>1. cached' \in {"nothing", "old"} /\ told' = "idle" /\ calls' = calls
    BY <1>4, <1>8 DEF Stale
  <2>2. calls \in Stacks /\ calls \in Seq(Remainders) /\ (calls # <<>> => Head(calls) = "Disconnect")
        /\ calls \notin {<<"KeepRest">>, <<"Update">>}
    BY <1>1, StacksApart DEF Stacks, Remainders
  <2> QED
    BY <1>3, <1>6, <2>1, <2>2 DEF ClientInv, TypeOK, Attempt, NoAttempt, Watching, ToldOpen
<1> QED
  BY <1>7, <1>8

(* The program's Disconnect, and OnReadable when the stream has ended. *)
LEMMA DisconnectsKeepInv == ClientInv /\ (Disconnect \/ OnEnd) => ClientInv'
BY DisconnectLeavesNothing DEF ClientInv, Disconnect, OnEnd

-----------------------------------------------------------------------------
(* The network and the events. *)
LEMMA KernelKeepsInv == ClientInv /\ (NetworkMoves \/ RecvFails) => ClientInv'
<1> SUFFICES ASSUME ClientInv, NetworkMoves \/ RecvFails PROVE ClientInv'
  OBVIOUS
<1>1. UNCHANGED <<registered, m_AsyncConnectTimerId, timers, cached, told, calls>>
  BY DEF NetworkMoves, RecvFails
<1>2. PICK t \in {"up", "ended", "error"} : Socket' = [Socket EXCEPT !.tcp = t]
  BY DEF NetworkMoves, RecvFails
<1>3. Socket' \in Sockets /\ Socket'.mode = Socket.mode
  BY <1>2 DEF ClientInv, TypeOK, Sockets
<1> QED
  BY <1>1, <1>3 DEF ClientInv, TypeOK, Attempt, NoAttempt, Watching, ToldOpen

LEMMA FailuresKeepInv ==
  ClientInv /\ (OnErrorable \/ OnWriteableFails) => ClientInv'
<1> SUFFICES ASSUME ClientInv, OnErrorable \/ OnWriteableFails PROVE ClientInv'
  OBVIOUS
<1>1. /\ calls = <<>> /\ told' = "idle" /\ calls' = <<"Disconnect">>
      /\ UNCHANGED <<Socket, registered, m_AsyncConnectTimerId, timers, cached>>
  BY DEF OnErrorable, OnWriteableFails
<1>2. timers = {} \/ timers = {m_AsyncConnectTimerId}
  BY DEF ClientInv, Attempt, NoAttempt
<1>3. calls' \in Stacks /\ calls' \in Seq(Remainders) /\ Head(calls') = "Disconnect"
      /\ calls' \notin {<<>>, <<"KeepRest">>, <<"Update">>}
  BY <1>1, StacksApart DEF Stacks, Remainders
<1> QED
  BY <1>1, <1>2, <1>3 DEF ClientInv, TypeOK, Attempt, NoAttempt, Watching, ToldOpen

LEMMA TimeoutKeepsInv ==
  ASSUME ClientInv, NEW id \in TimerIDs, OnAsyncConnectTimout(id)
  PROVE  ClientInv'
<1>1. /\ calls = <<>> /\ told' = "idle" /\ calls' = <<"Disconnect">>
      /\ id \in timers /\ timers' = timers \ {id} /\ m_AsyncConnectTimerId' = NoTimer
      /\ UNCHANGED <<Socket, registered, cached>>
  BY DEF OnAsyncConnectTimout
<1>2. timers \subseteq {m_AsyncConnectTimerId}
  BY DEF ClientInv, Attempt, NoAttempt
<1>3. timers' = {}
  BY <1>1, <1>2
<1>4. calls' \in Stacks /\ calls' \in Seq(Remainders) /\ Head(calls') = "Disconnect"
      /\ calls' \notin {<<>>, <<"KeepRest">>, <<"Update">>}
  BY <1>1, StacksApart DEF Stacks, Remainders
<1> QED
  BY <1>1, <1>3, <1>4 DEF ClientInv, TypeOK, Attempt, NoAttempt, Watching, ToldOpen

LEMMA WriteableKeepsInv == ClientInv /\ OnWriteable => ClientInv'
<1> SUFFICES ASSUME ClientInv, OnWriteable PROVE ClientInv'
  OBVIOUS
<1>1. /\ calls = <<>> /\ registered = "OUT"
      /\ timers' = timers \ {m_AsyncConnectTimerId} /\ m_AsyncConnectTimerId' = NoTimer
      /\ told' = "connected" /\ calls' = <<"Update">>
      /\ UNCHANGED <<Socket, registered, cached>>
  BY DEF OnWriteable
<1>2. told = "connecting"
  BY <1>1 DEF ClientInv, TypeOK, Watching
<1>3. timers' = {}
  BY <1>1, <1>2 DEF ClientInv, Attempt
<1>4. calls' \in Stacks /\ calls' \in Seq(Remainders) /\ Head(calls') = "Update"
      /\ calls' \notin {<<>>, <<"KeepRest">>, <<"Disconnect">>}
  BY <1>1, StacksApart DEF Stacks, Remainders
<1> QED
  BY <1>1, <1>2, <1>3, <1>4 DEF ClientInv, TypeOK, Attempt, NoAttempt, Watching, ToldOpen

LEMMA ReadableKeepsInv == ClientInv /\ OnReadable => ClientInv'
<1> SUFFICES ASSUME ClientInv, OnReadable PROVE ClientInv'
  OBVIOUS
<1>1. calls = <<>> /\ registered = "IN"
  BY DEF OnReadable
<1>2. told = "connected" /\ timers = {}
  BY <1>1 DEF ClientInv, TypeOK, Attempt, NoAttempt, Watching
<1>3. CASE /\ cached' = IF cached = "old" THEN "old" ELSE "this"
           /\ calls' = <<"KeepRest">>
           /\ UNCHANGED <<Socket, registered, m_AsyncConnectTimerId, timers, told>>
  <2>1. cached' = "this"
    BY <1>2, <1>3 DEF ClientInv, ToldOpen
  <2>2. calls' \in Stacks /\ calls' \in Seq(Remainders) /\ Head(calls') = "KeepRest"
        /\ calls' \notin {<<>>, <<"Update">>, <<"Disconnect">>}
    BY <1>3, StacksApart DEF Stacks, Remainders
  <2> QED
    BY <1>1, <1>2, <1>3, <2>1, <2>2
       DEF ClientInv, TypeOK, Attempt, NoAttempt, Watching, ToldOpen
<1>4. CASE DoDisconnect /\ UNCHANGED calls
  BY <1>4, DisconnectLeavesNothing DEF ClientInv
<1> QED
  BY <1>3, <1>4 DEF OnReadable

-----------------------------------------------------------------------------
(* The callbacks return. *)
LEMMA ReturnUpdateKeepsInv == ClientInv /\ ReturnAndUpdate => ClientInv'
<1> SUFFICES ASSUME ClientInv, ReturnAndUpdate PROVE ClientInv'
  OBVIOUS
<1>1. calls = <<"Update">> /\ calls' = <<>>
  BY StacksApart DEF ClientInv, ReturnAndUpdate, Remainders
<1>2. /\ registered' = Watched("no", "IN", Socket)
      /\ UNCHANGED <<Socket, m_AsyncConnectTimerId, timers, cached, told>>
  BY DEF ReturnAndUpdate
<1>3. Head(calls) = "Update" /\ calls # <<>>
  BY DEF ReturnAndUpdate
<1>4. told \in {"idle", "connected"} /\ timers = {}
  <2>1. told # "connecting"
    BY <1>3 DEF ClientInv, Attempt
  <2>2. calls # <<"Disconnect">>
    BY <1>3, StacksApart DEF ClientInv
  <2> QED
    BY <2>1, <2>2 DEF ClientInv, TypeOK, NoAttempt
<1>5. registered' = IF told = "connected" THEN "IN" ELSE "no"
  BY <1>2, <1>3, <1>4 DEF Watched, ClientInv, ToldOpen
<1>6. calls' \in Stacks /\ calls' \in Seq(Remainders)
  BY <1>1 DEF Stacks
<1> QED
  BY <1>1, <1>2, <1>4, <1>5, <1>6, StacksApart
     DEF ClientInv, TypeOK, Attempt, NoAttempt, Watching, ToldOpen, Remainders

LEMMA ReturnRegisterKeepsInv == ClientInv /\ ReturnAndRegister => ClientInv'
<1> SUFFICES ASSUME ClientInv, ReturnAndRegister PROVE ClientInv'
  OBVIOUS
<1>1. calls \in {<<"Register">>, <<"Register", "Disconnect">>} /\ calls' = Tail(calls)
  BY StacksApart DEF ClientInv, ReturnAndRegister
<1>2. /\ registered' = Watched(registered, "IN", Socket)
      /\ UNCHANGED <<Socket, m_AsyncConnectTimerId, timers, cached, told>>
  BY DEF ReturnAndRegister
<1>3. Head(calls) = "Register" /\ calls # <<>>
  BY DEF ReturnAndRegister
<1>4. told \in {"idle", "connected"} /\ timers = {} /\ registered = "no"
  <2>1. told # "connecting" /\ registered = "no"
    BY <1>3 DEF ClientInv, Attempt, Watching
  <2>2. calls # <<"Disconnect">>
    BY <1>3, StacksApart DEF ClientInv
  <2> QED
    BY <2>1, <2>2 DEF ClientInv, TypeOK, NoAttempt
<1>5. registered' = IF told = "connected" THEN "IN" ELSE "no"
  BY <1>2, <1>3, <1>4 DEF Watched, ClientInv, ToldOpen
<1>6. /\ calls' \in {<<>>, <<"Disconnect">>} /\ calls' \in Stacks /\ calls' \in Seq(Remainders)
      /\ calls' # <<>> => Head(calls') = "Disconnect"
      /\ calls' \notin {<<"KeepRest">>, <<"Update">>}
  BY <1>1, StacksApart DEF Stacks, Remainders
<1> QED
  BY <1>2, <1>4, <1>5, <1>6 DEF ClientInv, TypeOK, Attempt, NoAttempt, Watching, ToldOpen

LEMMA ReturnDisconnectKeepsInv == ClientInv /\ ReturnAndDisconnect => ClientInv'
<1> SUFFICES ASSUME ClientInv, ReturnAndDisconnect PROVE ClientInv'
  OBVIOUS
<1>1. calls' \in Stacks
  BY StacksApart DEF ClientInv, ReturnAndDisconnect
<1> QED
  BY <1>1, DisconnectLeavesNothing DEF ReturnAndDisconnect

LEMMA ReturnKeepRestKeepsInv == ClientInv /\ ReturnAndKeepRest => ClientInv'
<1> SUFFICES ASSUME ClientInv, ReturnAndKeepRest PROVE ClientInv'
  OBVIOUS
<1>1. calls = <<"KeepRest">> /\ calls' = <<>>
  BY StacksApart DEF ClientInv, ReturnAndKeepRest, Remainders
<1>2. /\ cached' \in {"nothing", IF Socket.mode = "none" THEN "old" ELSE cached}
      /\ UNCHANGED <<Socket, registered, m_AsyncConnectTimerId, timers, told>>
  BY DEF ReturnAndKeepRest
<1>3. Head(calls) = "KeepRest" /\ calls # <<>>
  BY DEF ReturnAndKeepRest
<1>4. told \in {"idle", "connected"} /\ timers = {}
  <2>1. told # "connecting"
    BY <1>3 DEF ClientInv, Attempt
  <2>2. calls # <<"Disconnect">>
    BY <1>3, StacksApart DEF ClientInv
  <2> QED
    BY <2>1, <2>2 DEF ClientInv, TypeOK, NoAttempt
<1>5. registered = IF told = "connected" THEN "IN" ELSE "no"
  BY <1>1 DEF ClientInv, Watching
<1>6. told = "connected" => Socket.mode # "none" /\ cached' # "old"
  BY <1>2 DEF ClientInv, ToldOpen
<1>7. cached' \in {"nothing", "this", "old"}
  BY <1>2 DEF ClientInv, TypeOK
<1>8. calls' \in Stacks /\ calls' \in Seq(Remainders) /\ calls' \notin {<<"KeepRest">>, <<"Update">>}
  BY <1>1, StacksApart DEF Stacks, Remainders
<1> QED
  BY <1>1, <1>2, <1>4, <1>5, <1>6, <1>7, <1>8
     DEF ClientInv, TypeOK, Attempt, NoAttempt, Watching, ToldOpen

-----------------------------------------------------------------------------
(* The invariant of the client: every step keeps it. *)
THEOREM ClientSound == Spec => []ClientInv
<1>1. Init => ClientInv
  BY InitInv
<1>2. ClientInv /\ [Next]_vars => ClientInv'
  <2> SUFFICES ASSUME ClientInv, [Next]_vars PROVE ClientInv'
    OBVIOUS
  <2>1. CASE Connect
    BY <2>1, ConnectKeepsInv
  <2>2. CASE ConnectWithTimeout
    BY <2>2, ConnectWithTimeoutKeepsInv
  <2>3. CASE Disconnect
    BY <2>3, DisconnectsKeepInv
  <2>4. CASE Reconnect
    BY <2>4, ReconnectKeepsInv
  <2>5. CASE NetworkMoves
    BY <2>5, KernelKeepsInv
  <2>6. CASE Ends
    BY <2>6, FailuresKeepInv, WriteableKeepsInv, DisconnectsKeepInv, KernelKeepsInv DEF Ends
  <2>7. CASE OnReadable
    BY <2>7, ReadableKeepsInv
  <2>8. CASE \E id \in TimerIDs : OnAsyncConnectTimout(id)
    BY <2>8, TimeoutKeepsInv
  <2>9. CASE Returns
    BY <2>9, ReturnUpdateKeepsInv, ReturnRegisterKeepsInv, ReturnDisconnectKeepsInv,
       ReturnKeepRestKeepsInv DEF Returns
  <2>10. CASE UNCHANGED vars
    BY <2>10 DEF vars, ClientInv, TypeOK, Attempt, NoAttempt, Watching, ToldOpen
  <2> QED
    BY <2>1, <2>2, <2>3, <2>4, <2>5, <2>6, <2>7, <2>8, <2>9, <2>10 DEF Next
<1> QED
  BY <1>1, <1>2, PTL DEF Spec

(* The client keeps its types. *)
THEOREM ClientTypeCorrect == Spec => []TypeOK
<1>1. ClientInv => TypeOK
  BY DEF ClientInv
<1> QED
  BY <1>1, ClientSound, PTL

(* In the loop, the pending timer is that of the attempt under way.        *)
THEOREM ClientTimerIsTheAttempts == Spec => []TimerIsTheAttempts
<1>1. ClientInv => TimerIsTheAttempts
  <2>1. <<"Disconnect">> # <<>>
    OBVIOUS
  <2> QED
    BY <2>1 DEF ClientInv, Attempt, NoAttempt, TimerIsTheAttempts
<1> QED
  BY <1>1, ClientSound, PTL

(* In the loop, the scheduler watches for what the program waits for.      *)
THEOREM ClientIsWatched == Spec => []WatchedForWhatIsDue
<1>1. ClientInv => WatchedForWhatIsDue
  BY DEF ClientInv, TypeOK, Attempt, Watching, WatchedForWhatIsDue
<1> QED
  BY <1>1, ClientSound, PTL

(* OnMessage is never given bytes of an earlier connection.                *)
THEOREM ClientCacheIsItsOwn == Spec => []CacheIsThisConnections
<1>1. ClientInv => CacheIsThisConnections
  BY DEF ClientInv, ToldOpen, CacheIsThisConnections
<1> QED
  BY <1>1, ClientSound, PTL
=============================================================================

------------------------------ MODULE TcpClient ------------------------------
(***************************************************************************)
(* The client of include/TcpClient.hpp in a process whose pool has         *)
(* started: its socket, the timer that limits an asynchronous Connect, its *)
(* registration with the scheduler and its cache.  The timer is what       *)
(* TimerService promises, the network moves between any two steps.         *)
(*                                                                         *)
(* A handler that calls the program is cut there: calls is the stack of    *)
(* callbacks that run, each named for what the code does when it returns.  *)
(* ProgramCalls says what the program calls, and from where.               *)
(***************************************************************************)
EXTENDS Integers, Sequences

CONSTANTS
    TimerIDs,       \* identifiers the Timer gives out
    NoTimer,        \* 0 in the code
    ProgramCalls    \* <<place, method>>: the calls the program may make

(* Where the program runs: in the loop, or in a callback of this client. *)
Remainders == {"Update", "Register", "Disconnect", "KeepRest"}
Places == Remainders \cup {"loop"}
Methods == {"Connect", "ConnectWithTimeout", "Disconnect", "Reconnect"}

(* Calls that do what the program means: from the loop any of them; from   *)
(* OnConnected and OnMessage, Disconnect; from OnError and OnConnectTimout *)
(* also Reconnect, although the connection is closed right afterwards.     *)
CallsThatWork ==
    ({"loop"} \X Methods)
    \cup ({"Update", "Register", "KeepRest"} \X {"Disconnect"})
    \cup ({"Disconnect"} \X {"Disconnect", "Reconnect"})

ASSUME ClientAssumption ==
    /\ NoTimer \notin TimerIDs
    /\ ProgramCalls \subseteq CallsThatWork

VARIABLES
    Socket,                 \* its mode, and what the kernel knows of it
    registered,             \* the event epoll watches it for
    m_AsyncConnectTimerId,
    timers,                 \* the pending timers bound to this client
    cached,                 \* whose bytes cPackageCache holds
    told,                   \* what the program was told last
    calls                   \* the callbacks that run, innermost first

vars == <<Socket, registered, m_AsyncConnectTimerId, timers, cached, told, calls>>

Sockets == [mode : {"none", "blocking", "nonblocking"},
            call : {"unconnected", "connecting", "connected"},
            tcp : {"closed", "syn", "up", "ended", "error"}]

TypeOK ==
    /\ Socket \in Sockets
    /\ registered \in {"no", "OUT", "IN"}
    /\ m_AsyncConnectTimerId \in TimerIDs \cup {NoTimer}
    /\ timers \subseteq TimerIDs
    /\ cached \in {"nothing", "this", "old"}
    /\ told \in {"idle", "connecting", "connected"}
    /\ calls \in Seq(Remainders)

NoSocket == [mode |-> "none", call |-> "unconnected", tcp |-> "closed"]

Init ==
    /\ Socket = NoSocket
    /\ registered = "no"
    /\ m_AsyncConnectTimerId = NoTimer
    /\ timers = {}
    /\ cached = "nothing"
    /\ told = "idle"
    /\ calls = <<>>

-----------------------------------------------------------------------------
(* The kernel. *)

(* connect() on a socket s, what it returns and the socket afterwards.  A  *)
(* call that is under way goes on, one that succeeded meanwhile is told    *)
(* once, and one that failed leaves a socket that may be connected again.  *)
Results == {"ok", "EINPROGRESS", "fails"}
ConnectCall(s, ret) ==
    \/ /\ s.call = "unconnected"
       /\ \/ ret = "ok" /\ Socket' = [s EXCEPT !.call = "connected", !.tcp = "up"]
          \/ ret = "fails" /\ Socket' = s
          \/ /\ ret = "EINPROGRESS" /\ s.mode = "nonblocking"
             /\ Socket' = [s EXCEPT !.call = "connecting", !.tcp = "syn"]
    \/ /\ s.call = "connecting"
       /\ \/ ret = "ok" /\ s.tcp \in {"up", "ended"} /\ Socket' = [s EXCEPT !.call = "connected"]
          \/ ret = "fails" /\ s.tcp = "error" /\ Socket' = [NoSocket EXCEPT !.mode = s.mode]
          \/ ret = "fails" /\ s.tcp = "syn" /\ Socket' = s
    \/ s.call = "connected" /\ ret = "fails" /\ Socket' = s

NetworkMoves ==
    /\ \/ Socket.tcp = "syn" /\ \E t \in {"up", "error"} : Socket' = [Socket EXCEPT !.tcp = t]
       \/ Socket.tcp = "up" /\ \E t \in {"ended", "error"} : Socket' = [Socket EXCEPT !.tcp = t]
    /\ UNCHANGED <<registered, m_AsyncConnectTimerId, timers, cached, told, calls>>

(* EPOLL_CTL_ADD of a descriptor that is there already fails, any call of  *)
(* a closed one does.                                                      *)
Watched(now, events, s) == IF s.mode = "none" THEN "no" ELSE IF now = "no" THEN events ELSE now

-----------------------------------------------------------------------------
(* The program's calls. *)
Allowed(method) ==
    <<IF calls = <<>> THEN "loop" ELSE Head(calls), method>> \in ProgramCalls

(* The socket a Connect uses: the one there is, whatever its mode.         *)
Opened(mode) == IF Socket.mode = "none" THEN [Socket EXCEPT !.mode = mode] ELSE Socket

(* What is left of Connect after connect(), up to OnConnected. *)
ConnectReturns(ret) ==
    IF ret = "ok"
    THEN cached' = "nothing" /\ told' = "connected" /\ calls' = <<"Register">> \o calls
    ELSE UNCHANGED <<cached, told, calls>>

(* Connect(addr).  On a socket that a Connect with a timeout left behind   *)
(* connect() does not wait, and EINPROGRESS is a failure.                  *)
Connect ==
    /\ Allowed("Connect") /\ told = "idle"
    /\ \E ret \in Results : ConnectCall(Opened("blocking"), ret) /\ ConnectReturns(ret)
    /\ UNCHANGED <<registered, m_AsyncConnectTimerId, timers>>

(* A bug: the bytes of the last connection stay in the cache. *)
ConnectWithTimeoutKeepsCache ==
    /\ Allowed("ConnectWithTimeout") /\ told = "idle"
    /\ \E ret \in Results :
        /\ ConnectCall(Opened("nonblocking"), ret)
        /\ IF ret = "fails"
           THEN UNCHANGED <<registered, m_AsyncConnectTimerId, timers, told>>
           ELSE /\ \E id \in TimerIDs \ timers :
                       m_AsyncConnectTimerId' = id /\ timers' = timers \cup {id}
                /\ registered' = Watched(registered, "OUT", Opened("nonblocking"))
                /\ told' = "connecting"
    /\ UNCHANGED <<cached, calls>>

(* The identifiers SetTimeout may return.                                  *)
FreshTimerIDs == TimerIDs \ timers

(* Connect(addr, timeout): what follows is an event or the timer.          *)
ConnectWithTimeout ==
    /\ Allowed("ConnectWithTimeout") /\ told = "idle"
    /\ \E ret \in Results :
        /\ ConnectCall(Opened("nonblocking"), ret)
        /\ IF ret = "fails"
           THEN UNCHANGED <<registered, m_AsyncConnectTimerId, timers, cached, told>>
           ELSE /\ \E id \in FreshTimerIDs :
                       m_AsyncConnectTimerId' = id /\ timers' = timers \cup {id}
                /\ registered' = Watched(registered, "OUT", Opened("nonblocking"))
                /\ cached' = "nothing"
                /\ told' = "connecting"
    /\ UNCHANGED calls

(* A bug: the timer of the attempt that is given up goes on.               *)
ClosedKeepsTimer ==
    /\ m_AsyncConnectTimerId' = NoTimer
    /\ registered' = "no"
    /\ UNCHANGED timers

(* What Disconnect does but for the socket and the cache.                  *)
Closed ==
    /\ timers' = timers \ {m_AsyncConnectTimerId}
    /\ m_AsyncConnectTimerId' = NoTimer
    /\ registered' = "no"
Stale == IF cached = "nothing" THEN "nothing" ELSE "old"

(* Disconnect, with OnDisconnected in it: the timer goes before, the       *)
(* registration and the socket after it.                                   *)
DoDisconnect ==
    /\ Closed
    /\ Socket' = NoSocket
    /\ cached' = Stale
    /\ told' = "idle"

Disconnect ==
    /\ Allowed("Disconnect")
    /\ DoDisconnect
    /\ UNCHANGED calls

(* Reconnect: Disconnect and Connect with no event between them.           *)
Reconnect ==
    /\ Allowed("Reconnect")
    /\ Closed
    /\ \E ret \in Results :
        /\ ConnectCall([NoSocket EXCEPT !.mode = "blocking"], ret)
        /\ IF ret = "ok"
           THEN cached' = "nothing" /\ told' = "connected" /\ calls' = <<"Register">> \o calls
           ELSE cached' = Stale /\ told' = "idle" /\ UNCHANGED calls

-----------------------------------------------------------------------------
(* The events the scheduler dispatches, errors first, and the timer: up to *)
(* the callback.                                                           *)

(* OnError, then Disconnect. *)
OnErrorable ==
    /\ calls = <<>> /\ registered # "no" /\ Socket.tcp = "error"
    /\ told' = "idle"
    /\ calls' = <<"Disconnect">>
    /\ UNCHANGED <<Socket, registered, m_AsyncConnectTimerId, timers, cached>>

(* OnConnectTimout, then Disconnect: when the connection has failed, or    *)
(* when getsockopt fails or leaves errinfo as it was, because errlen, the  *)
(* room it is told it has, is not initialised.                             *)
OnWriteableFails ==
    /\ calls = <<>> /\ registered = "OUT" /\ Socket.tcp \in {"up", "ended", "error"}
    /\ told' = "idle"
    /\ calls' = <<"Disconnect">>
    /\ UNCHANGED <<Socket, registered, m_AsyncConnectTimerId, timers, cached>>

(* OnConnected, then Update. *)
OnWriteable ==
    /\ calls = <<>> /\ registered = "OUT" /\ Socket.tcp \in {"up", "ended"}
    /\ timers' = timers \ {m_AsyncConnectTimerId}
    /\ m_AsyncConnectTimerId' = NoTimer
    /\ told' = "connected"
    /\ calls' = <<"Update">>
    /\ UNCHANGED <<Socket, registered, cached>>

(* Bytes arrive: OnMessage, or Disconnect and an exception if the cache is *)
(* full.                                                                   *)
OnReadable ==
    /\ calls = <<>> /\ registered = "IN" /\ Socket.tcp = "up"
    /\ \/ /\ cached' = IF cached = "old" THEN "old" ELSE "this"
          /\ calls' = <<"KeepRest">>
          /\ UNCHANGED <<Socket, registered, m_AsyncConnectTimerId, timers, told>>
       \/ /\ cached # "nothing"
          /\ DoDisconnect
          /\ UNCHANGED calls

(* A bug: an end of the stream is taken for an empty message. *)
OnEndIgnored ==
    /\ calls = <<>> /\ registered = "IN" /\ Socket.tcp = "ended"
    /\ calls' = <<"KeepRest">>
    /\ UNCHANGED <<Socket, registered, m_AsyncConnectTimerId, timers, cached, told>>

(* OnReadable at the end of the stream. *)
OnEnd ==
    /\ calls = <<>> /\ registered = "IN" /\ Socket.tcp = "ended"
    /\ DoDisconnect
    /\ UNCHANGED calls

(* OnReadable when the connection is reset after the event was reported:   *)
(* recvmsg takes the error, and operator >> throws.                        *)
RecvFails ==
    /\ calls = <<>> /\ registered = "IN" /\ Socket.tcp = "error"
    /\ Socket' = [Socket EXCEPT !.tcp = "ended"]
    /\ UNCHANGED <<registered, m_AsyncConnectTimerId, timers, cached, told, calls>>

(* The Timer rings: OnConnectTimout, then Disconnect. *)
OnAsyncConnectTimout(id) ==
    /\ calls = <<>> /\ id \in timers
    /\ timers' = timers \ {id}
    /\ m_AsyncConnectTimerId' = NoTimer
    /\ told' = "idle"
    /\ calls' = <<"Disconnect">>
    /\ UNCHANGED <<Socket, registered, cached>>

-----------------------------------------------------------------------------
(* A callback returns, and its handler goes on. *)

(* A bug: the socket is still watched for OUT after it has connected. *)
ReturnWithoutUpdate ==
    /\ calls # <<>> /\ Head(calls) = "Update"
    /\ calls' = Tail(calls)
    /\ UNCHANGED <<Socket, registered, m_AsyncConnectTimerId, timers, cached, told>>

(* OnConnected returns to OnWriteable: EPOLL_CTL_MOD, or ADD if there is   *)
(* nothing to change.                                                      *)
ReturnAndUpdate ==
    /\ calls # <<>> /\ Head(calls) = "Update"
    /\ registered' = Watched("no", "IN", Socket)
    /\ calls' = Tail(calls)
    /\ UNCHANGED <<Socket, m_AsyncConnectTimerId, timers, cached, told>>

(* OnConnected returns to Connect. *)
ReturnAndRegister ==
    /\ calls # <<>> /\ Head(calls) = "Register"
    /\ registered' = Watched(registered, "IN", Socket)
    /\ calls' = Tail(calls)
    /\ UNCHANGED <<Socket, m_AsyncConnectTimerId, timers, cached, told>>

(* OnError or OnConnectTimout returns. *)
ReturnAndDisconnect ==
    /\ calls # <<>> /\ Head(calls) = "Disconnect"
    /\ DoDisconnect
    /\ calls' = Tail(calls)

(* OnMessage returns to OnReadable, which keeps what was not read of the   *)
(* buffer, whether or not the connection is still the same.                *)
ReturnAndKeepRest ==
    /\ calls # <<>> /\ Head(calls) = "KeepRest"
    /\ cached' \in {"nothing", IF Socket.mode = "none" THEN "old" ELSE cached}
    /\ calls' = Tail(calls)
    /\ UNCHANGED <<Socket, registered, m_AsyncConnectTimerId, timers, told>>

Returns == ReturnAndUpdate \/ ReturnAndRegister \/ ReturnAndDisconnect \/ ReturnAndKeepRest
Ends == OnErrorable \/ OnWriteableFails \/ OnWriteable \/ OnEnd \/ RecvFails

Next ==
    \/ Connect \/ ConnectWithTimeout \/ Disconnect \/ Reconnect
    \/ NetworkMoves
    \/ Ends
    \/ OnReadable
    \/ \E id \in TimerIDs : OnAsyncConnectTimout(id)
    \/ Returns

Spec == Init /\ [][Next]_vars

(* Ready events are dispatched, timers ring (EveryTimerRings of Timer.tla) *)
(* and callbacks return, whatever they call; the network owes nothing.     *)
FairSpec ==
    /\ Spec
    /\ WF_vars(Ends)
    /\ \A id \in TimerIDs : WF_vars(OnAsyncConnectTimout(id))
    /\ \A depth \in 1..2 : SF_vars(Returns /\ Len(calls) = depth)

-----------------------------------------------------------------------------
(* Properties. *)

(* In the loop, the one pending timer is the one the client remembers, and *)
(* there is one exactly while an attempt is under way: none is left to     *)
(* disconnect a client that has connected since, or one that was deleted.  *)
TimerIsTheAttempts ==
    calls = <<>> => timers = IF told = "connecting" THEN {m_AsyncConnectTimerId} ELSE {}

(* In the loop, the scheduler watches for what the program waits for, and  *)
(* for nothing that would call a client that is closed.                    *)
WatchedForWhatIsDue ==
    calls = <<>> => registered = CASE told = "connecting" -> "OUT"
                                   [] told = "connected"  -> "IN"
                                   [] told = "idle"       -> "no"

(* OnMessage is never given bytes of an earlier connection.                *)
CacheIsThisConnections == told = "connected" => cached # "old"

(* An attempt is over at some time, whatever the network does, and the end *)
(* of a connection reaches the program.                                    *)
HasEnded == told = "connected" /\ Socket.tcp \in {"ended", "error"}
ProgramIsTold ==
    /\ told = "connecting" ~> told # "connecting"
    /\ HasEnded ~> ~HasEnded
=============================================================================

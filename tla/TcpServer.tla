------------------------------ MODULE TcpServer ------------------------------
(***************************************************************************)
(* The TCP server of include/TcpServer.hpp under the event loop of         *)
(* include/EventScheduler.hpp, in the processes that Pool.cc forks: they   *)
(* share the listening socket, which was bound before the fork, and each   *)
(* has its own epoll descriptor and its own connections.                   *)
(*                                                                         *)
(* A worker's turn is: epoll_wait returns one event or times out; one      *)
(* handler runs; the loop callbacks run, unless the handler threw.  Other  *)
(* processes and the peers run between these.  The bytes a client sends    *)
(* are numbered 1, 2, ... so that a cache is what is in it.                *)
(***************************************************************************)
EXTENDS Integers

CONSTANTS
    Workers,        \* the processes of the pool
    Clients,        \* one connection each
    CacheSize,      \* bytes of cPackageCache
    Senders,        \* the clients that send anything
    MaxBytes,       \* bound on the bytes each of them sends
    Throwing,       \* whether the program's handlers throw
    Faults          \* whether accept and epoll_ctl fail, and peers reset

ASSUME ServerAssumption ==
    /\ CacheSize \in Nat \ {0}
    /\ Senders \subseteq Clients
    /\ MaxBytes \in Nat
    /\ Throwing \in BOOLEAN
    /\ Faults \in BOOLEAN

Nobody == "nobody"
Listener == "listener"
ASSUME NamesAssumption == Nobody \notin Workers /\ Listener \notin Clients

VARIABLES
    stage,          \* of each connection: away, queued, open, closed
    owner,          \* the process that accepted it
    sent,           \* bytes the client has sent
    received,       \* bytes recvmsg has returned
    consumed,       \* bytes OnMessage has taken off the cache
    ended,          \* what ended its stream: "no", "fin", "reset", "read"
    dwCacheAvailableSize,
    cPackageCache,
    pc,             \* where each worker is in Dispatch
    event           \* the interface epoll_wait returned to it

peerVars == <<sent, ended>>
connVars == <<stage, owner, received, consumed, dwCacheAvailableSize, cPackageCache>>
vars == <<stage, owner, sent, received, consumed, ended, dwCacheAvailableSize,
          cPackageCache, pc, event>>

Positions == 1..CacheSize
Smaller(a, b) == IF a < b THEN a ELSE b

TypeOK ==
    /\ stage \in [Clients -> {"away", "queued", "open", "closed"}]
    /\ owner \in [Clients -> Workers \cup {Nobody}]
    /\ sent \in [Clients -> 0..MaxBytes]
    /\ received \in [Clients -> 0..MaxBytes]
    /\ consumed \in [Clients -> 0..MaxBytes]
    /\ ended \in [Clients -> {"no", "fin", "reset", "read"}]
    /\ dwCacheAvailableSize \in [Clients -> 0..CacheSize]
    /\ cPackageCache \in [Clients -> [Positions -> 0..MaxBytes]]
    /\ pc \in [Workers -> {"wait", "accept", "readable", "error", "callbacks"}]
    /\ event \in [Workers -> Clients \cup {Listener, Nobody}]

(* Listen, then fork: every worker registers the one listening socket.     *)
Init ==
    /\ stage = [c \in Clients |-> "away"]
    /\ owner = [c \in Clients |-> Nobody]
    /\ sent = [c \in Clients |-> 0]
    /\ received = [c \in Clients |-> 0]
    /\ consumed = [c \in Clients |-> 0]
    /\ ended = [c \in Clients |-> "no"]
    /\ dwCacheAvailableSize = [c \in Clients |-> 0]
    /\ cPackageCache = [c \in Clients |-> [i \in Positions |-> 0]]
    /\ pc = [w \in Workers |-> "wait"]
    /\ event = [w \in Workers |-> Nobody]

-----------------------------------------------------------------------------
(* The peers, and the kernel's side of their connections. *)

Connect(c) ==
    /\ stage[c] = "away"
    /\ stage' = [stage EXCEPT ![c] = "queued"]
    /\ UNCHANGED <<owner, received, consumed, dwCacheAvailableSize, cPackageCache,
                   peerVars, pc, event>>

Send(c) ==
    /\ c \in Senders
    /\ stage[c] \in {"queued", "open"} /\ ended[c] = "no"
    /\ sent[c] < MaxBytes
    /\ sent' = [sent EXCEPT ![c] = @ + 1]
    /\ UNCHANGED <<connVars, ended, pc, event>>

(* The client closes its end, or resets the connection: what the kernel    *)
(* holds of its stream can still be read.                                  *)
End(c, how) ==
    /\ stage[c] \in {"queued", "open"} /\ ended[c] \in {"no", "fin"}
    /\ ended[c] # how
    /\ ended' = [ended EXCEPT ![c] = how]
    /\ UNCHANGED <<connVars, sent, pc, event>>

Backlog == {c \in Clients : stage[c] = "queued"}
(* A bug: the epoll descriptor is created before the fork, so it is shared. *)
Anybodys(w) == {c \in Clients : stage[c] = "open"}
Mine(w) == {c \in Clients : stage[c] = "open" /\ owner[c] = w}
Erring(w) == {c \in Mine(w) : ended[c] = "reset"}
Readable(w) == {c \in Mine(w) : sent[c] > received[c] \/ ended[c] \in {"fin", "read"}}

-----------------------------------------------------------------------------
(* Dispatch. *)

(* A bug: the listening socket is not registered. *)
WaitWithoutListener(w, e) ==
    /\ pc[w] = "wait"
    /\ event' = [event EXCEPT ![w] = e]
    /\ \/ /\ e \in Erring(w)
          /\ pc' = [pc EXCEPT ![w] = "error"]
       \/ /\ e \in Readable(w) \ Erring(w)
          /\ pc' = [pc EXCEPT ![w] = "readable"]
    /\ UNCHANGED <<connVars, peerVars>>

(* epoll_wait returns one interface that is ready; an error goes first.    *)
WaitEvent(w, e) ==
    /\ pc[w] = "wait"
    /\ event' = [event EXCEPT ![w] = e]
    /\ \/ /\ e = Listener /\ Backlog # {}
          /\ pc' = [pc EXCEPT ![w] = "accept"]
       \/ /\ e \in Erring(w)
          /\ pc' = [pc EXCEPT ![w] = "error"]
       \/ /\ e \in Readable(w) \ Erring(w)
          /\ pc' = [pc EXCEPT ![w] = "readable"]
    /\ UNCHANGED <<connVars, peerVars>>

(* A bug: the loop callbacks run after events only. *)
TimeoutSkipsCallbacks(w) ==
    /\ pc[w] = "wait"
    /\ Backlog \cup Erring(w) \cup Readable(w) = {}
    /\ UNCHANGED vars

(* It times out after m_IdleTimeout, and the idle callbacks run.           *)
WaitTimesOut(w) ==
    /\ pc[w] = "wait"
    /\ Backlog \cup Erring(w) \cup Readable(w) = {}
    /\ pc' = [pc EXCEPT ![w] = "callbacks"]
    /\ UNCHANGED <<connVars, peerVars, event>>

LoopCallbacks(w) ==
    /\ pc[w] = "callbacks"
    /\ pc' = [pc EXCEPT ![w] = "wait"]
    /\ UNCHANGED <<connVars, peerVars, event>>

(* A handler returns to the loop callbacks; one that throws skips them.    *)
HandlerReturns(w) ==
    pc' = [pc EXCEPT ![w] = "callbacks"] /\ event' = [event EXCEPT ![w] = Nobody]
HandlerThrows(w) ==
    pc' = [pc EXCEPT ![w] = "wait"] /\ event' = [event EXCEPT ![w] = Nobody]
HandlerEnds(w) == HandlerReturns(w) \/ (Throwing /\ HandlerThrows(w))

-----------------------------------------------------------------------------
(* OnAcceptable.  The listening socket is a blocking one: accept4 returns  *)
(* when there is a connection to take, perhaps long after epoll_wait said  *)
(* there was one.                                                          *)
Accept(w) ==
    /\ pc[w] = "accept"
    /\ \E c \in Backlog :
        /\ owner' = [owner EXCEPT ![c] = w]
        /\ \/ /\ stage' = [stage EXCEPT ![c] = "open"]
              /\ HandlerEnds(w)
           \/ /\ Faults             \* Register fails
              /\ stage' = [stage EXCEPT ![c] = "closed"]
              /\ HandlerThrows(w)
    /\ UNCHANGED <<received, consumed, dwCacheAvailableSize, cPackageCache, peerVars>>

(* accept4 fails for want of descriptors. *)
AcceptFails(w) ==
    /\ Faults
    /\ pc[w] = "accept"
    /\ Backlog # {}
    /\ HandlerThrows(w)
    /\ UNCHANGED <<connVars, peerVars>>

(* DisconnectClient calls OnDisconnected first: if that throws, the        *)
(* connection stays as it is.                                              *)
DisconnectClient(c) == stage' = [stage EXCEPT ![c] = "closed"]
DisconnectThrows(w) == Throwing /\ HandlerThrows(w) /\ UNCHANGED stage

(* The program closes a connection of its own from a loop callback, a      *)
(* timer's.                                                                *)
ProgramDisconnects(w) ==
    /\ pc[w] = "callbacks"
    /\ \E c \in Mine(w) : DisconnectClient(c)
    /\ UNCHANGED <<owner, received, consumed, dwCacheAvailableSize, cPackageCache,
                   peerVars, pc, event>>

OnErrorable(w) ==
    LET c == event[w]
    IN  /\ pc[w] = "error"
        /\ \/ DisconnectClient(c) /\ HandlerReturns(w)
           \/ DisconnectThrows(w)
        /\ UNCHANGED <<owner, received, consumed, dwCacheAvailableSize, cPackageCache,
                       peerVars>>

-----------------------------------------------------------------------------
(* OnReadable. *)

RemainSize(c) == CacheSize - dwCacheAvailableSize[c]

(* A bug: a connection whose cache is full is kept. *)
FullIsIgnored(w) ==
    /\ pc[w] = "readable"
    /\ RemainSize(event[w]) <= 0
    /\ HandlerReturns(w)
    /\ UNCHANGED <<connVars, peerVars>>

CacheIsFull(w) ==
    LET c == event[w]
    IN  /\ pc[w] = "readable"
        /\ RemainSize(c) <= 0
        /\ \/ DisconnectClient(c) /\ HandlerThrows(w)
           \/ DisconnectThrows(w)
        /\ UNCHANGED <<owner, received, consumed, dwCacheAvailableSize, cPackageCache,
                       peerVars>>

(* recvmsg fails: Channel >> throws, the connection stays registered, and  *)
(* the kernel has reported its error.                                      *)
RecvFails(w) ==
    LET c == event[w]
    IN  /\ pc[w] = "readable" /\ RemainSize(c) > 0
        /\ sent[c] = received[c] /\ ended[c] = "reset"
        /\ ended' = [ended EXCEPT ![c] = "read"]
        /\ HandlerThrows(w)
        /\ UNCHANGED <<connVars, sent>>

(* A bug: the end of the stream is taken for an empty message. *)
EndIsIgnored(w) ==
    LET c == event[w]
    IN  /\ pc[w] = "readable" /\ RemainSize(c) > 0
        /\ sent[c] = received[c] /\ ended[c] \in {"fin", "read"}
        /\ HandlerReturns(w)
        /\ UNCHANGED <<connVars, peerVars>>

RecvEnd(w) ==
    LET c == event[w]
    IN  /\ pc[w] = "readable" /\ RemainSize(c) > 0
        /\ sent[c] = received[c] /\ ended[c] \in {"fin", "read"}
        /\ \/ DisconnectClient(c) /\ HandlerReturns(w)
           \/ DisconnectThrows(w)
        /\ UNCHANGED <<owner, received, consumed, dwCacheAvailableSize, cPackageCache,
                       peerVars>>

(* A bug: what is left stays where it is. *)
NotMoved(cache, n, size) == cache

(* memmove of what is left after the first n of size bytes.                *)
Moved(cache, n, size) ==
    [i \in Positions |-> IF i <= size - n THEN cache[i + n] ELSE cache[i]]

(* OnMessage is given all that is in the cache and reads a prefix of it.   *)
(* If it throws, the cache keeps also what it had read.                    *)
Recv(w) ==
    LET c == event[w]
        size == dwCacheAvailableSize[c]
    IN  /\ pc[w] = "readable"
        /\ \E n \in 1..Smaller(RemainSize(c), sent[c] - received[c]) :
            LET filled == [i \in Positions |->
                              IF i \in (size + 1)..(size + n) THEN received[c] + i - size
                              ELSE cPackageCache[c][i]]
            IN  /\ received' = [received EXCEPT ![c] = @ + n]
                /\ \/ \E read \in 0..(size + n) :
                        /\ consumed' = [consumed EXCEPT ![c] = @ + read]
                        /\ dwCacheAvailableSize' =
                              [dwCacheAvailableSize EXCEPT ![c] = size + n - read]
                        /\ cPackageCache' =
                              [cPackageCache EXCEPT ![c] = Moved(filled, read, size + n)]
                        /\ HandlerReturns(w)
                   \/ /\ Throwing
                      /\ dwCacheAvailableSize' = [dwCacheAvailableSize EXCEPT ![c] = size + n]
                      /\ cPackageCache' = [cPackageCache EXCEPT ![c] = filled]
                      /\ HandlerThrows(w)
                      /\ UNCHANGED consumed
        /\ UNCHANGED <<stage, owner, peerVars>>

Turn(w) ==
    \/ \E e \in Clients \cup {Listener} : WaitEvent(w, e)
    \/ WaitTimesOut(w)
    \/ Accept(w)
    \/ AcceptFails(w)
    \/ OnErrorable(w)
    \/ CacheIsFull(w)
    \/ RecvFails(w)
    \/ RecvEnd(w)
    \/ Recv(w)
    \/ LoopCallbacks(w)

Ends == IF Faults THEN {"fin", "reset"} ELSE {"fin"}

Next ==
    \/ \E w \in Workers : Turn(w) \/ ProgramDisconnects(w)
    \/ \E c \in Clients : Connect(c) \/ Send(c) \/ \E how \in Ends : End(c, how)

Spec == Init /\ [][Next]_vars

(* Processes run on, and epoll_wait reports the ready descriptors in turn: *)
(* none that is ready again and again is passed over for ever.             *)
FairSpec ==
    /\ Spec
    /\ \A w \in Workers :
        /\ WF_vars(Turn(w))
        /\ \A e \in Clients \cup {Listener} : SF_vars(WaitEvent(w, e))

-----------------------------------------------------------------------------
(* Properties. *)

(* What OnMessage is given is the client's stream from the first byte it   *)
(* has not taken yet, with nothing missing, repeated or out of order,      *)
(* wherever recvmsg cut it and whenever OnMessage threw.                   *)
CacheIsTheStream ==
    \A c \in Clients :
        /\ consumed[c] + dwCacheAvailableSize[c] = received[c]
        /\ \A i \in 1..dwCacheAvailableSize[c] : cPackageCache[c][i] = consumed[c] + i

(* A handler runs for a connection that is open and its own: no event is   *)
(* left over from a connection that was closed, or taken by another.       *)
EventsAreLive ==
    \A w \in Workers : pc[w] \in {"readable", "error"} => event[w] \in Mine(w)

(* A worker sleeps in accept4: another took the connection it was woken    *)
(* for.  Nothing of its own runs until the next client connects.           *)
Asleep(w) == pc[w] = "accept" /\ Backlog = {}
OwnerSleepsOn(c) == <>[](owner[c] \in Workers /\ Asleep(owner[c]))

(* What may fail again and again: accept4, and the program's OnDisconnected *)
(* of a connection, which keeps it open.                                   *)
KeepsOpen(c) == \E w \in Workers : event[w] = c /\ DisconnectThrows(w)
AcceptKeepsFailing(w) == []<><<AcceptFails(w)>>_vars
DisconnectKeepsThrowing(c) == []<><<KeepsOpen(c)>>_vars

(* Every client that connects is accepted by a worker, or accept4 fails    *)
(* again and again.                                                        *)
EveryClientIsAccepted ==
    \/ \A c \in Clients : stage[c] = "queued" ~> stage[c] # "queued"
    \/ \E w \in Workers : AcceptKeepsFailing(w)

(* Every byte sent to an open connection is received or the connection is  *)
(* closed, also when its cache is full, whatever else fails or throws;     *)
(* unless its OnDisconnected keeps throwing or its worker sleeps on.       *)
EveryByteIsReceived ==
    \A c \in Clients :
        \/ \A n \in 1..MaxBytes :
              (stage[c] = "open" /\ sent[c] >= n)
                 ~> (received[c] >= n \/ stage[c] = "closed")
        \/ DisconnectKeepsThrowing(c)
        \/ OwnerSleepsOn(c)

(* A connection whose client has closed or reset it is closed, whichever   *)
(* handler meets that and however many throw before; with the same two     *)
(* exceptions.                                                             *)
DeadPeersAreClosed ==
    \A c \in Clients :
        \/ (stage[c] = "open" /\ ended[c] # "no") ~> stage[c] = "closed"
        \/ DisconnectKeepsThrowing(c)
        \/ OwnerSleepsOn(c)

(* The loop callbacks of a worker, the timers among them, run again and    *)
(* again although a handler that throws skips them, once the clients have  *)
(* come and sent what they send: unless the worker sleeps on, or one of    *)
(* the two failures repeats for ever.                                      *)
LoopCallbacksRun ==
    \A w \in Workers :
        \/ []<>(pc[w] = "callbacks")
        \/ <>[]Asleep(w)
        \/ AcceptKeepsFailing(w)
        \/ \E c \in Clients : DisconnectKeepsThrowing(c)
=============================================================================

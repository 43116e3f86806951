--------------------------- MODULE ConnectionPool ---------------------------
(***************************************************************************)
(* The connection pool of include/ConnectionPool.hpp and the idle timers   *)
(* it keeps in a shared Timer.  The timer is what TimerService promises:   *)
(* an armed timer rings once, at some time, unless it was cleared.         *)
(*                                                                         *)
(* Deleting a ConnectionInfo disconnects its client, and that calls the    *)
(* program's OnDisconnected, which may use the pool again: a deletion is   *)
(* two steps with calls of the program between them.                       *)
(***************************************************************************)
EXTENDS Integers, FiniteSets, Sequences, SequencesExt

CONSTANTS
    Addresses,          \* server addresses
    Conns,              \* addresses of ConnectionInfo objects
    TimerIDs,           \* identifiers the Timer gives out
    MaxConnections,     \* values the program gives SetMaxConnection
    IdleTimeouts        \* values it gives SetIdleTimeout

KEEPCONNECTION == 0

ASSUME PoolAssumption ==
    /\ IsFiniteSet(Conns)
    /\ MaxConnections \subseteq Nat
    /\ IdleTimeouts \subseteq Nat

VARIABLES
    info,                       \* the ConnectionInfo objects that exist
    m_stConnectionMap,          \* the idle connections of each address
    m_ConnectionCount,
    m_MaxConnection,
    m_IdleConnectionTimeout,
    timers,                     \* the pending timers: TimerID |-> its connection
    deleting,                   \* the deletions in progress, innermost first
    users                       \* how many callers of Attach hold a connection

vars == <<info, m_stConnectionMap, m_ConnectionCount, m_MaxConnection,
          m_IdleConnectionTimeout, timers, deleting, users>>

Live == DOMAIN info
Idle(c) == \E a \in Addresses : Contains(m_stConnectionMap[a], c)
Dying(c) == Contains(deleting, c)
Pending == DOMAIN timers

TypeOK ==
    /\ Live \subseteq Conns
    /\ info \in [Live -> [stAddress : Addresses, active : BOOLEAN,
                          IdleConnTimerId : TimerIDs]]
    /\ m_stConnectionMap \in [Addresses -> Seq(Conns)]
    /\ m_ConnectionCount \in Nat
    /\ m_MaxConnection \in MaxConnections
    /\ m_IdleConnectionTimeout \in IdleTimeouts
    /\ timers \in [Pending -> Conns] /\ Pending \subseteq TimerIDs
    /\ deleting \in Seq(Conns)
    /\ users \in [Conns -> Nat]

Init ==
    /\ info = [c \in {} |-> "none"]
    /\ m_stConnectionMap = [a \in Addresses |-> <<>>]
    /\ m_ConnectionCount = 0
    /\ m_MaxConnection \in MaxConnections
    /\ m_IdleConnectionTimeout \in IdleTimeouts
    /\ timers = [t \in {} |-> "none"]
    /\ deleting = <<>>
    /\ users = [c \in Conns |-> 0]

-----------------------------------------------------------------------------
(* Timer::Clear, and the TimerIDs SetTimeout may return: none that is      *)
(* pending or still remembered by a connection (TimerIDs do not wrap).     *)
Clear(id) == timers' = [t \in Pending \ {id} |-> timers[t]]
FreshTimerIDs == TimerIDs \ (Pending \cup {info[c].IdleConnTimerId : c \in Live})

(* NewConnInfo.  IdleConnTimerId is not initialised: it holds whatever the *)
(* memory held, and Attach clears that in the timer.                       *)
NewConnInfo(addr) ==
    /\ m_ConnectionCount < m_MaxConnection
    /\ \E c \in Conns \ Live, garbage \in TimerIDs :
        /\ info' = [d \in Live \cup {c} |->
                       IF d = c THEN [stAddress |-> addr, active |-> TRUE,
                                      IdleConnTimerId |-> garbage]
                       ELSE info[d]]
        /\ users' = [users EXCEPT ![c] = @ + 1]
    /\ m_ConnectionCount' = m_ConnectionCount + 1

(* A bug: the idle timer of a connection that is taken again keeps running. *)
AttachKeepsTimer(addr) ==
    LET list == m_stConnectionMap[addr]
    IN  /\ IF list = <<>>
           THEN NewConnInfo(addr) /\ UNCHANGED m_stConnectionMap
           ELSE /\ m_stConnectionMap' = [m_stConnectionMap EXCEPT ![addr] = Tail(list)]
                /\ info' = [info EXCEPT ![Head(list)].active = TRUE]
                /\ users' = [users EXCEPT ![Head(list)] = @ + 1]
                /\ UNCHANGED m_ConnectionCount
        /\ UNCHANGED <<m_MaxConnection, m_IdleConnectionTimeout, timers, deleting>>

(* A bug: the connection that is taken stays on its list. *)
AttachKeepsListed(addr) ==
    LET list == m_stConnectionMap[addr]
    IN  /\ IF list = <<>>
           THEN NewConnInfo(addr) /\ UNCHANGED timers
           ELSE /\ Clear(info[Head(list)].IdleConnTimerId)
                /\ info' = [info EXCEPT ![Head(list)].active = TRUE]
                /\ users' = [users EXCEPT ![Head(list)] = @ + 1]
                /\ UNCHANGED m_ConnectionCount
        /\ UNCHANGED <<m_stConnectionMap, m_MaxConnection, m_IdleConnectionTimeout, deleting>>

(* Attach takes the connection that was detached last.                     *)
Attach(addr) ==
    LET list == m_stConnectionMap[addr]
    IN  /\ IF list = <<>>
           THEN NewConnInfo(addr) /\ UNCHANGED <<m_stConnectionMap, timers>>
           ELSE /\ m_stConnectionMap' = [m_stConnectionMap EXCEPT ![addr] = Tail(list)]
                /\ Clear(info[Head(list)].IdleConnTimerId)
                /\ info' = [info EXCEPT ![Head(list)].active = TRUE]
                /\ users' = [users EXCEPT ![Head(list)] = @ + 1]
                /\ UNCHANGED m_ConnectionCount
        /\ UNCHANGED <<m_MaxConnection, m_IdleConnectionTimeout, deleting>>

(* A bug: a connection that was given back already is put on its list again. *)
DetachTwice(c) ==
    /\ c \in Live /\ ~Dying(c)
    /\ info' = [info EXCEPT ![c].active = FALSE]
    /\ Len(m_stConnectionMap[info[c].stAddress]) < 3
    /\ m_stConnectionMap' = [m_stConnectionMap EXCEPT ![info[c].stAddress] = <<c>> \o @]
    /\ users' = [users EXCEPT ![c] = IF @ > 0 THEN @ - 1 ELSE 0]
    /\ UNCHANGED <<m_ConnectionCount, m_MaxConnection, m_IdleConnectionTimeout,
                   timers, deleting>>

(* A bug: no idle timer is set. *)
DetachUntimed(c) ==
    /\ c \in Live /\ ~Dying(c)
    /\ info[c].active
    /\ info' = [info EXCEPT ![c].active = FALSE]
    /\ m_stConnectionMap' = [m_stConnectionMap EXCEPT ![info[c].stAddress] = <<c>> \o @]
    /\ users' = [users EXCEPT ![c] = IF @ > 0 THEN @ - 1 ELSE 0]
    /\ UNCHANGED <<m_ConnectionCount, m_MaxConnection, m_IdleConnectionTimeout,
                   timers, deleting>>

(* Detach by the caller that holds the connection, or once more by one     *)
(* that has given it back already: then the flag is clear and it returns.  *)
Detach(c) ==
    /\ c \in Live /\ ~Dying(c)
    /\ info[c].active
    /\ IF m_IdleConnectionTimeout # KEEPCONNECTION
       THEN \E id \in FreshTimerIDs :
                /\ info' = [info EXCEPT ![c].active = FALSE, ![c].IdleConnTimerId = id]
                /\ timers' = [t \in Pending \cup {id} |-> IF t = id THEN c ELSE timers[t]]
       ELSE /\ info' = [info EXCEPT ![c].active = FALSE]
            /\ UNCHANGED timers
    /\ m_stConnectionMap' =
           [m_stConnectionMap EXCEPT ![info[c].stAddress] = <<c>> \o @]
    /\ users' = [users EXCEPT ![c] = IF @ > 0 THEN @ - 1 ELSE 0]
    /\ UNCHANGED <<m_ConnectionCount, m_MaxConnection, m_IdleConnectionTimeout, deleting>>

(* Erase by the caller that holds the connection, up to OnDisconnected.    *)
Erase(c) ==
    /\ users[c] > 0 /\ ~Dying(c)
    /\ deleting' = <<c>> \o deleting
    /\ users' = [users EXCEPT ![c] = @ - 1]
    /\ UNCHANGED <<info, m_stConnectionMap, m_ConnectionCount, m_MaxConnection,
                   m_IdleConnectionTimeout, timers>>

(* The idle timer of a connection rings: the Timer has taken it off its    *)
(* map, OnTimeout takes the connection off its list and deletes it.        *)
OnTimeout(id) ==
    LET c == timers[id]
    IN  /\ deleting = <<>>
        /\ Clear(id)
        /\ m_stConnectionMap' =
               [m_stConnectionMap EXCEPT ![info[c].stAddress] = RemoveFirst(@, c)]
        /\ deleting' = <<c>>
        /\ UNCHANGED <<info, m_ConnectionCount, m_MaxConnection,
                       m_IdleConnectionTimeout, users>>

(* A bug: the connection is not taken off the count. *)
DeletedUncounted ==
    /\ deleting # <<>>
    /\ info' = [d \in Live \ {Head(deleting)} |-> info[d]]
    /\ deleting' = Tail(deleting)
    /\ UNCHANGED <<m_stConnectionMap, m_ConnectionCount, m_MaxConnection,
                   m_IdleConnectionTimeout, timers, users>>
(* OnDisconnected returns, the object is freed and the count goes down.    *)
(* (OnTimeout alone tests that it is not 0 already.)                       *)
Deleted ==
    /\ deleting # <<>>
    /\ info' = [d \in Live \ {Head(deleting)} |-> info[d]]
    /\ m_ConnectionCount' = m_ConnectionCount - 1
    /\ deleting' = Tail(deleting)
    /\ UNCHANGED <<m_stConnectionMap, m_MaxConnection, m_IdleConnectionTimeout,
                   timers, users>>

SetMaxConnection(max) ==
    /\ m_MaxConnection' = max
    /\ UNCHANGED <<info, m_stConnectionMap, m_ConnectionCount,
                   m_IdleConnectionTimeout, timers, deleting, users>>

SetIdleTimeout(timeout) ==
    /\ m_IdleConnectionTimeout' = timeout
    /\ UNCHANGED <<info, m_stConnectionMap, m_ConnectionCount, m_MaxConnection,
                   timers, deleting, users>>

Next ==
    \/ \E a \in Addresses : Attach(a)
    \/ \E c \in Conns : Detach(c) \/ Erase(c)
    \/ \E id \in Pending : OnTimeout(id)
    \/ Deleted
    \/ \E m \in MaxConnections : SetMaxConnection(m)
    \/ \E t \in IdleTimeouts : SetIdleTimeout(t)

Spec == Init /\ [][Next]_vars

(* Every OnDisconnected returns, whatever it calls; and timers ring        *)
(* (EveryTimerRings of Timer.tla): the loop comes back to CheckTimer, with *)
(* no deletion in progress, however many connections the program deletes.  *)
FairSpec ==
    /\ Spec
    /\ \A depth \in 1..Cardinality(Conns) : SF_vars(Deleted /\ Len(deleting) = depth)
    /\ \A id \in TimerIDs : SF_vars(id \in Pending /\ OnTimeout(id))

-----------------------------------------------------------------------------
(* Properties. *)

(* The count that limits the pool is that of the connections that exist,   *)
(* also while the program runs inside a deletion.                          *)
CountIsLive == m_ConnectionCount = Cardinality(Live)

(* The list of an address holds exactly the connections to it that nobody  *)
(* holds, each once: none is handed out twice, leaked or left dangling.    *)
IdleListsSound ==
    \A a \in Addresses :
        /\ IsInjective(m_stConnectionMap[a])
        /\ ToSet(m_stConnectionMap[a]) =
              {c \in Live : info[c].stAddress = a /\ ~info[c].active /\ ~Dying(c)}

(* A pending timer belongs to an idle connection that remembers it: it     *)
(* never rings for a connection that is held, deleted or being deleted.    *)
TimersBelongToIdle ==
    \A id \in Pending : Idle(timers[id]) /\ info[timers[id]].IdleConnTimerId = id

(* A connection has one user while it is marked ACTIVE, and it is not      *)
(* freed under that user.                                                  *)
OneUserEach ==
    \A c \in Conns : /\ users[c] <= 1
                     /\ users[c] = 1 => c \in Live /\ info[c].active

(* In a program whose pool always has an idle timeout, an idle connection  *)
(* is taken again or closed by its timer: no other Attach takes the timer. *)
AlwaysTimed == [](m_IdleConnectionTimeout # KEEPCONNECTION)
IdleEndsEventually == AlwaysTimed => \A c \in Conns : Idle(c) ~> ~Idle(c)
=============================================================================

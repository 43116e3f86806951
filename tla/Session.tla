------------------------------- MODULE Session -------------------------------
(***************************************************************************)
(* The sessions of include/Session.hpp: data kept under a token until the  *)
(* program deletes it or its timer rings.  The timer is what TimerService  *)
(* promises; CheckTimer takes a timer out before it calls back.            *)
(*                                                                         *)
(* A SessionInfo is a record at an address of Infos, the node of the map   *)
(* it lies in; a timer carries that address.  OnSessionTimeout is cut at   *)
(* the callbacks it makes, which may use the sessions again.               *)
(***************************************************************************)
EXTENDS Integers, FiniteSets

CONSTANTS
    Infos,          \* addresses of SessionInfo objects
    TimerIDs,       \* identifiers the Timer gives out
    TOKEN_SPAN,     \* number of values of Token (2^32 in the code)
    TokenReuse,     \* whether a Token may come round to a live session
    MaxCallbacks,   \* bound on the calls of RegisterCallback
    Throwing        \* whether the program's callbacks throw

ASSUME SessionAssumption ==
    /\ TOKEN_SPAN \in Nat \ {0}
    /\ TokenReuse \in BOOLEAN
    /\ MaxCallbacks \in Nat
    /\ Throwing \in BOOLEAN

NoInfo == "none"
ASSUME NoInfoAssumption == NoInfo \notin Infos

VARIABLES
    m_dwSequence,
    m_stSessionMap,     \* Token |-> address
    heap,               \* the SessionInfo objects that exist
    timers,             \* the pending timers: TimerID |-> address it carries
    callbacks,          \* how many m_stTimeoutCallback holds
    telling,            \* the session OnSessionTimeout runs for
    position,           \* how many callbacks it has made
    abandoned           \* the sessions a callback threw for

vars == <<m_dwSequence, m_stSessionMap, heap, timers, callbacks, telling, position,
          abandoned>>

Tokens == 0..(TOKEN_SPAN - 1)
Live == DOMAIN heap
Pending == DOMAIN timers
Known == DOMAIN m_stSessionMap

TypeOK ==
    /\ m_dwSequence \in Tokens
    /\ Known \subseteq Tokens /\ m_stSessionMap \in [Known -> Infos]
    /\ Live \subseteq Infos
    /\ heap \in [Live -> [dwSequence : Tokens, dwTimerId : TimerIDs]]
    /\ Pending \subseteq TimerIDs /\ timers \in [Pending -> Infos]
    /\ callbacks \in Nat
    /\ telling \in Infos \cup {NoInfo}
    /\ position \in Nat
    /\ abandoned \subseteq Live

Init ==
    /\ m_dwSequence = 0
    /\ m_stSessionMap = [t \in {} |-> NoInfo]
    /\ heap = [p \in {} |-> NoInfo]
    /\ timers = [id \in {} |-> NoInfo]
    /\ callbacks = 0
    /\ telling = NoInfo
    /\ position = 0
    /\ abandoned = {}

-----------------------------------------------------------------------------
(* Timer::Clear, and the TimerIDs SetTimeout may return: none that is      *)
(* pending or still remembered by a session (TimerIDs do not wrap).        *)
Clear(id) == timers' = [i \in Pending \ {id} |-> timers[i]]
FreshTimerIDs == TimerIDs \ (Pending \cup {heap[p].dwTimerId : p \in Live})

Without(f, x) == [y \in DOMAIN f \ {x} |-> f[y]]
With(f, x, value) == [y \in DOMAIN f \cup {x} |-> IF y = x THEN value ELSE f[y]]

(* Allocate.  insert() returns the SessionInfo of a live session with the  *)
(* same token, whose timer is then forgotten but not cleared.              *)
Allocate ==
    LET token == (m_dwSequence + 1) % TOKEN_SPAN
    IN  /\ TokenReuse \/ token \notin Known
        /\ m_dwSequence' = token
        /\ \E id \in FreshTimerIDs :
            \E p \in IF token \in Known THEN {m_stSessionMap[token]} ELSE Infos \ Live :
                /\ m_stSessionMap' = With(m_stSessionMap, token, p)
                /\ heap' = With(heap, p, [dwSequence |-> token, dwTimerId |-> id])
                /\ timers' = With(timers, id, p)
        /\ UNCHANGED <<callbacks, telling, position, abandoned>>

(* A bug: Delete leaves the timer. *)
DeleteKeepsTimer(token) ==
    LET p == m_stSessionMap[token]
    IN  /\ p # telling
        /\ m_stSessionMap' = Without(m_stSessionMap, token)
        /\ heap' = Without(heap, p)
        /\ abandoned' = abandoned \ {p}
        /\ UNCHANGED <<m_dwSequence, timers, callbacks, telling, position>>

(* Delete, from the loop or from a callback, but for the session that is   *)
(* being told of its timeout: OnSessionTimeout reads that one again.       *)
Delete(token) ==
    LET p == m_stSessionMap[token]
    IN  /\ p # telling
        /\ Clear(heap[p].dwTimerId)
        /\ m_stSessionMap' = Without(m_stSessionMap, token)
        /\ heap' = Without(heap, p)
        /\ abandoned' = abandoned \ {p}
        /\ UNCHANGED <<m_dwSequence, callbacks, telling, position>>

RegisterCallback ==
    /\ callbacks < MaxCallbacks
    /\ callbacks' = callbacks + 1
    /\ UNCHANGED <<m_dwSequence, m_stSessionMap, heap, timers, telling, position, abandoned>>

(* A bug: a session that nobody waits for is not taken away. *)
TimeoutNeedsCallbacks(id) ==
    /\ telling = NoInfo
    /\ callbacks > 0
    /\ telling' = timers[id]
    /\ position' = 0
    /\ Clear(id)
    /\ UNCHANGED <<m_dwSequence, m_stSessionMap, heap, callbacks, abandoned>>

(* CheckTimer takes the timer of a session out and calls OnSessionTimeout. *)
OnSessionTimeout(id) ==
    /\ telling = NoInfo
    /\ telling' = timers[id]
    /\ position' = 0
    /\ Clear(id)
    /\ UNCHANGED <<m_dwSequence, m_stSessionMap, heap, callbacks, abandoned>>

(* The list is walked while callbacks may still be added to its end.       *)
CallbackReturns ==
    /\ telling # NoInfo
    /\ position < callbacks
    /\ position' = position + 1
    /\ UNCHANGED <<m_dwSequence, m_stSessionMap, heap, timers, callbacks, telling, abandoned>>

(* CheckTimer catches what a callback throws, and the session stays.       *)
CallbackThrows ==
    /\ Throwing
    /\ telling # NoInfo
    /\ position < callbacks
    /\ abandoned' = abandoned \cup {telling}
    /\ telling' = NoInfo
    /\ position' = 0
    /\ UNCHANGED <<m_dwSequence, m_stSessionMap, heap, timers, callbacks>>

(* Every callback was made: the session is erased under its own token.     *)
TimeoutReturns ==
    LET token == heap[telling].dwSequence
    IN  /\ telling # NoInfo
        /\ position = callbacks
        /\ m_stSessionMap' = Without(m_stSessionMap, token)
        /\ heap' = Without(heap, m_stSessionMap[token])
        /\ telling' = NoInfo
        /\ position' = 0
        /\ UNCHANGED <<m_dwSequence, timers, callbacks, abandoned>>

Next ==
    \/ Allocate
    \/ \E token \in Known : Delete(token)
    \/ RegisterCallback
    \/ \E id \in Pending : OnSessionTimeout(id)
    \/ CallbackReturns
    \/ CallbackThrows
    \/ TimeoutReturns

Spec == Init /\ [][Next]_vars

(* Timers ring (EveryTimerRings of Timer.tla) once the loop is back, and   *)
(* callbacks return or throw, whatever they call.                          *)
FairSpec ==
    /\ Spec
    /\ \A id \in TimerIDs : SF_vars(id \in Pending /\ OnSessionTimeout(id))
    /\ WF_vars(CallbackReturns \/ CallbackThrows \/ TimeoutReturns)

-----------------------------------------------------------------------------
(* Properties. *)

(* A session has its own pending timer until it is told of its timeout,    *)
(* and every pending timer carries a session that exists: none times out   *)
(* twice, after it was deleted, or (unless a callback threw) not at all.   *)
SessionsAreTimed ==
    /\ \A p \in Live \ (abandoned \cup {telling}) :
          heap[p].dwTimerId \in Pending /\ timers[heap[p].dwTimerId] = p
    /\ \A id \in Pending :
          /\ timers[id] \in Live \ (abandoned \cup {telling})
          /\ heap[timers[id]].dwTimerId = id

(* The token finds the session and nothing else: in the loop and in        *)
(* callbacks, that of the session being told included.                     *)
TokensFindSessions ==
    /\ telling # NoInfo => telling \in Live
    /\ \A token \in Known :
          m_stSessionMap[token] \in Live /\ heap[m_stSessionMap[token]].dwSequence = token
    /\ \A p \in Live :
          heap[p].dwSequence \in Known /\ m_stSessionMap[heap[p].dwSequence] = p

(* Map, sessions and timers agree, whatever callbacks allocate and delete  *)
(* while OnSessionTimeout walks the list of callbacks.                     *)
SessionsAgree == SessionsAreTimed /\ TokensFindSessions

(* A session ends, by Delete or by its timeout, whatever the callbacks of  *)
(* other sessions do, unless a callback throws for it.                     *)
SessionsEnd == \A t \in Tokens : t \in Known ~> (t \notin Known \/ m_stSessionMap[t] \in abandoned)
=============================================================================

-------------------------------- MODULE Timer --------------------------------
(***************************************************************************)
(* The timing wheel of include/Timer.hpp: SetTimeout, Update and Clear as  *)
(* the program calls them, and CheckTimer as the scheduler's loop calls    *)
(* it.  CheckTimer is cut where another piece of the program can run: a    *)
(* callback may call SetTimeout, Update and Clear, so a turn of its loop   *)
(* is one step up to the detached list, and then one step for every        *)
(* callback that starts or returns.                                        *)
(*                                                                         *)
(* A TimerItem is a record at an address of Items; the doubly linked list  *)
(* of a slot is the set of its items (the order in which the items of one  *)
(* slot are run is left open).  The five vectors are one function on the   *)
(* slots <<level, index>>.                                                 *)
(***************************************************************************)
EXTENDS Integers, FiniteSets

CONSTANTS
    Items,          \* addresses the allocator hands out
    TVR_SIZE,       \* slots of the first vector (256 in the code)
    TVN_SIZE,       \* slots of each of the other four (64 in the code)
    ID_SPAN,        \* number of values of TimerID (2^32 in the code)
    Interval,       \* milliseconds of a tick (10 in the code)
    Timeouts,       \* timeouts the program asks for, in milliseconds
    InitClocks,     \* the wall clock when the timer is constructed
    ClockSteps,     \* how the wall clock may move, back too
    MinClock, MaxClock,     \* bounds of the wall clock
    IdReuse         \* whether a TimerID may come round to a pending timer

ASSUME SizeAssumption ==
    /\ TVR_SIZE \in Nat \ {0}
    /\ TVN_SIZE \in Nat \ {0}
    /\ ID_SPAN \in Nat \ {0}
    /\ Interval \in Nat \ {0}

ASSUME ClockAssumption ==
    /\ MinClock \in Nat
    /\ MaxClock \in Nat
    /\ InitClocks \subseteq MinClock..MaxClock
    /\ ClockSteps \subseteq Int

(* The wall clock counts from 1970: no timeout reaches back before it.     *)
ASSUME TimeoutAssumption ==
    /\ Timeouts \subseteq Int
    /\ \A t \in Timeouts : MinClock + t >= 0

ASSUME IdReuse \in BOOLEAN

NoItem == "none"
ASSUME NoItemAssumption == NoItem \notin Items

VARIABLES
    clock,          \* gettimeofday(), in milliseconds
    m_LastTimerId,
    m_LastTimeval,
    m_TimerDataMap, \* TimerID |-> address of the item
    heap,           \* the allocated TimerItems, by address
    wheel,          \* m_Vector1 .. m_Vector5
    checking,       \* CheckTimer is on the stack
    now,            \* its local variable now
    firing,         \* the list it detached, without the item being run
    current         \* the item whose callback is on the stack

vars == <<clock, m_LastTimerId, m_LastTimeval, m_TimerDataMap, heap, wheel,
          checking, now, firing, current>>

-----------------------------------------------------------------------------
(* The geometry of the wheel.  Unit[l] is how many ticks a slot of level l *)
(* stands for, Unit[l + 1] how many the whole level does.                  *)

Unit == <<1,
          TVR_SIZE,
          TVR_SIZE * TVN_SIZE,
          TVR_SIZE * TVN_SIZE * TVN_SIZE,
          TVR_SIZE * TVN_SIZE * TVN_SIZE * TVN_SIZE,
          TVR_SIZE * TVN_SIZE * TVN_SIZE * TVN_SIZE * TVN_SIZE>>

Levels == 1..5
Size(level) == IF level = 1 THEN TVR_SIZE ELSE TVN_SIZE
Slots == UNION {{level} \X (0..(Size(level) - 1)) : level \in Levels}
MAX_TVAL == Unit[6] - 1

Index(level, time) == (time \div Unit[level]) % Size(level)
Slot(level, time) == <<level, Index(level, time)>>

(* The slot InternalAddTimerItem chooses for an item of tick timeval while *)
(* the wheel stands at tick last.                                          *)
SlotFor(timeval, last) ==
    LET idx == timeval - last
    IN  IF timeval < last     THEN Slot(1, last)
        ELSE IF idx < Unit[2] THEN Slot(1, timeval)
        ELSE IF idx < Unit[3] THEN Slot(2, timeval)
        ELSE IF idx < Unit[4] THEN Slot(3, timeval)
        ELSE IF idx < Unit[5] THEN Slot(4, timeval)
        ELSE IF idx > MAX_TVAL THEN Slot(5, last + MAX_TVAL)
        ELSE Slot(5, timeval)

(* A bug: the turn of the vectors is looked for after the tick was counted. *)
CascadingAfterTick(last) == {l \in 2..5 : \A k \in 1..(l - 1) : Index(k, last + 1) = 0}

(* A bug: the two highest vectors are never cascaded. *)
CascadingLowLevels(last) == {l \in 2..3 : \A k \in 1..(l - 1) : Index(k, last) = 0}

(* The levels whose current slot CheckTimer cascades at tick last: the     *)
(* second when the first has gone round, the next when that one has too.   *)
Cascading(last) == {l \in 2..5 : \A k \in 1..(l - 1) : Index(k, last) = 0}

-----------------------------------------------------------------------------
GetTimeval == clock \div Interval

(* int division, which rounds towards zero. *)
Ticks(timeout) ==
    IF timeout >= 0 THEN timeout \div Interval ELSE -((-timeout) \div Interval)

Placed == UNION {wheel[s] : s \in Slots}
Pending == Placed \cup firing
Live == DOMAIN heap
Unlinked(p) == [s \in Slots |-> wheel[s] \ {p}]
Linked(p, w, timeval) ==
    [w EXCEPT ![SlotFor(timeval, m_LastTimeval)] = @ \cup {p}]

(* Every item of the cascaded slots is added again, at the same tick.      *)
Cascade ==
    LET emptied == {Slot(l, m_LastTimeval) : l \in Cascading(m_LastTimeval)}
        moved == UNION {wheel[s] : s \in emptied}
    IN  [s \in Slots |->
            (IF s \in emptied THEN {} ELSE wheel[s])
            \cup {p \in moved : SlotFor(heap[p].Timeval, m_LastTimeval) = s}]

-----------------------------------------------------------------------------
TypeOK ==
    /\ clock \in MinClock..MaxClock
    /\ m_LastTimerId \in 0..(ID_SPAN - 1)
    /\ m_LastTimeval \in Nat
    /\ DOMAIN m_TimerDataMap \subseteq 0..(ID_SPAN - 1)
    /\ \A id \in DOMAIN m_TimerDataMap : m_TimerDataMap[id] \in Items
    /\ m_TimerDataMap = [id \in DOMAIN m_TimerDataMap |-> m_TimerDataMap[id]]
    /\ Live \subseteq Items
    /\ \A p \in Live : heap[p] \in [TimerId : 0..(ID_SPAN - 1), Timeval : Int,
                                    deadline : Int]
    /\ heap = [p \in Live |-> heap[p]]
    /\ wheel \in [Slots -> SUBSET Items]
    /\ checking \in BOOLEAN
    /\ now \in Nat
    /\ firing \subseteq Items
    /\ current \in Items \cup {NoItem}

Init ==
    /\ clock \in InitClocks
    /\ m_LastTimerId = 0
    /\ m_LastTimeval = GetTimeval
    /\ m_TimerDataMap = [id \in {} |-> NoItem]
    /\ heap = [p \in {} |-> NoItem]
    /\ wheel = [s \in Slots |-> {}]
    /\ checking = FALSE
    /\ now = 0
    /\ firing = {}
    /\ current = NoItem

(* The program calls into the timer from outside CheckTimer, or from the   *)
(* callback CheckTimer is running.                                         *)
ProgramRuns == ~checking \/ current # NoItem

-----------------------------------------------------------------------------
(* SetTimeout.  The deadline of the record is not the code's: it is the    *)
(* moment the caller asked for, kept to state FiresNotEarly.  insert()     *)
(* leaves an entry of the same TimerID as it is.                           *)
SetTimeout(timeout) ==
    LET id == (m_LastTimerId + 1) % ID_SPAN
        timeval == GetTimeval + Ticks(timeout)
    IN  /\ ProgramRuns
        /\ IdReuse \/ \A p \in Live : heap[p].TimerId # id
        /\ m_LastTimerId' = id
        /\ \E p \in Items \ Live :
            /\ heap' = [q \in Live \cup {p} |->
                            IF q = p
                            THEN [TimerId |-> id, Timeval |-> timeval,
                                  deadline |-> clock + timeout]
                            ELSE heap[q]]
            /\ wheel' = Linked(p, wheel, timeval)
            /\ m_TimerDataMap' =
                   [i \in DOMAIN m_TimerDataMap \cup {id} |->
                       IF i \in DOMAIN m_TimerDataMap THEN m_TimerDataMap[i] ELSE p]
        /\ UNCHANGED <<clock, m_LastTimeval, checking, now, firing, current>>

(* A bug: Update leaves the item in the list CheckTimer detached. *)
UpdateInPlace(id, timeout) ==
    LET p == m_TimerDataMap[id]
        timeval == GetTimeval + Ticks(timeout)
    IN  /\ ProgramRuns
        /\ id \in DOMAIN m_TimerDataMap
        /\ heap' = [heap EXCEPT ![p].Timeval = timeval, ![p].deadline = clock + timeout]
        /\ wheel' = Linked(p, Unlinked(p), timeval)
        /\ UNCHANGED <<clock, m_LastTimerId, m_LastTimeval, m_TimerDataMap,
                       checking, now, firing, current>>

(* A bug: Update erases the TimerID as Clear does. *)
UpdateForgetsId(id, timeout) ==
    LET p == m_TimerDataMap[id]
        timeval == GetTimeval + Ticks(timeout)
    IN  /\ ProgramRuns
        /\ id \in DOMAIN m_TimerDataMap
        /\ heap' = [heap EXCEPT ![p].Timeval = timeval, ![p].deadline = clock + timeout]
        /\ wheel' = Linked(p, Unlinked(p), timeval)
        /\ firing' = firing \ {p}
        /\ m_TimerDataMap' = [i \in DOMAIN m_TimerDataMap \ {id} |-> m_TimerDataMap[i]]
        /\ UNCHANGED <<clock, m_LastTimerId, m_LastTimeval, checking, now, current>>

(* Update takes the item out of whatever list it is in, the list CheckTimer *)
(* is running included, and adds it again for the new time.                *)
Update(id, timeout) ==
    LET p == m_TimerDataMap[id]
        timeval == GetTimeval + Ticks(timeout)
    IN  /\ ProgramRuns
        /\ id \in DOMAIN m_TimerDataMap
        /\ heap' = [heap EXCEPT ![p].Timeval = timeval,
                                ![p].deadline = clock + timeout]
        /\ wheel' = Linked(p, Unlinked(p), timeval)
        /\ firing' = firing \ {p}
        /\ UNCHANGED <<clock, m_LastTimerId, m_LastTimeval, m_TimerDataMap,
                       checking, now, current>>

Clear(id) ==
    LET p == m_TimerDataMap[id]
    IN  /\ ProgramRuns
        /\ id \in DOMAIN m_TimerDataMap
        /\ wheel' = Unlinked(p)
        /\ firing' = firing \ {p}
        /\ heap' = [q \in Live \ {p} |-> heap[q]]
        /\ m_TimerDataMap' = [i \in DOMAIN m_TimerDataMap \ {id} |-> m_TimerDataMap[i]]
        /\ UNCHANGED <<clock, m_LastTimerId, m_LastTimeval, checking, now, current>>

-----------------------------------------------------------------------------
(* CheckTimer is called and reads the clock, once. *)
CheckTimer ==
    /\ ~checking
    /\ checking' = TRUE
    /\ now' = GetTimeval
    /\ UNCHANGED <<clock, m_LastTimerId, m_LastTimeval, m_TimerDataMap, heap,
                   wheel, firing, current>>

(* A bug: the tick that is still running is run too. *)
TurnTooFar ==
    LET cascaded == Cascade
        slot == Slot(1, m_LastTimeval)
    IN  /\ checking /\ current = NoItem /\ firing = {}
        /\ m_LastTimeval <= now
        /\ firing' = cascaded[slot]
        /\ wheel' = [cascaded EXCEPT ![slot] = {}]
        /\ m_LastTimeval' = m_LastTimeval + 1
        /\ UNCHANGED <<clock, m_LastTimerId, m_TimerDataMap, heap, checking, now,
                       current>>

(* A bug: after a long pause one turn catches up with the clock. *)
TurnCatchesUp ==
    LET cascaded == Cascade
        slot == Slot(1, m_LastTimeval)
    IN  /\ checking /\ current = NoItem /\ firing = {}
        /\ m_LastTimeval < now
        /\ firing' = cascaded[slot]
        /\ wheel' = [cascaded EXCEPT ![slot] = {}]
        /\ m_LastTimeval' = now
        /\ UNCHANGED <<clock, m_LastTimerId, m_TimerDataMap, heap, checking, now,
                       current>>

(* A turn of its loop, up to the detached list. *)
Turn ==
    LET cascaded == Cascade
        slot == Slot(1, m_LastTimeval)
    IN  /\ checking /\ current = NoItem /\ firing = {}
        /\ m_LastTimeval < now
        /\ firing' = cascaded[slot]
        /\ wheel' = [cascaded EXCEPT ![slot] = {}]
        /\ m_LastTimeval' = m_LastTimeval + 1
        /\ UNCHANGED <<clock, m_LastTimerId, m_TimerDataMap, heap, checking, now,
                       current>>

(* A bug: the TimerID stays in the map while the callback runs. *)
InvokeKeepsId ==
    /\ checking /\ current = NoItem
    /\ \E p \in firing :
        /\ current' = p
        /\ firing' = firing \ {p}
    /\ UNCHANGED <<clock, m_LastTimerId, m_LastTimeval, m_TimerDataMap, heap, wheel,
                   checking, now>>

(* The next item of the detached list: its TimerID leaves the map before   *)
(* the callback starts.                                                    *)
Invoke ==
    /\ checking /\ current = NoItem
    /\ \E p \in firing :
        /\ current' = p
        /\ firing' = firing \ {p}
        /\ m_TimerDataMap' = [i \in DOMAIN m_TimerDataMap \ {heap[p].TimerId} |->
                                 m_TimerDataMap[i]]
    /\ UNCHANGED <<clock, m_LastTimerId, m_LastTimeval, heap, wheel, checking, now>>

(* The callback returns, or throws what CheckTimer catches. *)
Return ==
    /\ current # NoItem
    /\ heap' = [q \in Live \ {current} |-> heap[q]]
    /\ current' = NoItem
    /\ UNCHANGED <<clock, m_LastTimerId, m_LastTimeval, m_TimerDataMap, wheel,
                   checking, now, firing>>

CheckDone ==
    /\ checking /\ current = NoItem /\ firing = {}
    /\ m_LastTimeval >= now
    /\ checking' = FALSE
    /\ now' = 0     \* the local is gone
    /\ UNCHANGED <<clock, m_LastTimerId, m_LastTimeval, m_TimerDataMap, heap,
                   wheel, firing, current>>

(* The wall clock moves, within its bounds. *)
ClockMoves(step) ==
    /\ clock + step \in MinClock..MaxClock
    /\ clock' = clock + step
    /\ UNCHANGED <<m_LastTimerId, m_LastTimeval, m_TimerDataMap, heap, wheel,
                   checking, now, firing, current>>

Next ==
    \/ \E t \in Timeouts : SetTimeout(t)
    \/ \E id \in DOMAIN m_TimerDataMap : Clear(id) \/ \E t \in Timeouts : Update(id, t)
    \/ CheckTimer
    \/ Turn
    \/ Invoke
    \/ Return
    \/ CheckDone
    \/ \E d \in ClockSteps : ClockMoves(d)

Spec == Init /\ [][Next]_vars

(* The scheduler waits at most one Interval and then runs its loop         *)
(* callbacks, CheckTimer among them; the thread runs on inside CheckTimer  *)
(* and inside callbacks; wall-clock time passes.                           *)
FairSpec ==
    /\ Spec
    /\ WF_vars(CheckTimer) /\ WF_vars(Turn) /\ WF_vars(Invoke)
    /\ WF_vars(Return) /\ WF_vars(CheckDone)
    /\ WF_vars(ClockMoves(1))

-----------------------------------------------------------------------------
(* Properties.                                                             *)

(* Every allocated TimerItem is in exactly one place: one slot of the      *)
(* wheel, the list CheckTimer detached, or the callback that is running.   *)
(* So no list holds a deleted item and none is leaked, whatever a callback *)
(* clears, moves or adds while its own list is being run.                  *)
EachItemInOnePlace ==
    /\ Live = Pending \cup ({current} \ {NoItem})
    /\ \A s, t \in Slots : s # t => wheel[s] \cap wheel[t] = {}
    /\ firing \cap Placed = {}
    /\ current \notin Pending

(* The map holds no dangling pointer: each entry is an item that is still  *)
(* to be run and that bears the entry's TimerID, also after the 32-bit     *)
(* TimerID has come round to a timer that is still pending.                *)
MapNamesPendingItems ==
    \A id \in DOMAIN m_TimerDataMap :
        /\ m_TimerDataMap[id] \in Pending
        /\ heap[m_TimerDataMap[id]].TimerId = id

(* The TimerID SetTimeout returned reaches its item until the callback     *)
(* starts, so Clear and Update find it (as long as no TimerID has been     *)
(* given twice).                                                           *)
HandlesReachTheirItems ==
    IdReuse \/ \A p \in Pending :
                  /\ heap[p].TimerId \in DOMAIN m_TimerDataMap
                  /\ m_TimerDataMap[heap[p].TimerId] = p

(* No tick passes without the items due at it: an item still in the wheel  *)
(* is due at a tick that has not passed, or lies in the slot the next turn *)
(* takes, however far ahead or behind it was set and whatever level it     *)
(* has been cascaded through.                                              *)
NoItemLeftBehind ==
    \A p \in Placed :
        heap[p].Timeval >= m_LastTimeval \/ p \in wheel[Slot(1, m_LastTimeval)]

(* A callback starts only after the tick it was set for, and so at most    *)
(* Interval - 2 milliseconds before the moment the caller asked for: both  *)
(* the clock and the timeout are cut to ticks.                             *)
FiresNotEarly ==
    \A p \in firing \cup ({current} \ {NoItem}) :
        /\ heap[p].Timeval < m_LastTimeval
        /\ m_LastTimeval <= now
        /\ now * Interval + Interval >= heap[p].deadline + 2

(* The wheel implements the service: what rings at a tick is exactly what  *)
(* was armed for it, an item set for a passed tick being armed for the     *)
(* next one to pass.                                                       *)
DueOf(p) == IF heap[p].Timeval < m_LastTimeval THEN m_LastTimeval ELSE heap[p].Timeval
Promised == INSTANCE TimerService WITH
                Timers <- Items,
                tick <- m_LastTimeval,
                due <- [p \in Placed |-> DueOf(p)],
                ringing <- firing
ImplementsService == Promised!Service

(* A timer set for a tick the clock reaches, or for one that has passed    *)
(* while the clock still moves, is run, or cleared or moved by the         *)
(* program: it never waits in the wheel for ever.                          *)
EveryTimerRings ==
    \A p \in Items : \A t \in 0..(MaxClock \div Interval - 1) :
        (p \in Placed /\ heap[p].Timeval = t /\ m_LastTimeval < MaxClock \div Interval)
            ~> ~(p \in Placed /\ heap[p].Timeval = t)
=============================================================================

----------------------------- MODULE TimerProofs -----------------------------
(***************************************************************************)
(* Proofs about the timing wheel for every size of its vectors, every      *)
(* number of timers and every clock: its type invariant, that every item   *)
(* is in exactly one list, that the map holds no dangling pointer, that no *)
(* item is left behind or run early, and that the wheel implements         *)
(* TimerService.                                                           *)
(***************************************************************************)
EXTENDS Timer, TLAPS

(* A slot stands for at least one tick. *)
LEMMA UnitPositive == \A l \in 1..6 : Unit[l] \in Nat \ {0}
<1> DEFINE R == TVR_SIZE
           N == TVN_SIZE
<1>1. /\ R \in Nat \ {0}
      /\ N \in Nat \ {0}
  BY SizeAssumption
<1> HIDE DEF R, N
<1>2. \A a, b \in Nat \ {0} : a * b \in Nat \ {0}
  OBVIOUS
<1>3. R * N \in Nat \ {0}
  BY <1>1, <1>2
<1>4. R * N * N \in Nat \ {0}
  BY <1>1, <1>2, <1>3
<1>5. R * N * N * N \in Nat \ {0}
  BY <1>1, <1>2, <1>4
<1>6. R * N * N * N * N \in Nat \ {0}
  BY <1>1, <1>2, <1>5
<1>7. Unit = <<1, R, R * N, R * N * N, R * N * N * N, R * N * N * N * N>>
  BY DEF Unit, R, N
<1> QED
  BY <1>1, <1>3, <1>4, <1>5, <1>6, <1>7

(* Index, the remainder of a quotient, is an index of the vector. *)
LEMMA SlotInWheel ==
  ASSUME NEW level \in Levels, NEW time \in Int
  PROVE  Slot(level, time) \in Slots
<1>1. Unit[level] \in Nat \ {0}
  BY UnitPositive DEF Levels
<1>2. Size(level) \in Nat \ {0}
  BY SizeAssumption DEF Size
<1>3. time \div Unit[level] \in Int
  BY <1>1
<1>4. \A q \in Int : \A n \in Nat \ {0} : q % n \in 0..(n - 1)
  OBVIOUS
<1>5. Index(level, time) \in 0..(Size(level) - 1)
  BY <1>2, <1>3, <1>4 DEF Index
<1> QED
  BY <1>5 DEF Slot, Slots

(* InternalAddTimerItem always finds a slot, so it never fails. *)
LEMMA SlotForInWheel ==
  ASSUME NEW timeval \in Int, NEW last \in Int
  PROVE  SlotFor(timeval, last) \in Slots
<1>1. MAX_TVAL \in Int
  BY UnitPositive DEF MAX_TVAL
<1>2. last + MAX_TVAL \in Int
  BY <1>1
<1> QED
  BY <1>2, SlotInWheel DEF SlotFor, Levels
-----------------------------------------------------------------------------
(* The clock in ticks, and a timeout in ticks. *)
LEMMA TicksAreIntegers ==
  ASSUME clock \in MinClock..MaxClock
  PROVE  /\ GetTimeval \in Nat
         /\ \A t \in Timeouts : Ticks(t) \in Int /\ clock + t \in Int
<1>1. clock \in Nat
  BY ClockAssumption
<1>2. \A a \in Nat : \A n \in Nat \ {0} : a \div n \in Nat
  OBVIOUS
<1>3. GetTimeval \in Nat
  BY <1>1, <1>2, SizeAssumption DEF GetTimeval
<1>4. ASSUME NEW t \in Timeouts
      PROVE  Ticks(t) \in Int /\ clock + t \in Int
  <2>1. t \in Int
    BY TimeoutAssumption
  <2>2. CASE t >= 0
    BY <2>1, <2>2, <1>1, <1>2, SizeAssumption DEF Ticks
  <2>3. CASE ~(t >= 0)
    <3>1. -t \in Nat
      BY <2>1, <2>3
    <3>2. (-t) \div Interval \in Nat
      BY <3>1, <1>2, SizeAssumption
    <3> QED
      BY <2>1, <2>3, <3>2, <1>1 DEF Ticks
  <2> QED
    BY <2>2, <2>3
<1> QED
  BY <1>3, <1>4

(* Adding an item to a slot of a well-typed wheel: it is then in that slot *)
(* and every other item is where it was.                                   *)
LEMMA LinkedInWheel ==
  ASSUME NEW w \in [Slots -> SUBSET Items], NEW p \in Items,
         NEW timeval \in Int, m_LastTimeval \in Int
  PROVE  /\ Linked(p, w, timeval) \in [Slots -> SUBSET Items]
         /\ SlotFor(timeval, m_LastTimeval) \in Slots
         /\ Linked(p, w, timeval)[SlotFor(timeval, m_LastTimeval)] =
               w[SlotFor(timeval, m_LastTimeval)] \cup {p}
         /\ \A s \in Slots \ {SlotFor(timeval, m_LastTimeval)} :
               Linked(p, w, timeval)[s] = w[s]
<1> DEFINE to == SlotFor(timeval, m_LastTimeval)
<1>1. to \in Slots
  BY SlotForInWheel
<1>2. Linked(p, w, timeval) = [w EXCEPT ![to] = @ \cup {p}]
  BY DEF Linked
<1> HIDE DEF to
<1>3. /\ Linked(p, w, timeval) \in [Slots -> SUBSET Items]
      /\ Linked(p, w, timeval)[to] = w[to] \cup {p}
      /\ \A s \in Slots \ {to} : Linked(p, w, timeval)[s] = w[s]
  BY <1>1, <1>2
<1> QED
  BY <1>1, <1>3 DEF to

(* A cascade moves items from slot to slot: none is lost and none is       *)
(* doubled.                                                                *)
LEMMA CascadeKeepsItems ==
  ASSUME TypeOK, EachItemInOnePlace
  PROVE  /\ Cascade \in [Slots -> SUBSET Items]
         /\ UNION {Cascade[s] : s \in Slots} = Placed
         /\ \A s, t \in Slots : s # t => Cascade[s] \cap Cascade[t] = {}
<1> DEFINE emptied == {Slot(l, m_LastTimeval) : l \in Cascading(m_LastTimeval)}
           moved == UNION {wheel[s] : s \in emptied}
           To(p) == SlotFor(heap[p].Timeval, m_LastTimeval)
           after(s) == (IF s \in emptied THEN {} ELSE wheel[s])
                       \cup {p \in moved : To(p) = s}
<1>1. Cascade = [s \in Slots |-> after(s)]
  BY DEF Cascade
<1>2. emptied \subseteq Slots
  <2>1. \A l \in Cascading(m_LastTimeval) : l \in Levels
    BY DEF Cascading, Levels
  <2> QED
    BY <2>1, SlotInWheel DEF TypeOK
<1>3. \A s \in Slots : wheel[s] \subseteq Items /\ wheel[s] \subseteq Live
  BY DEF TypeOK, EachItemInOnePlace, Pending, Placed
<1>4. \A p \in moved : To(p) \in Slots
  BY <1>2, <1>3, SlotForInWheel DEF TypeOK
<1>5. \A s, t \in Slots : s # t => wheel[s] \cap wheel[t] = {}
  BY DEF EachItemInOnePlace
<1> HIDE DEF emptied, To
<1>6. \A s \in Slots : after(s) \subseteq Items
  BY <1>2, <1>3
<1>7. UNION {after(s) : s \in Slots} = Placed
  <2>1. ASSUME NEW p \in Placed
        PROVE  \E s \in Slots : p \in after(s)
    <3>1. PICK s \in Slots : p \in wheel[s]
      BY DEF Placed
    <3>2. CASE s \in emptied
      BY <3>1, <3>2, <1>4
    <3>3. CASE s \notin emptied
      BY <3>1, <3>3
    <3> QED
      BY <3>2, <3>3
  <2>2. ASSUME NEW s \in Slots, NEW p \in after(s)
        PROVE  p \in Placed
    BY <1>2 DEF Placed
  <2> QED
    BY <2>1, <2>2
<1>8. ASSUME NEW s \in Slots, NEW t \in Slots, s # t
      PROVE  after(s) \cap after(t) = {}
  BY <1>2, <1>5, <1>8
<1> HIDE DEF after
<1>9. \A s \in Slots : Cascade[s] = after(s)
  BY <1>1
<1> QED
  BY <1>1, <1>6, <1>7, <1>8, <1>9
-----------------------------------------------------------------------------
LEMMA InitIsTyped == Init => TypeOK
<1> SUFFICES ASSUME Init PROVE TypeOK
  OBVIOUS
<1>1. clock \in MinClock..MaxClock
  BY ClockAssumption DEF Init
<1>2. GetTimeval \in Nat
  BY <1>1, TicksAreIntegers
<1>3. 0 \in 0..(ID_SPAN - 1)
  BY SizeAssumption
<1> QED
  BY <1>1, <1>2, <1>3 DEF Init, TypeOK, Live

-----------------------------------------------------------------------------
(* The inductive invariant.  The three properties are inductive together,  *)
(* with the fact that no two allocated items bear one TimerID where        *)
(* TimerIDs are not given twice: without it a Clear could erase the map    *)
(* entry of another item.                                                  *)
DistinctIds ==
    IdReuse \/ \A p, q \in Live : heap[p].TimerId = heap[q].TimerId => p = q

ListsInv == /\ TypeOK
            /\ EachItemInOnePlace
            /\ MapNamesPendingItems
            /\ HandlesReachTheirItems
            /\ DistinctIds

LEMMA InitEstablishesLists == Init => ListsInv
<1> SUFFICES ASSUME Init PROVE ListsInv
  OBVIOUS
<1>1. TypeOK
  BY InitIsTyped
<1>2. Live = {} /\ Placed = {} /\ firing = {} /\ DOMAIN m_TimerDataMap = {}
  BY DEF Init, Live, Placed
<1>3. EachItemInOnePlace
  BY <1>2, NoItemAssumption DEF EachItemInOnePlace, Pending, Init
<1> QED
  BY <1>1, <1>2, <1>3
     DEF ListsInv, MapNamesPendingItems, HandlesReachTheirItems, DistinctIds, Pending

(* A new item is in the slot SetTimeout linked it into, and nowhere else.  *)
LEMMA SetTimeoutKeepsLists ==
  ASSUME ListsInv, NEW t \in Timeouts, SetTimeout(t)
  PROVE  ListsInv'
<1> DEFINE id == (m_LastTimerId + 1) % ID_SPAN
           timeval == GetTimeval + Ticks(t)
           to == SlotFor(timeval, m_LastTimeval)
<1>1. id \in 0..(ID_SPAN - 1)
  BY SizeAssumption DEF ListsInv, TypeOK
<1>2. timeval \in Int /\ clock + t \in Int
  BY TicksAreIntegers DEF ListsInv, TypeOK
<1>3. m_LastTimerId' = id /\ (IdReuse \/ \A q \in Live : heap[q].TimerId # id)
  BY DEF SetTimeout
<1>4. UNCHANGED <<clock, m_LastTimeval, checking, now, firing, current>>
  BY DEF SetTimeout
<1> HIDE DEF id, timeval
<1>5. PICK p \in Items \ Live :
        /\ heap' = [q \in Live \cup {p} |->
                        IF q = p
                        THEN [TimerId |-> id, Timeval |-> timeval,
                              deadline |-> clock + t]
                        ELSE heap[q]]
        /\ wheel' = Linked(p, wheel, timeval)
        /\ m_TimerDataMap' =
               [i \in DOMAIN m_TimerDataMap \cup {id} |->
                   IF i \in DOMAIN m_TimerDataMap THEN m_TimerDataMap[i] ELSE p]
  BY DEF SetTimeout, id, timeval
<1>6. /\ wheel' \in [Slots -> SUBSET Items]
      /\ to \in Slots
      /\ wheel'[to] = wheel[to] \cup {p}
      /\ \A s \in Slots \ {to} : wheel'[s] = wheel[s]
  <2>1. wheel \in [Slots -> SUBSET Items] /\ m_LastTimeval \in Int
    BY DEF ListsInv, TypeOK
  <2> QED
    BY <1>2, <1>5, <2>1, LinkedInWheel
<1> HIDE DEF to
<1>7. /\ Live' = Live \cup {p}
      /\ \A q \in Live : heap'[q] = heap[q]
      /\ heap'[p].TimerId = id
      /\ p \notin Live
  BY <1>5 DEF Live
<1>8. Placed' = Placed \cup {p} /\ Pending' = Pending \cup {p}
  BY <1>4, <1>6 DEF Placed, Pending
<1>9. TypeOK'
  <2>1. /\ Live' \subseteq Items
        /\ \A q \in Live' :
             heap'[q] \in [TimerId : 0..(ID_SPAN - 1), Timeval : Int, deadline : Int]
        /\ heap' = [q \in Live' |-> heap'[q]]
    BY <1>1, <1>2, <1>5 DEF ListsInv, TypeOK, Live
  <2>2. /\ DOMAIN m_TimerDataMap' \subseteq 0..(ID_SPAN - 1)
        /\ \A i \in DOMAIN m_TimerDataMap' : m_TimerDataMap'[i] \in Items
        /\ m_TimerDataMap' = [i \in DOMAIN m_TimerDataMap' |-> m_TimerDataMap'[i]]
    BY <1>1, <1>5 DEF ListsInv, TypeOK
  <2> QED
    BY <1>1, <1>3, <1>4, <1>6, <2>1, <2>2 DEF ListsInv, TypeOK
<1>10. EachItemInOnePlace'
  <2>1. p # current /\ p \notin Placed /\ p \notin firing
    BY <1>7, NoItemAssumption DEF ListsInv, EachItemInOnePlace, Pending
  <2>2. Live' = Pending' \cup ({current'} \ {NoItem})
    BY <1>4, <1>7, <1>8 DEF ListsInv, EachItemInOnePlace
  <2>3. \A r, s \in Slots : r # s => wheel'[r] \cap wheel'[s] = {}
    BY <1>6, <2>1 DEF ListsInv, EachItemInOnePlace, Placed
  <2> QED
    BY <1>4, <1>8, <2>1, <2>2, <2>3 DEF ListsInv, EachItemInOnePlace
<1>11. MapNamesPendingItems'
  BY <1>5, <1>7, <1>8
     DEF ListsInv, MapNamesPendingItems, EachItemInOnePlace
<1>12. HandlesReachTheirItems' /\ DistinctIds'
  <2>1. CASE IdReuse
    BY <2>1 DEF HandlesReachTheirItems, DistinctIds
  <2>2. CASE ~IdReuse
    <3>1. id \notin DOMAIN m_TimerDataMap
      BY <1>3, <2>2 DEF ListsInv, MapNamesPendingItems, EachItemInOnePlace
    <3>2. DistinctIds'
      BY <1>3, <1>7, <2>2 DEF ListsInv, DistinctIds
    <3>3. \A q \in Pending' : /\ heap'[q].TimerId \in DOMAIN m_TimerDataMap'
                              /\ m_TimerDataMap'[heap'[q].TimerId] = q
      BY <1>5, <1>7, <1>8, <2>2, <3>1
         DEF ListsInv, HandlesReachTheirItems, EachItemInOnePlace
    <3> QED
      BY <3>2, <3>3 DEF HandlesReachTheirItems
  <2> QED
    BY <2>1, <2>2
<1> QED
  BY <1>9, <1>10, <1>11, <1>12 DEF ListsInv

(* Update and Clear first unlink the item: it is then in no slot.          *)
LEMMA UnlinkedFromWheel ==
  ASSUME wheel \in [Slots -> SUBSET Items], NEW p \in Items
  PROVE  /\ Unlinked(p) \in [Slots -> SUBSET Items]
         /\ \A s \in Slots : Unlinked(p)[s] = wheel[s] \ {p}
  BY DEF Unlinked

LEMMA UpdateKeepsLists ==
  ASSUME ListsInv, NEW id \in DOMAIN m_TimerDataMap, NEW t \in Timeouts, Update(id, t)
  PROVE  ListsInv'
<1> DEFINE p == m_TimerDataMap[id]
           timeval == GetTimeval + Ticks(t)
           to == SlotFor(timeval, m_LastTimeval)
<1>1. p \in Pending /\ p \in Live /\ p # current /\ p \in Items
  BY DEF ListsInv, MapNamesPendingItems, EachItemInOnePlace, TypeOK
<1>2. timeval \in Int /\ clock + t \in Int
  BY TicksAreIntegers DEF ListsInv, TypeOK
<1>3. UNCHANGED <<clock, m_LastTimerId, m_LastTimeval, m_TimerDataMap, checking, now,
                  current>>
  BY DEF Update
<1>4. /\ heap' = [heap EXCEPT ![p].Timeval = timeval, ![p].deadline = clock + t]
      /\ wheel' = Linked(p, Unlinked(p), timeval)
      /\ firing' = firing \ {p}
  BY DEF Update
<1> HIDE DEF p, timeval
<1>5. /\ wheel' \in [Slots -> SUBSET Items]
      /\ to \in Slots
      /\ wheel'[to] = (wheel[to] \ {p}) \cup {p}
      /\ \A s \in Slots \ {to} : wheel'[s] = wheel[s] \ {p}
  <2>1. wheel \in [Slots -> SUBSET Items] /\ m_LastTimeval \in Int
    BY DEF ListsInv, TypeOK
  <2>2. /\ Unlinked(p) \in [Slots -> SUBSET Items]
        /\ \A s \in Slots : Unlinked(p)[s] = wheel[s] \ {p}
    BY <1>1, <2>1, UnlinkedFromWheel
  <2> QED
    BY <1>1, <1>2, <1>4, <2>1, <2>2, LinkedInWheel
<1> HIDE DEF to
<1>6. /\ Live' = Live
      /\ \A q \in Live : heap'[q].TimerId = heap[q].TimerId
      /\ \A q \in Live :
           heap'[q] \in [TimerId : 0..(ID_SPAN - 1), Timeval : Int, deadline : Int]
      /\ heap' = [q \in Live |-> heap'[q]]
  BY <1>1, <1>2, <1>4 DEF ListsInv, TypeOK, Live
<1>7. Pending' = Pending
  <2>1. Placed' = (Placed \ {p}) \cup {p}
    BY <1>5 DEF Placed
  <2> QED
    BY <1>1, <1>4, <2>1 DEF Pending
<1>8. TypeOK'
  BY <1>3, <1>4, <1>5, <1>6 DEF ListsInv, TypeOK
<1>9. EachItemInOnePlace'
  <2>1. \A r, s \in Slots : r # s => wheel'[r] \cap wheel'[s] = {}
    BY <1>5 DEF ListsInv, EachItemInOnePlace
  <2>2. firing' \cap Placed' = {}
    BY <1>4, <1>5 DEF ListsInv, EachItemInOnePlace, Placed
  <2> QED
    BY <1>3, <1>6, <1>7, <2>1, <2>2 DEF ListsInv, EachItemInOnePlace
<1>10. MapNamesPendingItems'
  BY <1>3, <1>6, <1>7 DEF ListsInv, MapNamesPendingItems, EachItemInOnePlace
<1>11. HandlesReachTheirItems' /\ DistinctIds'
  BY <1>3, <1>6, <1>7
     DEF ListsInv, HandlesReachTheirItems, DistinctIds, EachItemInOnePlace
<1> QED
  BY <1>8, <1>9, <1>10, <1>11 DEF ListsInv

LEMMA ClearKeepsLists ==
  ASSUME ListsInv, NEW id \in DOMAIN m_TimerDataMap, Clear(id)
  PROVE  ListsInv'
<1> DEFINE p == m_TimerDataMap[id]
<1>1. /\ p \in Pending /\ p \in Live /\ p # current /\ p \in Items
      /\ heap[p].TimerId = id
  BY DEF ListsInv, MapNamesPendingItems, EachItemInOnePlace, TypeOK
<1>2. UNCHANGED <<clock, m_LastTimerId, m_LastTimeval, checking, now, current>>
  BY DEF Clear
<1>3. /\ wheel' = Unlinked(p)
      /\ firing' = firing \ {p}
      /\ heap' = [q \in Live \ {p} |-> heap[q]]
      /\ m_TimerDataMap' =
            [i \in DOMAIN m_TimerDataMap \ {id} |-> m_TimerDataMap[i]]
  BY DEF Clear
<1>4. p = m_TimerDataMap[id]
  OBVIOUS
<1> HIDE DEF p
<1>5. /\ wheel' \in [Slots -> SUBSET Items]
      /\ \A s \in Slots : wheel'[s] = wheel[s] \ {p}
  BY <1>1, <1>3, UnlinkedFromWheel DEF ListsInv, TypeOK
<1>6. Live' = Live \ {p} /\ \A q \in Live' : heap'[q] = heap[q]
  BY <1>3 DEF Live
<1>7. Pending' = Pending \ {p}
  BY <1>3, <1>5 DEF Placed, Pending
<1>8. TypeOK'
  <2>1. /\ Live' \subseteq Items
        /\ \A q \in Live' :
             heap'[q] \in [TimerId : 0..(ID_SPAN - 1), Timeval : Int, deadline : Int]
        /\ heap' = [q \in Live' |-> heap'[q]]
    BY <1>3, <1>6 DEF ListsInv, TypeOK
  <2>2. /\ DOMAIN m_TimerDataMap' \subseteq 0..(ID_SPAN - 1)
        /\ \A i \in DOMAIN m_TimerDataMap' : m_TimerDataMap'[i] \in Items
        /\ m_TimerDataMap' = [i \in DOMAIN m_TimerDataMap' |-> m_TimerDataMap'[i]]
    BY <1>3 DEF ListsInv, TypeOK
  <2> QED
    BY <1>2, <1>3, <1>5, <2>1, <2>2 DEF ListsInv, TypeOK
<1>9. EachItemInOnePlace'
  <2>1. \A r, s \in Slots : r # s => wheel'[r] \cap wheel'[s] = {}
    BY <1>5 DEF ListsInv, EachItemInOnePlace
  <2>2. firing' \cap Placed' = {}
    BY <1>3, <1>5 DEF ListsInv, EachItemInOnePlace, Placed
  <2> QED
    BY <1>1, <1>2, <1>6, <1>7, <2>1, <2>2 DEF ListsInv, EachItemInOnePlace
<1>10. MapNamesPendingItems'
  BY <1>1, <1>3, <1>6, <1>7 DEF ListsInv, MapNamesPendingItems, EachItemInOnePlace
<1>11. HandlesReachTheirItems' /\ DistinctIds'
  BY <1>1, <1>3, <1>4, <1>6, <1>7
     DEF ListsInv, HandlesReachTheirItems, DistinctIds, EachItemInOnePlace
<1> QED
  BY <1>8, <1>9, <1>10, <1>11 DEF ListsInv

(* A turn cascades, and then takes one slot off the wheel as a list.       *)
LEMMA TurnKeepsLists ==
  ASSUME ListsInv, Turn
  PROVE  ListsInv'
<1> DEFINE slot == Slot(1, m_LastTimeval)
<1>1. /\ current = NoItem /\ firing = {}
      /\ firing' = Cascade[slot]
      /\ wheel' = [Cascade EXCEPT ![slot] = {}]
      /\ m_LastTimeval' = m_LastTimeval + 1
      /\ UNCHANGED <<clock, m_LastTimerId, m_TimerDataMap, heap, checking, now, current>>
  BY DEF Turn
<1>2. slot \in Slots
  BY SlotInWheel DEF ListsInv, TypeOK, Levels
<1>3. /\ Cascade \in [Slots -> SUBSET Items]
      /\ UNION {Cascade[s] : s \in Slots} = Placed
      /\ \A s, t \in Slots : s # t => Cascade[s] \cap Cascade[t] = {}
  BY CascadeKeepsItems DEF ListsInv
<1> HIDE DEF slot
<1>4. /\ wheel' \in [Slots -> SUBSET Items]
      /\ wheel'[slot] = {}
      /\ \A s \in Slots \ {slot} : wheel'[s] = Cascade[s]
  BY <1>1, <1>2, <1>3
<1>5. Pending' = Pending
  <2>1. \A p : p \in Placed' <=> \E s \in Slots : p \in wheel'[s]
    BY DEF Placed
  <2>2. \A p : p \in Placed <=> \E s \in Slots : p \in Cascade[s]
    BY <1>3
  <2>3. \A p : p \in Placed' \cup firing' <=> p \in Placed
    BY <1>1, <1>2, <1>4, <2>1, <2>2
  <2> QED
    BY <1>1, <2>3 DEF Pending
<1>6. TypeOK'
  BY <1>1, <1>2, <1>3, <1>4 DEF ListsInv, TypeOK, Live
<1>7. EachItemInOnePlace'
  <2>1. Live' = Pending' \cup ({current'} \ {NoItem})
    BY <1>1, <1>5 DEF ListsInv, EachItemInOnePlace, Live
  <2>2. \A r, s \in Slots : r # s => wheel'[r] \cap wheel'[s] = {}
    BY <1>3, <1>4
  <2>3. firing' \cap Placed' = {}
    BY <1>1, <1>2, <1>3, <1>4 DEF Placed
  <2>4. current' \notin Pending'
    BY <1>1, <1>5 DEF ListsInv, EachItemInOnePlace
  <2> QED
    BY <2>1, <2>2, <2>3, <2>4 DEF EachItemInOnePlace
<1>8. MapNamesPendingItems' /\ HandlesReachTheirItems' /\ DistinctIds'
  BY <1>1, <1>5
     DEF ListsInv, MapNamesPendingItems, HandlesReachTheirItems, DistinctIds, Live
<1> QED
  BY <1>6, <1>7, <1>8 DEF ListsInv

(* An item leaves the map before its callback starts.                      *)
LEMMA InvokeKeepsLists ==
  ASSUME ListsInv, Invoke
  PROVE  ListsInv'
<1>1. PICK p \in firing :
        /\ current' = p
        /\ firing' = firing \ {p}
        /\ m_TimerDataMap' =
              [i \in DOMAIN m_TimerDataMap \ {heap[p].TimerId} |-> m_TimerDataMap[i]]
  BY DEF Invoke
<1>2. /\ current = NoItem
      /\ UNCHANGED <<clock, m_LastTimerId, m_LastTimeval, heap, wheel, checking, now>>
  BY DEF Invoke
<1>3. p \in Items /\ p \in Live /\ p \in Pending /\ p \notin Placed
  BY DEF ListsInv, TypeOK, EachItemInOnePlace, Pending
<1>4. Pending' = Pending \ {p} /\ Placed' = Placed /\ Live' = Live
  BY <1>1, <1>2, <1>3 DEF Pending, Placed, Live
<1>5. TypeOK'
  <2>1. /\ DOMAIN m_TimerDataMap' \subseteq 0..(ID_SPAN - 1)
        /\ \A i \in DOMAIN m_TimerDataMap' : m_TimerDataMap'[i] \in Items
        /\ m_TimerDataMap' = [i \in DOMAIN m_TimerDataMap' |-> m_TimerDataMap'[i]]
    BY <1>1 DEF ListsInv, TypeOK
  <2> QED
    BY <1>1, <1>2, <1>3, <2>1 DEF ListsInv, TypeOK, Live
<1>6. EachItemInOnePlace'
  BY <1>1, <1>2, <1>3, <1>4, NoItemAssumption DEF ListsInv, EachItemInOnePlace
<1>7. MapNamesPendingItems'
  BY <1>1, <1>2, <1>4 DEF ListsInv, MapNamesPendingItems
<1>8. HandlesReachTheirItems' /\ DistinctIds'
  <2>1. DistinctIds'
    BY <1>2, <1>4 DEF ListsInv, DistinctIds
  <2>2. HandlesReachTheirItems'
    BY <1>1, <1>2, <1>3, <1>4 DEF ListsInv, HandlesReachTheirItems
  <2> QED
    BY <2>1, <2>2
<1> QED
  BY <1>5, <1>6, <1>7, <1>8 DEF ListsInv

(* The item deleted when a callback returns is in no list and not in the map. *)
LEMMA ReturnKeepsLists ==
  ASSUME ListsInv, Return
  PROVE  ListsInv'
<1>1. /\ current # NoItem /\ current' = NoItem
      /\ heap' = [q \in Live \ {current} |-> heap[q]]
      /\ UNCHANGED <<clock, m_LastTimerId, m_LastTimeval, m_TimerDataMap, wheel,
                     checking, now, firing>>
  BY DEF Return
<1>2. Live' = Live \ {current} /\ \A q \in Live' : heap'[q] = heap[q]
  BY <1>1 DEF Live
<1>3. Pending' = Pending /\ Placed' = Placed
  BY <1>1 DEF Pending, Placed
<1>4. current \notin Pending
  BY DEF ListsInv, EachItemInOnePlace
<1>5. TypeOK'
  <2>1. /\ Live' \subseteq Items
        /\ \A q \in Live' :
             heap'[q] \in [TimerId : 0..(ID_SPAN - 1), Timeval : Int, deadline : Int]
        /\ heap' = [q \in Live' |-> heap'[q]]
    BY <1>1, <1>2 DEF ListsInv, TypeOK
  <2> QED
    BY <1>1, <2>1 DEF ListsInv, TypeOK
<1>6. EachItemInOnePlace'
  <2>1. current' \notin Pending'
    BY <1>1, <1>3, NoItemAssumption DEF ListsInv, EachItemInOnePlace, Pending, Placed, TypeOK
  <2> QED
    BY <1>1, <1>2, <1>3, <1>4, <2>1 DEF ListsInv, EachItemInOnePlace
<1>7. MapNamesPendingItems'
  BY <1>1, <1>2, <1>3, <1>4 DEF ListsInv, MapNamesPendingItems, EachItemInOnePlace
<1>8. HandlesReachTheirItems' /\ DistinctIds'
  BY <1>1, <1>2, <1>3, <1>4
     DEF ListsInv, HandlesReachTheirItems, DistinctIds, EachItemInOnePlace
<1> QED
  BY <1>5, <1>6, <1>7, <1>8 DEF ListsInv

(* Reading the clock, leaving the loop and the passing of time touch none  *)
(* of the lists.                                                           *)
LEMMA OthersKeepLists ==
  ASSUME ListsInv,
         CheckTimer \/ CheckDone \/ (\E d \in ClockSteps : ClockMoves(d)) \/ UNCHANGED vars
  PROVE  ListsInv'
<1>1. UNCHANGED <<m_LastTimerId, m_LastTimeval, m_TimerDataMap, heap, wheel, firing, current>>
  BY DEF CheckTimer, CheckDone, ClockMoves, vars
<1>2. /\ clock' \in MinClock..MaxClock
      /\ checking' \in BOOLEAN
      /\ now' \in Nat
  <2>1. /\ clock \in MinClock..MaxClock
        /\ checking \in BOOLEAN
        /\ now \in Nat
    BY DEF ListsInv, TypeOK
  <2>2. CASE CheckTimer
    BY <2>1, <2>2, TicksAreIntegers DEF CheckTimer
  <2>3. CASE CheckDone
    BY <2>1, <2>3 DEF CheckDone
  <2>4. CASE \E d \in ClockSteps : ClockMoves(d)
    BY <2>1, <2>4 DEF ClockMoves
  <2>5. CASE UNCHANGED vars
    BY <2>1, <2>5 DEF vars
  <2> QED
    BY <2>2, <2>3, <2>4, <2>5
<1>3. Live' = Live /\ Placed' = Placed /\ Pending' = Pending
  BY <1>1 DEF Live, Placed, Pending
<1>4. TypeOK'
  BY <1>1, <1>2, <1>3 DEF ListsInv, TypeOK
<1>5. EachItemInOnePlace'
  BY <1>1, <1>3 DEF ListsInv, EachItemInOnePlace
<1>6. MapNamesPendingItems' /\ HandlesReachTheirItems' /\ DistinctIds'
  BY <1>1, <1>3 DEF ListsInv, MapNamesPendingItems, HandlesReachTheirItems, DistinctIds
<1> QED
  BY <1>4, <1>5, <1>6 DEF ListsInv

LEMMA ListsStep == ListsInv /\ [Next]_vars => ListsInv'
<1> SUFFICES ASSUME ListsInv, [Next]_vars PROVE ListsInv'
  OBVIOUS
<1>1. ASSUME NEW t \in Timeouts, SetTimeout(t) PROVE ListsInv'
  BY <1>1, SetTimeoutKeepsLists
<1>2. ASSUME NEW id \in DOMAIN m_TimerDataMap, NEW t \in Timeouts, Update(id, t)
      PROVE  ListsInv'
  BY <1>2, UpdateKeepsLists
<1>3. ASSUME NEW id \in DOMAIN m_TimerDataMap, Clear(id) PROVE ListsInv'
  BY <1>3, ClearKeepsLists
<1>4. CASE Turn
  BY <1>4, TurnKeepsLists
<1>5. CASE Invoke
  BY <1>5, InvokeKeepsLists
<1>6. CASE Return
  BY <1>6, ReturnKeepsLists
<1>7. CASE CheckTimer \/ CheckDone \/ (\E d \in ClockSteps : ClockMoves(d)) \/ UNCHANGED vars
  BY <1>7, OthersKeepLists
<1> QED
  BY <1>1, <1>2, <1>3, <1>4, <1>5, <1>6, <1>7 DEF Next

(* The lists and the map of the wheel are sound in every reachable state.  *)
THEOREM ListsSound == Spec => []ListsInv
BY InitEstablishesLists, ListsStep, PTL DEF Spec

(* The wheel, the heap and the map keep their types: in particular every   *)
(* slot the code computes is a slot of one of the five vectors.            *)
THEOREM TimerTypeCorrect == Spec => []TypeOK
<1>1. ListsInv => TypeOK
  BY DEF ListsInv
<1> QED
  BY <1>1, ListsSound, PTL

(* However callbacks set, move and clear timers while their own list is    *)
(* being run, every allocated item is in exactly one list.                 *)
THEOREM TimerListsOwnHeap == Spec => []EachItemInOnePlace
<1>1. ListsInv => EachItemInOnePlace
  BY DEF ListsInv
<1> QED
  BY <1>1, ListsSound, PTL

(* No entry of the map dangles, even after the TimerIDs have wrapped.      *)
THEOREM TimerMapSound == Spec => []MapNamesPendingItems
<1>1. ListsInv => MapNamesPendingItems
  BY DEF ListsInv
<1> QED
  BY <1>1, ListsSound, PTL

(* A TimerID reaches its item until the callback starts, as long as no     *)
(* TimerID is given twice.                                                 *)
THEOREM TimerHandlesReach == Spec => []HandlesReachTheirItems
<1>1. ListsInv => HandlesReachTheirItems
  BY DEF ListsInv
<1> QED
  BY <1>1, ListsSound, PTL
-----------------------------------------------------------------------------
(* The geometry of the wheel, for the order in which ticks are run.        *)

LEMMA DivisionIn ==
  ASSUME NEW n \in Nat \ {0}, NEW a \in Nat
  PROVE  /\ a \div n \in Nat
         /\ a % n \in 0..(n - 1)
         /\ a = n * (a \div n) + (a % n)
OBVIOUS

LEMMA Products ==
  ASSUME NEW n \in Nat, NEW x \in Nat
  PROVE  n * x \in Nat /\ n * (x + 1) = n * x + n
OBVIOUS

(* Quotient and remainder are the only ones.                               *)
LEMMA QuotientIs ==
  ASSUME NEW n \in Nat \ {0}, NEW q \in Nat, NEW m \in 0..(n - 1)
  PROVE  (n * q + m) \div n = q /\ (n * q + m) % n = m
<1>1. ASSUME NEW x \in Nat, NEW y \in Nat, x < y
      PROVE  n * x + n <= n * y
  <2>1. PICK z \in Nat : y = x + 1 + z
    <3>1. y - x - 1 \in Nat /\ y = x + 1 + (y - x - 1)
      BY <1>1
    <3> QED
      BY <3>1
  <2>2. n * y = n * x + n + n * z
    BY <2>1
  <2>3. n * x \in Nat /\ n * z \in Nat
    BY Products
  <2> QED
    BY <2>2, <2>3
<1>2. n * q \in Nat /\ m \in Nat /\ m < n
  BY Products
<1>3. PICK a \in Nat : a = n * q + m
  BY <1>2
<1>4. PICK d \in Nat, r \in Nat : d = a \div n /\ r = a % n /\ r < n /\ a = n * d + r
  <2>1. a \div n \in Nat /\ a % n \in 0..(n - 1) /\ a = n * (a \div n) + (a % n)
    BY DivisionIn
  <2> QED
    BY <2>1
<1>5. n * d \in Nat
  BY Products
<1>6. /\ d < q => n * d + n <= n * q
      /\ q < d => n * q + n <= n * d
  BY <1>1
<1>7. d = q
  BY <1>2, <1>3, <1>4, <1>5, <1>6
<1>8. r = m
  BY <1>2, <1>3, <1>4, <1>5, <1>7
<1> QED
  BY <1>3, <1>4, <1>7, <1>8

LEMMA QuotientOfProduct ==
  ASSUME NEW n \in Nat \ {0}, NEW q \in Nat
  PROVE  (n * q) \div n = q /\ (n * q) % n = 0
<1>1. PICK p \in Nat : p = n * q
  BY Products
<1>2. (n * q + 0) \div n = q /\ (n * q + 0) % n = 0
  BY QuotientIs
<1>3. p + 0 = p
  OBVIOUS
<1> QED
  BY <1>1, <1>2, <1>3

(* A slot of a level stands for the ticks of all slots of the level below. *)
LEMMA UnitSteps ==
  /\ Unit[1] = 1
  /\ \A l \in Levels : Unit[l] \in Nat \ {0} /\ Unit[l + 1] \in Nat \ {0}
  /\ \A l \in Levels : Size(l) \in Nat \ {0} /\ Unit[l + 1] = Unit[l] * Size(l)
<1>1. /\ Unit[1] = 1 /\ Unit[2] = TVR_SIZE
      /\ Unit[3] = Unit[2] * TVN_SIZE
      /\ Unit[4] = Unit[3] * TVN_SIZE
      /\ Unit[5] = Unit[4] * TVN_SIZE
      /\ Unit[6] = Unit[5] * TVN_SIZE
  BY DEF Unit
<1>2. TVR_SIZE \in Nat \ {0} /\ TVN_SIZE \in Nat \ {0}
  BY SizeAssumption
<1>3. \A l \in Levels : Unit[l] \in Nat \ {0} /\ Unit[l + 1] \in Nat \ {0}
  BY UnitPositive DEF Levels
<1>4. ASSUME NEW l \in Levels
      PROVE  Size(l) \in Nat \ {0} /\ Unit[l + 1] = Unit[l] * Size(l)
  <2>1. Size(l) \in Nat \ {0}
    BY <1>2 DEF Size
  <2>2. CASE l = 1
    BY <1>1, <1>2, <2>2 DEF Size
  <2>3. CASE l # 1
    <3>1. l \in {2, 3, 4, 5} /\ Size(l) = TVN_SIZE
      BY <2>3 DEF Levels, Size
    <3> QED
      BY <1>1, <2>1, <3>1
  <2> QED
    BY <2>1, <2>2, <2>3
<1> QED
  BY <1>1, <1>3, <1>4

(* A level's unit is a multiple of those of the whole levels below.        *)
LEMMA UnitsDivide ==
  ASSUME NEW k \in Levels, NEW l \in Levels, k < l
  PROVE  \E m \in Nat \ {0} : Unit[l] = Unit[k] * Size(k) * m
<1>1. \A a, b \in Nat \ {0} : a * b \in Nat \ {0}
  OBVIOUS
<1>2. \A a, b, c \in Nat : a * b * c = a * (b * c)
  OBVIOUS
<1> DEFINE Divides(j) == \E m \in Nat \ {0} : Unit[j] = Unit[k + 1] * m
<1>3. Unit[k + 1] \in Nat \ {0}
  BY UnitSteps
<1>4. Divides(k + 1)
  <2>1. Unit[k + 1] = Unit[k + 1] * 1
    BY <1>3
  <2> QED
    BY <2>1
<1>5. ASSUME NEW j \in Levels, Divides(j) PROVE Divides(j + 1)
  <2>1. PICK m \in Nat \ {0} : Unit[j] = Unit[k + 1] * m
    BY <1>5
  <2>2. Unit[j + 1] = Unit[k + 1] * m * Size(j) /\ Size(j) \in Nat \ {0}
    BY <2>1, UnitSteps
  <2>3. Unit[j + 1] = Unit[k + 1] * (m * Size(j))
    BY <1>2, <1>3, <2>2
  <2>4. m * Size(j) \in Nat \ {0}
    BY <1>1, <2>2
  <2> QED
    BY <2>3, <2>4
<1> HIDE DEF Divides
<1>6. Divides(l)
  <2>1. \A j \in {2, 3, 4} : Divides(j) => Divides(j + 1)
    BY <1>5 DEF Levels
  <2>2. /\ Divides(2) => Divides(3)
        /\ Divides(3) => Divides(4)
        /\ Divides(4) => Divides(5)
    BY <2>1
  <2>3. k = 1 \/ k = 2 \/ k = 3 \/ k = 4
    BY DEF Levels
  <2>4. l = 2 \/ l = 3 \/ l = 4 \/ l = 5
    BY DEF Levels
  <2>5. CASE k = 1
    BY <1>4, <2>2, <2>4, <2>5
  <2>6. CASE k = 2
    BY <1>4, <2>2, <2>4, <2>6
  <2>7. CASE k = 3
    BY <1>4, <2>2, <2>4, <2>7
  <2>8. CASE k = 4
    BY <1>4, <2>2, <2>4, <2>8
  <2> QED
    BY <2>3, <2>5, <2>6, <2>7, <2>8
<1> QED
  BY <1>6, UnitSteps DEF Divides

(* At the first tick of a slot's time CheckTimer cascades its level.       *)
LEMMA CascadesWhenDue ==
  ASSUME NEW l \in 2..5, NEW last \in Nat, last % Unit[l] = 0
  PROVE  l \in Cascading(last)
<1> SUFFICES ASSUME NEW k \in 1..(l - 1) PROVE Index(k, last) = 0
  BY DEF Cascading
<1>1. k \in Levels /\ l \in Levels /\ k < l
  BY DEF Levels
<1>2. PICK u \in Nat \ {0} : u = Unit[l]
  BY <1>1, UnitSteps
<1>3. PICK v \in Nat \ {0}, s \in Nat \ {0} : v = Unit[k] /\ s = Size(k)
  BY <1>1, UnitSteps
<1>4. PICK m \in Nat \ {0} : u = v * s * m
  BY <1>1, <1>2, <1>3, UnitsDivide
<1>5. PICK q \in Nat : last = u * q
  <2>1. last = u * (last \div u) + (last % u) /\ last \div u \in Nat
    BY DivisionIn
  <2>2. u * (last \div u) \in Nat
    BY <2>1, Products
  <2> QED
    BY <1>2, <2>1, <2>2
<1>6. last = v * (s * (m * q)) /\ m * q \in Nat /\ s * (m * q) \in Nat
  <2>1. m * q \in Nat /\ s * (m * q) \in Nat
    BY Products
  <2>2. v * s * m * q = v * (s * (m * q))
    OBVIOUS
  <2> QED
    BY <1>4, <1>5, <2>1, <2>2
<1>7. last \div v = s * (m * q)
  BY <1>6, QuotientOfProduct
<1>8. (s * (m * q)) % s = 0
  BY <1>6, QuotientOfProduct
<1> QED
  BY <1>3, <1>7, <1>8 DEF Index

(* The time of the slot for a tick: it began at most a unit before.        *)
LEMMA SlotBegins ==
  ASSUME NEW l \in Levels, NEW time \in Nat
  PROVE  \E c \in Nat : /\ c <= time /\ time < c + Unit[l]
                        /\ c % Unit[l] = 0
                        /\ Slot(l, c) = Slot(l, time)
<1>1. PICK u \in Nat \ {0} : u = Unit[l]
  BY UnitSteps
<1>2. PICK q \in Nat : q = time \div u
  BY DivisionIn
<1>3. time = u * q + (time % u) /\ time % u \in 0..(u - 1)
  BY <1>2, DivisionIn
<1>4. PICK c \in Nat : c = u * q
  BY Products
<1>5. c <= time /\ time < c + u
  BY <1>3, <1>4
<1>6. c \div u = q /\ c % u = 0
  BY <1>4, QuotientOfProduct
<1>7. Index(l, c) = Index(l, time)
  BY <1>1, <1>2, <1>6 DEF Index
<1> QED
  BY <1>1, <1>5, <1>6, <1>7 DEF Slot

(* A whole turn of a level later it is the same slot.                      *)
LEMMA SlotComesRound ==
  ASSUME NEW l \in Levels, NEW c \in Nat, c % Unit[l] = 0
  PROVE  /\ (c + Unit[l + 1]) % Unit[l] = 0
         /\ Slot(l, c + Unit[l + 1]) = Slot(l, c)
<1>1. PICK u \in Nat \ {0}, s \in Nat \ {0} :
          u = Unit[l] /\ s = Size(l) /\ Unit[l + 1] = u * s
  BY UnitSteps
<1>2. PICK q \in Nat : c = u * q
  <2>1. c = u * (c \div u) + (c % u) /\ c \div u \in Nat
    BY DivisionIn
  <2>2. u * (c \div u) \in Nat
    BY <2>1, Products
  <2> QED
    BY <1>1, <2>1, <2>2
<1>3. c + Unit[l + 1] = u * (q + s)
  BY <1>1, <1>2
<1>4. PICK later \in Nat : later = q + s
  OBVIOUS
<1>5. (u * later) \div u = later /\ (u * later) % u = 0 /\ c \div u = q
  BY <1>2, QuotientOfProduct
<1>6. later % s = q % s
  <2>1. q = s * (q \div s) + (q % s) /\ q \div s \in Nat /\ q % s \in 0..(s - 1)
    BY DivisionIn
  <2>2. PICK d \in Nat, r \in 0..(s - 1) : d = q \div s /\ r = q % s /\ q = s * d + r
    BY <2>1
  <2>3. s * (d + 1) = s * d + s /\ s * d \in Nat
    BY Products
  <2>4. later = s * (d + 1) + r
    BY <1>4, <2>2, <2>3
  <2>5. (s * (d + 1) + r) % s = r
    BY QuotientIs
  <2> QED
    BY <2>2, <2>4, <2>5
<1>7. Index(l, c + Unit[l + 1]) = Index(l, c)
  BY <1>1, <1>3, <1>4, <1>5, <1>6 DEF Index
<1> QED
  BY <1>1, <1>3, <1>4, <1>5, <1>7 DEF Slot

-----------------------------------------------------------------------------
(* When the items of the wheel are run.                                    *)

(* The next turn takes the slot, or a cascade takes it at a tick that has  *)
(* not passed and is not after the item's own.                             *)
Taken(s, timeval, last) ==
  \/ s = Slot(1, last)
  \/ \E c \in Nat : /\ last <= c /\ c <= timeval
                    /\ c % Unit[s[1]] = 0
                    /\ s = Slot(s[1], c)

(* The slot is not run before the item's tick.                             *)
NotBefore(s, timeval, last) == s[1] = 1 =>
  \/ timeval <= last /\ s = Slot(1, last)
  \/ last < timeval /\ timeval < last + Unit[2] /\ s = Slot(1, timeval)

OnTime(s, timeval, last) == Taken(s, timeval, last) /\ NotBefore(s, timeval, last)

WheelOnTime ==
  \A s \in Slots : \A p \in wheel[s] : OnTime(s, heap[p].Timeval, m_LastTimeval)

LEMMA SlotParts ==
  ASSUME NEW s \in Slots
  PROVE  s[1] \in Levels
BY DEF Slots, Levels

(* Within a turn of the first vector no two ticks share a slot.            *)
LEMMA FirstSlots ==
  ASSUME NEW last \in Nat, NEW time \in Nat, last < time, time < last + Unit[2]
  PROVE  Slot(1, time) # Slot(1, last)
<1>1. PICK n \in Nat \ {0} : n = TVR_SIZE /\ Unit[1] = 1 /\ Unit[2] = n
  BY SizeAssumption DEF Unit
<1>2. Index(1, time) = time % n /\ Index(1, last) = last % n
  <2>1. \A a \in Nat : a \div 1 = a
    OBVIOUS
  <2> QED
    BY <1>1, <2>1 DEF Index, Size
<1>3. PICK q \in Nat, m \in 0..(n - 1) : q = last \div n /\ m = last % n /\ last = n * q + m
  BY DivisionIn
<1>4. PICK d \in Nat : time = last + d /\ 0 < d /\ d < n
  <2>1. time - last \in Nat /\ time = last + (time - last)
    OBVIOUS
  <2> QED
    BY <1>1, <2>1
<1>5. n * q \in Nat /\ n * (q + 1) = n * q + n
  BY Products
<1>6. CASE m + d < n
  <2>1. time = n * q + (m + d) /\ m + d \in 0..(n - 1)
    BY <1>3, <1>4, <1>5, <1>6
  <2>2. time % n = m + d
    BY <2>1, QuotientIs
  <2> QED
    BY <1>2, <1>3, <1>4, <2>2 DEF Slot
<1>7. CASE n <= m + d
  <2>1. PICK r \in 0..(n - 1) : r = m + d - n
    <3>1. m + d - n \in 0..(n - 1)
      BY <1>4, <1>7
    <3> QED
      BY <3>1
  <2>2. PICK k \in Nat : k = q + 1
    OBVIOUS
  <2>3. time = n * k + r
    BY <1>3, <1>4, <1>5, <2>1, <2>2
  <2>4. time % n = r
    BY <2>3, QuotientIs
  <2> QED
    BY <1>2, <1>3, <1>4, <2>1, <2>4 DEF Slot
<1> QED
  BY <1>4, <1>6, <1>7

(* The slot of a far level: it is cascaded later, and not after the item's *)
(* tick.                                                                   *)
LEMMA FarSlot ==
  ASSUME NEW l \in Levels, NEW last \in Nat, NEW time \in Nat, last + Unit[l] <= time
  PROVE  \E c \in Nat : /\ last < c /\ c <= time /\ c % Unit[l] = 0
                        /\ Slot(l, time) = Slot(l, c)
<1>1. Unit[l] \in Nat \ {0}
  BY UnitSteps
<1>2. PICK c \in Nat : /\ c <= time /\ time < c + Unit[l]
                       /\ c % Unit[l] = 0
                       /\ Slot(l, c) = Slot(l, time)
  BY SlotBegins
<1>3. last < c
  BY <1>1, <1>2
<1> QED
  BY <1>2, <1>3

(* An item too far ahead for the wheel is put as far ahead as the wheel    *)
(* goes: it is cascaded before its tick, and then put ahead again.         *)
LEMMA ClampedSlot ==
  ASSUME NEW last \in Nat, NEW time \in Nat, last + Unit[6] <= time
  PROVE  \E c \in Nat : /\ last < c /\ c <= time /\ c % Unit[5] = 0
                        /\ Slot(5, last + MAX_TVAL) = Slot(5, c)
<1>1. PICK u \in Nat \ {0}, w \in Nat \ {0} : u = Unit[5] /\ w = Unit[6] /\ u <= w
  <2>1. 5 \in Levels /\ 5 + 1 = 6
    BY DEF Levels
  <2>2. PICK u \in Nat \ {0}, s \in Nat \ {0}, w \in Nat \ {0} :
            u = Unit[5] /\ s = Size(5) /\ w = Unit[6] /\ w = u * s
    BY <2>1, UnitSteps
  <2>3. u <= u * s
    <3>1. s - 1 \in Nat /\ s = (s - 1) + 1
      OBVIOUS
    <3>2. u * s = u * (s - 1) + u /\ u * (s - 1) \in Nat
      BY <3>1, Products
    <3> QED
      BY <3>2
  <2> QED
    BY <2>2, <2>3
<1>2. PICK far \in Nat : far = last + MAX_TVAL /\ far + 1 = last + w
  BY <1>1 DEF MAX_TVAL
<1>0. 5 \in Levels
  BY DEF Levels
<1>3. PICK c \in Nat : /\ c <= far /\ far < c + u /\ c % Unit[5] = 0
                       /\ Slot(5, c) = Slot(5, far)
  BY <1>0, <1>1, SlotBegins
<1>4. last <= c
  BY <1>1, <1>2, <1>3
<1>5. CASE last < c
  BY <1>1, <1>2, <1>3, <1>5
<1>6. CASE last = c
  <2>1. (c + Unit[5 + 1]) % Unit[5] = 0 /\ Slot(5, c + Unit[5 + 1]) = Slot(5, c)
    BY <1>0, <1>3, SlotComesRound
  <2>2. PICK later \in Nat : later = c + w
    OBVIOUS
  <2>3. last < later /\ later <= time
    BY <1>1, <1>6, <2>2
  <2>4. later % Unit[5] = 0 /\ Slot(5, later) = Slot(5, far)
    BY <1>1, <1>3, <2>1, <2>2
  <2> QED
    BY <1>2, <2>3, <2>4
<1> QED
  BY <1>4, <1>5, <1>6

(* InternalAddTimerItem puts an item where it is run on time, and if the   *)
(* next turn does not take it, it is still on time after that turn.        *)
LEMMA SlotForOnTime ==
  ASSUME NEW timeval \in Int, NEW last \in Nat
  PROVE  /\ OnTime(SlotFor(timeval, last), timeval, last)
         /\ \/ SlotFor(timeval, last) = Slot(1, last)
            \/ last < timeval /\ Taken(SlotFor(timeval, last), timeval, last + 1)
<1> DEFINE s == SlotFor(timeval, last)
<1>1. \A l : \A time : Slot(l, time)[1] = l
  BY DEF Slot
<1>2. /\ Unit[1] = 1
      /\ \A l \in 1..6 : Unit[l] \in Nat \ {0}
  BY UnitSteps, UnitPositive
<1>3. CASE timeval <= last
  <2>1. s = Slot(1, last)
    <3>1. CASE timeval < last
      BY <3>1 DEF SlotFor
    <3>2. CASE timeval = last
      BY <1>2, <3>2 DEF SlotFor
    <3> QED
      BY <1>3, <3>1, <3>2
  <2> QED
    BY <1>3, <2>1 DEF OnTime, Taken, NotBefore
<1>4. CASE last < timeval /\ timeval - last < Unit[2]
  <2>1. s = Slot(1, timeval) /\ timeval \in Nat
    BY <1>4 DEF SlotFor
  <2>2. timeval % Unit[1] = 0
    <3>1. timeval % 1 = 0
      BY <2>1
    <3> QED
      BY <1>2, <3>1
  <2>3. s[1] = 1 /\ last + 1 <= timeval /\ last <= timeval /\ timeval <= timeval
    BY <1>1, <1>4, <2>1
  <2>4. Taken(s, timeval, last) /\ Taken(s, timeval, last + 1)
    BY <2>1, <2>2, <2>3 DEF Taken
  <2>5. NotBefore(s, timeval, last)
    BY <1>2, <1>4, <2>1 DEF NotBefore
  <2> QED
    BY <1>4, <2>4, <2>5 DEF OnTime
<1>5. CASE last < timeval /\ ~(timeval - last < Unit[2])
  <2>0. PICK time \in Nat : time = timeval
    BY <1>5
  <2>1. PICK l \in 2..5, c \in Nat : /\ last < c /\ c <= time /\ c % Unit[l] = 0
                                     /\ s = Slot(l, c)
    <3>1. ASSUME NEW l \in 2..5, s = Slot(l, time), last + Unit[l] <= time
          PROVE  \E c \in Nat : last < c /\ c <= time /\ c % Unit[l] = 0 /\ s = Slot(l, c)
      BY <3>1, FarSlot DEF Levels
    <3>2. \/ s = Slot(2, time) /\ last + Unit[2] <= time
          \/ s = Slot(3, time) /\ last + Unit[3] <= time
          \/ s = Slot(4, time) /\ last + Unit[4] <= time
          \/ s = Slot(5, time) /\ last + Unit[5] <= time
          \/ s = Slot(5, last + MAX_TVAL) /\ last + Unit[6] <= time
      BY <1>2, <1>5, <2>0 DEF SlotFor, MAX_TVAL
    <3>3. 2 \in 2..5 /\ 3 \in 2..5 /\ 4 \in 2..5 /\ 5 \in 2..5
      OBVIOUS
    <3>4. CASE s = Slot(5, last + MAX_TVAL) /\ last + Unit[6] <= time
      BY <3>3, <3>4, ClampedSlot
    <3> HIDE DEF s
    <3> QED
      BY <3>1, <3>2, <3>3, <3>4
  <2>2. s[1] = l /\ l # 1
    BY <1>1, <2>1
  <2>3. last <= c /\ last + 1 <= c
    BY <2>1
  <2>4. Taken(s, timeval, last) /\ Taken(s, timeval, last + 1)
    BY <2>0, <2>1, <2>2, <2>3 DEF Taken
  <2>5. NotBefore(s, timeval, last)
    BY <2>2 DEF NotBefore
  <2> QED
    BY <1>5, <2>4, <2>5 DEF OnTime
<1> QED
  BY <1>3, <1>4, <1>5

(* A slot that a turn does not take is still on time after it.             *)
LEMMA StillOnTime ==
  ASSUME NEW s \in Slots, NEW timeval \in Int, NEW last \in Nat,
         NotBefore(s, timeval, last), s # Slot(1, last),
         Taken(s, timeval, last + 1)
  PROVE  OnTime(s, timeval, last + 1)
<1>1. ASSUME s[1] = 1
      PROVE  \/ timeval <= last + 1 /\ s = Slot(1, last + 1)
             \/ /\ last + 1 < timeval /\ timeval < last + 1 + Unit[2]
                /\ s = Slot(1, timeval)
  <2>1. last < timeval /\ timeval < last + Unit[2] /\ s = Slot(1, timeval)
    BY <1>1 DEF NotBefore
  <2>2. Unit[2] \in Nat
    BY UnitPositive
  <2>3. CASE timeval = last + 1
    BY <2>1, <2>3
  <2>4. CASE timeval # last + 1
    BY <2>1, <2>2, <2>4
  <2> QED
    BY <2>3, <2>4
<1> QED
  BY <1>1 DEF OnTime, NotBefore

(* A cascade leaves no item behind: what is due by the tick is in the slot *)
(* the turn takes, nothing else is, and all others are on time after it.   *)
LEMMA CascadeOnTime ==
  ASSUME TypeOK, EachItemInOnePlace, WheelOnTime
  PROVE  /\ \A p \in Cascade[Slot(1, m_LastTimeval)] : heap[p].Timeval <= m_LastTimeval
         /\ \A s \in Slots \ {Slot(1, m_LastTimeval)} : \A p \in Cascade[s] :
               /\ m_LastTimeval < heap[p].Timeval
               /\ OnTime(s, heap[p].Timeval, m_LastTimeval + 1)
<1> DEFINE last == m_LastTimeval
           emptied == {Slot(l, last) : l \in Cascading(last)}
           moved == UNION {wheel[s] : s \in emptied}
<1>1. last \in Nat
  BY DEF TypeOK
<1>2. /\ \A l \in Cascading(last) : l \in Levels
      /\ emptied \subseteq Slots
      /\ Slot(1, last) \in Slots
  <2>1. \A l \in Cascading(last) : l \in Levels
    BY DEF Cascading, Levels
  <2>2. 1 \in Levels
    BY DEF Levels
  <2> QED
    BY <1>1, <2>1, <2>2, SlotInWheel
<1>3. \A s \in Slots : \A p \in wheel[s] :
          heap[p].Timeval \in Int /\ OnTime(s, heap[p].Timeval, last)
  <2>1. \A s \in Slots : wheel[s] \subseteq Live
    BY DEF EachItemInOnePlace, Pending, Placed
  <2>2. \A p \in Live : heap[p].Timeval \in Int
    BY DEF TypeOK
  <2> QED
    BY <2>1, <2>2 DEF WheelOnTime
<1>4. ASSUME NEW s \in Slots, NEW p \in Cascade[s]
      PROVE  /\ heap[p].Timeval \in Int
             /\ OnTime(s, heap[p].Timeval, last)
             /\ \/ s \notin emptied
                \/ s = SlotFor(heap[p].Timeval, last)
  <2>1. Cascade[s] = (IF s \in emptied THEN {} ELSE wheel[s])
                     \cup {q \in moved : SlotFor(heap[q].Timeval, last) = s}
    BY DEF Cascade
  <2>2. CASE s \notin emptied /\ p \in wheel[s]
    BY <1>3, <2>2
  <2>3. CASE p \in moved /\ SlotFor(heap[p].Timeval, last) = s
    <3>1. heap[p].Timeval \in Int
      BY <1>2, <1>3, <2>3
    <3> QED
      BY <1>1, <2>3, <3>1, SlotForOnTime
  <2> HIDE DEF emptied, moved
  <2> QED
    BY <1>4, <2>1, <2>2, <2>3
<1>5. \A l \in 2..5 : last % Unit[l] = 0 => Slot(l, last) \in emptied
  BY <1>1, CascadesWhenDue
<1> HIDE DEF emptied, moved, last
<1>6. ASSUME NEW p \in Cascade[Slot(1, last)] PROVE heap[p].Timeval <= last
  <2>1. PICK timeval \in Int : timeval = heap[p].Timeval /\ NotBefore(Slot(1, last), timeval, last)
    BY <1>2, <1>4, <1>6 DEF OnTime
  <2>2. Slot(1, last)[1] = 1
    BY DEF Slot
  <2>3. ~(last < timeval /\ timeval < last + Unit[2] /\ Slot(1, last) = Slot(1, timeval))
    BY <1>1, <2>1, FirstSlots
  <2> QED
    BY <2>1, <2>2, <2>3 DEF NotBefore
<1>7. ASSUME NEW s \in Slots \ {Slot(1, last)}, NEW p \in Cascade[s]
      PROVE  last < heap[p].Timeval /\ OnTime(s, heap[p].Timeval, last + 1)
  <2>1. PICK timeval \in Int : timeval = heap[p].Timeval /\ OnTime(s, timeval, last)
    BY <1>4, <1>7
  <2>2. last < timeval /\ Taken(s, timeval, last + 1)
    <3>1. CASE s = SlotFor(timeval, last)
      BY <1>1, <3>1, SlotForOnTime
    <3>2. CASE s \notin emptied
      <4>1. PICK c \in Nat : /\ last <= c /\ c <= timeval
                             /\ c % Unit[s[1]] = 0 /\ s = Slot(s[1], c)
        BY <2>1 DEF OnTime, Taken
      <4>2. c # last
        <5>1. s[1] = 1 \/ s[1] \in 2..5
          BY SlotParts DEF Levels
        <5> QED
          BY <1>5, <3>2, <4>1, <5>1
      <4>3. last < c /\ last + 1 <= c
        BY <1>1, <4>1, <4>2
      <4>4. last < timeval
        BY <1>1, <4>1, <4>3
      <4> QED
        BY <4>1, <4>3, <4>4 DEF Taken
    <3> QED
      BY <1>4, <1>7, <2>1, <3>1, <3>2
  <2>3. OnTime(s, timeval, last + 1)
    BY <1>1, <2>1, <2>2, StillOnTime DEF OnTime
  <2> QED
    BY <2>1, <2>2, <2>3
<1> QED
  BY <1>6, <1>7 DEF last

(* The callbacks that run were due, at a tick the clock had passed.        *)
RunsWhatIsDue ==
  /\ firing # {} \/ current # NoItem => checking /\ m_LastTimeval <= now
  /\ \A p \in firing \cup ({current} \ {NoItem}) : heap[p].Timeval < m_LastTimeval

(* Cutting the clock and the timeout to ticks loses less than two ticks.   *)
DeadlinesCut ==
  \A p \in Live : heap[p].deadline + 2 <= Interval * (heap[p].Timeval + 2)

(* The deadline of an item lies less than two ticks after its tick.        *)
LEMMA TicksCut ==
  ASSUME clock \in MinClock..MaxClock, NEW t \in Timeouts
  PROVE  clock + t + 2 <= Interval * (GetTimeval + Ticks(t) + 2)
<1>1. clock \in Nat /\ t \in Int
  BY ClockAssumption, TimeoutAssumption
<1>2. PICK n \in Nat \ {0} : n = Interval
  BY SizeAssumption
<1>3. PICK q \in Nat, m \in 0..(n - 1) : q = GetTimeval /\ clock = n * q + m
  <2>1. /\ clock \div n \in Nat /\ clock % n \in 0..(n - 1)
        /\ clock = n * (clock \div n) + (clock % n)
    BY <1>1, DivisionIn
  <2> QED
    BY <1>2, <2>1 DEF GetTimeval
<1>4. PICK nq \in Nat : nq = n * q
  BY Products
<1>5. CASE t >= 0
  <2>1. PICK k \in Nat, r \in 0..(n - 1) : k = t \div n /\ t = n * k + r
    <3>0. t \in Nat
      BY <1>1, <1>5
    <3>1. /\ t \div n \in Nat /\ t % n \in 0..(n - 1)
          /\ t = n * (t \div n) + (t % n)
      BY <3>0, DivisionIn
    <3> QED
      BY <3>1
  <2>2. PICK nk \in Nat : nk = n * k
    BY Products
  <2>3. Ticks(t) = k
    BY <1>2, <1>5, <2>1 DEF Ticks
  <2>4. n * (q + k + 2) = nq + nk + n + n
    <3>1. n * (q + k + 2) = n * q + n * k + n + n
      OBVIOUS
    <3> QED
      BY <1>4, <2>2, <3>1
  <2>5. clock + t + 2 <= nq + nk + n + n
    BY <1>3, <1>4, <2>1, <2>2
  <2> QED
    BY <1>2, <1>3, <2>3, <2>4, <2>5
<1>6. CASE t < 0
  <2>1. PICK k \in Nat, r \in 0..(n - 1) : k = (-t) \div n /\ -t = n * k + r
    <3>0. -t \in Nat
      BY <1>1, <1>6
    <3>1. /\ (-t) \div n \in Nat /\ (-t) % n \in 0..(n - 1)
          /\ -t = n * ((-t) \div n) + ((-t) % n)
      BY <3>0, DivisionIn
    <3> QED
      BY <3>1
  <2>2. PICK nk \in Nat : nk = n * k
    BY Products
  <2>3. Ticks(t) = -k
    BY <1>1, <1>2, <1>6, <2>1 DEF Ticks
  <2>4. n * (q + (-k) + 2) = nq - nk + n + n
    <3>1. n * (q + (-k) + 2) = n * q - n * k + n + n
      OBVIOUS
    <3> QED
      BY <1>4, <2>2, <3>1
  <2>5. clock + t + 2 <= nq - nk + n + n
    BY <1>1, <1>3, <1>4, <2>1, <2>2
  <2> QED
    BY <1>2, <1>3, <2>3, <2>4, <2>5
<1> QED
  BY <1>1, <1>5, <1>6
-----------------------------------------------------------------------------
(* The inductive invariant of the theorems on order.                       *)
OrderInv == /\ ListsInv
            /\ WheelOnTime
            /\ RunsWhatIsDue
            /\ DeadlinesCut

(* What SetTimeout and Update do to the item they add to the wheel.        *)
Arms(p, t) ==
    LET timeval == GetTimeval + Ticks(t)
    IN  /\ p # current
        /\ Live' = Live \cup {p}
        /\ heap'[p].Timeval = timeval /\ heap'[p].deadline = clock + t
        /\ \A q \in Live \ {p} : heap'[q] = heap[q]
        /\ wheel' = Linked(p, Unlinked(p), timeval)
        /\ firing' = firing \ {p}
        /\ UNCHANGED <<clock, m_LastTimeval, checking, now, current>>

(* SetTimeout arms a new item; nothing had linked it before.               *)
LEMMA SetTimeoutArms ==
  ASSUME ListsInv, NEW t \in Timeouts, SetTimeout(t)
  PROVE  \E p \in Items : Arms(p, t)
<1> DEFINE id == (m_LastTimerId + 1) % ID_SPAN
           timeval == GetTimeval + Ticks(t)
<1>1. PICK p \in Items \ Live :
        /\ heap' = [q \in Live \cup {p} |->
                        IF q = p
                        THEN [TimerId |-> id, Timeval |-> timeval,
                              deadline |-> clock + t]
                        ELSE heap[q]]
        /\ wheel' = Linked(p, wheel, timeval)
  BY DEF SetTimeout
<1>2. UNCHANGED <<clock, m_LastTimeval, checking, now, firing, current>>
  BY DEF SetTimeout
<1>3. p # current /\ p \notin Placed /\ p \notin firing
  BY NoItemAssumption DEF ListsInv, EachItemInOnePlace, Pending
<1>4. Unlinked(p) = wheel
  <2>1. wheel = [s \in Slots |-> wheel[s]]
    BY DEF ListsInv, TypeOK
  <2>2. \A s \in Slots : wheel[s] \ {p} = wheel[s]
    BY <1>3 DEF Placed
  <2> QED
    BY <2>1, <2>2 DEF Unlinked
<1>5. /\ Live' = Live \cup {p}
      /\ heap'[p].Timeval = timeval /\ heap'[p].deadline = clock + t
      /\ \A q \in Live \ {p} : heap'[q] = heap[q]
  BY <1>1 DEF Live
<1>6. firing' = firing \ {p}
  BY <1>2, <1>3
<1> QED
  BY <1>1, <1>2, <1>3, <1>4, <1>5, <1>6 DEF Arms

(* Update arms an item again, wherever it was linked.                      *)
LEMMA UpdateArms ==
  ASSUME ListsInv, NEW id \in DOMAIN m_TimerDataMap, NEW t \in Timeouts, Update(id, t)
  PROVE  \E p \in Items : Arms(p, t)
<1> DEFINE timeval == GetTimeval + Ticks(t)
<1>1. PICK p \in Items : p = m_TimerDataMap[id] /\ p \in Live /\ p # current
  BY DEF ListsInv, TypeOK, MapNamesPendingItems, EachItemInOnePlace
<1>2. /\ heap' = [heap EXCEPT ![p].Timeval = timeval, ![p].deadline = clock + t]
      /\ wheel' = Linked(p, Unlinked(p), timeval)
      /\ firing' = firing \ {p}
      /\ UNCHANGED <<clock, m_LastTimeval, checking, now, current>>
  BY <1>1 DEF Update
<1>3. heap[p] \in [TimerId : 0..(ID_SPAN - 1), Timeval : Int, deadline : Int]
  BY <1>1 DEF ListsInv, TypeOK
<1> HIDE DEF timeval
<1>4. /\ Live' = Live \cup {p}
      /\ heap'[p].Timeval = timeval /\ heap'[p].deadline = clock + t
      /\ \A q \in Live \ {p} : heap'[q] = heap[q]
  BY <1>1, <1>2, <1>3 DEF Live
<1> QED
  BY <1>1, <1>2, <1>4 DEF Arms, timeval

LEMMA ArmKeepsOrder ==
  ASSUME OrderInv, NEW p \in Items, NEW t \in Timeouts, Arms(p, t)
  PROVE  WheelOnTime' /\ RunsWhatIsDue' /\ DeadlinesCut'
<1> DEFINE timeval == GetTimeval + Ticks(t)
           to == SlotFor(timeval, m_LastTimeval)
<1>1. /\ clock \in MinClock..MaxClock
      /\ m_LastTimeval \in Nat
      /\ wheel \in [Slots -> SUBSET Items]
  BY DEF OrderInv, ListsInv, TypeOK
<1>2. timeval \in Int /\ clock + t \in Int
  BY <1>1, TicksAreIntegers
<1>3. /\ p # current
      /\ Live' = Live \cup {p}
      /\ heap'[p].Timeval = timeval /\ heap'[p].deadline = clock + t
      /\ \A q \in Live \ {p} : heap'[q] = heap[q]
      /\ wheel' = Linked(p, Unlinked(p), timeval)
      /\ firing' = firing \ {p}
      /\ UNCHANGED <<clock, m_LastTimeval, checking, now, current>>
  BY DEF Arms
<1>4. clock + t + 2 <= Interval * (timeval + 2)
  BY <1>1, TicksCut
<1>5. OnTime(to, timeval, m_LastTimeval)
  BY <1>1, <1>2, SlotForOnTime
<1> HIDE DEF timeval
<1>6. /\ to \in Slots
      /\ wheel'[to] = (wheel[to] \ {p}) \cup {p}
      /\ \A s \in Slots \ {to} : wheel'[s] = wheel[s] \ {p}
  <2>1. /\ Unlinked(p) \in [Slots -> SUBSET Items]
        /\ \A s \in Slots : Unlinked(p)[s] = wheel[s] \ {p}
    BY <1>1, UnlinkedFromWheel
  <2> QED
    BY <1>1, <1>2, <1>3, <2>1, LinkedInWheel
<1> HIDE DEF to
<1>7. Placed \cup firing \cup ({current} \ {NoItem}) \subseteq Live
  BY DEF OrderInv, ListsInv, EachItemInOnePlace, Pending
<1>8. WheelOnTime'
  <2> SUFFICES ASSUME NEW s \in Slots, NEW q \in wheel'[s]
               PROVE  OnTime(s, heap'[q].Timeval, m_LastTimeval)
    BY <1>3 DEF WheelOnTime, OnTime, Taken, NotBefore
  <2>1. CASE q = p
    BY <1>3, <1>5, <1>6, <2>1
  <2>2. CASE q # p
    <3>1. q \in wheel[s] /\ q \in Live
      BY <1>6, <1>7, <2>2 DEF Placed
    <3> QED
      BY <1>3, <2>2, <3>1 DEF OrderInv, WheelOnTime
  <2> QED
    BY <2>1, <2>2
<1>9. RunsWhatIsDue'
  BY <1>3, <1>7 DEF OrderInv, RunsWhatIsDue
<1>10. DeadlinesCut'
  BY <1>3, <1>4 DEF OrderInv, DeadlinesCut
<1> QED
  BY <1>8, <1>9, <1>10

LEMMA ClearKeepsOrder ==
  ASSUME OrderInv, NEW id \in DOMAIN m_TimerDataMap, Clear(id)
  PROVE  WheelOnTime' /\ RunsWhatIsDue' /\ DeadlinesCut'
<1>1. PICK p \in Items : p = m_TimerDataMap[id] /\ p # current
  <2>1. m_TimerDataMap[id] \in Items /\ m_TimerDataMap[id] \in Pending
    BY DEF OrderInv, ListsInv, TypeOK, MapNamesPendingItems
  <2> QED
    BY <2>1 DEF OrderInv, ListsInv, EachItemInOnePlace
<1>2. /\ wheel' = Unlinked(p)
      /\ firing' = firing \ {p}
      /\ heap' = [q \in Live \ {p} |-> heap[q]]
      /\ UNCHANGED <<m_LastTimeval, checking, now, current>>
  BY <1>1 DEF Clear
<1>3. \A s \in Slots : wheel'[s] = wheel[s] \ {p}
  BY <1>2 DEF Unlinked
<1>4. Live' = Live \ {p} /\ \A q \in Live \ {p} : heap'[q] = heap[q]
  BY <1>2 DEF Live
<1>5. Placed \cup firing \cup ({current} \ {NoItem}) \subseteq Live
  BY DEF OrderInv, ListsInv, EachItemInOnePlace, Pending
<1>6. WheelOnTime'
  <2> SUFFICES ASSUME NEW s \in Slots, NEW q \in wheel'[s]
               PROVE  OnTime(s, heap'[q].Timeval, m_LastTimeval')
    BY DEF WheelOnTime, OnTime, Taken, NotBefore
  <2>1. q \in wheel[s] /\ q \in Live \ {p}
    BY <1>3, <1>5 DEF Placed
  <2> QED
    BY <1>2, <1>4, <2>1 DEF OrderInv, WheelOnTime
<1>7. RunsWhatIsDue'
  BY <1>1, <1>2, <1>4, <1>5 DEF OrderInv, RunsWhatIsDue
<1>8. DeadlinesCut'
  BY <1>4 DEF OrderInv, DeadlinesCut
<1> QED
  BY <1>6, <1>7, <1>8

(* A turn takes the one slot whose time has come, after its cascades.      *)
LEMMA TurnKeepsOrder ==
  ASSUME OrderInv, Turn
  PROVE  WheelOnTime' /\ RunsWhatIsDue' /\ DeadlinesCut'
<1> DEFINE taken == Slot(1, m_LastTimeval)
<1>1. /\ checking /\ current = NoItem /\ m_LastTimeval < now
      /\ firing' = Cascade[taken]
      /\ wheel' = [Cascade EXCEPT ![taken] = {}]
      /\ m_LastTimeval' = m_LastTimeval + 1
      /\ UNCHANGED <<heap, checking, now, current>>
  BY DEF Turn
<1>2. /\ TypeOK /\ EachItemInOnePlace /\ WheelOnTime
      /\ m_LastTimeval \in Nat /\ now \in Nat
  BY DEF OrderInv, ListsInv, TypeOK
<1>3. /\ \A p \in Cascade[taken] : heap[p].Timeval <= m_LastTimeval
      /\ \A s \in Slots \ {taken} : \A p \in Cascade[s] :
            OnTime(s, heap[p].Timeval, m_LastTimeval + 1)
  BY <1>2, CascadeOnTime
<1>4. taken \in Slots /\ Cascade \in [Slots -> SUBSET Items]
      /\ UNION {Cascade[s] : s \in Slots} = Placed
  BY <1>2, SlotInWheel, CascadeKeepsItems DEF Levels
<1> HIDE DEF taken
<1>5. wheel'[taken] = {} /\ \A s \in Slots \ {taken} : wheel'[s] = Cascade[s]
  BY <1>1, <1>4
<1>6. WheelOnTime'
  <2> SUFFICES ASSUME NEW s \in Slots, NEW q \in wheel'[s]
               PROVE  OnTime(s, heap[q].Timeval, m_LastTimeval + 1)
    BY <1>1 DEF WheelOnTime, OnTime, Taken, NotBefore
  <2>1. s # taken /\ q \in Cascade[s]
    BY <1>5
  <2> QED
    BY <1>3, <2>1
<1>7. \A p \in Cascade[taken] : heap[p].Timeval \in Int
  <2>1. Cascade[taken] \subseteq Live
    BY <1>2, <1>4 DEF EachItemInOnePlace, Pending
  <2> QED
    BY <1>2, <2>1 DEF TypeOK
<1>8. RunsWhatIsDue'
  <2>1. \A p \in firing' : heap'[p].Timeval < m_LastTimeval'
    BY <1>1, <1>2, <1>3, <1>7
  <2>2. m_LastTimeval' <= now'
    BY <1>1, <1>2
  <2> QED
    BY <1>1, <2>1, <2>2 DEF RunsWhatIsDue
<1>9. DeadlinesCut'
  BY <1>1 DEF OrderInv, DeadlinesCut, Live
<1> QED
  BY <1>6, <1>8, <1>9

LEMMA InvokeKeepsOrder ==
  ASSUME OrderInv, Invoke
  PROVE  WheelOnTime' /\ RunsWhatIsDue' /\ DeadlinesCut'
<1>1. PICK p \in firing : current' = p /\ firing' = firing \ {p}
  BY DEF Invoke
<1>2. UNCHANGED <<m_LastTimeval, heap, wheel, checking, now>>
  BY DEF Invoke
<1>3. WheelOnTime'
  BY <1>2 DEF OrderInv, WheelOnTime, OnTime, Taken, NotBefore
<1>4. RunsWhatIsDue'
  BY <1>1, <1>2 DEF OrderInv, RunsWhatIsDue
<1>5. DeadlinesCut'
  BY <1>2 DEF OrderInv, DeadlinesCut, Live
<1> QED
  BY <1>3, <1>4, <1>5

LEMMA ReturnKeepsOrder ==
  ASSUME OrderInv, Return
  PROVE  WheelOnTime' /\ RunsWhatIsDue' /\ DeadlinesCut'
<1>1. /\ current # NoItem /\ current' = NoItem
      /\ heap' = [q \in Live \ {current} |-> heap[q]]
      /\ UNCHANGED <<m_LastTimeval, wheel, checking, now, firing>>
  BY DEF Return
<1>2. Live' = Live \ {current} /\ \A q \in Live \ {current} : heap'[q] = heap[q]
  BY <1>1 DEF Live
<1>3. Placed \cup firing \subseteq Live \ {current}
  BY DEF OrderInv, ListsInv, EachItemInOnePlace, Pending
<1>4. WheelOnTime'
  <2> SUFFICES ASSUME NEW s \in Slots, NEW q \in wheel'[s]
               PROVE  OnTime(s, heap'[q].Timeval, m_LastTimeval')
    BY DEF WheelOnTime, OnTime, Taken, NotBefore
  <2>1. q \in wheel[s] /\ q \in Live \ {current}
    BY <1>1, <1>3 DEF Placed
  <2> QED
    BY <1>1, <1>2, <2>1 DEF OrderInv, WheelOnTime
<1>5. RunsWhatIsDue'
  BY <1>1, <1>2, <1>3 DEF OrderInv, RunsWhatIsDue
<1>6. DeadlinesCut'
  BY <1>2 DEF OrderInv, DeadlinesCut
<1> QED
  BY <1>4, <1>5, <1>6

LEMMA OthersKeepOrder ==
  ASSUME OrderInv,
         CheckTimer \/ CheckDone \/ (\E d \in ClockSteps : ClockMoves(d)) \/ UNCHANGED vars
  PROVE  WheelOnTime' /\ RunsWhatIsDue' /\ DeadlinesCut'
<1>1. UNCHANGED <<m_LastTimeval, heap, wheel, firing, current>>
  BY DEF CheckTimer, CheckDone, ClockMoves, vars
<1>2. WheelOnTime'
  BY <1>1 DEF OrderInv, WheelOnTime, OnTime, Taken, NotBefore
<1>3. DeadlinesCut'
  BY <1>1 DEF OrderInv, DeadlinesCut, Live
<1>4. RunsWhatIsDue'
  <2>1. CASE CheckTimer \/ CheckDone
    <3>1. firing = {} /\ current = NoItem
      BY <2>1 DEF CheckTimer, CheckDone, OrderInv, RunsWhatIsDue
    <3> QED
      BY <1>1, <3>1 DEF RunsWhatIsDue
  <2>2. CASE (\E d \in ClockSteps : ClockMoves(d)) \/ UNCHANGED vars
    <3>1. UNCHANGED <<checking, now>>
      BY <2>2 DEF ClockMoves, vars
    <3> QED
      BY <1>1, <3>1 DEF OrderInv, RunsWhatIsDue
  <2> QED
    BY <2>1, <2>2
<1> QED
  BY <1>2, <1>3, <1>4

LEMMA InitEstablishesOrder == Init => OrderInv
<1> SUFFICES ASSUME Init PROVE OrderInv
  OBVIOUS
<1>1. ListsInv
  BY InitEstablishesLists
<1>2. Live = {} /\ firing = {} /\ current = NoItem /\ \A s \in Slots : wheel[s] = {}
  BY DEF Init, Live
<1> QED
  BY <1>1, <1>2 DEF OrderInv, WheelOnTime, RunsWhatIsDue, DeadlinesCut

(* The wheel is in order in every reachable state.                         *)
THEOREM WheelInOrder == Spec => []OrderInv
<1>1. Init => OrderInv
  BY InitEstablishesOrder
<1>2. OrderInv /\ [Next]_vars => OrderInv'
  <2> SUFFICES ASSUME OrderInv, [Next]_vars
               PROVE  WheelOnTime' /\ RunsWhatIsDue' /\ DeadlinesCut'
    BY ListsStep DEF OrderInv
  <2>1. ASSUME NEW t \in Timeouts, SetTimeout(t)
        PROVE  WheelOnTime' /\ RunsWhatIsDue' /\ DeadlinesCut'
    BY <2>1, SetTimeoutArms, ArmKeepsOrder DEF OrderInv
  <2>2. ASSUME NEW id \in DOMAIN m_TimerDataMap, NEW t \in Timeouts, Update(id, t)
        PROVE  WheelOnTime' /\ RunsWhatIsDue' /\ DeadlinesCut'
    BY <2>2, UpdateArms, ArmKeepsOrder DEF OrderInv
  <2>3. ASSUME NEW id \in DOMAIN m_TimerDataMap, Clear(id)
        PROVE  WheelOnTime' /\ RunsWhatIsDue' /\ DeadlinesCut'
    BY <2>3, ClearKeepsOrder
  <2>4. CASE Turn
    BY <2>4, TurnKeepsOrder
  <2>5. CASE Invoke
    BY <2>5, InvokeKeepsOrder
  <2>6. CASE Return
    BY <2>6, ReturnKeepsOrder
  <2>7. CASE CheckTimer \/ CheckDone \/ (\E d \in ClockSteps : ClockMoves(d)) \/ UNCHANGED vars
    BY <2>7, OthersKeepOrder
  <2> QED
    BY <2>1, <2>2, <2>3, <2>4, <2>5, <2>6, <2>7 DEF Next
<1> QED
  BY <1>1, <1>2, PTL DEF Spec

LEMMA OrderLeavesNothing == OrderInv => NoItemLeftBehind
<1> SUFFICES ASSUME OrderInv, NEW p \in Placed
             PROVE  heap[p].Timeval >= m_LastTimeval \/ p \in wheel[Slot(1, m_LastTimeval)]
  BY DEF NoItemLeftBehind
<1>1. PICK s \in Slots : p \in wheel[s]
  BY DEF Placed
<1>2. m_LastTimeval \in Nat /\ heap[p].Timeval \in Int
  BY DEF OrderInv, ListsInv, TypeOK, EachItemInOnePlace, Pending
<1>3. Taken(s, heap[p].Timeval, m_LastTimeval)
  BY <1>1 DEF OrderInv, WheelOnTime, OnTime
<1> QED
  BY <1>1, <1>2, <1>3 DEF Taken

LEMMA OrderFiresNotEarly == OrderInv => FiresNotEarly
<1> SUFFICES ASSUME OrderInv, NEW p \in firing \cup ({current} \ {NoItem})
             PROVE  /\ heap[p].Timeval < m_LastTimeval
                    /\ m_LastTimeval <= now
                    /\ now * Interval + Interval >= heap[p].deadline + 2
  BY DEF FiresNotEarly
<1>1. heap[p].Timeval < m_LastTimeval /\ m_LastTimeval <= now
  BY DEF OrderInv, RunsWhatIsDue
<1>2. p \in Live
  BY DEF OrderInv, ListsInv, EachItemInOnePlace, Pending
<1>3. PICK T \in Int, D \in Int : T = heap[p].Timeval /\ D = heap[p].deadline
  BY <1>2 DEF OrderInv, ListsInv, TypeOK
<1>4. PICK n \in Nat \ {0}, w \in Nat, last \in Nat :
          n = Interval /\ w = now /\ last = m_LastTimeval
  BY SizeAssumption DEF OrderInv, ListsInv, TypeOK
<1>5. D + 2 <= n * (T + 2)
  BY <1>2, <1>3, <1>4 DEF OrderInv, DeadlinesCut
<1>6. PICK d \in Nat : w = T + 1 + d
  <2>1. w - T - 1 \in Nat /\ w = T + 1 + (w - T - 1)
    BY <1>1, <1>3, <1>4
  <2> QED
    BY <2>1
<1>7. w * n + n = n * (T + 2) + n * d
  BY <1>6
<1>8. n * d \in Nat /\ n * (T + 2) \in Int
  BY Products
<1>9. w * n + n >= D + 2
  BY <1>5, <1>7, <1>8
<1> QED
  BY <1>1, <1>3, <1>4, <1>9

(* However far ahead or behind it is set and whatever levels it is         *)
(* cascaded through, no item is left in a slot the wheel has passed.       *)
THEOREM TimerNothingLeftBehind == Spec => []NoItemLeftBehind
BY WheelInOrder, OrderLeavesNothing, PTL

(* No callback runs before its tick, whatever the clock does.              *)
THEOREM TimerFiresNotEarly == Spec => []FiresNotEarly
BY WheelInOrder, OrderFiresNotEarly, PTL
-----------------------------------------------------------------------------
(* The wheel implements TimerService.  The refinement mapping reads which  *)
(* timers are armed, and for which tick, off the slots and the items.      *)

(* What the mapping gives for the variable due of the service.             *)
due == [p \in Placed |-> DueOf(p)]

(* What the steps of the mapping need of a state of the wheel.             *)
ServiceState ==
  /\ Placed \subseteq Live /\ firing \subseteq Live
  /\ Live \subseteq Items
  /\ Placed \cap firing = {}
  /\ m_LastTimeval \in Nat
  /\ \A p \in Live : heap[p].Timeval \in Int
  /\ \A p \in Placed : DueOf(p) \in Int /\ DueOf(p) >= m_LastTimeval

LEMMA TimersOfService == OrderInv => ServiceState
<1> SUFFICES ASSUME OrderInv PROVE ServiceState
  OBVIOUS
<1>1. /\ Placed \subseteq Live /\ firing \subseteq Live
      /\ Placed \cap firing = {}
  BY DEF OrderInv, ListsInv, EachItemInOnePlace, Pending
<1>2. /\ Live \subseteq Items /\ m_LastTimeval \in Nat
      /\ \A p \in Live : heap[p].Timeval \in Int
  BY DEF OrderInv, ListsInv, TypeOK
<1>3. \A p \in Placed : DueOf(p) \in Int /\ DueOf(p) >= m_LastTimeval
  BY <1>1, <1>2 DEF DueOf
<1> QED
  BY <1>1, <1>2, <1>3 DEF ServiceState

LEMMA ArmsIsArm ==
  ASSUME OrderInv, ServiceState, ServiceState', NEW p \in Items, NEW t \in Timeouts, Arms(p, t)
  PROVE  Promised!Arm(p)
<1>1. /\ p # current
      /\ Live' = Live \cup {p}
      /\ \A q \in Live \ {p} : heap'[q] = heap[q]
      /\ wheel' = Linked(p, Unlinked(p), GetTimeval + Ticks(t))
      /\ firing' = firing \ {p}
      /\ UNCHANGED m_LastTimeval
  BY DEF Arms
<1>2. Placed' = Placed \cup {p}
  <2> DEFINE timeval == GetTimeval + Ticks(t)
             to == SlotFor(timeval, m_LastTimeval)
  <2>1. /\ clock \in MinClock..MaxClock /\ m_LastTimeval \in Nat
        /\ wheel \in [Slots -> SUBSET Items]
    BY DEF OrderInv, ListsInv, TypeOK
  <2>2. timeval \in Int
    BY <2>1, TicksAreIntegers
  <2> HIDE DEF timeval
  <2>3. /\ Unlinked(p) \in [Slots -> SUBSET Items]
        /\ \A s \in Slots : Unlinked(p)[s] = wheel[s] \ {p}
    BY <2>1, UnlinkedFromWheel
  <2>4. wheel' = Linked(p, Unlinked(p), timeval)
    BY <1>1 DEF timeval
  <2>5. /\ to \in Slots
        /\ wheel'[to] = (wheel[to] \ {p}) \cup {p}
        /\ \A s \in Slots \ {to} : wheel'[s] = wheel[s] \ {p}
    BY <2>1, <2>2, <2>3, <2>4, LinkedInWheel
  <2> HIDE DEF to
  <2> QED
    BY <2>5 DEF Placed
<1>3. \A q \in Placed' : DueOf(q)' \in Int /\ DueOf(q)' >= m_LastTimeval'
  BY DEF ServiceState
<1>4. \A q \in Live \ {p} : DueOf(q)' = DueOf(q)
  BY <1>1 DEF DueOf
<1>5. Placed \subseteq Live
  BY DEF ServiceState
<1> QED
  BY <1>1, <1>2, <1>3, <1>4, <1>5 DEF Promised!Arm, Promised!Armed, due

LEMMA ClearIsDisarm ==
  ASSUME OrderInv, ServiceState, NEW id \in DOMAIN m_TimerDataMap, Clear(id)
  PROVE  \E p \in Items : Promised!Disarm(p)
<1>1. PICK p \in Items : p = m_TimerDataMap[id] /\ p \in Pending
  BY DEF OrderInv, ListsInv, TypeOK, MapNamesPendingItems
<1>2. /\ wheel' = Unlinked(p)
      /\ firing' = firing \ {p}
      /\ heap' = [q \in Live \ {p} |-> heap[q]]
      /\ UNCHANGED m_LastTimeval
  BY <1>1 DEF Clear
<1>3. Placed' = Placed \ {p}
  <2>1. \A s \in Slots : wheel'[s] = wheel[s] \ {p}
    BY <1>2 DEF Unlinked
  <2> QED
    BY <2>1 DEF Placed
<1>4. \A q \in Placed \ {p} : DueOf(q)' = DueOf(q)
  <2>1. \A q \in Placed \ {p} : heap'[q] = heap[q]
    BY <1>2 DEF ServiceState
  <2> QED
    BY <1>2, <2>1 DEF DueOf
<1>5. due' = [q \in Placed \ {p} |-> due[q]]
  BY <1>3, <1>4 DEF due
<1>6. p \in DOMAIN due \cup firing
  BY <1>1 DEF Pending, due
<1>7. Promised!Disarm(p)
  BY <1>2, <1>3, <1>5, <1>6 DEF Promised!Disarm, Promised!Armed, due
<1> QED
  BY <1>7

LEMMA TurnIsTick ==
  ASSUME OrderInv, ServiceState, Turn
  PROVE  Promised!Tick
<1> DEFINE taken == Slot(1, m_LastTimeval)
<1>1. /\ firing = {}
      /\ firing' = Cascade[taken]
      /\ wheel' = [Cascade EXCEPT ![taken] = {}]
      /\ m_LastTimeval' = m_LastTimeval + 1
      /\ UNCHANGED heap
  BY DEF Turn
<1>2. TypeOK /\ EachItemInOnePlace /\ WheelOnTime /\ m_LastTimeval \in Nat
  BY DEF OrderInv, ListsInv, TypeOK
<1>3. /\ \A p \in Cascade[taken] : heap[p].Timeval <= m_LastTimeval
      /\ \A s \in Slots \ {taken} : \A p \in Cascade[s] : m_LastTimeval < heap[p].Timeval
  BY <1>2, CascadeOnTime
<1>4. /\ taken \in Slots /\ Cascade \in [Slots -> SUBSET Items]
      /\ UNION {Cascade[s] : s \in Slots} = Placed
      /\ \A s, t \in Slots : s # t => Cascade[s] \cap Cascade[t] = {}
  BY <1>2, SlotInWheel, CascadeKeepsItems DEF Levels
<1> HIDE DEF taken
<1>5. wheel'[taken] = {} /\ \A s \in Slots \ {taken} : wheel'[s] = Cascade[s]
  BY <1>1, <1>4
<1>6. Cascade[taken] \subseteq Placed /\ Placed' = Placed \ Cascade[taken]
  <2>1. \A p : p \in Placed' <=> \E s \in Slots \ {taken} : p \in Cascade[s]
    BY <1>5 DEF Placed
  <2> QED
    BY <1>4, <2>1
<1>7. \A p \in Placed : p \in Cascade[taken] <=> heap[p].Timeval <= m_LastTimeval
  <2>1. ASSUME NEW p \in Placed, p \notin Cascade[taken]
        PROVE  m_LastTimeval < heap[p].Timeval
    BY <1>3, <1>4, <2>1
  <2>2. \A p \in Placed : heap[p].Timeval \in Int
    BY DEF ServiceState
  <2> QED
    BY <1>2, <1>3, <2>1, <2>2
<1>8. \A p \in Placed : DueOf(p) = m_LastTimeval <=> heap[p].Timeval <= m_LastTimeval
  BY DEF ServiceState, DueOf
<1>9. firing' = {p \in Placed : due[p] = m_LastTimeval}
  BY <1>1, <1>6, <1>7, <1>8 DEF due
<1>10. \A p \in Placed \ firing' : DueOf(p)' = DueOf(p)
  BY <1>1, <1>2, <1>7 DEF DueOf, ServiceState
<1>11. due' = [p \in Placed \ firing' |-> due[p]]
  BY <1>1, <1>6, <1>10 DEF due
<1>12. DOMAIN due = Placed
  BY DEF due
<1> QED
  BY <1>1, <1>9, <1>11, <1>12 DEF Promised!Tick, Promised!Armed, due

LEMMA InvokeIsRing ==
  ASSUME ServiceState, Invoke
  PROVE  \E p \in Items : Promised!Ring(p)
<1>1. PICK p \in firing : firing' = firing \ {p}
  BY DEF Invoke
<1>2. UNCHANGED <<m_LastTimeval, heap, wheel>>
  BY DEF Invoke
<1>3. p \in Items
  BY DEF ServiceState
<1>4. UNCHANGED due
  BY <1>2 DEF due, DueOf, Placed
<1>5. Promised!Ring(p)
  BY <1>1, <1>2, <1>4 DEF Promised!Ring, due
<1> QED
  BY <1>3, <1>5

LEMMA OthersStutter ==
  ASSUME OrderInv, ServiceState,
         \/ Return \/ CheckTimer \/ CheckDone \/ \E d \in ClockSteps : ClockMoves(d)
         \/ UNCHANGED vars
  PROVE  UNCHANGED Promised!sVars
<1>1. UNCHANGED <<m_LastTimeval, wheel, firing>>
  BY DEF Return, CheckTimer, CheckDone, ClockMoves, vars
<1>2. Placed' = Placed
  BY <1>1 DEF Placed
<1>3. \A p \in Placed : heap'[p] = heap[p]
  <2>1. CASE Return
    <3>1. current \notin Placed
      BY DEF OrderInv, ListsInv, EachItemInOnePlace, Pending
    <3> QED
      BY <2>1, <3>1 DEF Return, ServiceState
  <2>2. CASE CheckTimer \/ CheckDone \/ (\E d \in ClockSteps : ClockMoves(d)) \/ UNCHANGED vars
    BY <2>2 DEF CheckTimer, CheckDone, ClockMoves, vars
  <2> QED
    BY <2>1, <2>2
<1>4. \A p \in Placed : DueOf(p)' = DueOf(p)
  BY <1>1, <1>3 DEF DueOf
<1>5. UNCHANGED due
  BY <1>2, <1>4 DEF due
<1> QED
  BY <1>1, <1>5 DEF Promised!sVars, due

(* The wheel implements TimerService: a tick passes only when all that     *)
(* rang at the one before was run, and exactly the timers armed for it     *)
(* ring, through all cascades, early and late settings, moves and clears.  *)
THEOREM TimerImplementsService == Spec => ImplementsService
<1>1. Init => Promised!SInit
  <2> SUFFICES ASSUME Init PROVE Promised!SInit
    OBVIOUS
  <2>1. OrderInv
    BY InitEstablishesOrder
  <2>2. m_LastTimeval \in Nat /\ firing = {} /\ Placed = {}
    BY <2>1 DEF Init, Placed, OrderInv, ListsInv, TypeOK
  <2>3. due = [p \in {} |-> 0]
    BY <2>2 DEF due
  <2> QED
    BY <2>2, <2>3 DEF Promised!SInit, due
<1>2. ASSUME OrderInv, ServiceState, ServiceState', [Next]_vars
      PROVE  [Promised!SNext]_(Promised!sVars)
  <2>1. ASSUME NEW t \in Timeouts, SetTimeout(t)
        PROVE  \E p \in Items : Promised!Arm(p)
    BY <1>2, <2>1, SetTimeoutArms, ArmsIsArm DEF OrderInv
  <2>2. ASSUME NEW id \in DOMAIN m_TimerDataMap, NEW t \in Timeouts, Update(id, t)
        PROVE  \E p \in Items : Promised!Arm(p)
    BY <1>2, <2>2, UpdateArms, ArmsIsArm DEF OrderInv
  <2>3. ASSUME NEW id \in DOMAIN m_TimerDataMap, Clear(id)
        PROVE  \E p \in Items : Promised!Disarm(p)
    BY <1>2, <2>3, ClearIsDisarm
  <2>4. CASE Turn
    BY <1>2, <2>4, TurnIsTick DEF Promised!SNext
  <2>5. CASE Invoke
    BY <1>2, <2>5, InvokeIsRing DEF Promised!SNext
  <2>6. CASE \/ Return \/ CheckTimer \/ CheckDone \/ \E d \in ClockSteps : ClockMoves(d)
             \/ UNCHANGED vars
    BY <1>2, <2>6, OthersStutter
  <2>7. (\E p \in Items : Promised!Arm(p) \/ Promised!Disarm(p)) => Promised!SNext
    BY DEF Promised!SNext
  <2> QED
    BY <1>2, <2>1, <2>2, <2>3, <2>4, <2>5, <2>6, <2>7 DEF Next
<1> QED
  BY <1>1, <1>2, WheelInOrder, TimersOfService, PTL
     DEF Spec, ImplementsService, Promised!Service
=============================================================================

------------------------ MODULE ConnectionPoolProofs ------------------------
(***************************************************************************)
(* Proofs about the connection pool for any addresses, connections, limits *)
(* and idle timeouts: its types, its count, its idle lists, their timers   *)
(* and the users of connections.                                           *)
(***************************************************************************)
EXTENDS ConnectionPool, FiniteSetTheorems, SequenceTheorems, TLAPS

(* A connection that exists, which nobody holds and nobody is deleting.    *)
Free(c) == c \in Live /\ ~info[c].active /\ c \notin ToSet(deleting)

(* IdleListsSound and TimersBelongToIdle, said with sets: a list and a     *)
(* pending timer have free connections only, and lists have them all.      *)
ListsAreFree ==
    \A a \in Addresses :
        /\ IsInjective(m_stConnectionMap[a])
        /\ \A c \in Conns : c \in ToSet(m_stConnectionMap[a])
                                <=> Free(c) /\ info[c].stAddress = a

TimersAreFree ==
    \A id \in Pending : Free(timers[id]) /\ info[timers[id]].IdleConnTimerId = id

(* Deletions in progress are of different connections, which exist and     *)
(* which nobody holds.                                                     *)
DeletionsSound ==
    /\ IsInjective(deleting)
    /\ \A c \in ToSet(deleting) : c \in Live /\ users[c] = 0

(* The inductive invariant. *)
PoolInv == /\ TypeOK
           /\ CountIsLive
           /\ ListsAreFree
           /\ TimersAreFree
           /\ OneUserEach
           /\ DeletionsSound

-----------------------------------------------------------------------------
(* Lists without repetitions. *)

(* An element put in front. *)
LEMMA Pushed ==
    ASSUME NEW S, NEW s \in Seq(S), IsInjective(s), NEW e \in S, e \notin ToSet(s)
    PROVE  /\ <<e>> \o s \in Seq(S)
           /\ IsInjective(<<e>> \o s)
           /\ ToSet(<<e>> \o s) = ToSet(s) \cup {e}
<1> DEFINE t == <<e>> \o s
<1>1. t \in Seq(S) /\ Len(t) = Len(s) + 1 /\ Len(s) \in Nat
      /\ t[1] = e /\ \A i \in 1..Len(s) : t[i + 1] = s[i]
    BY SMT
<1>2. DOMAIN t = 1..(Len(s) + 1) /\ DOMAIN s = 1..Len(s)
    BY <1>1
<1> HIDE DEF t
<1>3. \A i \in 2..(Len(s) + 1) : i - 1 \in 1..Len(s) /\ t[i] = s[i - 1]
    <2> TAKE i \in 2..(Len(s) + 1)
    <2>1. i - 1 \in 1..Len(s) /\ (i - 1) + 1 = i
        BY <1>1
    <2> QED
        BY <1>1, <2>1
<1>4. \A i \in 1..(Len(s) + 1) : i = 1 \/ i \in 2..(Len(s) + 1)
    BY <1>1
<1>5. ToSet(t) = ToSet(s) \cup {e}
    <2>1. \A x \in ToSet(t) : x \in ToSet(s) \cup {e}
        BY <1>1, <1>2, <1>3, <1>4 DEF ToSet
    <2>2. e \in ToSet(t)
        BY <1>1, <1>2 DEF ToSet
    <2>3. \A x \in ToSet(s) : x \in ToSet(t)
        <3> SUFFICES ASSUME NEW i \in 1..Len(s) PROVE s[i] \in ToSet(t)
            BY <1>2 DEF ToSet
        <3>1. i + 1 \in DOMAIN t /\ t[i + 1] = s[i]
            BY <1>1, <1>2
        <3> QED
            BY <3>1 DEF ToSet
    <2> QED
        BY <2>1, <2>2, <2>3
<1>6. IsInjective(t)
    <2> SUFFICES ASSUME NEW a \in 1..(Len(s) + 1), NEW b \in 1..(Len(s) + 1), t[a] = t[b]
                 PROVE  a = b
        BY <1>2 DEF IsInjective
    <2>1. CASE a = 1
        BY <1>1, <1>2, <1>3, <1>4, <2>1 DEF ToSet
    <2>2. CASE b = 1
        BY <1>1, <1>2, <1>3, <1>4, <2>2 DEF ToSet
    <2>3. CASE a \in 2..(Len(s) + 1) /\ b \in 2..(Len(s) + 1)
        BY <1>2, <1>3, <2>3 DEF IsInjective
    <2> QED
        BY <1>4, <2>1, <2>2, <2>3
<1> QED
    BY <1>1, <1>5, <1>6 DEF t

(* The front element taken off. *)
LEMMA Popped ==
    ASSUME NEW S, NEW s \in Seq(S), IsInjective(s), s # <<>>
    PROVE  /\ Tail(s) \in Seq(S)
           /\ IsInjective(Tail(s))
           /\ Head(s) \in ToSet(s) /\ Head(s) \in S
           /\ ToSet(Tail(s)) = ToSet(s) \ {Head(s)}
<1> DEFINE t == Tail(s)
<1>1. t \in Seq(S) /\ Len(t) = Len(s) - 1 /\ Len(s) \in Nat \ {0} /\ Head(s) = s[1]
      /\ \A i \in 1..Len(t) : t[i] = s[i + 1]
    BY HeadTailProperties
<1>2. DOMAIN t = 1..(Len(s) - 1) /\ DOMAIN s = 1..Len(s)
    BY <1>1
<1> HIDE DEF t
<1>3. \A i \in 1..(Len(s) - 1) : i + 1 \in 1..Len(s) /\ i + 1 # 1 /\ t[i] = s[i + 1]
    BY <1>1
<1>4. Head(s) \in ToSet(s) /\ Head(s) \in S
    BY <1>1, <1>2 DEF ToSet
<1>5. IsInjective(t)
    <2> SUFFICES ASSUME NEW a \in 1..(Len(s) - 1), NEW b \in 1..(Len(s) - 1), t[a] = t[b]
                 PROVE  a = b
        BY <1>2 DEF IsInjective
    <2>1. s[a + 1] = s[b + 1] /\ a + 1 \in 1..Len(s) /\ b + 1 \in 1..Len(s)
        BY <1>3
    <2>2. a + 1 = b + 1
        BY <1>2, <2>1 DEF IsInjective
    <2> QED
        BY <1>1, <2>2
<1>6. \A x \in ToSet(t) : x \in ToSet(s) /\ x # Head(s)
    BY <1>1, <1>2, <1>3 DEF ToSet, IsInjective
<1>7. \A x \in ToSet(s) : x # Head(s) => x \in ToSet(t)
    <2> SUFFICES ASSUME NEW i \in 1..Len(s), s[i] # Head(s) PROVE s[i] \in ToSet(t)
        BY <1>2 DEF ToSet
    <2>1. i - 1 \in 1..(Len(s) - 1) /\ (i - 1) + 1 = i
        BY <1>1
    <2> QED
        BY <1>2, <1>3, <2>1 DEF ToSet
<1> QED
    BY <1>1, <1>4, <1>5, <1>6, <1>7 DEF t

(* What is left when the element at an index is taken out. *)
LEMMA Dropped ==
    ASSUME NEW S, NEW s \in Seq(S), NEW i \in 1..Len(s)
    PROVE  /\ RemoveAt(s, i) \in Seq(S)
           /\ Len(RemoveAt(s, i)) = Len(s) - 1
           /\ \A j \in 1..(Len(s) - 1) :
                  RemoveAt(s, i)[j] = IF j < i THEN s[j] ELSE s[j + 1]
<1> DEFINE n == Len(s)
<1>0. n \in Nat /\ i \in 1..n /\ n = Len(s)
    OBVIOUS
<1> DEFINE u == SubSeq(s, 1, i - 1)
           v == SubSeq(s, i + 1, n)
<1>1. i \in Nat /\ i >= 1 /\ i <= n /\ i - 1 \in Nat /\ i + 1 \in Nat
    BY <1>0
<1>3. /\ u \in Seq(S)
      /\ Len(u) = i - 1
      /\ \A j \in 1..(i - 1) : u[j] = s[j]
    BY SMT
<1>4. /\ v \in Seq(S)
      /\ Len(v) = n - i
      /\ \A j \in 1..(n - i) : v[j] = s[i + j]
    BY SMT
<1> HIDE DEF u, v, n
<1>7. /\ u \o v \in Seq(S)
      /\ Len(u \o v) = Len(u) + Len(v)
      /\ \A j \in 1..(Len(u) + Len(v)) :
             (u \o v)[j] = IF j <= Len(u) THEN u[j] ELSE v[j - Len(u)]
    BY <1>3, <1>4, ConcatProperties, Zenon
<1>8. ASSUME NEW j \in 1..(n - 1)
      PROVE  (u \o v)[j] = IF j < i THEN s[j] ELSE s[j + 1]
    <2>1. j \in 1..(Len(u) + Len(v)) /\ Len(u) = i - 1
        BY <1>0, <1>1, <1>3, <1>4
    <2>2. CASE j < i
        <3>1. j <= Len(u) /\ j \in 1..(i - 1)
            BY <1>0, <1>1, <2>1, <2>2
        <3> QED
            BY <1>3, <1>7, <2>1, <2>2, <3>1
    <2>3. CASE ~(j < i)
        <3>1. ~(j <= Len(u)) /\ j - Len(u) \in 1..(n - i) /\ i + (j - Len(u)) = j + 1
            BY <1>0, <1>1, <2>1, <2>3
        <3>2. v[j - Len(u)] = s[j + 1]
            BY <1>4, <3>1
        <3> QED
            BY <1>7, <2>1, <2>3, <3>1, <3>2
    <2> QED
        BY <2>2, <2>3
<1>9. RemoveAt(s, i) = u \o v
    BY DEF RemoveAt, u, v, n
<1>10. Len(u \o v) = n - 1
    BY <1>0, <1>1, <1>3, <1>4, <1>7
<1> QED
    BY <1>0, <1>7, <1>8, <1>9, <1>10

(* An element taken out. *)
LEMMA Removed ==
    ASSUME NEW S, NEW s \in Seq(S), IsInjective(s), NEW e \in ToSet(s)
    PROVE  /\ RemoveFirst(s, e) \in Seq(S)
           /\ IsInjective(RemoveFirst(s, e))
           /\ ToSet(RemoveFirst(s, e)) = ToSet(s) \ {e}
<1> DEFINE n == Len(s)
           t == RemoveFirst(s, e)
<1>1. DOMAIN s = 1..n /\ n \in Nat /\ \A j \in 1..n : s[j] \in S
    BY SMT
<1>2. PICK i \in 1..n : s[i] = e
    BY <1>1 DEF ToSet
<1>3. {j \in 1..n : s[j] = e} = {i}
    BY <1>1, <1>2 DEF IsInjective
<1>4. SelectInSeq(s, LAMBDA v : v = e) = i
    BY <1>1, <1>2, <1>3 DEF SelectInSeq, Min
<1>5. t = RemoveAt(s, i)
    BY <1>2, <1>4 DEF RemoveFirst
<1> HIDE DEF t
<1>6. /\ t \in Seq(S) /\ Len(t) = n - 1
      /\ \A j \in 1..(n - 1) : t[j] = IF j < i THEN s[j] ELSE s[j + 1]
    BY <1>5, Dropped
<1>7. DOMAIN t = 1..(n - 1)
    BY <1>6
<1> HIDE DEF n
<1>8. \A j \in 1..(n - 1) : \E k \in 1..n :
          /\ k = (IF j < i THEN j ELSE j + 1)
          /\ k # i /\ t[j] = s[k]
    BY <1>1, <1>6
<1>9. IsInjective(t)
    <2> SUFFICES ASSUME NEW a \in 1..(n - 1), NEW b \in 1..(n - 1), t[a] = t[b]
                 PROVE  a = b
        BY <1>7 DEF IsInjective
    <2>1. PICK k \in 1..n : k = (IF a < i THEN a ELSE a + 1) /\ k # i /\ t[a] = s[k]
        BY <1>8
    <2>2. PICK m \in 1..n : m = (IF b < i THEN b ELSE b + 1) /\ m # i /\ t[b] = s[m]
        BY <1>8
    <2>3. k = m
        BY <1>1, <2>1, <2>2 DEF IsInjective
    <2> QED
        BY <1>1, <2>1, <2>2, <2>3
<1>10. \A x \in ToSet(t) : x \in ToSet(s) /\ x # e
    <2> SUFFICES ASSUME NEW j \in 1..(n - 1) PROVE t[j] \in ToSet(s) /\ t[j] # e
        BY <1>7 DEF ToSet
    <2>1. PICK k \in 1..n : k # i /\ t[j] = s[k]
        BY <1>8
    <2> QED
        BY <1>1, <1>2, <2>1 DEF ToSet, IsInjective
<1>11. \A x \in ToSet(s) : x # e => x \in ToSet(t)
    <2> SUFFICES ASSUME NEW k \in 1..n, s[k] # e PROVE s[k] \in ToSet(t)
        BY <1>1 DEF ToSet
    <2>1. CASE k < i
        BY <1>1, <1>2, <1>6, <1>7, <2>1 DEF ToSet
    <2>2. CASE k > i
        <3>1. k - 1 \in 1..(n - 1) /\ ~(k - 1 < i) /\ (k - 1) + 1 = k
            BY <1>1, <2>2
        <3> QED
            BY <1>6, <1>7, <3>1 DEF ToSet
    <2> QED
        BY <1>1, <1>2, <2>1, <2>2
<1> QED
    BY <1>6, <1>9, <1>10, <1>11 DEF t

-----------------------------------------------------------------------------
LEMMA ContainsToSet ==
    ASSUME NEW S, NEW s \in Seq(S), NEW e
    PROVE  Contains(s, e) <=> e \in ToSet(s)
<1>1. DOMAIN s = 1..Len(s)
    BY SMT
<1> QED
    BY <1>1 DEF Contains, ToSet

LEMMA ToSetType ==
    ASSUME NEW S, NEW s \in Seq(S)
    PROVE  ToSet(s) \subseteq S
<1>1. \A i \in DOMAIN s : s[i] \in S
    BY SMT
<1> QED
    BY <1>1 DEF ToSet

LEMMA EmptyList ==
    ASSUME NEW S
    PROVE  <<>> \in Seq(S) /\ ToSet(<<>>) = {} /\ IsInjective(<<>>)
<1>1. <<>> \in Seq(S) /\ DOMAIN <<>> = {}
    BY SMT
<1> QED
    BY <1>1 DEF ToSet, IsInjective

LEMMA OneList ==
    ASSUME NEW S, NEW e \in S
    PROVE  <<e>> \in Seq(S) /\ ToSet(<<e>>) = {e} /\ IsInjective(<<e>>)
<1>1. <<e>> \in Seq(S) /\ DOMAIN <<e>> = {1} /\ <<e>>[1] = e
    BY SMT
<1> QED
    BY <1>1 DEF ToSet, IsInjective

LEMMA LiveFinite == TypeOK => IsFiniteSet(Live) /\ Cardinality(Live) \in Nat
BY PoolAssumption, FS_Subset, FS_CardinalityType DEF TypeOK

LEMMA InitInv == Init => PoolInv
<1> SUFFICES ASSUME Init PROVE PoolInv
    OBVIOUS
<1> USE DEF Init
<1>1. Live = {} /\ Pending = {}
    BY DEF Live, Pending
<1>2. TypeOK
    BY <1>1, EmptyList, PoolAssumption DEF TypeOK, Live, Pending
<1>3. CountIsLive
    BY <1>1, FS_EmptySet DEF CountIsLive
<1>4. ListsAreFree
    BY <1>1, EmptyList DEF ListsAreFree, Free
<1>5. TimersAreFree
    BY <1>1 DEF TimersAreFree
<1>6. OneUserEach
    BY DEF OneUserEach
<1>7. DeletionsSound
    BY EmptyList DEF DeletionsSound
<1> QED
    BY <1>2, <1>3, <1>4, <1>5, <1>6, <1>7 DEF PoolInv

(* A connection is made: it was no connection, so nobody held it, listed   *)
(* it or timed it.                                                         *)
LEMMA NewConnInfoInv ==
    ASSUME PoolInv, NEW addr \in Addresses, Attach(addr), m_stConnectionMap[addr] = <<>>
    PROVE  PoolInv'
<1> USE DEF PoolInv
<1>1. PICK c \in Conns \ Live, garbage \in TimerIDs :
        /\ info' = [d \in Live \cup {c} |->
                       IF d = c THEN [stAddress |-> addr, active |-> TRUE,
                                      IdleConnTimerId |-> garbage]
                       ELSE info[d]]
        /\ users' = [users EXCEPT ![c] = @ + 1]
    BY DEF Attach, NewConnInfo
<1>2. /\ m_ConnectionCount' = m_ConnectionCount + 1
      /\ UNCHANGED <<m_stConnectionMap, timers, m_MaxConnection,
                     m_IdleConnectionTimeout, deleting>>
    BY DEF Attach, NewConnInfo
<1>3. /\ Live' = Live \cup {c} /\ Pending' = Pending
      /\ \A d \in Live : d # c /\ info'[d] = info[d]
      /\ info'[c] = [stAddress |-> addr, active |-> TRUE, IdleConnTimerId |-> garbage]
    BY <1>1, <1>2 DEF Live, Pending
<1>4. users \in [Conns -> Nat] /\ users[c] = 0
    BY <1>1 DEF TypeOK, OneUserEach
<1>5. TypeOK'
    <2>1. info' \in [Live' -> [stAddress : Addresses, active : BOOLEAN,
                               IdleConnTimerId : TimerIDs]]
        BY <1>1, <1>3 DEF TypeOK
    <2> QED
        BY <1>1, <1>2, <1>3, <1>4, <2>1 DEF TypeOK
<1>6. CountIsLive'
    BY <1>1, <1>2, <1>3, LiveFinite, FS_AddElement DEF CountIsLive
<1>7. \A d \in Conns : Free(d)' <=> Free(d)
    <2>0. info'[c].active
        BY <1>3
    <2>1. ~Free(c) /\ ~Free(c)'
        BY <1>1, <2>0, Zenon DEF Free
    <2>2. ASSUME NEW d \in Conns, d # c PROVE Free(d)' <=> Free(d)
        <3>1. (d \in Live' <=> d \in Live) /\ deleting' = deleting
            BY <1>2, <1>3, <2>2
        <3>2. d \in Live => info'[d] = info[d]
            BY <1>3
        <3> QED
            BY <3>1, <3>2 DEF Free
    <2> QED
        BY <2>1, <2>2
<1>8. ListsAreFree'
    BY <1>2, <1>3, <1>7 DEF ListsAreFree, Free
<1>9. TimersAreFree'
    BY <1>2, <1>3, <1>7 DEF TimersAreFree, TypeOK, Free
<1>10. OneUserEach'
    BY <1>1, <1>3, <1>4 DEF OneUserEach
<1>11. DeletionsSound'
    BY <1>1, <1>2, <1>3, <1>4 DEF DeletionsSound
<1> QED
    BY <1>5, <1>6, <1>8, <1>9, <1>10, <1>11

(* An idle connection is taken: it leaves its list, and the only timer     *)
(* that can be its own is cleared.                                         *)
LEMMA TakenInv ==
    ASSUME PoolInv, NEW addr \in Addresses, Attach(addr), m_stConnectionMap[addr] # <<>>
    PROVE  PoolInv'
<1> USE DEF PoolInv
<1> DEFINE list == m_stConnectionMap[addr]
           c == Head(list)
<1>1. /\ m_stConnectionMap' = [m_stConnectionMap EXCEPT ![addr] = Tail(list)]
      /\ timers' = [t \in Pending \ {info[c].IdleConnTimerId} |-> timers[t]]
      /\ info' = [info EXCEPT ![c].active = TRUE]
      /\ users' = [users EXCEPT ![c] = @ + 1]
      /\ UNCHANGED <<m_ConnectionCount, m_MaxConnection, m_IdleConnectionTimeout, deleting>>
    BY DEF Attach, Clear
<1>2. m_stConnectionMap \in [Addresses -> Seq(Conns)] /\ list \in Seq(Conns)
      /\ IsInjective(list) /\ list # <<>>
    BY DEF TypeOK, ListsAreFree
<1>3. /\ Tail(list) \in Seq(Conns) /\ IsInjective(Tail(list))
      /\ c \in ToSet(list) /\ c \in Conns /\ ToSet(Tail(list)) = ToSet(list) \ {c}
    BY <1>2, Popped
<1>4. Free(c) /\ info[c].stAddress = addr
    BY <1>3 DEF ListsAreFree
<1> HIDE DEF list, c
<1>5. /\ Live' = Live /\ c \in Live
      /\ \A d \in Live : d # c => info'[d] = info[d]
      /\ info'[c] = [info[c] EXCEPT !.active = TRUE]
      /\ info[c] \in [stAddress : Addresses, active : BOOLEAN, IdleConnTimerId : TimerIDs]
    BY <1>1, <1>4 DEF Live, Free, TypeOK
<1>6. info'[c].active /\ info'[c].stAddress = addr
      /\ info'[c].IdleConnTimerId = info[c].IdleConnTimerId
    BY <1>4, <1>5
<1>7. Pending' = Pending \ {info[c].IdleConnTimerId} /\ \A t \in Pending' : timers'[t] = timers[t]
    BY <1>1 DEF Pending
<1>8. users \in [Conns -> Nat] /\ users[c] = 0
    BY <1>3, <1>4 DEF TypeOK, OneUserEach, Free
<1>9. \A d \in Conns : Free(d)' <=> Free(d) /\ d # c
    BY <1>1, <1>5, <1>6 DEF Free
<1>10. TypeOK'
    <2>1. info' \in [Live' -> [stAddress : Addresses, active : BOOLEAN,
                               IdleConnTimerId : TimerIDs]]
        BY <1>1, <1>5 DEF TypeOK
    <2>2. timers' \in [Pending' -> Conns] /\ Pending' \subseteq TimerIDs
        BY <1>1, <1>7 DEF TypeOK
    <2>3. m_stConnectionMap' \in [Addresses -> Seq(Conns)]
        BY <1>1, <1>2, <1>3
    <2>4. users' \in [Conns -> Nat]
        BY <1>1, <1>3, <1>8
    <2> QED
        BY <1>1, <1>5, <2>1, <2>2, <2>3, <2>4 DEF TypeOK
<1>11. CountIsLive'
    BY <1>1, <1>5 DEF CountIsLive
<1>12. ListsAreFree'
    <2> SUFFICES ASSUME NEW a \in Addresses
                 PROVE  /\ IsInjective(m_stConnectionMap'[a])
                        /\ \A d \in Conns : d \in ToSet(m_stConnectionMap'[a])
                                                <=> Free(d)' /\ info'[d].stAddress = a
        BY DEF ListsAreFree
    <2>1. CASE a = addr
        <3>1. m_stConnectionMap'[a] = Tail(list)
            BY <1>1, <1>2, <2>1
        <3>2. \A d \in Conns : d \in ToSet(list) <=> Free(d) /\ info[d].stAddress = a
            BY <2>1 DEF ListsAreFree, list
        <3> QED
            BY <1>3, <1>5, <1>9, <3>1, <3>2 DEF Free
    <2>2. CASE a # addr
        <3>1. m_stConnectionMap'[a] = m_stConnectionMap[a]
            BY <1>1, <1>2, <2>2
        <3>2. \A d \in Conns : d \in ToSet(m_stConnectionMap[a])
                                   <=> Free(d) /\ info[d].stAddress = a
            BY DEF ListsAreFree
        <3> QED
            BY <1>4, <1>5, <1>9, <2>2, <3>1, <3>2 DEF Free, ListsAreFree
    <2> QED
        BY <2>1, <2>2
<1>13. TimersAreFree'
    <2> SUFFICES ASSUME NEW id \in Pending'
                 PROVE  Free(timers[id])' /\ info'[timers'[id]].IdleConnTimerId = id
        BY DEF TimersAreFree
    <2>1. id \in Pending /\ id # info[c].IdleConnTimerId /\ timers'[id] = timers[id]
          /\ timers[id] \in Conns
        BY <1>7 DEF TypeOK
    <2>2. Free(timers[id]) /\ info[timers[id]].IdleConnTimerId = id /\ timers[id] # c
        BY <2>1 DEF TimersAreFree
    <2>3. timers[id] \in Live /\ info'[timers[id]] = info[timers[id]]
        BY <1>5, <2>2 DEF Free
    <2> QED
        BY <1>1, <1>5, <2>1, <2>2, <2>3 DEF Free
<1>14. OneUserEach'
    BY <1>1, <1>5, <1>6, <1>8 DEF OneUserEach
<1>15. DeletionsSound'
    BY <1>1, <1>4, <1>5 DEF DeletionsSound, Free, TypeOK
<1> QED
    BY <1>10, <1>11, <1>12, <1>13, <1>14, <1>15

(* A connection is given back: it is put on its list, with a new timer     *)
(* when the pool has an idle timeout.                                      *)
LEMMA DetachInv ==
    ASSUME PoolInv, NEW c \in Conns, Detach(c)
    PROVE  PoolInv'
<1> USE DEF PoolInv
<1> DEFINE addr == info[c].stAddress
           list == m_stConnectionMap[addr]
<1>1. /\ c \in Live /\ info[c].active
      /\ m_stConnectionMap' = [m_stConnectionMap EXCEPT ![addr] = <<c>> \o list]
      /\ users' = [users EXCEPT ![c] = IF @ > 0 THEN @ - 1 ELSE 0]
      /\ UNCHANGED <<m_ConnectionCount, m_MaxConnection, m_IdleConnectionTimeout, deleting>>
    BY DEF Detach
<1>2. info[c] \in [stAddress : Addresses, active : BOOLEAN, IdleConnTimerId : TimerIDs]
      /\ addr \in Addresses /\ list \in Seq(Conns) /\ IsInjective(list)
      /\ m_stConnectionMap \in [Addresses -> Seq(Conns)]
    BY <1>1 DEF TypeOK, ListsAreFree
<1>3. c \notin ToSet(deleting)
    BY ContainsToSet DEF Detach, Dying, TypeOK
<1>4. c \notin ToSet(list)
    BY <1>1, <1>2 DEF ListsAreFree, Free
<1>5. /\ <<c>> \o list \in Seq(Conns) /\ IsInjective(<<c>> \o list)
      /\ ToSet(<<c>> \o list) = ToSet(list) \cup {c}
    BY <1>2, <1>4, Pushed
<1>6. PICK id \in TimerIDs :
          /\ info' = [info EXCEPT ![c].active = FALSE, ![c].IdleConnTimerId = id]
          /\ \/ /\ id \in FreshTimerIDs
                /\ timers' = [t \in Pending \cup {id} |-> IF t = id THEN c ELSE timers[t]]
             \/ UNCHANGED timers
    <2>1. CASE m_IdleConnectionTimeout # KEEPCONNECTION
        BY <2>1 DEF Detach, FreshTimerIDs
    <2>2. CASE m_IdleConnectionTimeout = KEEPCONNECTION
        <3>1. info' = [info EXCEPT ![c].active = FALSE] /\ UNCHANGED timers
            BY <2>2 DEF Detach
        <3>2. info' = [info EXCEPT ![c].active = FALSE,
                                   ![c].IdleConnTimerId = info[c].IdleConnTimerId]
            BY <1>1, <1>2, <3>1 DEF TypeOK, Live
        <3> QED
            BY <1>2, <3>1, <3>2
    <2> QED
        BY <2>1, <2>2
<1> HIDE DEF addr, list
<1>7. /\ Live' = Live
      /\ \A d \in Live : d # c => info'[d] = info[d]
      /\ info'[c] = [info[c] EXCEPT !.active = FALSE, !.IdleConnTimerId = id]
    BY <1>1, <1>6 DEF Live, TypeOK
<1>8. ~info'[c].active /\ info'[c].stAddress = addr /\ info'[c].IdleConnTimerId = id
    BY <1>2, <1>7 DEF addr
<1>9. ~Free(c) /\ Free(c)'
    BY <1>1, <1>3, <1>7, <1>8, Zenon DEF Free
<1>10. \A d \in Conns : d # c => (Free(d)' <=> Free(d))
    BY <1>1, <1>7 DEF Free
<1>11. /\ Pending' \subseteq Pending \cup {id}
       /\ \A t \in Pending' : \/ t \in Pending /\ timers'[t] = timers[t]
                              \/ t = id /\ timers'[t] = c
    <2>1. CASE UNCHANGED timers
        BY <2>1 DEF Pending
    <2>2. CASE id \in FreshTimerIDs
               /\ timers' = [t \in Pending \cup {id} |-> IF t = id THEN c ELSE timers[t]]
        BY <2>2 DEF Pending, FreshTimerIDs
    <2> QED
        BY <1>6, <2>1, <2>2
<1>12. TypeOK'
    <2>1. info' \in [Live' -> [stAddress : Addresses, active : BOOLEAN,
                               IdleConnTimerId : TimerIDs]]
        BY <1>1, <1>2, <1>6, <1>7 DEF TypeOK
    <2>2. timers' \in [Pending' -> Conns] /\ Pending' \subseteq TimerIDs
        <3>2. timers' \in [Pending' -> Conns]
            <4>1. CASE UNCHANGED timers
                BY <4>1 DEF Pending, TypeOK
            <4>2. CASE timers' = [t \in Pending \cup {id} |-> IF t = id THEN c ELSE timers[t]]
                BY <4>2 DEF Pending, TypeOK
            <4> QED
                BY <1>6, <4>1, <4>2
        <3> QED
            BY <1>11, <3>2 DEF TypeOK
    <2>3. m_stConnectionMap' \in [Addresses -> Seq(Conns)]
        BY <1>1, <1>2, <1>5
    <2>4. users' \in [Conns -> Nat]
        BY <1>1 DEF TypeOK
    <2> QED
        BY <1>1, <1>7, <2>1, <2>2, <2>3, <2>4 DEF TypeOK
<1>13. CountIsLive'
    BY <1>1, <1>7 DEF CountIsLive
<1>14. ListsAreFree'
    <2> SUFFICES ASSUME NEW a \in Addresses
                 PROVE  /\ IsInjective(m_stConnectionMap'[a])
                        /\ \A d \in Conns : d \in ToSet(m_stConnectionMap'[a])
                                                <=> Free(d)' /\ info'[d].stAddress = a
        BY DEF ListsAreFree
    <2>0. \A d \in Conns : d \in ToSet(m_stConnectionMap[a])
                               <=> Free(d) /\ info[d].stAddress = a
        BY DEF ListsAreFree
    <2>1. CASE a = addr
        <3>1. m_stConnectionMap'[a] = <<c>> \o list
            BY <1>1, <1>2, <2>1
        <3>2. \A d \in Conns : d \in ToSet(list) <=> Free(d) /\ info[d].stAddress = a
            BY <2>0, <2>1 DEF list
        <3> QED
            BY <1>5, <1>7, <1>8, <1>9, <1>10, <2>1, <3>1, <3>2 DEF Free
    <2>2. CASE a # addr
        <3>1. m_stConnectionMap'[a] = m_stConnectionMap[a]
            BY <1>1, <1>2, <2>2
        <3>2. ASSUME NEW d \in Conns
              PROVE  d \in ToSet(m_stConnectionMap[a]) <=> Free(d)' /\ info'[d].stAddress = a
            <4>1. CASE d = c
                BY <1>8, <1>9, <2>0, <2>2, <4>1
            <4>2. CASE d # c
                <5>1. Free(d) => info'[d] = info[d]
                    BY <1>7, <4>2 DEF Free
                <5> QED
                    BY <1>10, <2>0, <4>2, <5>1
            <4> QED
                BY <4>1, <4>2
        <3> QED
            BY <3>1, <3>2 DEF ListsAreFree
    <2> QED
        BY <2>1, <2>2
<1>15. TimersAreFree'
    <2> SUFFICES ASSUME NEW t \in Pending'
                 PROVE  Free(timers[t])' /\ info'[timers'[t]].IdleConnTimerId = t
        BY DEF TimersAreFree
    <2>1. CASE t = id /\ timers'[t] = c
        BY <1>8, <1>9, <2>1 DEF Free
    <2>2. CASE t \in Pending /\ timers'[t] = timers[t]
        <3>1. timers[t] \in Conns /\ Free(timers[t]) /\ info[timers[t]].IdleConnTimerId = t
            BY <2>2 DEF TimersAreFree, TypeOK
        <3>2. timers[t] # c /\ timers[t] \in Live
            BY <1>9, <3>1 DEF Free
        <3> QED
            BY <1>1, <1>7, <2>2, <3>1, <3>2 DEF Free
    <2> QED
        BY <1>11, <2>1, <2>2
<1>16. OneUserEach'
    <2>1. users \in [Conns -> Nat] /\ users[c] <= 1
        BY DEF TypeOK, OneUserEach
    <2>2. users'[c] = 0 /\ \A d \in Conns : d # c => users'[d] = users[d]
        BY <1>1, <2>1
    <2> QED
        BY <1>7, <2>1, <2>2 DEF OneUserEach
<1>17. DeletionsSound'
    <2>1. \A d \in ToSet(deleting) : d # c /\ d \in Conns
        BY <1>3, ToSetType DEF TypeOK
    <2> QED
        BY <1>1, <1>7, <2>1 DEF DeletionsSound, TypeOK
<1> QED
    BY <1>12, <1>13, <1>14, <1>15, <1>16, <1>17

(* The caller that holds a connection erases it. *)
LEMMA EraseInv ==
    ASSUME PoolInv, NEW c \in Conns, Erase(c)
    PROVE  PoolInv'
<1> USE DEF PoolInv
<1>1. /\ users[c] > 0 /\ deleting' = <<c>> \o deleting
      /\ users' = [users EXCEPT ![c] = @ - 1]
      /\ UNCHANGED <<info, m_stConnectionMap, m_ConnectionCount, m_MaxConnection,
                     m_IdleConnectionTimeout, timers>>
    BY DEF Erase
<1>2. users \in [Conns -> Nat] /\ users[c] = 1 /\ c \in Live /\ info[c].active
    BY <1>1 DEF TypeOK, OneUserEach
<1>3. c \notin ToSet(deleting) /\ deleting \in Seq(Conns) /\ IsInjective(deleting)
    BY ContainsToSet DEF Erase, Dying, TypeOK, DeletionsSound
<1>4. /\ deleting' \in Seq(Conns) /\ IsInjective(deleting')
      /\ ToSet(deleting') = ToSet(deleting) \cup {c}
    BY <1>1, <1>3, Pushed
<1>5. Live' = Live /\ Pending' = Pending
    BY <1>1 DEF Live, Pending
<1>6. \A d \in Conns : Free(d)' <=> Free(d)
    BY <1>1, <1>2, <1>4, <1>5 DEF Free
<1>7. TypeOK'
    BY <1>1, <1>2, <1>4, <1>5 DEF TypeOK
<1>8. CountIsLive'
    BY <1>1, <1>5 DEF CountIsLive
<1>9. ListsAreFree'
    BY <1>1, <1>6 DEF ListsAreFree, Free
<1>10. TimersAreFree'
    BY <1>1, <1>5, <1>6 DEF TimersAreFree, TypeOK, Free
<1>11. OneUserEach'
    BY <1>1, <1>2, <1>5 DEF OneUserEach
<1>12. DeletionsSound'
    <2>1. users'[c] = 0 /\ \A d \in Conns : d # c => users'[d] = users[d]
        BY <1>1, <1>2
    <2>2. ToSet(deleting) \subseteq Conns
        BY <1>3, ToSetType
    <2> QED
        BY <1>2, <1>3, <1>4, <1>5, <2>1, <2>2 DEF DeletionsSound
<1> QED
    BY <1>7, <1>8, <1>9, <1>10, <1>11, <1>12

(* The idle timer of a connection rings, and it is idle. *)
LEMMA OnTimeoutInv ==
    ASSUME PoolInv, NEW id \in Pending, OnTimeout(id)
    PROVE  PoolInv'
<1> USE DEF PoolInv
<1> DEFINE c == timers[id]
           addr == info[c].stAddress
           list == m_stConnectionMap[addr]
<1>1. /\ deleting = <<>> /\ deleting' = <<c>>
      /\ timers' = [t \in Pending \ {id} |-> timers[t]]
      /\ m_stConnectionMap' = [m_stConnectionMap EXCEPT ![addr] = RemoveFirst(list, c)]
      /\ UNCHANGED <<info, m_ConnectionCount, m_MaxConnection, m_IdleConnectionTimeout, users>>
    BY DEF OnTimeout, Clear
<1>2. c \in Conns /\ Free(c) /\ info[c].IdleConnTimerId = id
    BY DEF TimersAreFree, TypeOK
<1>3. addr \in Addresses /\ list \in Seq(Conns) /\ IsInjective(list) /\ c \in ToSet(list)
      /\ m_stConnectionMap \in [Addresses -> Seq(Conns)]
    BY <1>2 DEF TypeOK, Free, ListsAreFree
<1>4. /\ RemoveFirst(list, c) \in Seq(Conns) /\ IsInjective(RemoveFirst(list, c))
      /\ ToSet(RemoveFirst(list, c)) = ToSet(list) \ {c}
    BY <1>3, Removed
<1> HIDE DEF c, addr, list
<1>5. deleting' \in Seq(Conns) /\ IsInjective(deleting') /\ ToSet(deleting') = {c}
      /\ ToSet(deleting) = {}
    BY <1>1, <1>2, EmptyList, OneList
<1>6. Live' = Live /\ Pending' = Pending \ {id} /\ \A t \in Pending' : timers'[t] = timers[t]
    BY <1>1 DEF Live, Pending
<1>7. \A d \in Conns : Free(d)' <=> Free(d) /\ d # c
    BY <1>1, <1>5, <1>6 DEF Free
<1>8. users \in [Conns -> Nat] /\ users[c] = 0
    BY <1>2 DEF TypeOK, OneUserEach, Free
<1>9. TypeOK'
    <2>1. timers' \in [Pending' -> Conns] /\ Pending' \subseteq TimerIDs
        BY <1>1, <1>6 DEF TypeOK
    <2>2. m_stConnectionMap' \in [Addresses -> Seq(Conns)]
        BY <1>1, <1>3, <1>4
    <2> QED
        BY <1>1, <1>5, <1>6, <2>1, <2>2 DEF TypeOK
<1>10. CountIsLive'
    BY <1>1, <1>6 DEF CountIsLive
<1>11. ListsAreFree'
    <2> SUFFICES ASSUME NEW a \in Addresses
                 PROVE  /\ IsInjective(m_stConnectionMap'[a])
                        /\ \A d \in Conns : d \in ToSet(m_stConnectionMap'[a])
                                                <=> Free(d)' /\ info'[d].stAddress = a
        BY DEF ListsAreFree
    <2>0. \A d \in Conns : d \in ToSet(m_stConnectionMap[a])
                               <=> Free(d) /\ info[d].stAddress = a
        BY DEF ListsAreFree
    <2>1. CASE a = addr
        <3>1. m_stConnectionMap'[a] = RemoveFirst(list, c)
            BY <1>1, <1>3, <2>1
        <3>2. \A d \in Conns : d \in ToSet(list) <=> Free(d) /\ info[d].stAddress = a
            BY <2>0, <2>1 DEF list
        <3> QED
            BY <1>1, <1>4, <1>7, <3>1, <3>2
    <2>2. CASE a # addr
        <3>1. m_stConnectionMap'[a] = m_stConnectionMap[a]
            BY <1>1, <1>3, <2>2
        <3>2. info[c].stAddress = addr
            BY DEF addr
        <3> QED
            BY <1>1, <1>7, <2>0, <2>2, <3>1, <3>2 DEF ListsAreFree
    <2> QED
        BY <2>1, <2>2
<1>12. TimersAreFree'
    <2> SUFFICES ASSUME NEW t \in Pending'
                 PROVE  Free(timers[t])' /\ info'[timers'[t]].IdleConnTimerId = t
        BY DEF TimersAreFree
    <2>1. t \in Pending /\ t # id /\ timers'[t] = timers[t] /\ timers[t] \in Conns
        BY <1>6 DEF TypeOK
    <2>2. Free(timers[t]) /\ info[timers[t]].IdleConnTimerId = t /\ timers[t] # c
        BY <1>2, <2>1 DEF TimersAreFree
    <2> QED
        BY <1>1, <1>5, <1>6, <2>1, <2>2 DEF Free
<1>13. OneUserEach'
    BY <1>1, <1>6 DEF OneUserEach
<1>14. DeletionsSound'
    BY <1>1, <1>2, <1>5, <1>6, <1>8 DEF DeletionsSound, Free
<1> QED
    BY <1>9, <1>10, <1>11, <1>12, <1>13, <1>14

(* The innermost deletion ends. *)
LEMMA DeletedInv ==
    ASSUME PoolInv, Deleted
    PROVE  PoolInv'
<1> USE DEF PoolInv
<1> DEFINE h == Head(deleting)
<1>1. /\ deleting # <<>> /\ deleting' = Tail(deleting)
      /\ info' = [d \in Live \ {h} |-> info[d]]
      /\ m_ConnectionCount' = m_ConnectionCount - 1
      /\ UNCHANGED <<m_stConnectionMap, m_MaxConnection, m_IdleConnectionTimeout,
                     timers, users>>
    BY DEF Deleted
<1>2. /\ deleting' \in Seq(Conns) /\ IsInjective(deleting')
      /\ h \in ToSet(deleting) /\ h \in Conns /\ ToSet(deleting') = ToSet(deleting) \ {h}
    BY <1>1, Popped DEF TypeOK, DeletionsSound
<1>3. h \in Live /\ users[h] = 0 /\ ~Free(h)
    BY <1>2 DEF DeletionsSound, Free
<1> HIDE DEF h
<1>4. Live' = Live \ {h} /\ Pending' = Pending /\ \A d \in Live' : info'[d] = info[d]
    BY <1>1 DEF Live, Pending
<1>5. \A d \in Conns : Free(d)' <=> Free(d)
    BY <1>2, <1>3, <1>4 DEF Free
<1>6. \A d \in Conns : Free(d) => info'[d] = info[d]
    BY <1>3, <1>4 DEF Free
<1>7. Cardinality(Live') = Cardinality(Live) - 1 /\ Cardinality(Live') \in Nat
    BY <1>3, <1>4, LiveFinite, FS_RemoveElement, FS_CardinalityType
<1>8. TypeOK'
    <2>1. m_ConnectionCount' \in Nat
        BY <1>1, <1>7 DEF CountIsLive
    <2>2. info' \in [Live' -> [stAddress : Addresses, active : BOOLEAN,
                               IdleConnTimerId : TimerIDs]]
        BY <1>1, <1>4 DEF TypeOK
    <2> QED
        BY <1>1, <1>2, <1>4, <2>1, <2>2 DEF TypeOK
<1>9. CountIsLive'
    BY <1>1, <1>7 DEF CountIsLive
<1>10. ListsAreFree'
    BY <1>1, <1>5, <1>6 DEF ListsAreFree
<1>11. TimersAreFree'
    <2> SUFFICES ASSUME NEW t \in Pending'
                 PROVE  Free(timers[t])' /\ info'[timers'[t]].IdleConnTimerId = t
        BY DEF TimersAreFree
    <2>1. timers[t] \in Conns /\ Free(timers[t]) /\ info[timers[t]].IdleConnTimerId = t
        BY <1>4 DEF TimersAreFree, TypeOK
    <2>2. timers[t] \in Live' /\ ~info'[timers[t]].active /\ timers[t] \notin ToSet(deleting')
        BY <1>3, <1>4, <1>2, <1>6, <2>1 DEF Free
    <2> QED
        BY <1>1, <1>6, <2>1, <2>2 DEF Free
<1>12. OneUserEach'
    BY <1>1, <1>3, <1>4 DEF OneUserEach
<1>13. DeletionsSound'
    BY <1>1, <1>2, <1>4 DEF DeletionsSound
<1> QED
    BY <1>8, <1>9, <1>10, <1>11, <1>12, <1>13

LEMMA SettersInv ==
    ASSUME PoolInv,
           \/ \E max \in MaxConnections : SetMaxConnection(max)
           \/ \E timeout \in IdleTimeouts : SetIdleTimeout(timeout)
           \/ UNCHANGED vars
    PROVE  PoolInv'
<1>1. /\ UNCHANGED <<info, m_stConnectionMap, m_ConnectionCount, timers, deleting, users>>
      /\ m_MaxConnection' \in MaxConnections /\ m_IdleConnectionTimeout' \in IdleTimeouts
    BY DEF PoolInv, TypeOK, SetMaxConnection, SetIdleTimeout, vars
<1>2. Live' = Live /\ Pending' = Pending
    BY <1>1 DEF Live, Pending
<1>3. TypeOK' /\ CountIsLive'
    BY <1>1, <1>2 DEF PoolInv, TypeOK, CountIsLive
<1>4. ListsAreFree' /\ TimersAreFree'
    BY <1>1, <1>2 DEF PoolInv, ListsAreFree, TimersAreFree, Free
<1>5. OneUserEach' /\ DeletionsSound'
    BY <1>1, <1>2 DEF PoolInv, OneUserEach, DeletionsSound
<1> QED
    BY <1>3, <1>4, <1>5 DEF PoolInv

LEMMA NextInv == PoolInv /\ [Next]_vars => PoolInv'
<1> SUFFICES ASSUME PoolInv, [Next]_vars PROVE PoolInv'
    OBVIOUS
<1>1. ASSUME NEW a \in Addresses, Attach(a) PROVE PoolInv'
    BY <1>1, NewConnInfoInv, TakenInv
<1>2. ASSUME NEW c \in Conns, Detach(c) PROVE PoolInv'
    BY <1>2, DetachInv
<1>3. ASSUME NEW c \in Conns, Erase(c) PROVE PoolInv'
    BY <1>3, EraseInv
<1>4. ASSUME NEW id \in Pending, OnTimeout(id) PROVE PoolInv'
    BY <1>4, OnTimeoutInv
<1>5. CASE Deleted
    BY <1>5, DeletedInv
<1>6. CASE \/ \E max \in MaxConnections : SetMaxConnection(max)
           \/ \E timeout \in IdleTimeouts : SetIdleTimeout(timeout)
           \/ UNCHANGED vars
    BY <1>6, SettersInv
<1> QED
    BY <1>1, <1>2, <1>3, <1>4, <1>5, <1>6 DEF Next

LEMMA InvHolds == Spec => []PoolInv
BY InitInv, NextInv, PTL DEF Spec

(* The sets of the invariant say what the properties say of sequences. *)
LEMMA ListsSound == PoolInv => IdleListsSound
<1> SUFFICES ASSUME PoolInv, NEW a \in Addresses
             PROVE  /\ IsInjective(m_stConnectionMap[a])
                    /\ ToSet(m_stConnectionMap[a]) =
                          {c \in Live : info[c].stAddress = a /\ ~info[c].active /\ ~Dying(c)}
    BY DEF IdleListsSound
<1>1. m_stConnectionMap[a] \in Seq(Conns) /\ Live \subseteq Conns /\ deleting \in Seq(Conns)
    BY DEF PoolInv, TypeOK
<1>2. \A c \in Conns : Dying(c) <=> c \in ToSet(deleting)
    BY <1>1, ContainsToSet DEF Dying
<1>3. ToSet(m_stConnectionMap[a]) \subseteq Conns
    BY <1>1, ToSetType
<1> QED
    BY <1>1, <1>2, <1>3 DEF PoolInv, ListsAreFree, Free

LEMMA TimersBelong == PoolInv => TimersBelongToIdle
<1> SUFFICES ASSUME PoolInv, NEW id \in Pending
             PROVE  Idle(timers[id]) /\ info[timers[id]].IdleConnTimerId = id
    BY DEF TimersBelongToIdle
<1> DEFINE c == timers[id]
           a == info[c].stAddress
<1>1. c \in Conns /\ Free(c) /\ info[c].IdleConnTimerId = id
    BY DEF PoolInv, TypeOK, TimersAreFree
<1>2. a \in Addresses
    BY <1>1 DEF PoolInv, TypeOK, Free
<1>3. c \in ToSet(m_stConnectionMap[a]) /\ m_stConnectionMap[a] \in Seq(Conns)
    BY <1>1, <1>2 DEF PoolInv, ListsAreFree, TypeOK
<1> QED
    BY <1>1, <1>2, <1>3, ContainsToSet DEF Idle

-----------------------------------------------------------------------------
(* The pool's variables keep their types, its count stays a natural number *)
(* and its lists hold connections.                                         *)
THEOREM PoolTypeCorrect == Spec => []TypeOK
BY InvHolds, PTL DEF PoolInv

(* The count that limits the pool is that of the connections that exist.   *)
THEOREM PoolCountIsLive == Spec => []CountIsLive
BY InvHolds, PTL DEF PoolInv

(* The lists hold exactly the idle connections, each once.                 *)
THEOREM PoolIdleListsSound == Spec => []IdleListsSound
BY InvHolds, ListsSound, PTL

(* An idle timer never rings for a connection that is held or deleted.     *)
THEOREM PoolTimersBelongToIdle == Spec => []TimersBelongToIdle
BY InvHolds, TimersBelong, PTL

(* A connection has one user at most, and is not freed under its user.     *)
THEOREM PoolOneUserEach == Spec => []OneUserEach
BY InvHolds, PTL DEF PoolInv
=============================================================================

---------------------------- MODULE MessageProofs ----------------------------
(***************************************************************************)
(* Proofs about what the handlers of messages rely on: the sessions they   *)
(* find by their tokens, and the packages they unpack.                     *)
(*                                                                         *)
(* The sessions are those of any SessionInfos, TimerIDs and tokens, as     *)
(* long as no token comes round to a session that is alive.  The packages  *)
(* are any that fit the buffers, with buffers of any size and a stream     *)
(* that is cut anywhere.                                                   *)
(***************************************************************************)
EXTENDS Session, Packages, WellFoundedInduction, TLAPS

-----------------------------------------------------------------------------
(* Sessions. *)

(* No two sessions remember one TimerID, also not one that is no longer    *)
(* pending: Clear never takes away the timer of another session.           *)
DistinctTimerIds ==
    \A p, q \in Live : heap[p].dwTimerId = heap[q].dwTimerId => p = q

(* The session that is being told was not given up before. *)
TellingIsNew == telling \notin abandoned

(* The inductive invariant. *)
SessionInv == TypeOK /\ SessionsAgree /\ DistinctTimerIds /\ TellingIsNew

-----------------------------------------------------------------------------
LEMMA SessionInitInv == Init => SessionInv
<1> SUFFICES ASSUME Init PROVE SessionInv
    OBVIOUS
<1>1. TypeOK
    BY SessionAssumption DEF Init, TypeOK, Known, Live, Pending, Tokens
<1>2. SessionsAgree
    BY DEF Init, SessionsAgree, SessionsAreTimed, TokensFindSessions, Known, Live, Pending
<1>3. DistinctTimerIds /\ TellingIsNew
    BY DEF Init, DistinctTimerIds, TellingIsNew, Live
<1> QED
    BY <1>1, <1>2, <1>3 DEF SessionInv

-----------------------------------------------------------------------------
(* A new session, at an address that is free, with a TimerID of its own.   *)
LEMMA AllocateInv ==
    ASSUME SessionInv, ~TokenReuse, Allocate
    PROVE  SessionInv'
<1> DEFINE token == (m_dwSequence + 1) % TOKEN_SPAN
<1> USE DEF SessionInv
<1>1. token \in Tokens /\ token \notin Known
    BY SessionAssumption DEF Allocate, TypeOK, Tokens
<1>2. PICK id \in FreshTimerIDs, p \in Infos \ Live :
          /\ m_stSessionMap' = With(m_stSessionMap, token, p)
          /\ heap' = With(heap, p, [dwSequence |-> token, dwTimerId |-> id])
          /\ timers' = With(timers, id, p)
    BY <1>1 DEF Allocate
<1>3. /\ m_dwSequence' = token
      /\ UNCHANGED <<callbacks, telling, position, abandoned>>
    BY DEF Allocate
<1>4. /\ id \in TimerIDs /\ id \notin Pending
      /\ \A q \in Live : heap[q].dwTimerId # id
    BY <1>2 DEF FreshTimerIDs
<1>5. /\ Known' = Known \cup {token} /\ m_stSessionMap'[token] = p
      /\ \A t \in Known : m_stSessionMap'[t] = m_stSessionMap[t]
    BY <1>1, <1>2 DEF With, Known
<1>6. /\ Live' = Live \cup {p}
      /\ heap'[p] = [dwSequence |-> token, dwTimerId |-> id]
      /\ \A q \in Live : heap'[q] = heap[q]
    BY <1>2 DEF With, Live
<1>7. /\ Pending' = Pending \cup {id} /\ timers'[id] = p
      /\ \A i \in Pending : timers'[i] = timers[i]
    BY <1>2, <1>4 DEF With, Pending
<1>8. TypeOK'
    <2>1. m_stSessionMap' \in [Known' -> Infos] /\ Known' \subseteq Tokens
        BY <1>1, <1>2, <1>5 DEF TypeOK, With, Known
    <2>2. heap' \in [Live' -> [dwSequence : Tokens, dwTimerId : TimerIDs]]
        BY <1>1, <1>2, <1>4, <1>6 DEF TypeOK, With, Live
    <2>3. timers' \in [Pending' -> Infos]
        BY <1>2, <1>4, <1>7 DEF TypeOK, With, Pending
    <2> QED
        BY <1>1, <1>2, <1>3, <1>4, <1>6, <1>7, <2>1, <2>2, <2>3 DEF TypeOK
<1>9. p \notin abandoned /\ p # telling
    BY <1>2, NoInfoAssumption DEF TypeOK, SessionsAgree, TokensFindSessions
<1>10. SessionsAreTimed'
    BY <1>3, <1>4, <1>6, <1>7, <1>9 DEF SessionsAgree, SessionsAreTimed
<1>11. TokensFindSessions'
    BY <1>1, <1>2, <1>3, <1>5, <1>6 DEF SessionsAgree, TokensFindSessions
<1>12. DistinctTimerIds' /\ TellingIsNew'
    BY <1>2, <1>3, <1>4, <1>6 DEF DistinctTimerIds, TellingIsNew
<1> QED
    BY <1>8, <1>10, <1>11, <1>12 DEF SessionsAgree

(* A session that goes, with its token, whose timer is not pending after   *)
(* that: by Delete, or when it has been told.                              *)
LEMMA SessionGoes ==
    ASSUME SessionInv, NEW token \in Known, NEW p, p = m_stSessionMap[token],
           m_stSessionMap' = Without(m_stSessionMap, token),
           heap' = Without(heap, p),
           timers' = [i \in Pending \ {heap[p].dwTimerId} |-> timers[i]],
           telling' # p, telling' \in {telling, NoInfo}, telling # telling' => telling = p,
           abandoned' = abandoned \ {p},
           UNCHANGED <<m_dwSequence, callbacks>>, position' \in Nat
    PROVE  SessionInv'
<1> USE DEF SessionInv
<1>1. p \in Live /\ heap[p].dwSequence = token
    BY DEF SessionsAgree, TokensFindSessions
<1>2. /\ Known' = Known \ {token}
      /\ \A t \in Known \ {token} : m_stSessionMap'[t] = m_stSessionMap[t]
    BY DEF Without, Known
<1>3. Live' = Live \ {p} /\ \A q \in Live \ {p} : heap'[q] = heap[q]
    BY DEF Without, Live
<1>4. /\ Pending' = Pending \ {heap[p].dwTimerId}
      /\ \A i \in Pending' : timers'[i] = timers[i]
    BY DEF Pending
<1>5. TypeOK'
    <2>1. m_stSessionMap' \in [Known' -> Infos]
        BY <1>2 DEF TypeOK, Without, Known
    <2>2. heap' \in [Live' -> [dwSequence : Tokens, dwTimerId : TimerIDs]]
        BY <1>3 DEF TypeOK, Without, Live
    <2>3. timers' \in [Pending' -> Infos]
        BY <1>4 DEF TypeOK, Pending
    <2> QED
        BY <1>2, <1>3, <1>4, <2>1, <2>2, <2>3 DEF TypeOK
<1>6. \A q \in Live' : heap[q].dwTimerId # heap[p].dwTimerId
    BY <1>1, <1>3 DEF DistinctTimerIds
<1>7. \A q \in Live' : q \in abandoned' \cup {telling'} <=> q \in abandoned \cup {telling}
    BY <1>3, NoInfoAssumption DEF TypeOK
<1>8. SessionsAreTimed'
    <2>1. \A q \in Live' \ (abandoned' \cup {telling'}) :
              heap'[q].dwTimerId \in Pending' /\ timers'[heap'[q].dwTimerId] = q
        BY <1>3, <1>4, <1>6, <1>7 DEF SessionsAgree, SessionsAreTimed
    <2>2. \A i \in Pending' : timers[i] # p /\ timers[i] \in Live'
        BY <1>3, <1>4 DEF SessionsAgree, SessionsAreTimed
    <2>3. \A i \in Pending' :
              /\ timers'[i] \in Live' \ (abandoned' \cup {telling'})
              /\ heap'[timers'[i]].dwTimerId = i
        BY <1>3, <1>4, <1>7, <2>2 DEF SessionsAgree, SessionsAreTimed
    <2> QED
        BY <2>1, <2>3 DEF SessionsAreTimed
<1>9. TokensFindSessions'
    BY <1>1, <1>2, <1>3 DEF SessionsAgree, TokensFindSessions
<1>10. DistinctTimerIds' /\ TellingIsNew'
    BY <1>3, NoInfoAssumption DEF DistinctTimerIds, TellingIsNew, TypeOK
<1> QED
    BY <1>5, <1>8, <1>9, <1>10 DEF SessionsAgree

LEMMA DeleteInv ==
    ASSUME SessionInv, NEW token \in Known, Delete(token)
    PROVE  SessionInv'
BY SessionGoes DEF Delete, Clear, SessionInv, TypeOK

LEMMA TimeoutReturnsInv ==
    ASSUME SessionInv, TimeoutReturns
    PROVE  SessionInv'
<1> DEFINE token == heap[telling].dwSequence
<1>1. telling \in Live /\ token \in Known /\ m_stSessionMap[token] = telling
    BY DEF TimeoutReturns, SessionInv, SessionsAgree, TokensFindSessions
<1>2. telling # NoInfo
    BY DEF TimeoutReturns
<1>3. heap[telling].dwTimerId \notin Pending
    BY <1>1 DEF SessionInv, SessionsAgree, SessionsAreTimed, DistinctTimerIds
<1>4. timers' = [i \in Pending \ {heap[telling].dwTimerId} |-> timers[i]]
    BY <1>3 DEF TimeoutReturns, SessionInv, TypeOK, Pending
<1>5. abandoned' = abandoned \ {telling}
    BY DEF TimeoutReturns, SessionInv, TellingIsNew
<1> QED
    BY <1>1, <1>2, <1>4, <1>5, SessionGoes DEF TimeoutReturns

LEMMA OnSessionTimeoutInv ==
    ASSUME SessionInv, NEW id \in Pending, OnSessionTimeout(id)
    PROVE  SessionInv'
<1> USE DEF SessionInv
<1>1. timers[id] \in Live \ abandoned /\ heap[timers[id]].dwTimerId = id
    BY DEF SessionsAgree, SessionsAreTimed
<1>2. /\ Pending' = Pending \ {id}
      /\ \A i \in Pending \ {id} : timers'[i] = timers[i]
    BY DEF OnSessionTimeout, Clear, Pending
<1>3. telling = NoInfo /\ telling' = timers[id] /\ position' = 0
      /\ UNCHANGED <<m_dwSequence, m_stSessionMap, heap, callbacks, abandoned>>
    BY DEF OnSessionTimeout
<1>4. TypeOK'
    <2>1. timers' \in [Pending' -> Infos]
        BY <1>2 DEF OnSessionTimeout, Clear, TypeOK, Pending
    <2> QED
        BY <1>1, <1>2, <1>3, <2>1 DEF TypeOK, Live, Known
<1>5. SessionsAreTimed'
    <2>1. Live' = Live /\ NoInfo \notin Live
        BY <1>3, NoInfoAssumption DEF TypeOK, Live
    <2>2. \A p \in Live \ (abandoned \cup {timers[id]}) :
              heap[p].dwTimerId \in Pending' /\ timers'[heap[p].dwTimerId] = p
        BY <1>1, <1>2, <1>3, <2>1 DEF SessionsAgree, SessionsAreTimed
    <2>3. \A i \in Pending' :
              /\ timers'[i] \in Live \ (abandoned \cup {timers[id]})
              /\ heap[timers'[i]].dwTimerId = i
        BY <1>1, <1>2 DEF SessionsAgree, SessionsAreTimed
    <2> QED
        BY <1>3, <2>1, <2>2, <2>3 DEF SessionsAreTimed
<1>6. TokensFindSessions'
    BY <1>1, <1>3 DEF SessionsAgree, TokensFindSessions, Live, Known
<1>7. DistinctTimerIds' /\ TellingIsNew'
    BY <1>1, <1>3 DEF DistinctTimerIds, TellingIsNew, Live
<1> QED
    BY <1>4, <1>5, <1>6, <1>7 DEF SessionsAgree

LEMMA CallbackThrowsInv ==
    ASSUME SessionInv, CallbackThrows
    PROVE  SessionInv'
<1> USE DEF SessionInv
<1>1. telling \in Live /\ telling' = NoInfo /\ abandoned' = abandoned \cup {telling}
    BY DEF CallbackThrows, SessionsAgree, TokensFindSessions
<1>2. UNCHANGED <<m_dwSequence, m_stSessionMap, heap, timers, callbacks>> /\ position' = 0
    BY DEF CallbackThrows
<1>3. TypeOK'
    BY <1>1, <1>2 DEF TypeOK, Live, Known, Pending
<1>4. NoInfo \notin Live
    BY NoInfoAssumption DEF TypeOK
<1>5. SessionsAreTimed'
    BY <1>1, <1>2, <1>4 DEF SessionsAgree, SessionsAreTimed, Live, Pending
<1>6. TokensFindSessions' /\ DistinctTimerIds'
    BY <1>1, <1>2 DEF SessionsAgree, TokensFindSessions, DistinctTimerIds, Live, Known
<1>7. TellingIsNew'
    BY <1>1, <1>4 DEF TellingIsNew, TypeOK
<1> QED
    BY <1>3, <1>5, <1>6, <1>7 DEF SessionsAgree

(* Steps that count callbacks, and stuttering. *)
LEMMA CountInv ==
    ASSUME SessionInv, RegisterCallback \/ CallbackReturns \/ UNCHANGED vars
    PROVE  SessionInv'
<1> USE DEF SessionInv
<1>1. UNCHANGED <<m_dwSequence, m_stSessionMap, heap, timers, telling, abandoned>>
    BY DEF RegisterCallback, CallbackReturns, vars
<1>2. callbacks' \in Nat /\ position' \in Nat
    BY DEF RegisterCallback, CallbackReturns, vars, TypeOK
<1>3. TypeOK'
    BY <1>1, <1>2 DEF TypeOK, Live, Known, Pending
<1>4. SessionsAgree'
    BY <1>1 DEF SessionsAgree, SessionsAreTimed, TokensFindSessions, Live, Known, Pending
<1> QED
    BY <1>1, <1>3, <1>4 DEF DistinctTimerIds, TellingIsNew, Live

-----------------------------------------------------------------------------
LEMMA SessionNextInv == ~TokenReuse /\ SessionInv /\ [Next]_vars => SessionInv'
<1> SUFFICES ASSUME ~TokenReuse, SessionInv, [Next]_vars
             PROVE  SessionInv'
    OBVIOUS
<1>1. CASE Allocate
    BY <1>1, AllocateInv
<1>2. CASE \E token \in Known : Delete(token)
    BY <1>2, DeleteInv
<1>3. CASE \E id \in Pending : OnSessionTimeout(id)
    BY <1>3, OnSessionTimeoutInv
<1>4. CASE CallbackThrows
    BY <1>4, CallbackThrowsInv
<1>5. CASE TimeoutReturns
    BY <1>5, TimeoutReturnsInv
<1>6. CASE RegisterCallback \/ CallbackReturns \/ UNCHANGED vars
    BY <1>6, CountInv
<1> QED
    BY <1>1, <1>2, <1>3, <1>4, <1>5, <1>6 DEF Next

LEMMA SessionInvHolds ==
    ASSUME ~TokenReuse
    PROVE  Spec => []SessionInv
<1>1. SessionInv /\ [Next]_vars => SessionInv'
    BY SessionNextInv
<1> QED
    BY SessionInitInv, <1>1, PTL DEF Spec

(* The sessions keep their types, whatever callbacks allocate and delete.  *)
THEOREM SessionTypeCorrect ==
    ASSUME ~TokenReuse
    PROVE  Spec => []TypeOK
<1>1. SessionInv => TypeOK
    BY DEF SessionInv
<1> QED
    BY SessionInvHolds, <1>1, PTL

(* Map, sessions and timers agree: every session has a timer of its own    *)
(* until it is told, no timer rings for a session that was deleted, and a  *)
(* token leads to its session, whatever the callbacks of a timeout do.     *)
THEOREM SessionsStayAgreed ==
    ASSUME ~TokenReuse
    PROVE  Spec => []SessionsAgree
<1>1. SessionInv => SessionsAgree
    BY DEF SessionInv
<1> QED
    BY SessionInvHolds, <1>1, PTL

-----------------------------------------------------------------------------
(* Packages. *)

(* Induction.  A claim about all numbers is a set of numbers here: 0 is in *)
(* it, and so is the next of each.                                         *)
LEMMA InductionOnSets ==
    ASSUME NEW T, 0 \in T, \A n \in Nat : n \in T => n + 1 \in T
    PROVE  Nat \subseteq T
<1> SUFFICES ASSUME Nat \ T # {} PROVE FALSE
    OBVIOUS
<1>1. PICK m \in Nat \ T : \A n \in Nat \ T : ~ (<<n, m>> \in OpToRel(<, Nat))
    <2>1. Nat \ T \subseteq Nat
        OBVIOUS
    <2> QED
        BY <2>1, NatLessThanWellFounded, WFMin
<1>2. m # 0 /\ m - 1 \in Nat /\ m - 1 < m
    OBVIOUS
<1>3. m - 1 \in T
    BY <1>1, <1>2 DEF OpToRel
<1>4. (m - 1) + 1 \in T
    BY <1>2, <1>3
<1> QED
    BY <1>4

-----------------------------------------------------------------------------
(* Powers of BYTE.  Powers(g, n) says that g has them up to n.             *)

Powers(g, n) == g = [i \in 0..n |-> IF i = 0 THEN 1 ELSE BYTE * g[i - 1]]

LEMMA PowersExist == \A n \in Nat : \E g : Powers(g, n)
<1> DEFINE T == {n \in Nat : \E g : Powers(g, n)}
<1>1. 0 \in T
    <2>1. Powers([i \in 0..0 |-> 1], 0)
        BY DEF Powers
    <2> QED
        BY <2>1
<1>2. ASSUME NEW n \in Nat, n \in T PROVE n + 1 \in T
    <2>1. PICK g : Powers(g, n)
        BY <1>2
    <2> DEFINE h == [i \in 0..(n + 1) |-> IF i = n + 1 THEN BYTE * g[n] ELSE g[i]]
    <2>2. \A i \in 0..n : g[i] = IF i = 0 THEN 1 ELSE BYTE * g[i - 1]
        BY <2>1 DEF Powers
    <2>3. \A i \in 0..(n + 1) : h[i] = IF i = 0 THEN 1 ELSE BYTE * h[i - 1]
        <3> SUFFICES ASSUME NEW i \in 0..(n + 1)
                     PROVE  h[i] = IF i = 0 THEN 1 ELSE BYTE * h[i - 1]
            OBVIOUS
        <3>1. CASE i = 0
            BY <2>2, <3>1
        <3>2. CASE i \in 1..n
            <4>1. h[i] = g[i] /\ h[i - 1] = g[i - 1] /\ i \in 0..n
                BY <3>2
            <4> QED
                BY <2>2, <3>2, <4>1
        <3>3. CASE i = n + 1
            <4>1. h[i] = BYTE * g[n] /\ h[i - 1] = g[n]
                BY <3>3
            <4> QED
                BY <3>3, <4>1
        <3> QED
            BY <3>1, <3>2, <3>3
    <2>4. h = [i \in 0..(n + 1) |-> h[i]]
        OBVIOUS
    <2> HIDE DEF h
    <2>5. Powers(h, n + 1)
        BY <2>3, <2>4 DEF Powers
    <2> QED
        BY <2>5
<1> HIDE DEF T
<1>3. Nat \subseteq T
    BY <1>1, <1>2, InductionOnSets
<1> QED
    BY <1>3 DEF T

LEMMA PowersAgree ==
    ASSUME NEW m \in Nat, NEW n \in Nat, NEW g, NEW h, Powers(g, m), Powers(h, n)
    PROVE  \A i \in Nat : i <= m /\ i <= n => g[i] = h[i]
<1> DEFINE T == {i \in Nat : i <= m /\ i <= n => g[i] = h[i]}
<1>1. 0 \in T
    BY DEF Powers
<1>2. ASSUME NEW i \in Nat, i \in T PROVE i + 1 \in T
    <2> SUFFICES ASSUME i + 1 <= m, i + 1 <= n PROVE g[i + 1] = h[i + 1]
        OBVIOUS
    <2>1. g[i] = h[i]
        BY <1>2
    <2>2. g[i + 1] = BYTE * g[i] /\ h[i + 1] = BYTE * h[i]
        <3>1. i + 1 \in 0..m /\ i + 1 \in 0..n /\ i + 1 # 0 /\ (i + 1) - 1 = i
            OBVIOUS
        <3> QED
            BY <3>1 DEF Powers
    <2> QED
        BY <2>1, <2>2
<1> HIDE DEF T
<1>3. Nat \subseteq T
    BY <1>1, <1>2, InductionOnSets
<1> QED
    BY <1>3 DEF T

LEMMA PowerIs == /\ Power[0] = 1
                 /\ \A n \in Nat : Power[n + 1] = BYTE * Power[n]
<1> DEFINE PowerAt(n) == (CHOOSE g : Powers(g, n))[n]
           all == [n \in Nat |-> PowerAt(n)]
<1>1. ASSUME NEW n \in Nat
      PROVE  PowerAt(n) = IF n = 0 THEN 1 ELSE BYTE * PowerAt(n - 1)
    <2>1. PICK g : g = (CHOOSE k : Powers(k, n))
        OBVIOUS
    <2>2. Powers(g, n)
        BY <2>1, PowersExist
    <2>3. CASE n = 0
        <3>1. g[0] = 1
            BY <2>2, <2>3 DEF Powers
        <3> QED
            BY <2>1, <2>3, <3>1
    <2>4. CASE n # 0
        <3>1. PICK m \in Nat : m = n - 1
            BY <2>4
        <3>2. PICK h : h = (CHOOSE k : Powers(k, m))
            OBVIOUS
        <3>3. Powers(h, m)
            BY <3>2, PowersExist
        <3>4. g[m] = h[m]
            BY <2>2, <3>1, <3>3, PowersAgree
        <3>5. g[n] = BYTE * g[n - 1]
            BY <2>2, <2>4 DEF Powers
        <3> QED
            BY <2>1, <2>4, <3>1, <3>2, <3>4, <3>5
    <2> QED
        BY <2>3, <2>4
<1> HIDE DEF PowerAt
<1>2. all = [n \in Nat |-> IF n = 0 THEN 1 ELSE BYTE * all[n - 1]]
    BY <1>1
<1> HIDE DEF all
<1>3. Power = [n \in Nat |-> IF n = 0 THEN 1 ELSE BYTE * Power[n - 1]]
    BY <1>2 DEF Power
<1>4. Power[0] = 1
    BY <1>3
<1>5. ASSUME NEW n \in Nat PROVE Power[n + 1] = BYTE * Power[n]
    <2>1. n + 1 \in Nat /\ n + 1 # 0 /\ (n + 1) - 1 = n
        OBVIOUS
    <2> HIDE DEF Power
    <2> QED
        BY <1>3, <2>1
<1> QED
    BY <1>4, <1>5

LEMMA Products == \A a, b \in Nat \ {0} : a * b \in Nat \ {0}
OBVIOUS

LEMMA PowerType == \A n \in Nat : Power[n] \in Nat \ {0}
<1> DEFINE T == {n \in Nat : Power[n] \in Nat \ {0}}
<1>1. 0 \in T
    BY PowerIs
<1>2. ASSUME NEW n \in Nat, n \in T PROVE n + 1 \in T
    <2>1. PICK power \in Nat \ {0} : power = Power[n]
        BY <1>2
    <2>2. BYTE \in Nat \ {0}
        BY ByteAssumption
    <2>3. BYTE * power \in Nat \ {0}
        BY <2>1, <2>2, Products
    <2>4. Power[n + 1] = BYTE * power
        BY <2>1, PowerIs
    <2> QED
        BY <2>3, <2>4
<1> HIDE DEF T
<1>3. Nat \subseteq T
    BY <1>1, <1>2, InductionOnSets
<1> QED
    BY <1>3 DEF T

-----------------------------------------------------------------------------
(* Values of bytes.  Value is a fold: it takes the last byte and goes on   *)
(* with those before it.  Folds(g, f, n) says that g has the values of all *)
(* subsets of the first n bytes of f.                                      *)

Folds(g, f, n) ==
    g = [s \in SUBSET (1..n) |-> IF s = {} THEN 0 ELSE g[s \ {Max(s)}] * BYTE + f[Max(s)]]

LEMMA ValueIsFold ==
    ASSUME NEW f, NEW n \in Nat, DOMAIN f = 1..n
    PROVE  Value(f) = (CHOOSE g : Folds(g, f, n))[1..n]
BY DEF Value, FoldLeft, MapThenFoldSet, Folds

LEMMA MaxIs ==
    ASSUME NEW s, NEW n \in Nat, s \subseteq 1..n, n \in s
    PROVE  Max(s) = n
<1>1. n \in s /\ \A y \in s : n >= y
    OBVIOUS
<1>2. PICK m : m = Max(s)
    OBVIOUS
<1>3. m \in s /\ \A y \in s : m >= y
    BY <1>1, <1>2 DEF Max
<1> QED
    BY <1>1, <1>2, <1>3

LEMMA FoldsAt ==
    ASSUME NEW g, NEW f, NEW n \in Nat, Folds(g, f, n)
    PROVE  /\ g[{}] = 0
           /\ \A s \in SUBSET (1..n) : s # {} => g[s] = g[s \ {Max(s)}] * BYTE + f[Max(s)]
<1>1. {} \in SUBSET (1..n)
    OBVIOUS
<1> QED
    BY <1>1 DEF Folds

(* With one byte more, the subsets that have it are new. *)
LEMMA FoldsMore ==
    ASSUME NEW f, NEW n \in Nat, NEW top \in Nat, top = n + 1, NEW g, Folds(g, f, n)
    PROVE  \E h : Folds(h, f, top)
<1> DEFINE h == [s \in SUBSET (1..top) |->
                    IF top \in s THEN g[s \ {top}] * BYTE + f[top] ELSE g[s]]
<1>1. \A s \in SUBSET (1..top) : top \notin s => s \in SUBSET (1..n)
    OBVIOUS
<1>2. ASSUME NEW s \in SUBSET (1..top)
      PROVE  h[s] = IF s = {} THEN 0 ELSE h[s \ {Max(s)}] * BYTE + f[Max(s)]
    <2>1. CASE top \in s
        <3>1. Max(s) = top
            BY <2>1, MaxIs
        <3>2. s \ {top} \in SUBSET (1..top) /\ top \notin s \ {top}
            OBVIOUS
        <3>3. h[s \ {top}] = g[s \ {top}]
            BY <3>2
        <3>4. h[s] = g[s \ {top}] * BYTE + f[top]
            BY <2>1
        <3> HIDE DEF h
        <3> QED
            BY <2>1, <3>1, <3>3, <3>4
    <2>2. CASE top \notin s /\ s # {}
        <3>1. s \in SUBSET (1..n)
            BY <1>1, <2>2
        <3>2. g[s] = g[s \ {Max(s)}] * BYTE + f[Max(s)]
            BY <2>2, <3>1, FoldsAt
        <3>3. h[s] = g[s]
            BY <2>2
        <3>4. h[s \ {Max(s)}] = g[s \ {Max(s)}]
            <4>1. s \ {Max(s)} \in SUBSET (1..top) /\ top \notin s \ {Max(s)}
                BY <2>2
            <4> QED
                BY <4>1
        <3> HIDE DEF h
        <3> QED
            BY <2>2, <3>2, <3>3, <3>4
    <2>3. CASE s = {}
        <3>1. h[s] = g[{}]
            BY <2>3
        <3> HIDE DEF h
        <3> QED
            BY <2>3, <3>1, FoldsAt
    <2> QED
        BY <2>1, <2>2, <2>3
<1>3. h = [s \in SUBSET (1..top) |-> h[s]]
    OBVIOUS
<1> HIDE DEF h
<1>4. Folds(h, f, top)
    BY <1>2, <1>3 DEF Folds
<1> QED
    BY <1>4

LEMMA FoldsExist ==
    ASSUME NEW f, NEW n \in Nat
    PROVE  \E g : Folds(g, f, n)
<1> DEFINE T == {m \in Nat : \E g : Folds(g, f, m)}
<1>1. 0 \in T
    <2> DEFINE h == [s \in SUBSET (1..0) |-> 0]
    <2>1. \A s \in SUBSET (1..0) : s = {}
        OBVIOUS
    <2>2. Folds(h, f, 0)
        BY <2>1 DEF Folds
    <2> QED
        BY <2>2
<1>2. ASSUME NEW m \in Nat, m \in T PROVE m + 1 \in T
    <2>1. PICK top \in Nat : top = m + 1
        OBVIOUS
    <2>2. \E g : Folds(g, f, top)
        BY <1>2, <2>1, FoldsMore
    <2> QED
        BY <2>1, <2>2
<1> HIDE DEF T
<1>3. Nat \subseteq T
    BY <1>1, <1>2, InductionOnSets
<1> QED
    BY <1>3 DEF T

LEMMA Intervals ==
    ASSUME NEW n \in Nat, NEW top \in Nat, top = n + 1
    PROVE  /\ Max(1..top) = top /\ (1..top) \ {top} = 1..n
           /\ 1..top # {} /\ 1..top \in SUBSET (1..top) /\ 1..0 = {}
<1>1. top \in 1..top /\ 1..top \subseteq 1..top
    OBVIOUS
<1>2. Max(1..top) = top
    BY <1>1, MaxIs
<1>3. (1..top) \ {top} = 1..n /\ 1..0 = {}
    OBVIOUS
<1> QED
    BY <1>1, <1>2, <1>3

LEMMA FoldsStep ==
    ASSUME NEW g, NEW f, NEW n \in Nat, Folds(g, f, n),
           NEW i \in Nat, NEW top \in Nat, top = i + 1, top <= n
    PROVE  g[1..top] = g[1..i] * BYTE + f[top]
<1>1. 1..top \in SUBSET (1..n)
    OBVIOUS
<1>2. Max(1..top) = top /\ (1..top) \ {top} = 1..i /\ 1..top # {}
    BY Intervals
<1>3. PICK s : s = 1..top
    OBVIOUS
<1>4. g[s] = g[s \ {Max(s)}] * BYTE + f[Max(s)]
    <2>1. s \in SUBSET (1..n) /\ s # {}
        BY <1>1, <1>2, <1>3
    <2> QED
        BY <2>1, FoldsAt
<1> QED
    BY <1>2, <1>3, <1>4

(* Bytes that agree up to a place have the same values up to it.           *)
LEMMA FoldsAgree ==
    ASSUME NEW f, NEW h, NEW m \in Nat, NEW n \in Nat, n <= m, NEW g, NEW k,
           Folds(g, f, m), Folds(k, h, n), \A i \in 1..n : f[i] = h[i]
    PROVE  g[1..n] = k[1..n]
<1> DEFINE T == {i \in Nat : i <= n => g[1..i] = k[1..i]}
<1>1. 0 \in T
    <2>1. 1..0 = {}
        OBVIOUS
    <2>2. g[1..0] = 0 /\ k[1..0] = 0
        BY <2>1, FoldsAt
    <2> QED
        BY <2>2
<1>2. ASSUME NEW i \in Nat, i \in T PROVE i + 1 \in T
    <2>1. PICK top \in Nat : top = i + 1
        OBVIOUS
    <2> SUFFICES ASSUME top <= n PROVE g[1..top] = k[1..top]
        BY <2>1
    <2>2. g[1..i] = k[1..i] /\ f[top] = h[top] /\ top <= m
        BY <1>2, <2>1
    <2>3. g[1..top] = g[1..i] * BYTE + f[top]
        BY <2>1, <2>2, FoldsStep
    <2>4. k[1..top] = k[1..i] * BYTE + h[top]
        BY <2>1, FoldsStep
    <2> QED
        BY <2>2, <2>3, <2>4
<1> HIDE DEF T
<1>3. Nat \subseteq T
    BY <1>1, <1>2, InductionOnSets
<1> QED
    BY <1>3 DEF T

(* What the proofs below know of values. *)
LEMMA ValueOfNone ==
    ASSUME NEW f, DOMAIN f = 1..0
    PROVE  Value(f) = 0
<1>1. PICK g : g = (CHOOSE k : Folds(k, f, 0))
    OBVIOUS
<1>2. Folds(g, f, 0)
    BY <1>1, FoldsExist
<1>3. g[1..0] = 0
    <2>1. 1..0 = {}
        OBVIOUS
    <2> QED
        BY <1>2, <2>1, FoldsAt
<1> QED
    BY <1>1, <1>3, ValueIsFold

LEMMA ValueOfMore ==
    ASSUME NEW n \in Nat, NEW top \in Nat, top = n + 1, NEW f, NEW h,
           DOMAIN f = 1..top, DOMAIN h = 1..n, \A i \in 1..n : f[i] = h[i]
    PROVE  Value(f) = Value(h) * BYTE + f[top]
<1>1. PICK g : g = (CHOOSE k : Folds(k, f, top))
    OBVIOUS
<1>2. PICK k : k = (CHOOSE l : Folds(l, h, n))
    OBVIOUS
<1>3. Folds(g, f, top)
    BY <1>1, FoldsExist
<1>4. Folds(k, h, n)
    BY <1>2, FoldsExist
<1>5. Value(f) = g[1..top] /\ Value(h) = k[1..n]
    BY <1>1, <1>2, ValueIsFold
<1>6. g[1..top] = g[1..n] * BYTE + f[top]
    BY <1>3, FoldsStep
<1>7. g[1..n] = k[1..n]
    BY <1>3, <1>4, FoldsAgree
<1> QED
    BY <1>5, <1>6, <1>7

-----------------------------------------------------------------------------
(* What hton writes, ntoh reads.                                           *)

Byte == 0..(BYTE - 1)

LEMMA DivisionByByte ==
    ASSUME NEW v \in Nat
    PROVE  /\ v \div BYTE \in Nat /\ v % BYTE \in Byte
           /\ v = (v \div BYTE) * BYTE + (v % BYTE)
<1>1. BYTE \in Nat /\ BYTE > 0
    BY ByteAssumption
<1> QED
    BY <1>1 DEF Byte

(* The only quotient and remainder. *)
LEMMA QuotientIs ==
    ASSUME NEW a \in Nat, NEW m \in Nat \ {0}, NEW q \in Int, NEW r \in 0..(m - 1), a = m * q + r
    PROVE  a \div m = q
<1>1. PICK p \in Int, s \in 0..(m - 1) : a = m * p + s /\ p = a \div m
    <2>1. a \div m \in Int /\ a % m \in 0..(m - 1) /\ a = m * (a \div m) + (a % m)
        OBVIOUS
    <2> QED
        BY <2>1
<1>2. m * (p - q) = r - s
    BY <1>1
<1>3. p - q >= 1 => m * (p - q) >= m
    OBVIOUS
<1>4. p - q <= -1 => m * (p - q) <= -m
    OBVIOUS
<1> QED
    BY <1>1, <1>2, <1>3, <1>4

LEMMA DivisionTwice ==
    ASSUME NEW v \in Nat, NEW p \in Nat \ {0}
    PROVE  (v \div BYTE) \div p = v \div (BYTE * p)
<1>1. BYTE \in Nat \ {0}
    BY ByteAssumption
<1>2. PICK u \in Nat, b \in 0..(BYTE - 1) : v = BYTE * u + b /\ u = v \div BYTE
    BY DivisionByByte, <1>1 DEF Byte
<1>3. PICK q \in Nat, r \in 0..(p - 1) : u = p * q + r /\ q = u \div p
    OBVIOUS
<1>4. BYTE * p \in Nat \ {0}
    BY <1>1, Products
<1>5. v = (BYTE * p) * q + (BYTE * r + b)
    <2>1. BYTE * (p * q + r) = (BYTE * p) * q + BYTE * r
        BY <1>1
    <2>2. v = (BYTE * p) * q + BYTE * r + b
        BY <1>2, <1>3, <2>1
    <2>3. (BYTE * p) * q \in Int /\ BYTE * r \in Int
        BY <1>1
    <2> QED
        BY <2>2, <2>3
<1>6. BYTE * r + b \in 0..(BYTE * p - 1)
    <2>1. BYTE * r <= BYTE * (p - 1)
        BY <1>1
    <2>2. BYTE * (p - 1) = BYTE * p - BYTE
        BY <1>1
    <2>3. BYTE * r \in Nat
        BY <1>1
    <2> QED
        BY <1>1, <1>4, <2>1, <2>2, <2>3
<1>7. PICK m \in Nat \ {0} : m = BYTE * p
    BY <1>4
<1>8. PICK rest \in 0..(m - 1) : rest = BYTE * r + b
    BY <1>6, <1>7
<1>9. v = m * q + rest
    BY <1>5, <1>7, <1>8
<1>10. v \div m = q
    BY <1>9, QuotientIs
<1> QED
    BY <1>2, <1>3, <1>7, <1>10

LEMMA BytesType ==
    ASSUME NEW v \in Nat, NEW w \in Nat
    PROVE  Bytes(v, w) \in [1..w -> Byte]
<1>1. \A i \in 1..w : Power[w - i] \in Nat \ {0}
    BY PowerType
<1>2. \A p \in Nat \ {0} : v \div p \in Nat
    OBVIOUS
<1> HIDE DEF Power
<1>3. \A i \in 1..w : (v \div Power[w - i]) % BYTE \in Byte
    BY <1>1, <1>2, DivisionByByte
<1> QED
    BY <1>3 DEF Bytes

(* All but the last of the bytes are those of the quotient. *)
LEMMA BytesStep ==
    ASSUME NEW v \in Nat, NEW w \in Nat, NEW top \in Nat, top = w + 1
    PROVE  /\ \A i \in 1..w : Bytes(v, top)[i] = Bytes(v \div BYTE, w)[i]
           /\ Bytes(v, top)[top] = v % BYTE
<1>1. ASSUME NEW i \in 1..w PROVE Bytes(v, top)[i] = Bytes(v \div BYTE, w)[i]
    <2>1. PICK n \in Nat : n = w - i /\ n + 1 = top - i
        OBVIOUS
    <2>2. PICK p \in Nat \ {0} : p = Power[n]
        BY PowerType
    <2>3. Power[n + 1] = BYTE * p
        BY <2>2, PowerIs
    <2>4. v \div Power[top - i] = (v \div BYTE) \div Power[w - i]
        BY <2>1, <2>2, <2>3, DivisionTwice
    <2>5. Bytes(v, top)[i] = (v \div Power[top - i]) % BYTE
        BY DEF Bytes
    <2>6. Bytes(v \div BYTE, w)[i] = ((v \div BYTE) \div Power[w - i]) % BYTE
        BY DEF Bytes
    <2> QED
        BY <2>4, <2>5, <2>6
<1>2. Bytes(v, top)[top] = v % BYTE
    <2>1. top \in 1..top /\ top - top = 0
        OBVIOUS
    <2>2. Bytes(v, top)[top] = (v \div Power[0]) % BYTE
        BY <2>1 DEF Bytes
    <2>3. v \div Power[0] = v
        BY PowerIs
    <2> QED
        BY <2>2, <2>3
<1> QED
    BY <1>1, <1>2

(* hton and ntoh: an integer that fits its width comes back from the bytes *)
(* it was written as, for every width and every number of values of a byte.*)
THEOREM ValueOfBytes ==
    ASSUME NEW w \in Nat, NEW v \in 0..(Power[w] - 1)
    PROVE  Value(Bytes(v, w)) = v
<1> DEFINE T == {n \in Nat : \A u \in 0..(Power[n] - 1) : Value(Bytes(u, n)) = u}
<1> HIDE DEF Power
<1>1. 0 \in T
    <2> SUFFICES ASSUME NEW u \in 0..(Power[0] - 1) PROVE Value(Bytes(u, 0)) = u
        OBVIOUS
    <2>1. u = 0
        BY PowerIs
    <2>2. DOMAIN Bytes(u, 0) = 1..0
        BY DEF Bytes
    <2> QED
        BY <2>1, <2>2, ValueOfNone
<1>2. ASSUME NEW n \in Nat, n \in T PROVE n + 1 \in T
    <2>1. PICK top \in Nat : top = n + 1
        OBVIOUS
    <2> SUFFICES ASSUME NEW u \in 0..(Power[top] - 1) PROVE Value(Bytes(u, top)) = u
        BY <2>1
    <2>2. PICK p \in Nat \ {0} : p = Power[n]
        BY PowerType
    <2>3. Power[top] = BYTE * p
        BY <2>1, <2>2, PowerIs
    <2>4. BYTE * p \in Nat /\ u \in Nat /\ u < BYTE * p
        BY <2>3, ByteAssumption
    <2>5. PICK q \in Nat, b \in Byte : u = q * BYTE + b /\ q = u \div BYTE /\ b = u % BYTE
        BY <2>4, DivisionByByte
    <2>6. q < p
        <3>1. q >= p => q * BYTE >= p * BYTE
            BY ByteAssumption
        <3> QED
            BY <2>4, <2>5, <3>1, ByteAssumption DEF Byte
    <2>7. Value(Bytes(q, n)) = q
        <3>1. q \in 0..(Power[n] - 1)
            BY <2>2, <2>6
        <3> QED
            BY <1>2, <3>1
    <2>8. Value(Bytes(u, top)) = Value(Bytes(q, n)) * BYTE + Bytes(u, top)[top]
        <3>1. DOMAIN Bytes(u, top) = 1..top /\ DOMAIN Bytes(q, n) = 1..n
            BY DEF Bytes
        <3>2. \A i \in 1..n : Bytes(u, top)[i] = Bytes(q, n)[i]
            <4>1. u \in Nat
                BY <2>4
            <4>2. \A i \in 1..n : Bytes(u, top)[i] = Bytes(u \div BYTE, n)[i]
                BY <2>1, <4>1, BytesStep
            <4> QED
                BY <2>5, <4>2
        <3>3. PICK f : f = Bytes(u, top)
            OBVIOUS
        <3>4. PICK h : h = Bytes(q, n)
            OBVIOUS
        <3> QED
            BY <2>1, <3>1, <3>2, <3>3, <3>4, ValueOfMore
    <2>9. Bytes(u, top)[top] = b
        <3>1. u \in Nat
            BY <2>4
        <3>2. Bytes(u, top)[top] = u % BYTE
            BY <2>1, <3>1, BytesStep
        <3> QED
            BY <2>5, <3>2
    <2> QED
        BY <2>5, <2>7, <2>8, <2>9
<1> HIDE DEF T
<1>3. Nat \subseteq T
    BY <1>1, <1>2, InductionOnSets
<1> QED
    BY <1>3 DEF T

LEMMA ValueType ==
    ASSUME NEW w \in Nat, NEW f \in [1..w -> Byte]
    PROVE  Value(f) \in 0..(Power[w] - 1)
<1> DEFINE T == {n \in Nat : \A h \in [1..n -> Byte] : Value(h) \in 0..(Power[n] - 1)}
<1> HIDE DEF Power
<1>1. 0 \in T
    <2> SUFFICES ASSUME NEW h \in [1..0 -> Byte] PROVE Value(h) \in 0..(Power[0] - 1)
        OBVIOUS
    <2>1. Value(h) = 0
        BY ValueOfNone
    <2> QED
        BY <2>1, PowerIs
<1>2. ASSUME NEW n \in Nat, n \in T PROVE n + 1 \in T
    <2>1. PICK top \in Nat : top = n + 1
        OBVIOUS
    <2> SUFFICES ASSUME NEW h \in [1..top -> Byte] PROVE Value(h) \in 0..(Power[top] - 1)
        BY <2>1
    <2>2. PICK p \in Nat \ {0} : p = Power[n]
        BY PowerType
    <2>3. Power[top] = BYTE * p
        BY <2>1, <2>2, PowerIs
    <2>4. PICK k \in [1..n -> Byte] : \A i \in 1..n : k[i] = h[i]
        <3>1. \A i \in 1..n : h[i] \in Byte
            BY <2>1
        <3>2. [i \in 1..n |-> h[i]] \in [1..n -> Byte]
            BY <3>1
        <3> QED
            BY <3>2
    <2>5. PICK u \in Nat : u = Value(k) /\ u < p
        <3>1. Value(k) \in 0..(Power[n] - 1)
            BY <1>2
        <3> QED
            BY <2>2, <3>1
    <2>6. PICK b \in Nat : b = h[top] /\ b < BYTE
        <3>1. h[top] \in Byte
            BY <2>1
        <3> QED
            BY <3>1, ByteAssumption DEF Byte
    <2>7. Value(h) = u * BYTE + b
        BY <2>1, <2>4, <2>5, <2>6, ValueOfMore
    <2>8. u * BYTE <= (p - 1) * BYTE /\ (p - 1) * BYTE = BYTE * p - BYTE /\ u * BYTE \in Nat
          /\ BYTE * p \in Nat
        BY <2>5, ByteAssumption
    <2>9. PICK low \in Nat, all \in Nat : low = u * BYTE /\ all = BYTE * p /\ low <= all - BYTE
        BY <2>8
    <2>10. low <= all - BYTE /\ b <= BYTE - 1 /\ BYTE \in Nat
        BY <2>6, <2>9, ByteAssumption
    <2>11. low + b \in 0..(all - 1)
        BY <2>10
    <2> QED
        BY <2>3, <2>7, <2>9, <2>11
<1> HIDE DEF T
<1>3. Nat \subseteq T
    BY <1>1, <1>2, InductionOnSets
<1> QED
    BY <1>3 DEF T

-----------------------------------------------------------------------------
(* What the operators of an IOBuffer do to its bytes.                      *)

LEMMA FunctionIsSequence ==
    ASSUME NEW S, NEW n \in Nat, NEW f \in [1..n -> S]
    PROVE  f \in Seq(S) /\ Len(f) = n
OBVIOUS

LEMMA SubSeqIs ==
    ASSUME NEW S, NEW s \in Seq(S), NEW first \in Nat, NEW last \in Nat,
           first >= 1, last <= Len(s), first <= last + 1
    PROVE  /\ SubSeq(s, first, last) \in Seq(S)
           /\ Len(SubSeq(s, first, last)) = last - first + 1
           /\ \A i \in 1..(last - first + 1) : SubSeq(s, first, last)[i] = s[first + i - 1]
OBVIOUS

LEMMA TailIs ==
    ASSUME NEW S, NEW s \in Seq(S), NEW n \in Nat, n <= Len(s)
    PROVE  /\ SubSeq(s, n + 1, Len(s)) \in Seq(S)
           /\ Len(SubSeq(s, n + 1, Len(s))) = Len(s) - n
           /\ \A i \in 1..(Len(s) - n) : SubSeq(s, n + 1, Len(s))[i] = s[n + i]
OBVIOUS

LEMMA ConcatenationIs ==
    ASSUME NEW S, NEW s \in Seq(S), NEW t \in Seq(S)
    PROVE  /\ s \o t \in Seq(S) /\ Len(s \o t) = Len(s) + Len(t)
           /\ \A i \in 1..Len(s) : (s \o t)[i] = s[i]
           /\ \A i \in 1..Len(t) : (s \o t)[Len(s) + i] = t[i]
OBVIOUS

IOBuffers == [m_Buffer : Seq(Byte), m_ReadPosition : Nat, m_AvailableReadSize : Nat,
              m_WritePosition : Nat]

LEMMA IsIOBufferIs ==
    ASSUME NEW io
    PROVE  IsIOBuffer(io) <=> /\ io \in IOBuffers
                              /\ io.m_AvailableReadSize <= Len(io.m_Buffer)
                              /\ io.m_ReadPosition <= io.m_AvailableReadSize
                              /\ io.m_WritePosition <= Len(io.m_Buffer)
BY DEF IsIOBuffer, IOBuffers, Byte

(* Taking a step and going back leads to where one was.                    *)
LEMMA SeekBack ==
    ASSUME NEW p \in Nat, NEW n \in Nat, NEW limit \in Nat, p <= limit, limit < SIZE_SPAN
    PROVE  Sought(p + n, p - (p + n), limit) = p /\ Sought(p + n, -n, limit) = p
<1>1. (p + n) + (p - (p + n)) = p /\ (p + n) + (-n) = p
    OBVIOUS
<1>2. p % SIZE_SPAN = p
    BY SizeSpanAssumption
<1> QED
    BY <1>1, <1>2 DEF Sought

(* Bytes that are ahead. *)
LEMMA AheadIs ==
    ASSUME NEW io, IsIOBuffer(io), NEW n \in Nat, CanGet(io, n)
    PROVE  /\ Ahead(io, n) \in Seq(Byte) /\ Len(Ahead(io, n)) = n
           /\ Ahead(io, n) \in [1..n -> Byte]
           /\ \A i \in 1..n : \A k \in Nat :
                 k = io.m_ReadPosition + i => Ahead(io, n)[i] = io.m_Buffer[k]
<1>1. PICK buffer \in Seq(Byte) : buffer = io.m_Buffer
    BY IsIOBufferIs DEF IOBuffers
<1>2. PICK p \in Nat : p = io.m_ReadPosition /\ p + n <= Len(buffer)
    BY <1>1, IsIOBufferIs DEF IOBuffers, CanGet
<1>3. PICK first \in Nat, last \in Nat : first = p + 1 /\ last = p + n
    OBVIOUS
<1>4. Ahead(io, n) = SubSeq(buffer, first, last)
    BY <1>1, <1>2, <1>3 DEF Ahead
<1>5. /\ SubSeq(buffer, first, last) \in Seq(Byte)
      /\ Len(SubSeq(buffer, first, last)) = last - first + 1
      /\ \A i \in 1..(last - first + 1) : SubSeq(buffer, first, last)[i] = buffer[first + i - 1]
    <2>1. first >= 1 /\ last <= Len(buffer) /\ first <= last + 1
        BY <1>2, <1>3
    <2> QED
        BY <2>1, SubSeqIs
<1>6. last - first + 1 = n /\ \A i \in Nat : first + i - 1 = p + i
    BY <1>3
<1>7. \A s \in Seq(Byte) : s \in [1..Len(s) -> Byte]
    OBVIOUS
<1>8. Ahead(io, n) \in Seq(Byte) /\ Len(Ahead(io, n)) = n
    BY <1>4, <1>5, <1>6
<1>9. ASSUME NEW i \in 1..n, NEW k \in Nat, k = io.m_ReadPosition + i
      PROVE  Ahead(io, n)[i] = io.m_Buffer[k]
    <2>1. Ahead(io, n)[i] = buffer[first + i - 1]
        BY <1>4, <1>5, <1>6
    <2>2. first + i - 1 = k
        BY <1>2, <1>6, <1>9
    <2> QED
        BY <1>1, <2>1, <2>2
<1>10. Ahead(io, n) \in [1..n -> Byte]
    BY <1>7, <1>8
<1> QED
    BY <1>8, <1>9, <1>10

LEMMA SkipIs ==
    ASSUME NEW io, IsIOBuffer(io), NEW n \in Nat, CanGet(io, n)
    PROVE  /\ IsIOBuffer(Skip(io, n)) /\ Skip(io, n).m_Buffer = io.m_Buffer
           /\ Skip(io, n).m_ReadPosition = io.m_ReadPosition + n
           /\ Skip(io, n).m_AvailableReadSize = io.m_AvailableReadSize
<1>1. PICK p \in Nat : p = io.m_ReadPosition /\ p + n <= io.m_AvailableReadSize
    BY IsIOBufferIs DEF IOBuffers, CanGet
<1>2. PICK q \in Nat : q = p + n
    OBVIOUS
<1>3. Skip(io, n) = [io EXCEPT !.m_ReadPosition = q]
    BY <1>1, <1>2 DEF Skip
<1>4. io \in IOBuffers /\ io.m_AvailableReadSize <= Len(io.m_Buffer)
      /\ io.m_WritePosition <= Len(io.m_Buffer)
    BY IsIOBufferIs
<1>5. /\ Skip(io, n) \in IOBuffers /\ Skip(io, n).m_Buffer = io.m_Buffer
      /\ Skip(io, n).m_ReadPosition = q
      /\ Skip(io, n).m_AvailableReadSize = io.m_AvailableReadSize
      /\ Skip(io, n).m_WritePosition = io.m_WritePosition
    BY <1>3, <1>4 DEF IOBuffers
<1> QED
    BY <1>1, <1>2, <1>4, <1>5, IsIOBufferIs

-----------------------------------------------------------------------------
(* What the sender writes.                                                 *)

(* The j-th byte of a package that is packed. *)
Wire(p, j) ==
    IF j <= NUMBER_BYTES THEN Bytes(p.number, NUMBER_BYTES)[j]
    ELSE IF j <= NUMBER_BYTES + LENGTH_BYTES
         THEN Bytes(Len(p.text) % LENGTH_SPAN, LENGTH_BYTES)[j - NUMBER_BYTES]
         ELSE p.text[j - NUMBER_BYTES - LENGTH_BYTES]

LEMMA Widths == NUMBER_BYTES \in Nat /\ NUMBER_BYTES >= 1 /\ LENGTH_BYTES = 2
BY PayloadAssumption DEF LENGTH_BYTES

LEMMA LengthSpanIs == LENGTH_SPAN \in Nat \ {0} /\ LENGTH_SPAN = Power[2]
BY PowerType DEF LENGTH_SPAN, LENGTH_BYTES

LEMMA PackageIs ==
    ASSUME NEW p \in Package
    PROVE  /\ p.number \in Nat /\ p.number \in 0..(Power[NUMBER_BYTES] - 1)
           /\ p.text \in Seq(Byte) /\ Len(p.text) \in Nat
           /\ p.text \in [1..Len(p.text) -> Byte]
           /\ Len(p.text) % LENGTH_SPAN \in 0..(Power[2] - 1)
           /\ Len(p.text) % LENGTH_SPAN \in Nat
           /\ WireSize(p) = NUMBER_BYTES + LENGTH_BYTES + Len(p.text)
<1>1. p.number \in Nat /\ p.number \in 0..(Power[NUMBER_BYTES] - 1)
      /\ p.text \in Seq(Byte) /\ Len(p.text) \in Nat
    BY DEF Package, ByteStrings, Byte
<1>2. \A s \in Seq(Byte) : s \in [1..Len(s) -> Byte]
    OBVIOUS
<1>3. PICK m \in Nat \ {0} : m = LENGTH_SPAN /\ m = Power[2]
    BY LengthSpanIs
<1>4. PICK n \in Nat : n = Len(p.text)
    BY <1>1
<1>5. n % m \in Nat /\ n % m \in 0..(m - 1)
    OBVIOUS
<1>6. Len(p.text) % LENGTH_SPAN \in 0..(Power[2] - 1) /\ Len(p.text) % LENGTH_SPAN \in Nat
    BY <1>3, <1>4, <1>5
<1> QED
    BY <1>1, <1>2, <1>6 DEF WireSize

(* There is room for n bytes at start, and put is io with them. *)
HasRoom(io, start, size, bytes, n) ==
    /\ IsIOBuffer(io)
    /\ start \in Nat /\ start = io.m_WritePosition
    /\ size \in Nat /\ size = Len(io.m_Buffer)
    /\ n \in Nat /\ bytes \in [1..n -> Byte] /\ start + n <= size
HasWritten(io, put, start, size, bytes, n) ==
    /\ IsIOBuffer(put) /\ put.m_WritePosition = start + n
    /\ Len(put.m_Buffer) = size
    /\ \A i \in 1..start : put.m_Buffer[i] = io.m_Buffer[i]
    /\ \A j \in 1..n : put.m_Buffer[start + j] = bytes[j]

(* Bytes are written behind what is there. *)
LEMMA Written ==
    ASSUME NEW io, NEW start, NEW size, NEW bytes, NEW n, HasRoom(io, start, size, bytes, n)
    PROVE  HasWritten(io, Put(io, bytes), start, size, bytes, n)
<1> DEFINE put == Put(io, bytes)
           buffer == [i \in 1..size |->
                         IF i \in (start + 1)..(start + n) THEN bytes[i - start]
                         ELSE io.m_Buffer[i]]
<1>1. /\ io \in IOBuffers /\ io.m_Buffer \in Seq(Byte)
      /\ DOMAIN io.m_Buffer = 1..size
      /\ start \in Nat /\ size \in Nat /\ n \in Nat /\ start + n <= size
      /\ io.m_WritePosition = start /\ Len(io.m_Buffer) = size
      /\ bytes \in [1..n -> Byte]
    BY IsIOBufferIs DEF IOBuffers, HasRoom
<1>2. Len(bytes) = n
    BY <1>1, FunctionIsSequence
<1>3. put = [io EXCEPT !.m_Buffer = buffer, !.m_WritePosition = start + n]
    BY <1>1, <1>2 DEF Put
<1>4. buffer \in [1..size -> Byte]
    <2>1. \A i \in 1..size : io.m_Buffer[i] \in Byte
        BY <1>1
    <2>2. \A i \in (start + 1)..(start + n) : bytes[i - start] \in Byte
        BY <1>1
    <2> QED
        BY <2>1, <2>2
<1>5. buffer \in Seq(Byte) /\ Len(buffer) = size
    BY <1>1, <1>4, FunctionIsSequence
<1>6. \A i \in 1..size : buffer[i] = IF i \in (start + 1)..(start + n) THEN bytes[i - start]
                                     ELSE io.m_Buffer[i]
    OBVIOUS
<1> HIDE DEF buffer
<1>7. put \in IOBuffers /\ put.m_Buffer = buffer /\ put.m_WritePosition = start + n
      /\ put.m_ReadPosition = io.m_ReadPosition
      /\ put.m_AvailableReadSize = io.m_AvailableReadSize
    <2>1. PICK end \in Nat : end = start + n
        BY <1>1
    <2>2. put = [io EXCEPT !.m_Buffer = buffer, !.m_WritePosition = end]
        BY <1>3, <2>1
    <2> HIDE DEF put
    <2> QED
        BY <1>1, <1>5, <2>1, <2>2 DEF IOBuffers
<1> HIDE DEF put
<1>8. IsIOBuffer(put)
    <2>1. io.m_AvailableReadSize <= size /\ io.m_ReadPosition <= io.m_AvailableReadSize
        BY <1>1, IsIOBufferIs DEF HasRoom
    <2> QED
        BY <1>1, <1>5, <1>7, <2>1, IsIOBufferIs
<1>9. \A i \in 1..start : put.m_Buffer[i] = io.m_Buffer[i]
    BY <1>1, <1>6, <1>7
<1>10. ASSUME NEW j \in 1..n PROVE put.m_Buffer[start + j] = bytes[j]
    <2>1. start + j \in 1..size /\ start + j \in (start + 1)..(start + n)
          /\ (start + j) - start = j
        BY <1>1
    <2> QED
        BY <1>6, <1>7, <2>1
<1> QED
    BY <1>5, <1>7, <1>8, <1>9, <1>10 DEF HasWritten, put

(* A package is written, its number first, then the length of its text and *)
(* the text.                                                               *)
HasRoomFor(io, start, size, p, ws) ==
    /\ IsIOBuffer(io)
    /\ start = io.m_WritePosition /\ size = Len(io.m_Buffer)
    /\ ws = WireSize(p) /\ start + ws <= size
HasPacked(io, whole, start, size, p, ws) ==
    /\ IsIOBuffer(whole) /\ whole.m_WritePosition = start + ws
    /\ Len(whole.m_Buffer) = size
    /\ \A i \in 1..start : whole.m_Buffer[i] = io.m_Buffer[i]
    /\ \A i \in 1..size : \A j \in 1..ws : i = start + j => whole.m_Buffer[i] = Wire(p, j)

LEMMA PackageIsWritten ==
    ASSUME NEW io, NEW p \in Package, NEW start \in Nat, NEW size \in Nat, NEW ws \in Nat,
           HasRoomFor(io, start, size, p, ws)
    PROVE  HasPacked(io, PutString(PutInt(io, p.number, NUMBER_BYTES), p.text),
                     start, size, p, ws)
<1>0. PICK whole : whole = PutString(PutInt(io, p.number, NUMBER_BYTES), p.text)
    OBVIOUS
<1>1. PICK w \in Nat : w = NUMBER_BYTES
    BY Widths
<1>2. PICK n \in Nat : n = Len(p.text)
    BY PackageIs
<1>3. ws = w + 2 + n
    BY <1>1, <1>2, Widths, PackageIs DEF HasRoomFor
<1>4. PICK number \in [1..w -> Byte] : number = Bytes(p.number, NUMBER_BYTES)
    BY <1>1, PackageIs, BytesType
<1>5. PICK length \in [1..2 -> Byte] : length = Bytes(Len(p.text) % LENGTH_SPAN, LENGTH_BYTES)
    BY PackageIs, Widths, BytesType
<1>6. PICK text \in [1..n -> Byte] : text = p.text
    BY <1>2, PackageIs
<1>7. PICK numbered : numbered = Put(io, number)
    OBVIOUS
<1>8. PICK measured : measured = Put(numbered, length)
    OBVIOUS
<1>9. whole = Put(measured, text)
    BY <1>0, <1>4, <1>5, <1>6, <1>7, <1>8 DEF PutInt, PutString
<1>10. PICK second \in Nat, third \in Nat : second = start + w /\ third = second + 2
    OBVIOUS
<1>11. start + w <= size /\ second + 2 <= size /\ third + n <= size
    <2>1. start + ws <= size
        BY DEF HasRoomFor
    <2> QED
        BY <1>3, <1>10, <2>1
<1>12. /\ IsIOBuffer(numbered) /\ numbered.m_WritePosition = start + w
       /\ Len(numbered.m_Buffer) = size
       /\ \A i \in 1..start : numbered.m_Buffer[i] = io.m_Buffer[i]
       /\ \A j \in 1..w : numbered.m_Buffer[start + j] = number[j]
    <2>1. HasRoom(io, start, size, number, w)
        BY <1>4, <1>7, <1>11 DEF HasRoom, HasRoomFor
    <2>2. HasWritten(io, numbered, start, size, number, w)
        BY <2>1, <1>7, Written
    <2> QED
        BY <2>2 DEF HasWritten
<1>13. IsIOBuffer(numbered) /\ second = numbered.m_WritePosition /\ size = Len(numbered.m_Buffer)
    BY <1>10, <1>12
<1>14. /\ IsIOBuffer(measured) /\ measured.m_WritePosition = second + 2
       /\ Len(measured.m_Buffer) = size
       /\ \A i \in 1..second : measured.m_Buffer[i] = numbered.m_Buffer[i]
       /\ \A j \in 1..2 : measured.m_Buffer[second + j] = length[j]
    <2>1. HasRoom(numbered, second, size, length, 2)
        BY <1>5, <1>8, <1>11, <1>13, <1>10 DEF HasRoom
    <2>2. HasWritten(numbered, measured, second, size, length, 2)
        BY <2>1, <1>8, Written
    <2> QED
        BY <2>2 DEF HasWritten
<1>15. IsIOBuffer(measured) /\ third = measured.m_WritePosition /\ size = Len(measured.m_Buffer)
    BY <1>10, <1>14
<1>16. /\ IsIOBuffer(whole) /\ whole.m_WritePosition = third + n
       /\ Len(whole.m_Buffer) = size
       /\ \A i \in 1..third : whole.m_Buffer[i] = measured.m_Buffer[i]
       /\ \A j \in 1..n : whole.m_Buffer[third + j] = text[j]
    <2>1. HasRoom(measured, third, size, text, n)
        BY <1>6, <1>9, <1>11, <1>15, <1>10 DEF HasRoom
    <2>2. HasWritten(measured, whole, third, size, text, n)
        BY <2>1, <1>9, Written
    <2> QED
        BY <2>2 DEF HasWritten
<1>17. ASSUME NEW i \in 1..start PROVE whole.m_Buffer[i] = io.m_Buffer[i]
    <2>1. i \in 1..second /\ i \in 1..third
        BY <1>10
    <2> QED
        BY <1>12, <1>14, <1>16, <2>1
<1>18. ASSUME NEW i \in 1..size, NEW j \in 1..ws, i = start + j
       PROVE  whole.m_Buffer[i] = Wire(p, j)
    <2>1. i = start + j
        BY <1>18
    <2>2. CASE j <= w
        <3>1. i \in 1..second /\ i \in 1..third /\ j \in 1..w
            BY <1>10, <2>1, <2>2
        <3>2. whole.m_Buffer[i] = number[j]
            BY <1>12, <1>14, <1>16, <2>1, <3>1
        <3> QED
            BY <1>1, <1>4, <2>1, <2>2, <3>2 DEF Wire
    <2>3. CASE ~ (j <= w) /\ j <= w + 2
        <3>1. PICK k \in 1..2 : k = j - w
            BY <2>3
        <3>2. i = second + k /\ i \in 1..third
            BY <1>10, <2>1, <3>1
        <3>3. whole.m_Buffer[i] = length[k]
            BY <1>14, <1>16, <3>2
        <3> QED
            BY <1>1, <1>5, <2>1, <2>3, <3>1, <3>3, Widths DEF Wire
    <2>4. CASE ~ (j <= w) /\ ~ (j <= w + 2)
        <3>1. PICK k \in 1..n : k = j - w - 2
            BY <1>3, <2>4
        <3>2. i = third + k
            BY <1>10, <2>1, <3>1
        <3>3. whole.m_Buffer[i] = text[k]
            BY <1>16, <3>2
        <3> QED
            BY <1>1, <1>6, <2>1, <2>4, <3>1, <3>3, Widths DEF Wire
    <2> QED
        BY <2>2, <2>3, <2>4
<1>19. whole.m_WritePosition = start + ws
    BY <1>3, <1>10, <1>16
<1> QED
    BY <1>0, <1>16, <1>17, <1>18, <1>19 DEF HasPacked

-----------------------------------------------------------------------------
(* What the server reads.                                                  *)

LEMMA AheadValue ==
    ASSUME NEW io, IsIOBuffer(io), NEW n \in Nat, CanGet(io, n)
    PROVE  GetInt(io, n) \in 0..(Power[n] - 1)
BY AheadIs, ValueType DEF GetInt

(* A package that is whole: its number, the length of its text, and what   *)
(* is read is what is ahead.                                               *)
LEMMA WholeIs ==
    ASSUME NEW io, IsIOBuffer(io), IsWhole(io)
    PROVE  /\ GetInt(io, NUMBER_BYTES) \in 0..(Power[NUMBER_BYTES] - 1)
           /\ CanGet(io, NUMBER_BYTES)
           /\ LET numbered == Skip(io, NUMBER_BYTES)
                  length == StringLength(numbered)
                  measured == Skip(numbered, LENGTH_BYTES)
              IN  /\ length \in Nat
                  /\ IsIOBuffer(numbered) /\ CanGet(numbered, 2)
                  /\ IsIOBuffer(measured) /\ CanGet(measured, length)
                  /\ measured.m_Buffer = io.m_Buffer /\ numbered.m_Buffer = io.m_Buffer
                  /\ numbered.m_ReadPosition = io.m_ReadPosition + NUMBER_BYTES
                  /\ measured.m_ReadPosition = numbered.m_ReadPosition + 2
                  /\ GetString(numbered) = Ahead(measured, length)
                  /\ GetString(numbered) \in Seq(Byte)
                  /\ IsIOBuffer(SkipString(numbered))
                  /\ SkipString(numbered).m_Buffer = io.m_Buffer
                  /\ SkipString(numbered).m_ReadPosition = measured.m_ReadPosition + length
                  /\ SkipString(numbered).m_AvailableReadSize = io.m_AvailableReadSize
<1> DEFINE numbered == Skip(io, NUMBER_BYTES)
           length == StringLength(numbered)
           measured == Skip(numbered, LENGTH_BYTES)
<1>1. CanGet(io, NUMBER_BYTES) /\ CanGet(numbered, LENGTH_BYTES)
      /\ CanGet(numbered, LENGTH_BYTES + length)
    BY DEF IsWhole, CanGetString
<1>2. NUMBER_BYTES \in Nat /\ LENGTH_BYTES \in Nat /\ LENGTH_BYTES = 2
    BY Widths
<1>3. /\ IsIOBuffer(numbered) /\ numbered.m_Buffer = io.m_Buffer
      /\ numbered.m_ReadPosition = io.m_ReadPosition + NUMBER_BYTES
      /\ numbered.m_AvailableReadSize = io.m_AvailableReadSize
    BY <1>1, <1>2, SkipIs
<1>4. GetInt(io, NUMBER_BYTES) \in 0..(Power[NUMBER_BYTES] - 1)
    BY <1>1, <1>2, AheadValue
<1> HIDE DEF numbered
<1>5. length \in Nat
    <2>1. GetInt(numbered, LENGTH_BYTES) \in 0..(Power[LENGTH_BYTES] - 1)
        BY <1>1, <1>2, <1>3, AheadValue
    <2>2. Power[LENGTH_BYTES] \in Nat
        BY <1>2, PowerType
    <2> QED
        BY <2>1, <2>2 DEF StringLength
<1>6. /\ IsIOBuffer(measured) /\ measured.m_Buffer = io.m_Buffer
      /\ measured.m_ReadPosition = numbered.m_ReadPosition + LENGTH_BYTES
      /\ measured.m_AvailableReadSize = io.m_AvailableReadSize
    BY <1>1, <1>2, <1>3, SkipIs
<1>7. /\ GetString(numbered) = Ahead(measured, length)
      /\ SkipString(numbered) = Skip(numbered, LENGTH_BYTES + length)
    BY DEF GetString, SkipString
<1> HIDE DEF length, measured
<1>8. PICK p \in Nat, n \in Nat, m \in Nat, a \in Nat :
        /\ p = numbered.m_ReadPosition /\ n = length
        /\ m = 2 + n /\ a = numbered.m_AvailableReadSize
    <2>1. numbered.m_ReadPosition \in Nat /\ numbered.m_AvailableReadSize \in Nat
        BY <1>3, IsIOBufferIs DEF IOBuffers
    <2>2. PICK n \in Nat, m \in Nat : n = length /\ m = 2 + n
        BY <1>5
    <2> QED
        BY <2>1, <2>2
<1>9. LENGTH_BYTES + length = m
    BY <1>2, <1>8
<1>10. p + m <= a
    BY <1>1, <1>8, <1>9 DEF CanGet
<1>11. CanGet(measured, length)
    <2>1. measured.m_ReadPosition = p + 2 /\ measured.m_AvailableReadSize = a
        BY <1>2, <1>3, <1>6, <1>8
    <2>2. (p + 2) + n <= a
        BY <1>8, <1>10
    <2> QED
        BY <1>8, <2>1, <2>2 DEF CanGet
<1>12. Ahead(measured, length) \in Seq(Byte)
    BY <1>5, <1>6, <1>11, AheadIs
<1>13. /\ IsIOBuffer(Skip(numbered, m)) /\ Skip(numbered, m).m_Buffer = numbered.m_Buffer
       /\ Skip(numbered, m).m_ReadPosition = numbered.m_ReadPosition + m
       /\ Skip(numbered, m).m_AvailableReadSize = numbered.m_AvailableReadSize
    BY <1>1, <1>3, <1>9, SkipIs
<1>14. numbered.m_ReadPosition + m = measured.m_ReadPosition + length
    <2>1. p + m = (p + 2) + n
        BY <1>8
    <2> QED
        BY <1>2, <1>6, <1>8, <2>1
<1>15. CanGet(numbered, 2)
    BY <1>1, <1>2
<1> QED
    BY <1>1, <1>2, <1>3, <1>4, <1>5, <1>6, <1>7, <1>9, <1>11, <1>12, <1>13, <1>14, <1>15
    DEF numbered, length, measured

-----------------------------------------------------------------------------
(* Type correctness. *)

PackagesTypeInv == PackagesTypeOK /\ in.m_AvailableReadSize <= CacheSize

LEMMA Sizes == /\ OutSize \in Nat /\ CacheSize \in Nat /\ SIZE_SPAN \in Nat
               /\ OutSize < SIZE_SPAN /\ CacheSize < SIZE_SPAN
BY BufferAssumption, SizeSpanAssumption

LEMMA ByteStringsAre == ByteStrings = Seq(Byte) /\ 0 \in Byte
BY ByteAssumption DEF ByteStrings, Byte

LEMMA OverIs ==
    ASSUME NEW bytes \in Seq(Byte), NEW n \in Nat, n <= Len(bytes)
    PROVE  /\ IsIOBuffer(Over(bytes, n)) /\ Over(bytes, n).m_Buffer = bytes
           /\ Over(bytes, n).m_ReadPosition = 0 /\ Over(bytes, n).m_WritePosition = 0
           /\ Over(bytes, n).m_AvailableReadSize = n
<1>1. /\ Over(bytes, n) \in IOBuffers /\ Over(bytes, n).m_Buffer = bytes
      /\ Over(bytes, n).m_ReadPosition = 0 /\ Over(bytes, n).m_WritePosition = 0
      /\ Over(bytes, n).m_AvailableReadSize = n
    BY DEF Over, IOBuffers
<1> QED
    BY <1>1, IsIOBufferIs

LEMMA NoBufferIs == IsIOBuffer(NoBuffer) /\ NoBuffer.m_AvailableReadSize = 0
<1>1. <<>> \in Seq(Byte) /\ Len(<<>>) = 0
    OBVIOUS
<1>2. PICK none : none = <<>> /\ none \in Seq(Byte) /\ Len(none) = 0
    BY <1>1
<1>3. PICK n \in Nat : n = 0 /\ n <= Len(none)
    BY <1>2
<1>4. IsIOBuffer(Over(none, n)) /\ Over(none, n).m_AvailableReadSize = n
    BY <1>2, <1>3, OverIs
<1> QED
    BY <1>2, <1>3, <1>4 DEF NoBuffer

LEMMA PackagesTypeInit == PackagesInit => PackagesTypeInv
<1> SUFFICES ASSUME PackagesInit PROVE PackagesTypeInv
    OBVIOUS
<1>1. PICK bytes : bytes = [i \in 1..OutSize |-> 0]
    OBVIOUS
<1>2. bytes \in Seq(Byte) /\ Len(bytes) = OutSize
    <2>1. bytes \in [1..OutSize -> Byte]
        BY <1>1, ByteStringsAre
    <2> QED
        BY <2>1, Sizes, FunctionIsSequence
<1>3. IsIOBuffer(out) /\ Len(out.m_Buffer) = OutSize
    <2>1. out = Over(bytes, 0) /\ 0 <= Len(bytes)
        BY <1>1, <1>2, Sizes DEF PackagesInit
    <2> QED
        BY <1>2, <2>1, OverIs
<1>4. IsIOBuffer(in) /\ in.m_AvailableReadSize <= CacheSize
    <2>1. IsIOBuffer(in) /\ in.m_AvailableReadSize = 0
        BY NoBufferIs DEF PackagesInit
    <2> QED
        BY <2>1, Sizes
<1>5. /\ posted \in Seq(Payloads) /\ stream \in ByteStrings /\ taken \in Seq(Package)
      /\ cPackageCache \in ByteStrings /\ Len(cPackageCache) <= CacheSize
      /\ pc \in {"wait", "message"} /\ open \in BOOLEAN /\ spoiled \in BOOLEAN
    <2>1. <<>> \in Seq(Payloads) /\ <<>> \in Seq(Byte) /\ <<>> \in Seq(Package) /\ Len(<<>>) = 0
        OBVIOUS
    <2>2. 0 <= CacheSize
        BY Sizes
    <2>3. open \in BOOLEAN /\ spoiled \in BOOLEAN
        BY DEF PackagesInit
    <2> QED
        BY <2>1, <2>2, <2>3, ByteStringsAre DEF PackagesInit
<1> QED
    BY <1>3, <1>4, <1>5 DEF PackagesTypeInv, PackagesTypeOK

LEMMA TypeIs ==
    ASSUME PackagesTypeInv
    PROVE  /\ IsIOBuffer(out) /\ Len(out.m_Buffer) = OutSize
           /\ out.m_WritePosition \in 0..OutSize /\ out.m_Buffer \in Seq(Byte)
           /\ posted \in Seq(Package) /\ posted \in Seq(Payloads)
           /\ stream \in Seq(Byte)
           /\ cPackageCache \in Seq(Byte) /\ Len(cPackageCache) \in 0..CacheSize
           /\ IsIOBuffer(in) /\ in.m_Buffer \in Seq(Byte)
           /\ in.m_AvailableReadSize \in 0..CacheSize
           /\ in.m_ReadPosition \in 0..in.m_AvailableReadSize
           /\ pc \in {"wait", "message"}
           /\ taken \in Seq(Package)
           /\ spoiled \in BOOLEAN /\ open \in BOOLEAN
<1>1. IsIOBuffer(out) /\ Len(out.m_Buffer) = OutSize /\ IsIOBuffer(in)
    BY DEF PackagesTypeInv, PackagesTypeOK
<1>2. out.m_Buffer \in Seq(Byte) /\ out.m_WritePosition \in 0..OutSize
    BY <1>1, Sizes, IsIOBufferIs DEF IOBuffers
<1>3. /\ in.m_Buffer \in Seq(Byte) /\ in.m_AvailableReadSize \in Nat /\ in.m_ReadPosition \in Nat
      /\ in.m_ReadPosition <= in.m_AvailableReadSize
    BY <1>1, IsIOBufferIs DEF IOBuffers
<1>4. in.m_AvailableReadSize <= CacheSize
    BY DEF PackagesTypeInv
<1>5. in.m_AvailableReadSize \in 0..CacheSize /\ in.m_ReadPosition \in 0..in.m_AvailableReadSize
    BY <1>3, <1>4, Sizes
<1>6. /\ posted \in Seq(Payloads) /\ stream \in Seq(Byte)
      /\ cPackageCache \in Seq(Byte) /\ Len(cPackageCache) <= CacheSize
      /\ pc \in {"wait", "message"} /\ taken \in Seq(Package)
      /\ spoiled \in BOOLEAN /\ open \in BOOLEAN
    BY ByteStringsAre DEF PackagesTypeInv, PackagesTypeOK
<1>7. posted \in Seq(Package)
    <2>1. \A p \in Payloads : p \in Package
        BY PayloadAssumption
    <2> QED
        BY <1>6, <2>1
<1>8. Len(cPackageCache) \in 0..CacheSize
    BY <1>6, Sizes
<1> QED
    BY <1>1, <1>2, <1>3, <1>5, <1>6, <1>7, <1>8

(* What Post does to the buffer, whether the text fits it or not.          *)
LEMMA PostDoes ==
    ASSUME PackagesTypeInv, NEW p \in Payloads, Post(p),
           NEW o \in Nat, o = out.m_WritePosition, NEW ws \in Nat, ws = WireSize(p)
    PROVE  /\ p \in Package /\ ~spoiled
           /\ IsIOBuffer(out') /\ Len(out'.m_Buffer) = OutSize
           /\ \A i \in 1..o : out'.m_Buffer[i] = out.m_Buffer[i]
           /\ \/ /\ posted' = Append(posted, p) /\ out'.m_WritePosition = o + ws
                 /\ \A i \in 1..OutSize : \A j \in 1..ws :
                       i = o + j => out'.m_Buffer[i] = Wire(p, j)
                 /\ spoiled' = (spoiled \/ Len(p.text) >= LENGTH_SPAN)
              \/ /\ out'.m_WritePosition = o
                 /\ UNCHANGED <<posted, spoiled>>
           /\ UNCHANGED <<stream, cPackageCache, in, pc, open, taken>>
<1> DEFINE numbered == PutInt(out, p.number, NUMBER_BYTES)
<1>1. p \in Package
    BY PayloadAssumption
<1>2. PICK w \in Nat : w = NUMBER_BYTES
    BY Widths
<1>3. PICK n \in Nat : n = Len(p.text)
    BY <1>1, PackageIs
<1>4. ws = w + 2 + n
    BY <1>1, <1>2, <1>3, Widths, PackageIs
<1>5. IsIOBuffer(out) /\ Len(out.m_Buffer) = OutSize /\ OutSize \in Nat
    BY TypeIs, Sizes
<1>6. PICK number \in [1..w -> Byte] : number = Bytes(p.number, NUMBER_BYTES)
    BY <1>1, <1>2, PackageIs, BytesType
<1>7. o + w <= OutSize
    BY <1>2, <1>5 DEF Post, CanPut
<1>8. HasWritten(out, numbered, o, OutSize, number, w)
    <2>1. HasRoom(out, o, OutSize, number, w)
        BY <1>5, <1>7 DEF HasRoom
    <2> QED
        BY <1>6, <2>1, Written DEF PutInt
<1> HIDE DEF numbered
<1>9. /\ IsIOBuffer(numbered) /\ numbered.m_WritePosition = o + w
      /\ Len(numbered.m_Buffer) = OutSize
      /\ \A i \in 1..o : numbered.m_Buffer[i] = out.m_Buffer[i]
    BY <1>8 DEF HasWritten
<1>10. CASE /\ CanPutString(numbered, p.text)
            /\ out' = PutString(numbered, p.text) /\ posted' = Append(posted, p)
            /\ spoiled' = (spoiled \/ Len(p.text) >= LENGTH_SPAN)
    <2>1. o + ws <= OutSize
        <3>1. PICK k \in Nat : k = o + w
            OBVIOUS
        <3>2. k + (2 + n) <= OutSize
            BY <1>3, <1>9, <1>10, <3>1, Widths DEF CanPutString, CanPut
        <3> QED
            BY <1>4, <3>1, <3>2
    <2>2. HasRoomFor(out, o, OutSize, p, ws)
        BY <1>5, <2>1 DEF HasRoomFor
    <2>3. HasPacked(out, out', o, OutSize, p, ws)
        BY <1>1, <1>5, <1>10, <2>2, PackageIsWritten DEF numbered
    <2>4. /\ IsIOBuffer(out') /\ Len(out'.m_Buffer) = OutSize
          /\ \A i \in 1..o : out'.m_Buffer[i] = out.m_Buffer[i]
          /\ out'.m_WritePosition = o + ws
          /\ \A i \in 1..OutSize : \A j \in 1..ws :
                i = o + j => out'.m_Buffer[i] = Wire(p, j)
        BY <2>3 DEF HasPacked
    <2> QED
        BY <1>1, <1>10, <2>4 DEF Post, serverVars
<1>11. CASE /\ out' = WriteSeek(numbered, out.m_WritePosition - numbered.m_WritePosition)
            /\ UNCHANGED <<posted, spoiled>>
    <2>1. Sought(o + w, o - (o + w), OutSize) = o
        BY <1>5, <1>7, Sizes, SeekBack
    <2>2. out' = [numbered EXCEPT !.m_WritePosition = o]
        BY <1>9, <1>11, <2>1 DEF WriteSeek
    <2>3. numbered \in IOBuffers /\ numbered.m_AvailableReadSize <= Len(numbered.m_Buffer)
          /\ numbered.m_ReadPosition <= numbered.m_AvailableReadSize
        BY <1>9, IsIOBufferIs
    <2>4. /\ out' \in IOBuffers /\ out'.m_Buffer = numbered.m_Buffer /\ out'.m_WritePosition = o
          /\ out'.m_AvailableReadSize = numbered.m_AvailableReadSize
          /\ out'.m_ReadPosition = numbered.m_ReadPosition
        BY <2>2, <2>3 DEF IOBuffers
    <2>5. o <= OutSize
        BY <1>5, <1>7
    <2>6. IsIOBuffer(out')
        BY <1>9, <2>3, <2>4, <2>5, IsIOBufferIs
    <2> QED
        BY <1>1, <1>9, <1>11, <2>4, <2>6 DEF Post, serverVars
<1>12. \/ /\ CanPutString(numbered, p.text)
          /\ out' = PutString(numbered, p.text) /\ posted' = Append(posted, p)
          /\ spoiled' = (spoiled \/ Len(p.text) >= LENGTH_SPAN)
       \/ /\ out' = WriteSeek(numbered, out.m_WritePosition - numbered.m_WritePosition)
          /\ UNCHANGED <<posted, spoiled>>
    BY DEF Post, numbered
<1> QED
    BY <1>10, <1>11, <1>12

(* What OnMessage gives back it has read before. *)
LEMMA GivenBackIs ==
    ASSUME PackagesTypeInv
    PROVE  GivenBack = in
<1>1. SUFFICES ASSUME CanGet(in, NUMBER_BYTES)
               PROVE  ReadSeek(Skip(in, NUMBER_BYTES), -NUMBER_BYTES) = in
    BY DEF GivenBack
<1>2. PICK w \in Nat : w = NUMBER_BYTES
    BY Widths
<1>3. PICK p \in Nat, a \in Nat :
        p = in.m_ReadPosition /\ a = in.m_AvailableReadSize /\ p <= a /\ a < SIZE_SPAN
    BY TypeIs, Sizes
<1>4. in \in IOBuffers
    BY TypeIs, IsIOBufferIs
<1>5. Sought(p + w, -w, a) = p
    BY <1>3, SeekBack
<1>6. Skip(in, NUMBER_BYTES) = [in EXCEPT !.m_ReadPosition = p + w]
    BY <1>2, <1>3 DEF Skip
<1>7. PICK q : q = p + w
    OBVIOUS
<1>8. PICK skipped : skipped = [in EXCEPT !.m_ReadPosition = q]
    OBVIOUS
<1>9. skipped.m_ReadPosition = q /\ skipped.m_AvailableReadSize = a
    BY <1>3, <1>4, <1>8 DEF IOBuffers
<1>10. ReadSeek(skipped, -w) = [skipped EXCEPT !.m_ReadPosition = p]
    BY <1>5, <1>7, <1>9 DEF ReadSeek
<1>11. [skipped EXCEPT !.m_ReadPosition = p] = in
    BY <1>3, <1>4, <1>8 DEF IOBuffers
<1> QED
    BY <1>2, <1>6, <1>7, <1>8, <1>10, <1>11

LEMMA SendDoes ==
    ASSUME PackagesTypeInv, Send
    PROVE  \E n \in 1..out.m_WritePosition :
              /\ stream' = stream \o SubSeq(out.m_Buffer, 1, n)
              /\ SubSeq(out.m_Buffer, 1, n) \in Seq(Byte) /\ Len(SubSeq(out.m_Buffer, 1, n)) = n
              /\ \A i \in 1..n : SubSeq(out.m_Buffer, 1, n)[i] = out.m_Buffer[i]
              /\ spoiled' = (spoiled \/ n < out.m_WritePosition)
              /\ IsIOBuffer(out') /\ Len(out'.m_Buffer) = OutSize /\ out'.m_WritePosition = 0
              /\ UNCHANGED <<posted, cPackageCache, in, pc, open, taken>>
<1>1. PICK n \in 1..out.m_WritePosition :
        /\ stream' = stream \o SubSeq(out.m_Buffer, 1, n)
        /\ spoiled' = (spoiled \/ n < out.m_WritePosition)
    BY DEF Send
<1>2. PICK o \in Nat, buffer \in Seq(Byte) :
        o = out.m_WritePosition /\ buffer = out.m_Buffer /\ o <= Len(buffer)
    <2>1. out.m_WritePosition \in Nat /\ out.m_Buffer \in Seq(Byte)
          /\ out.m_WritePosition <= Len(out.m_Buffer)
        BY TypeIs, Sizes
    <2> QED
        BY <2>1
<1>3. n \in Nat /\ n >= 1 /\ n <= Len(buffer)
    BY <1>1, <1>2
<1>4. /\ SubSeq(buffer, 1, n) \in Seq(Byte) /\ Len(SubSeq(buffer, 1, n)) = n
      /\ \A i \in 1..n : SubSeq(buffer, 1, n)[i] = buffer[i]
    BY <1>3
<1>5. /\ out' \in IOBuffers /\ out'.m_Buffer = out.m_Buffer /\ out'.m_WritePosition = 0
      /\ out'.m_AvailableReadSize = out.m_AvailableReadSize
      /\ out'.m_ReadPosition = out.m_ReadPosition
    <2>1. out \in IOBuffers
        BY TypeIs, IsIOBufferIs
    <2>2. out' = [out EXCEPT !.m_WritePosition = 0]
        BY DEF Send
    <2> QED
        BY <2>1, <2>2 DEF IOBuffers
<1>6. IsIOBuffer(out') /\ Len(out'.m_Buffer) = OutSize
    <2>1. /\ out.m_AvailableReadSize <= Len(out.m_Buffer)
          /\ out.m_ReadPosition <= out.m_AvailableReadSize /\ Len(out.m_Buffer) = OutSize
          /\ 0 <= OutSize
        BY TypeIs, IsIOBufferIs, Sizes
    <2> QED
        BY <1>5, <2>1, IsIOBufferIs
<1> QED
    BY <1>1, <1>2, <1>4, <1>5, <1>6 DEF Send, serverVars

LEMMA ReceiveDoes ==
    ASSUME PackagesTypeInv, Receive
    PROVE  \E n \in 1..Len(stream) :
              /\ pc = "wait" /\ pc' = "message"
              /\ Len(cPackageCache) + n <= CacheSize
              /\ stream' \in Seq(Byte) /\ Len(stream') = Len(stream) - n
              /\ \A i \in 1..Len(stream') : stream'[i] = stream[n + i]
              /\ cPackageCache' \in Seq(Byte) /\ Len(cPackageCache') = Len(cPackageCache) + n
              /\ \A i \in 1..Len(cPackageCache) : cPackageCache'[i] = cPackageCache[i]
              /\ \A i \in 1..n : cPackageCache'[Len(cPackageCache) + i] = stream[i]
              /\ IsIOBuffer(in') /\ in'.m_Buffer = cPackageCache' /\ in'.m_ReadPosition = 0
              /\ in'.m_AvailableReadSize = Len(cPackageCache')
              /\ UNCHANGED <<out, posted, spoiled, open, taken>>
<1>1. PICK n \in 1..Len(stream) :
        /\ n <= RemainSize
        /\ stream' = SubSeq(stream, n + 1, Len(stream))
        /\ cPackageCache' = cPackageCache \o SubSeq(stream, 1, n)
    BY DEF Receive
<1>2. PICK s \in Seq(Byte), c \in Seq(Byte) : s = stream /\ c = cPackageCache
    BY TypeIs
<1>3. Len(c) \in Nat /\ Len(s) \in Nat /\ n \in Nat /\ n >= 1 /\ n <= Len(s)
    BY <1>1, <1>2
<1>4. Len(c) + n <= CacheSize
    BY <1>1, <1>2, <1>3, Sizes DEF RemainSize
<1>5. PICK head \in Seq(Byte) : /\ head = SubSeq(s, 1, n) /\ Len(head) = n
                                /\ \A i \in 1..n : head[i] = s[i]
    <2>1. /\ SubSeq(s, 1, n) \in Seq(Byte) /\ Len(SubSeq(s, 1, n)) = n
          /\ \A i \in 1..n : SubSeq(s, 1, n)[i] = s[i]
        BY <1>3
    <2> QED
        BY <2>1
<1>6. PICK tail \in Seq(Byte) : /\ tail = SubSeq(s, n + 1, Len(s)) /\ Len(tail) = Len(s) - n
                                /\ \A i \in 1..Len(tail) : tail[i] = s[n + i]
    <2>1. /\ SubSeq(s, n + 1, Len(s)) \in Seq(Byte)
          /\ Len(SubSeq(s, n + 1, Len(s))) = Len(s) - n
          /\ \A i \in 1..(Len(s) - n) : SubSeq(s, n + 1, Len(s))[i] = s[n + i]
        BY <1>3, TailIs
    <2> QED
        BY <2>1
<1>7. PICK whole \in Seq(Byte) : /\ whole = c \o head /\ Len(whole) = Len(c) + n
                                 /\ \A i \in 1..Len(c) : whole[i] = c[i]
                                 /\ \A i \in 1..n : whole[Len(c) + i] = s[i]
    <2>1. PICK joined : joined = c \o head
        OBVIOUS
    <2>2. /\ joined \in Seq(Byte) /\ Len(joined) = Len(c) + Len(head)
          /\ \A i \in 1..Len(c) : joined[i] = c[i]
          /\ \A i \in 1..Len(head) : joined[Len(c) + i] = head[i]
        BY <2>1, ConcatenationIs
    <2>3. Len(joined) = Len(c) + n /\ \A i \in 1..n : joined[Len(c) + i] = s[i]
        BY <1>5, <2>2
    <2> QED
        BY <2>1, <2>2, <2>3
<1>8. cPackageCache' = whole /\ stream' = tail
    BY <1>1, <1>2, <1>5, <1>6, <1>7
<1>9. /\ IsIOBuffer(in') /\ in'.m_Buffer = cPackageCache' /\ in'.m_ReadPosition = 0
      /\ in'.m_AvailableReadSize = Len(cPackageCache')
    <2>1. PICK size \in Nat : size = Len(whole) /\ size <= Len(whole)
        BY <1>7
    <2>2. in' = Over(whole, size)
        BY <1>8, <2>1 DEF Receive
    <2>3. /\ IsIOBuffer(Over(whole, size)) /\ Over(whole, size).m_Buffer = whole
          /\ Over(whole, size).m_ReadPosition = 0 /\ Over(whole, size).m_WritePosition = 0
          /\ Over(whole, size).m_AvailableReadSize = size
        BY <2>1, OverIs
    <2> QED
        BY <1>8, <2>1, <2>2, <2>3
<1>10. /\ pc = "wait" /\ pc' = "message"
       /\ UNCHANGED <<out, posted, spoiled, open, taken>>
    BY DEF Receive, senderVars
<1>11. /\ stream' \in Seq(Byte) /\ Len(stream') = Len(stream) - n
       /\ \A i \in 1..Len(stream') : stream'[i] = stream[n + i]
    BY <1>2, <1>6, <1>8
<1>12. /\ Len(cPackageCache) + n <= CacheSize
       /\ cPackageCache' \in Seq(Byte) /\ Len(cPackageCache') = Len(cPackageCache) + n
       /\ \A i \in 1..Len(cPackageCache) : cPackageCache'[i] = cPackageCache[i]
       /\ \A i \in 1..n : cPackageCache'[Len(cPackageCache) + i] = stream[i]
    BY <1>2, <1>4, <1>7, <1>8
<1> QED
    BY <1>9, <1>10, <1>11, <1>12

LEMMA TakeDoes ==
    ASSUME PackagesTypeInv, Take
    PROVE  LET numbered == Skip(in, NUMBER_BYTES)
           IN  /\ pc = "message" /\ IsWhole(in)
               /\ taken' = Append(taken, [number |-> GetInt(in, NUMBER_BYTES),
                                          text |-> GetString(numbered)])
               /\ [number |-> GetInt(in, NUMBER_BYTES), text |-> GetString(numbered)] \in Package
               /\ in' = SkipString(numbered) /\ IsIOBuffer(in') /\ in'.m_Buffer = in.m_Buffer
               /\ in'.m_AvailableReadSize = in.m_AvailableReadSize
               /\ UNCHANGED <<out, posted, spoiled, stream, cPackageCache, pc, open>>
<1>1. IsIOBuffer(in) /\ IsWhole(in)
    BY TypeIs DEF Take, MoreToTake
<1> DEFINE numbered == Skip(in, NUMBER_BYTES)
<1>2. /\ GetInt(in, NUMBER_BYTES) \in 0..(Power[NUMBER_BYTES] - 1)
      /\ GetString(numbered) \in Seq(Byte)
      /\ IsIOBuffer(SkipString(numbered)) /\ SkipString(numbered).m_Buffer = in.m_Buffer
      /\ SkipString(numbered).m_AvailableReadSize = in.m_AvailableReadSize
    BY <1>1, WholeIs
<1>3. [number |-> GetInt(in, NUMBER_BYTES), text |-> GetString(numbered)] \in Package
    BY <1>2, ByteStringsAre DEF Package
<1> QED
    BY <1>1, <1>2, <1>3 DEF Take, senderVars

LEMMA MessageReturnsDoes ==
    ASSUME PackagesTypeInv, MessageReturns
    PROVE  \E n \in Nat :
              /\ n = in.m_AvailableReadSize - in.m_ReadPosition
              /\ pc = "message" /\ pc' = "wait"
              /\ cPackageCache' \in Seq(Byte) /\ Len(cPackageCache') = n
              /\ \A i \in 1..n : cPackageCache'[i] = in.m_Buffer[in.m_ReadPosition + i]
              /\ IsIOBuffer(in') /\ in'.m_AvailableReadSize = 0
              /\ UNCHANGED <<out, posted, spoiled, stream, open, taken>>
<1>1. PICK p \in Nat, a \in Nat :
        p = in.m_ReadPosition /\ a = in.m_AvailableReadSize /\ p <= a
    BY TypeIs
<1>2. PICK n \in Nat : n = a - p
    BY <1>1
<1>3. CanGet(in, n)
    BY <1>1, <1>2 DEF CanGet
<1>4. cPackageCache' = Ahead(in, n)
    BY <1>1, <1>2, GivenBackIs DEF MessageReturns
<1>5. /\ Ahead(in, n) \in Seq(Byte) /\ Len(Ahead(in, n)) = n
      /\ \A i \in 1..n : \A k \in Nat :
            k = in.m_ReadPosition + i => Ahead(in, n)[i] = in.m_Buffer[k]
    BY <1>3, TypeIs, AheadIs
<1>6. ASSUME NEW i \in 1..n
      PROVE  cPackageCache'[i] = in.m_Buffer[in.m_ReadPosition + i]
    <2>1. PICK k \in Nat : k = p + i
        OBVIOUS
    <2>2. k = in.m_ReadPosition + i
        BY <1>1, <2>1
    <2> QED
        BY <1>4, <1>5, <2>2
<1> QED
    BY <1>1, <1>2, <1>4, <1>5, <1>6, NoBufferIs DEF MessageReturns, senderVars

LEMMA PackagesTypeStep == PackagesTypeInv /\ [PackagesNext]_packageVars => PackagesTypeInv'
<1> SUFFICES ASSUME PackagesTypeInv, [PackagesNext]_packageVars PROVE PackagesTypeInv'
    OBVIOUS
<1>1. ASSUME NEW p \in Payloads, Post(p) PROVE PackagesTypeInv'
    <2>1. PICK o \in Nat, ws \in Nat : o = out.m_WritePosition /\ ws = WireSize(p)
        <3>1. out.m_WritePosition \in Nat
            BY TypeIs
        <3>2. WireSize(p) \in Nat
            <4>1. PICK w \in Nat, n \in Nat : w = NUMBER_BYTES /\ n = Len(p.text)
                BY Widths, PackageIs, PayloadAssumption
            <4>2. WireSize(p) = w + 2 + n
                BY <4>1, Widths DEF WireSize
            <4> QED
                BY <4>2
        <3> QED
            BY <3>1, <3>2
    <2>2. /\ IsIOBuffer(out') /\ Len(out'.m_Buffer) = OutSize
          /\ \/ posted' = Append(posted, p) /\ spoiled' = (spoiled \/ Len(p.text) >= LENGTH_SPAN)
             \/ UNCHANGED <<posted, spoiled>>
          /\ UNCHANGED <<stream, cPackageCache, in, pc, open, taken>>
        BY <1>1, <2>1, PostDoes
    <2>3. posted \in Seq(Payloads) /\ spoiled \in BOOLEAN
        BY TypeIs
    <2>4. posted' \in Seq(Payloads)
        BY <2>2, <2>3
    <2>5. spoiled' \in BOOLEAN
        BY <2>2, <2>3
    <2> QED
        BY <2>2, <2>4, <2>5, ByteStringsAre DEF PackagesTypeInv, PackagesTypeOK
<1>2. CASE Send
    <2>1. PICK n \in 1..out.m_WritePosition :
              /\ stream' = stream \o SubSeq(out.m_Buffer, 1, n)
              /\ SubSeq(out.m_Buffer, 1, n) \in Seq(Byte)
              /\ spoiled' = (spoiled \/ n < out.m_WritePosition)
              /\ IsIOBuffer(out') /\ Len(out'.m_Buffer) = OutSize
              /\ UNCHANGED <<posted, cPackageCache, in, pc, open, taken>>
        BY <1>2, SendDoes
    <2>2. stream' \in Seq(Byte) /\ spoiled' \in BOOLEAN
        BY <2>1, TypeIs, ConcatenationIs
    <2> QED
        BY <2>1, <2>2, ByteStringsAre DEF PackagesTypeInv, PackagesTypeOK
<1>3. CASE CacheIsFull
    BY <1>3 DEF CacheIsFull, PackagesTypeInv, PackagesTypeOK, senderVars
<1>4. CASE Receive
    <2>1. PICK n \in 1..Len(stream) :
              /\ pc' = "message" /\ Len(cPackageCache) + n <= CacheSize
              /\ stream' \in Seq(Byte)
              /\ cPackageCache' \in Seq(Byte) /\ Len(cPackageCache') = Len(cPackageCache) + n
              /\ IsIOBuffer(in') /\ in'.m_AvailableReadSize = Len(cPackageCache')
              /\ UNCHANGED <<out, posted, spoiled, open, taken>>
        BY <1>4, ReceiveDoes
    <2>2. Len(cPackageCache') <= CacheSize /\ in'.m_AvailableReadSize <= CacheSize
        BY <2>1
    <2> QED
        BY <2>1, <2>2, ByteStringsAre DEF PackagesTypeInv, PackagesTypeOK
<1>5. CASE Take
    <2>1. PICK p \in Package : taken' = Append(taken, p)
        BY <1>5, TakeDoes
    <2>2. taken' \in Seq(Package)
        BY <2>1, TypeIs
    <2>3. /\ IsIOBuffer(in') /\ in'.m_AvailableReadSize = in.m_AvailableReadSize
          /\ UNCHANGED <<out, posted, spoiled, stream, cPackageCache, pc, open>>
        BY <1>5, TakeDoes
    <2> QED
        BY <2>2, <2>3 DEF PackagesTypeInv, PackagesTypeOK
<1>6. CASE MessageReturns
    <2>1. PICK n \in Nat :
              /\ n = in.m_AvailableReadSize - in.m_ReadPosition /\ pc' = "wait"
              /\ cPackageCache' \in Seq(Byte) /\ Len(cPackageCache') = n
              /\ IsIOBuffer(in') /\ in'.m_AvailableReadSize = 0
              /\ UNCHANGED <<out, posted, spoiled, stream, open, taken>>
        BY <1>6, MessageReturnsDoes
    <2>2. n <= CacheSize /\ 0 <= CacheSize
        BY <2>1, TypeIs, Sizes
    <2> QED
        BY <2>1, <2>2, ByteStringsAre DEF PackagesTypeInv, PackagesTypeOK
<1>7. CASE UNCHANGED packageVars
    BY <1>7 DEF packageVars, PackagesTypeInv, PackagesTypeOK
<1> QED
    BY <1>1, <1>2, <1>3, <1>4, <1>5, <1>6, <1>7 DEF PackagesNext

(* The state has its type: the positions of both buffers stay inside them  *)
(* through every Post, also one that throws, and every seek back, and the  *)
(* cache never holds more than its size.                                   *)
THEOREM PackagesTypeCorrect == PackagesSpec => []PackagesTypeOK
<1>1. PackagesTypeInv => PackagesTypeOK
    BY DEF PackagesTypeInv
<1> QED
    BY <1>1, PackagesTypeInit, PackagesTypeStep, PTL DEF PackagesSpec

-----------------------------------------------------------------------------
(* Where the packages lie.  The bytes on their way, from those that        *)
(* OnMessage has yet to read to those still in the sender's buffer, are a  *)
(* flow of m bytes; counted from the first byte that was ever packed, the  *)
(* k-th package starts behind start[k] bytes.                              *)

Unread == IF pc = "wait" THEN Len(cPackageCache)
          ELSE in.m_AvailableReadSize - in.m_ReadPosition

UnreadBytes == IF pc = "wait" THEN cPackageCache
         ELSE [i \in 1..Unread |-> in.m_Buffer[in.m_ReadPosition + i]]

(* The flow is u bytes of front, s of middle and o of back. *)
Joins(flow, m, u, s, o, front, middle, back) ==
    /\ m = u + s + o
    /\ \A i \in 1..u : flow[i] = front[i]
    /\ \A i \in 1..s : flow[u + i] = middle[i]
    /\ \A i \in 1..o : flow[u + s + i] = back[i]
Way(flow, m) == Joins(flow, m, Unread, Len(stream), out.m_WritePosition,
                      UnreadBytes, stream, out.m_Buffer)

(* The bytes at the back are sent: they are the last of the middle. *)
LEMMA JoinsSent ==
    ASSUME NEW flow, NEW m \in Nat, NEW u \in Nat, NEW s \in Nat, NEW o \in Nat,
           NEW front, NEW middle, NEW back, Joins(flow, m, u, s, o, front, middle, back),
           NEW middle2, NEW back2, \A i \in 1..s : middle2[i] = middle[i],
           \A i \in 1..o : middle2[s + i] = back[i]
    PROVE  Joins(flow, m, u, s + o, 0, front, middle2, back2)
<1>1. /\ m = u + s + o
      /\ \A i \in 1..u : flow[i] = front[i]
      /\ \A i \in 1..s : flow[u + i] = middle[i]
      /\ \A i \in 1..o : flow[u + s + i] = back[i]
    BY DEF Joins
<1>2. ASSUME NEW i \in 1..(s + o) PROVE flow[u + i] = middle2[i]
    <2>1. CASE i <= s
        BY <1>1, <2>1
    <2>2. CASE ~ (i <= s)
        <3>1. PICK j \in 1..o : j = i - s
            BY <2>2
        <3>2. i = s + j /\ u + i = u + s + j
            BY <3>1
        <3>3. flow[u + s + j] = back[j] /\ middle2[s + j] = back[j]
            BY <1>1
        <3> QED
            BY <3>2, <3>3
    <2> QED
        BY <2>1, <2>2
<1>3. m = u + (s + o) + 0
    BY <1>1
<1> QED
    BY <1>1, <1>2, <1>3 DEF Joins

(* The first n bytes of the middle are received: they are the last of the  *)
(* front.                                                                  *)
Received(front, front2, u, middle, middle2, n, r) ==
    /\ \A i \in 1..u : front2[i] = front[i]
    /\ \A i \in 1..n : front2[u + i] = middle[i]
    /\ \A i \in 1..r : middle2[i] = middle[n + i]
LEMMA JoinsReceived ==
    ASSUME NEW flow, NEW m \in Nat, NEW u \in Nat, NEW s \in Nat, NEW o \in Nat,
           NEW front, NEW middle, NEW back, Joins(flow, m, u, s, o, front, middle, back),
           NEW n \in Nat, NEW r \in Nat, s = n + r, NEW front2, NEW middle2,
           Received(front, front2, u, middle, middle2, n, r)
    PROVE  Joins(flow, m, u + n, r, o, front2, middle2, back)
<1> USE DEF Received
<1>1. /\ m = u + s + o
      /\ \A i \in 1..u : flow[i] = front[i]
      /\ \A i \in 1..s : flow[u + i] = middle[i]
      /\ \A i \in 1..o : flow[u + s + i] = back[i]
    BY DEF Joins
<1>2. ASSUME NEW i \in 1..(u + n) PROVE flow[i] = front2[i]
    <2>1. CASE i <= u
        BY <1>1, <2>1
    <2>2. CASE ~ (i <= u)
        <3>1. PICK j \in 1..n : j = i - u
            BY <2>2
        <3>2. i = u + j /\ j \in 1..s
            BY <3>1
        <3>3. flow[u + j] = middle[j] /\ front2[u + j] = middle[j]
            BY <1>1, <3>2
        <3> QED
            BY <3>2, <3>3
    <2> QED
        BY <2>1, <2>2
<1>3. ASSUME NEW i \in 1..r PROVE flow[u + n + i] = middle2[i]
    <2>1. PICK j \in 1..s : j = n + i
        OBVIOUS
    <2>2. u + n + i = u + j
        BY <2>1
    <2>3. flow[u + j] = middle[j] /\ middle2[i] = middle[n + i]
        BY <1>1
    <2> QED
        BY <2>1, <2>2, <2>3
<1>4. m = (u + n) + r + o
    BY <1>1
<1>5. ASSUME NEW i \in 1..o PROVE flow[(u + n) + r + i] = back[i]
    <2>1. (u + n) + r + i = u + s + i
        OBVIOUS
    <2> QED
        BY <1>1, <2>1
<1> QED
    BY <1>2, <1>3, <1>4, <1>5 DEF Joins

(* The flow is longer by what is added at the back. *)
Packed(flow, flow2, m, back, back2, o, n) ==
    /\ \A i \in 1..m : flow2[i] = flow[i]
    /\ \A i \in 1..o : back2[i] = back[i]
    /\ \A i \in 1..n : flow2[m + i] = back2[o + i]
LEMMA JoinsPacked ==
    ASSUME NEW flow, NEW m \in Nat, NEW u \in Nat, NEW s \in Nat, NEW o \in Nat,
           NEW front, NEW middle, NEW back, Joins(flow, m, u, s, o, front, middle, back),
           NEW n \in Nat, NEW flow2, NEW back2, Packed(flow, flow2, m, back, back2, o, n)
    PROVE  Joins(flow2, m + n, u, s, o + n, front, middle, back2)
<1> USE DEF Packed
<1>1. /\ m = u + s + o
      /\ \A i \in 1..u : flow[i] = front[i]
      /\ \A i \in 1..s : flow[u + i] = middle[i]
      /\ \A i \in 1..o : flow[u + s + i] = back[i]
    BY DEF Joins
<1>2. \A i \in 1..u : flow2[i] = front[i]
    BY <1>1
<1>3. ASSUME NEW i \in 1..s PROVE flow2[u + i] = middle[i]
    <2>1. PICK k \in 1..m : k = u + i
        BY <1>1
    <2> QED
        BY <1>1, <2>1
<1>4. ASSUME NEW i \in 1..(o + n) PROVE flow2[u + s + i] = back2[i]
    <2>1. PICK k \in 1..(m + n) : k = u + s + i
        BY <1>1
    <2>2. CASE i <= o
        <3>1. k \in 1..m
            BY <1>1, <2>1, <2>2
        <3> QED
            BY <1>1, <2>1, <2>2, <3>1
    <2>3. CASE ~ (i <= o)
        <3>1. PICK j \in 1..n : j = i - o
            BY <2>3
        <3>2. k = m + j /\ i = o + j
            BY <1>1, <2>1, <3>1
        <3>3. flow2[m + j] = back2[o + j]
            OBVIOUS
        <3> QED
            BY <2>1, <3>2, <3>3
    <2> QED
        BY <2>2, <2>3
<1>5. m + n = u + s + (o + n)
    BY <1>1
<1> QED
    BY <1>2, <1>3, <1>4, <1>5 DEF Joins

(* The first n bytes are read. *)
TakenOff(flow, flow2, m2, front, front2, v, n) ==
    /\ \A i \in 1..m2 : flow2[i] = flow[n + i]
    /\ \A i \in 1..v : front2[i] = front[n + i]
LEMMA JoinsTaken ==
    ASSUME NEW flow, NEW m \in Nat, NEW u \in Nat, NEW s \in Nat, NEW o \in Nat,
           NEW front, NEW middle, NEW back, Joins(flow, m, u, s, o, front, middle, back),
           NEW n \in Nat, NEW v \in Nat, u = n + v, NEW m2 \in Nat, m = n + m2,
           NEW flow2, NEW front2, TakenOff(flow, flow2, m2, front, front2, v, n)
    PROVE  Joins(flow2, m2, v, s, o, front2, middle, back)
<1> USE DEF TakenOff
<1>1. /\ m = u + s + o
      /\ \A i \in 1..u : flow[i] = front[i]
      /\ \A i \in 1..s : flow[u + i] = middle[i]
      /\ \A i \in 1..o : flow[u + s + i] = back[i]
    BY DEF Joins
<1>2. m2 = v + s + o
    BY <1>1
<1>3. ASSUME NEW i \in 1..v PROVE flow2[i] = front2[i]
    <2>1. PICK k \in 1..u : k = n + i
        OBVIOUS
    <2>2. i \in 1..m2
        BY <1>2
    <2> QED
        BY <1>1, <2>1, <2>2
<1>4. ASSUME NEW i \in 1..s PROVE flow2[v + i] = middle[i]
    <2>1. PICK k \in 1..m2 : k = v + i
        BY <1>2
    <2>2. n + k = u + i
        BY <2>1
    <2> QED
        BY <1>1, <2>1, <2>2
<1>5. ASSUME NEW i \in 1..o PROVE flow2[v + s + i] = back[i]
    <2>1. PICK k \in 1..m2 : k = v + s + i
        BY <1>2
    <2>2. n + k = u + s + i
        BY <2>1
    <2> QED
        BY <1>1, <2>1, <2>2
<1> QED
    BY <1>2, <1>3, <1>4, <1>5 DEF Joins

(* The packages of ps from the one behind the t-th lie in the flow. *)
Lies(start, flow, m, ps, t) ==
    /\ start \in [1..(Len(ps) + 1) -> Nat]
    /\ \A k, l \in 1..(Len(ps) + 1) : k <= l => start[k] <= start[l]
    /\ \A k \in 1..Len(ps) : start[k + 1] = start[k] + WireSize(ps[k])
    /\ start[Len(ps) + 1] = start[t + 1] + m
    /\ \A k \in 1..Len(ps) : \A j \in 1..WireSize(ps[k]) : \A i \in 1..m :
          start[t + 1] + i = start[k] + j => flow[i] = Wire(ps[k], j)

LEMMA WireSizeType ==
    ASSUME NEW p \in Package
    PROVE  WireSize(p) \in Nat /\ WireSize(p) >= 1
<1>1. PICK w \in Nat, n \in Nat : w = NUMBER_BYTES /\ n = Len(p.text)
    BY Widths, PackageIs
<1>2. WireSize(p) = w + 2 + n
    BY <1>1, Widths DEF WireSize
<1> QED
    BY <1>2

LEMMA LiesSame ==
    ASSUME NEW start, NEW flow, NEW m \in Nat, NEW ps, NEW t, Lies(start, flow, m, ps, t),
           NEW flow2, \A i \in 1..m : flow2[i] = flow[i]
    PROVE  Lies(start, flow2, m, ps, t)
BY DEF Lies

(* One package more is packed behind the others. *)
Longer(flow, flow2, m, p, ws) ==
    /\ \A i \in 1..m : flow2[i] = flow[i]
    /\ \A i \in Nat : \A j \in 1..ws : i = m + j => flow2[i] = Wire(p, j)
LEMMA LiesMore ==
    ASSUME NEW ps \in Seq(Package), NEW p \in Package, NEW t \in Nat, t <= Len(ps),
           NEW m \in Nat, NEW start, NEW flow, Lies(start, flow, m, ps, t),
           NEW ws \in Nat, ws = WireSize(p), NEW flow2, Longer(flow, flow2, m, p, ws)
    PROVE  \E start2 : Lies(start2, flow2, m + ws, Append(ps, p), t)
<1> USE DEF Longer
<1>1. PICK n \in Nat, n1 \in Nat, n2 \in Nat, t1 \in Nat :
        n = Len(ps) /\ n1 = n + 1 /\ n2 = n1 + 1 /\ t1 = t + 1 /\ t1 <= n1
    OBVIOUS
<1>2. PICK more : more = Append(ps, p)
    OBVIOUS
<1>3. /\ Len(more) = n1 /\ more[n1] = p /\ \A k \in 1..n : more[k] = ps[k]
    BY <1>1, <1>2
<1>4. /\ start \in [1..n1 -> Nat]
      /\ \A k, l \in 1..n1 : k <= l => start[k] <= start[l]
      /\ \A k \in 1..n : start[k + 1] = start[k] + WireSize(ps[k])
      /\ start[n1] = start[t1] + m
      /\ \A k \in 1..n : \A j \in 1..WireSize(ps[k]) : \A i \in 1..m :
            start[t1] + i = start[k] + j => flow[i] = Wire(ps[k], j)
    BY <1>1 DEF Lies
<1>5. PICK end \in Nat, last \in Nat : last = start[n1] /\ end = last + ws
    <2>1. start[n1] \in Nat
        BY <1>1, <1>4
    <2> QED
        BY <2>1
<1> DEFINE start2 == [k \in 1..n2 |-> IF k = n2 THEN end ELSE start[k]]
<1>6. start2 \in [1..n2 -> Nat]
    BY <1>1, <1>4
<1>7. start2[n2] = end /\ \A k \in 1..n1 : start2[k] = start[k]
    BY <1>1
<1> HIDE DEF start2
<1>8. PICK base \in Nat : base = start[t1] /\ base = start2[t1] /\ last = base + m
    <2>1. t1 \in 1..n1
        BY <1>1
    <2>2. start[t1] \in Nat /\ start2[t1] = start[t1]
        BY <1>4, <1>7, <2>1
    <2> QED
        BY <1>4, <1>5, <2>2
<1>9. ASSUME NEW k \in 1..n2, NEW l \in 1..n2, k <= l PROVE start2[k] <= start2[l]
    <2>1. CASE l = n2 /\ k # n2
        <3>1. k \in 1..n1 /\ n1 \in 1..n1 /\ k <= n1
            BY <1>1, <2>1
        <3>2. start2[k] = start[k] /\ start[k] <= last /\ start[k] \in Nat
            BY <1>4, <1>5, <1>7, <3>1
        <3> QED
            BY <1>5, <1>7, <2>1, <3>2
    <2>2. CASE l = n2 /\ k = n2
        BY <1>7, <2>2
    <2>3. CASE l # n2
        <3>1. k \in 1..n1 /\ l \in 1..n1
            BY <1>1, <1>9, <2>3
        <3> QED
            BY <1>4, <1>7, <1>9, <3>1
    <2> QED
        BY <2>1, <2>2, <2>3
<1>10. ASSUME NEW k \in 1..n1 PROVE start2[k + 1] = start2[k] + WireSize(more[k])
    <2>1. CASE k = n1
        BY <1>1, <1>3, <1>5, <1>7, <2>1
    <2>2. CASE k # n1
        <3>1. k \in 1..n /\ k + 1 \in 1..n1
            BY <1>1, <2>2
        <3> QED
            BY <1>3, <1>4, <1>7, <3>1
    <2> QED
        BY <2>1, <2>2
<1>11. PICK m2 \in Nat : m2 = m + ws
    OBVIOUS
<1>12. end = base + m2
    BY <1>5, <1>8, <1>11
<1>13. ASSUME NEW k \in 1..n1, NEW j \in 1..WireSize(more[k]), NEW i \in 1..m2,
              base + i = start2[k] + j
       PROVE  flow2[i] = Wire(more[k], j)
    <2>1. CASE k = n1
        <3>1. start2[k] = base + m /\ more[k] = p
            BY <1>3, <1>5, <1>7, <1>8, <2>1
        <3>2. i = m + j /\ j \in 1..ws /\ i \in Nat
            BY <1>13, <3>1
        <3> QED
            BY <3>1, <3>2
    <2>2. CASE k # n1
        <3>1. k \in 1..n /\ k + 1 \in 1..n1 /\ n1 \in 1..n1 /\ k + 1 <= n1 /\ k \in 1..n1
            BY <1>1, <2>2
        <3>2. PICK size \in Nat : size = WireSize(ps[k])
            <4>1. ps[k] \in Package
                BY <1>1, <3>1
            <4> QED
                BY <4>1, WireSizeType
        <3>3. PICK s \in Nat, next \in Nat : s = start[k] /\ next = start[k + 1]
            BY <1>4, <3>1
        <3>4. next <= last /\ next = s + size
            BY <1>4, <1>5, <3>1, <3>2, <3>3
        <3>5. base + i = s + j /\ j \in 1..size
            BY <1>3, <1>7, <1>13, <3>1, <3>2, <3>3
        <3>6. last = base + m
            BY <1>8
        <3>7. i \in 1..m
            BY <3>4, <3>5, <3>6
        <3>8. start[t1] + i = start[k] + j /\ j \in 1..WireSize(ps[k])
            BY <1>8, <3>2, <3>3, <3>5
        <3>9. flow[i] = Wire(ps[k], j)
            BY <1>4, <3>1, <3>7, <3>8
        <3> QED
            BY <1>3, <3>1, <3>7, <3>9
    <2> QED
        BY <2>1, <2>2
<1>14. Lies(start2, flow2, m2, more, t)
    <2>1. start2[n2] = start2[t1] + m2
        BY <1>7, <1>8, <1>12
    <2>2. Len(more) = n1 /\ n1 + 1 = n2 /\ t + 1 = t1 /\ start2[t1] = base
        BY <1>1, <1>3, <1>8
    <2> QED
        BY <1>6, <1>9, <1>10, <1>13, <2>1, <2>2 DEF Lies
<1> QED
    BY <1>2, <1>11, <1>14

(* The first package in the flow. *)
LEMMA LiesFirst ==
    ASSUME NEW ps \in Seq(Package), NEW t \in Nat, t <= Len(ps),
           NEW m \in Nat, m > 0, NEW start, NEW flow, Lies(start, flow, m, ps, t)
    PROVE  /\ t + 1 \in 1..Len(ps) /\ ps[t + 1] \in Package
           /\ WireSize(ps[t + 1]) <= m
           /\ \A j \in 1..WireSize(ps[t + 1]) : flow[j] = Wire(ps[t + 1], j)
<1>1. PICK n \in Nat, n1 \in Nat, t1 \in Nat :
        n = Len(ps) /\ n1 = n + 1 /\ t1 = t + 1 /\ t1 <= n1
    OBVIOUS
<1>2. /\ start \in [1..n1 -> Nat]
      /\ \A k, l \in 1..n1 : k <= l => start[k] <= start[l]
      /\ \A k \in 1..n : start[k + 1] = start[k] + WireSize(ps[k])
      /\ start[n1] = start[t1] + m
      /\ \A k \in 1..n : \A j \in 1..WireSize(ps[k]) : \A i \in 1..m :
            start[t1] + i = start[k] + j => flow[i] = Wire(ps[k], j)
    BY <1>1 DEF Lies
<1>3. PICK base \in Nat, last \in Nat : base = start[t1] /\ last = start[n1] /\ last = base + m
    BY <1>1, <1>2
<1>4. t1 # n1
    <2>1. base # last
        BY <1>3
    <2> QED
        BY <1>3, <2>1
<1>5. t1 \in 1..n /\ t1 + 1 \in 1..n1 /\ n1 \in 1..n1 /\ t1 + 1 <= n1
    BY <1>1, <1>4
<1>6. ps[t1] \in Package
    BY <1>1, <1>5
<1>7. PICK ws \in Nat : ws = WireSize(ps[t1])
    BY <1>6, WireSizeType
<1>8. PICK next \in Nat : next = start[t1 + 1] /\ next = base + ws /\ next <= last
    BY <1>2, <1>3, <1>5, <1>7
<1>9. ws <= m
    BY <1>3, <1>8
<1>10. ASSUME NEW j \in 1..ws PROVE flow[j] = Wire(ps[t1], j)
    <2>1. j \in 1..m /\ base + j = base + j
        BY <1>9
    <2> QED
        BY <1>2, <1>3, <1>5, <1>7, <2>1
<1> QED
    BY <1>1, <1>5, <1>6, <1>7, <1>9, <1>10

(* It is taken from the flow. *)
Shorter(flow, flow2, m2, ws) == \A i \in 1..m2 : flow2[i] = flow[ws + i]
LEMMA LiesLess ==
    ASSUME NEW ps \in Seq(Package), NEW t \in Nat, NEW t1 \in 1..Len(ps), t1 = t + 1,
           NEW m \in Nat, NEW start, NEW flow, Lies(start, flow, m, ps, t),
           NEW ws \in Nat, ws = WireSize(ps[t1]), NEW m2 \in Nat, m = ws + m2, NEW flow2,
           Shorter(flow, flow2, m2, ws)
    PROVE  Lies(start, flow2, m2, ps, t1)
<1> USE DEF Shorter
<1>1. PICK n \in Nat, n1 \in Nat, t2 \in Nat : n = Len(ps) /\ n1 = n + 1 /\ t2 = t1 + 1 /\ t2 <= n1
    OBVIOUS
<1>2. /\ start \in [1..n1 -> Nat]
      /\ \A k, l \in 1..n1 : k <= l => start[k] <= start[l]
      /\ \A k \in 1..n : start[k + 1] = start[k] + WireSize(ps[k])
      /\ start[n1] = start[t1] + m
      /\ \A k \in 1..n : \A j \in 1..WireSize(ps[k]) : \A i \in 1..m :
            start[t1] + i = start[k] + j => flow[i] = Wire(ps[k], j)
    BY <1>1 DEF Lies
<1>3. PICK base \in Nat, next \in Nat : base = start[t1] /\ next = start[t2] /\ next = base + ws
    <2>1. t1 \in 1..n1 /\ t2 \in 1..n1 /\ t1 \in 1..n
        BY <1>1
    <2> QED
        BY <1>1, <1>2, <2>1
<1>4. start[n1] = start[t2] + m2
    BY <1>2, <1>3
<1>5. ASSUME NEW k \in 1..n, NEW j \in 1..WireSize(ps[k]), NEW i \in 1..m2,
             start[t2] + i = start[k] + j
      PROVE  flow2[i] = Wire(ps[k], j)
    <2>1. PICK x \in Nat : x = ws + i
        OBVIOUS
    <2>2. x \in 1..m
        BY <2>1
    <2>3. start[t1] + x = start[k] + j
        <3>1. next = base + ws
            BY <1>3
        <3>2. base + x = next + i
            BY <2>1, <3>1
        <3> QED
            BY <1>3, <1>5, <3>2
    <2>4. flow[x] = Wire(ps[k], j)
        BY <1>2, <2>2, <2>3
    <2> QED
        BY <2>1, <2>4
<1>6. /\ Len(ps) + 1 = n1 /\ t1 + 1 = t2 /\ Len(ps) = n
    BY <1>1
<1> QED
    BY <1>2, <1>4, <1>5, <1>6 DEF Lies

-----------------------------------------------------------------------------
(* The inductive invariant: what OnMessage has taken is what was packed    *)
(* first, and what was packed after that lies in the flow.                 *)

Matches == /\ Len(taken) <= Len(posted)
           /\ \A k \in 1..Len(taken) : taken[k] = posted[k]
LengthsFit == \A k \in 1..Len(posted) : Len(posted[k].text) < LENGTH_SPAN
RestLies == \E m \in Nat : \E start, flow :
                Way(flow, m) /\ Lies(start, flow, m, posted, Len(taken))
ArrivalInv == ~spoiled => Matches /\ LengthsFit /\ RestLies

LEMMA WayType ==
    ASSUME PackagesTypeInv
    PROVE  /\ Unread \in Nat /\ Len(stream) \in Nat /\ out.m_WritePosition \in Nat
           /\ Unread + Len(stream) + out.m_WritePosition \in Nat
<1>1. Len(stream) \in Nat /\ out.m_WritePosition \in Nat /\ Len(cPackageCache) \in Nat
    BY TypeIs, Sizes
<1>2. in.m_AvailableReadSize - in.m_ReadPosition \in Nat
    <2>1. PICK a \in Nat, p \in Nat : a = in.m_AvailableReadSize /\ p = in.m_ReadPosition /\ p <= a
        BY TypeIs
    <2>2. a - p \in Nat
        BY <2>1
    <2> QED
        BY <2>1, <2>2
<1>3. Unread \in Nat
    BY <1>1, <1>2 DEF Unread
<1> QED
    BY <1>1, <1>3

(* A step that moves bytes along the way leaves the flow as it is.         *)
LEMMA FlowMoves ==
    ASSUME ArrivalInv, UNCHANGED <<posted, taken>>, spoiled' \/ UNCHANGED spoiled,
           \A m \in Nat : \A flow : ~spoiled' /\ Way(flow, m) => Way(flow, m)'
    PROVE  ArrivalInv'
<1> SUFFICES ASSUME ~spoiled' PROVE Matches' /\ LengthsFit' /\ RestLies'
    BY DEF ArrivalInv
<1>1. Matches /\ LengthsFit /\ RestLies
    BY DEF ArrivalInv
<1>2. Matches' /\ LengthsFit'
    BY <1>1 DEF Matches, LengthsFit
<1>3. PICK m \in Nat : \E start, flow : Way(flow, m) /\ Lies(start, flow, m, posted, Len(taken))
    BY <1>1 DEF RestLies
<1>4. PICK start, flow : Way(flow, m) /\ Lies(start, flow, m, posted, Len(taken))
    BY <1>3
<1>5. Way(flow, m)' /\ Lies(start, flow, m, posted', Len(taken'))
    BY <1>4
<1>6. RestLies'
    BY <1>5 DEF RestLies
<1> QED
    BY <1>2, <1>6

LEMMA ArrivalInit == PackagesInit => ArrivalInv
<1> SUFFICES ASSUME PackagesInit PROVE Matches /\ LengthsFit /\ RestLies
    BY DEF ArrivalInv
<1>1. posted = <<>> /\ taken = <<>> /\ stream = <<>> /\ cPackageCache = <<>> /\ pc = "wait"
    BY DEF PackagesInit
<1>2. PICK bytes : bytes = [i \in 1..OutSize |-> 0]
    OBVIOUS
<1>3. out.m_WritePosition = 0
    BY DEF PackagesInit, Over
<1>4. Len(<<>>) = 0
    OBVIOUS
<1>5. Matches /\ LengthsFit
    BY <1>1, <1>4 DEF Matches, LengthsFit
<1>6. PICK start : start = [k \in 1..1 |-> 0]
    OBVIOUS
<1>7. start \in [1..1 -> Nat] /\ start[1] = 0
    BY <1>6
<1>8. Lies(start, start, 0, <<>>, 0)
    BY <1>4, <1>7 DEF Lies
<1>9. Way(start, 0)
    BY <1>1, <1>3, <1>4 DEF Way, Unread, Joins
<1>10. RestLies
    BY <1>1, <1>4, <1>8, <1>9 DEF RestLies
<1> QED
    BY <1>5, <1>10

LEMMA ArrivalSend == PackagesTypeInv /\ ArrivalInv /\ Send => ArrivalInv'
<1> SUFFICES ASSUME PackagesTypeInv, ArrivalInv, Send PROVE ArrivalInv'
    OBVIOUS
<1>1. PICK n \in 1..out.m_WritePosition :
          /\ stream' = stream \o SubSeq(out.m_Buffer, 1, n)
          /\ SubSeq(out.m_Buffer, 1, n) \in Seq(Byte) /\ Len(SubSeq(out.m_Buffer, 1, n)) = n
          /\ \A i \in 1..n : SubSeq(out.m_Buffer, 1, n)[i] = out.m_Buffer[i]
          /\ spoiled' = (spoiled \/ n < out.m_WritePosition)
          /\ out'.m_WritePosition = 0
          /\ UNCHANGED <<posted, cPackageCache, in, pc, open, taken>>
    BY SendDoes
<1>2. ASSUME NEW m \in Nat, NEW flow, ~spoiled', Way(flow, m)
      PROVE  Way(flow, m)'
    <2>1. PICK u \in Nat, s \in Nat, o \in Nat :
            u = Unread /\ s = Len(stream) /\ o = out.m_WritePosition
        BY WayType
    <2>2. n = o
        <3>1. ~ (n < out.m_WritePosition)
            BY <1>1, <1>2
        <3>2. ~ (n < o) /\ n \in 1..o
            BY <1>1, <2>1, <3>1
        <3> QED
            BY <3>2
    <2>3. PICK sent \in Seq(Byte) : /\ sent = SubSeq(out.m_Buffer, 1, n) /\ Len(sent) = o
                                    /\ \A i \in 1..o : sent[i] = out.m_Buffer[i]
        BY <1>1, <2>2
    <2>4. PICK middle, back : middle = stream /\ back = out.m_Buffer
        OBVIOUS
    <2>5. /\ Len(stream') = s + o
          /\ \A i \in 1..s : stream'[i] = middle[i]
          /\ \A i \in 1..o : stream'[s + i] = back[i]
        <3>1. stream \in Seq(Byte)
            BY TypeIs
        <3>2. /\ Len(stream \o sent) = Len(stream) + Len(sent)
              /\ \A i \in 1..Len(stream) : (stream \o sent)[i] = stream[i]
              /\ \A i \in 1..Len(sent) : (stream \o sent)[Len(stream) + i] = sent[i]
            BY <3>1, ConcatenationIs
        <3> QED
            BY <1>1, <2>1, <2>3, <2>4, <3>2
    <2>6. Joins(flow, m, u, s, o, UnreadBytes, middle, back)
        BY <1>2, <2>1, <2>4 DEF Way
    <2>7. Joins(flow, m, u, s + o, 0, UnreadBytes, stream', out'.m_Buffer)
        BY <2>5, <2>6, JoinsSent
    <2>8. Unread' = Unread /\ UnreadBytes' = UnreadBytes
        BY <1>1 DEF Unread, UnreadBytes
    <2> QED
        BY <1>1, <2>1, <2>5, <2>7, <2>8 DEF Way
<1>3. spoiled' \/ UNCHANGED spoiled
    BY <1>1, TypeIs
<1> QED
    BY <1>1, <1>2, <1>3, FlowMoves

LEMMA ArrivalReceive == PackagesTypeInv /\ ArrivalInv /\ Receive => ArrivalInv'
<1> SUFFICES ASSUME PackagesTypeInv, ArrivalInv, Receive PROVE ArrivalInv'
    OBVIOUS
<1>1. PICK n \in 1..Len(stream) :
          /\ pc = "wait" /\ pc' = "message"
          /\ Len(stream') = Len(stream) - n
          /\ \A i \in 1..Len(stream') : stream'[i] = stream[n + i]
          /\ Len(cPackageCache') = Len(cPackageCache) + n
          /\ \A i \in 1..Len(cPackageCache) : cPackageCache'[i] = cPackageCache[i]
          /\ \A i \in 1..n : cPackageCache'[Len(cPackageCache) + i] = stream[i]
          /\ in'.m_Buffer = cPackageCache' /\ in'.m_ReadPosition = 0
          /\ in'.m_AvailableReadSize = Len(cPackageCache')
          /\ UNCHANGED <<out, posted, spoiled, open, taken>>
    BY ReceiveDoes
<1>2. ASSUME NEW m \in Nat, NEW flow, Way(flow, m)
      PROVE  Way(flow, m)'
    <2>1. PICK u \in Nat, s \in Nat, o \in Nat :
            u = Unread /\ s = Len(stream) /\ o = out.m_WritePosition
        BY WayType
    <2>2. PICK r \in Nat : r = s - n /\ s = n + r /\ n \in Nat
        <3>1. n \in 1..s
            BY <2>1
        <3> QED
            BY <3>1
    <2>3. u = Len(cPackageCache) /\ UnreadBytes = cPackageCache
        BY <1>1, <2>1 DEF Unread, UnreadBytes
    <2>4. PICK front, middle, back : front = cPackageCache /\ middle = stream /\ back = out.m_Buffer
        OBVIOUS
    <2>5. /\ Len(stream') = r /\ Len(cPackageCache') = u + n
          /\ \A i \in 1..r : stream'[i] = middle[n + i]
          /\ \A i \in 1..u : cPackageCache'[i] = front[i]
          /\ \A i \in 1..n : cPackageCache'[u + i] = middle[i]
        BY <1>1, <2>1, <2>2, <2>3, <2>4
    <2>6. PICK u2 \in Nat : u2 = u + n
        BY <2>2
    <2>7. Unread' = u2
        <3>1. u2 - 0 = u2
            OBVIOUS
        <3> QED
            BY <1>1, <2>5, <2>6, <3>1 DEF Unread
    <2>8. PICK front2 : front2 = UnreadBytes'
        OBVIOUS
    <2>9. ASSUME NEW i \in 1..u2 PROVE front2[i] = cPackageCache'[i]
        <3>1. UnreadBytes' = [j \in 1..u2 |-> in'.m_Buffer[in'.m_ReadPosition + j]]
            BY <1>1, <2>7 DEF UnreadBytes
        <3>2. 0 + i = i
            OBVIOUS
        <3> QED
            BY <1>1, <2>8, <3>1, <3>2
    <2>10. /\ \A i \in 1..u : front2[i] = front[i]
           /\ \A i \in 1..n : front2[u + i] = middle[i]
        <3>1. \A i \in 1..u : i \in 1..u2
            BY <2>2, <2>6
        <3>2. \A i \in 1..n : u + i \in 1..u2
            BY <2>6
        <3> QED
            BY <2>5, <2>9, <3>1, <3>2
    <2>11. Joins(flow, m, u, s, o, front, middle, back)
        BY <1>2, <2>1, <2>3, <2>4 DEF Way
    <2>12. Joins(flow, m, u + n, r, o, front2, stream', back)
        <3>1. n \in Nat /\ s = n + r
            BY <2>2
        <3>2. Received(front, front2, u, middle, stream', n, r)
            BY <2>5, <2>10 DEF Received
        <3> QED
            BY <2>11, <3>1, <3>2, JoinsReceived
    <2> QED
        BY <1>1, <2>1, <2>4, <2>5, <2>6, <2>7, <2>8, <2>12 DEF Way
<1> QED
    BY <1>1, <1>2, FlowMoves

LEMMA ArrivalReturns == PackagesTypeInv /\ ArrivalInv /\ MessageReturns => ArrivalInv'
<1> SUFFICES ASSUME PackagesTypeInv, ArrivalInv, MessageReturns PROVE ArrivalInv'
    OBVIOUS
<1>1. PICK n \in Nat :
          /\ n = in.m_AvailableReadSize - in.m_ReadPosition
          /\ pc = "message" /\ pc' = "wait"
          /\ Len(cPackageCache') = n
          /\ \A i \in 1..n : cPackageCache'[i] = in.m_Buffer[in.m_ReadPosition + i]
          /\ UNCHANGED <<out, posted, spoiled, stream, open, taken>>
    BY MessageReturnsDoes
<1>2. ASSUME NEW m \in Nat, NEW flow, Way(flow, m)
      PROVE  Way(flow, m)'
    <2>1. Unread = n /\ Unread' = n
        BY <1>1 DEF Unread
    <2>2. \A i \in 1..n : UnreadBytes[i] = UnreadBytes'[i]
        BY <1>1, <2>1 DEF UnreadBytes
    <2>3. Joins(flow, m, n, Len(stream), out.m_WritePosition, UnreadBytes, stream, out.m_Buffer)
        BY <1>2, <2>1 DEF Way
    <2>4. Joins(flow, m, n, Len(stream), out.m_WritePosition, UnreadBytes', stream, out.m_Buffer)
        BY <2>2, <2>3 DEF Joins
    <2> QED
        BY <1>1, <2>1, <2>4 DEF Way
<1> QED
    BY <1>1, <1>2, FlowMoves

(* A package is packed behind what is on its way; or it is not, and the    *)
(* number that was written already is taken back.                          *)
LEMMA ArrivalPost ==
    ASSUME PackagesTypeInv, ArrivalInv, NEW p \in Payloads, Post(p)
    PROVE  ArrivalInv'
<1>1. PICK u \in Nat, s \in Nat, o \in Nat :
        u = Unread /\ s = Len(stream) /\ o = out.m_WritePosition
    BY WayType
<1>2. PICK ws \in Nat : ws = WireSize(p)
    BY PayloadAssumption, WireSizeType
<1>3. /\ p \in Package /\ ~spoiled
      /\ IsIOBuffer(out') /\ Len(out'.m_Buffer) = OutSize
      /\ \A i \in 1..o : out'.m_Buffer[i] = out.m_Buffer[i]
      /\ \/ /\ posted' = Append(posted, p) /\ out'.m_WritePosition = o + ws
            /\ \A i \in 1..OutSize : \A j \in 1..ws :
                  i = o + j => out'.m_Buffer[i] = Wire(p, j)
            /\ spoiled' = (spoiled \/ Len(p.text) >= LENGTH_SPAN)
         \/ /\ out'.m_WritePosition = o
            /\ UNCHANGED <<posted, spoiled>>
      /\ UNCHANGED <<stream, cPackageCache, in, pc, open, taken>>
    BY <1>1, <1>2, PostDoes
<1>4. /\ Unread' = u /\ UnreadBytes' = UnreadBytes
      /\ Len(stream') = s /\ stream' = stream /\ taken' = taken
    BY <1>1, <1>3 DEF Unread, UnreadBytes
<1>5. CASE out'.m_WritePosition = o /\ UNCHANGED <<posted, spoiled>>
    <2>1. ASSUME NEW m \in Nat, NEW flow, Way(flow, m)
          PROVE  Way(flow, m)'
        <3>1. Joins(flow, m, u, s, o, UnreadBytes, stream, out.m_Buffer)
            BY <1>1, <2>1 DEF Way
        <3>2. Joins(flow, m, u, s, o, UnreadBytes, stream, out'.m_Buffer)
            BY <1>3, <3>1 DEF Joins
        <3> QED
            BY <1>4, <1>5, <3>2 DEF Way
    <2> QED
        BY <1>3, <1>5, <2>1, FlowMoves
<1>6. CASE /\ posted' = Append(posted, p) /\ out'.m_WritePosition = o + ws
           /\ \A i \in 1..OutSize : \A j \in 1..ws :
                 i = o + j => out'.m_Buffer[i] = Wire(p, j)
           /\ spoiled' = (spoiled \/ Len(p.text) >= LENGTH_SPAN)
    <2> SUFFICES ASSUME ~spoiled' PROVE Matches' /\ LengthsFit' /\ RestLies'
        BY DEF ArrivalInv
    <2>1. Matches /\ LengthsFit /\ RestLies
        BY <1>3 DEF ArrivalInv
    <2>2. PICK m \in Nat : \E start, flow :
                Way(flow, m) /\ Lies(start, flow, m, posted, Len(taken))
        BY <2>1 DEF RestLies
    <2>3. PICK start, flow : Way(flow, m) /\ Lies(start, flow, m, posted, Len(taken))
        BY <2>2
    <2>4. PICK ps \in Seq(Package), t \in Nat : ps = posted /\ t = Len(taken) /\ t <= Len(ps)
        <3>1. posted \in Seq(Package) /\ Len(taken) \in Nat /\ Len(taken) <= Len(posted)
            BY <2>1, TypeIs DEF Matches
        <3> QED
            BY <3>1
    <2>5. /\ Len(posted') = Len(ps) + 1 /\ posted'[Len(ps) + 1] = p
          /\ \A k \in 1..Len(ps) : posted'[k] = ps[k]
        BY <1>3, <1>6, <2>4
    <2>6. Matches'
        <3>1. t <= Len(posted')
            BY <2>4, <2>5
        <3>2. \A k \in 1..t : taken[k] = posted'[k]
            BY <2>1, <2>4, <2>5 DEF Matches
        <3> QED
            BY <1>4, <2>4, <3>1, <3>2 DEF Matches
    <2>7. LengthsFit'
        <3>1. Len(p.text) < LENGTH_SPAN
            <4>1. ~ (Len(p.text) >= LENGTH_SPAN)
                BY <1>6
            <4>2. PICK n \in Nat, span \in Nat : n = Len(p.text) /\ span = LENGTH_SPAN
                BY <1>3, PackageIs, LengthSpanIs
            <4> QED
                BY <4>1, <4>2
        <3>2. \A k \in 1..Len(ps) : Len(ps[k].text) < LENGTH_SPAN
            BY <2>1, <2>4 DEF LengthsFit
        <3>3. \A k \in 1..(Len(ps) + 1) : k \in 1..Len(ps) \/ k = Len(ps) + 1
            BY <2>4
        <3> QED
            BY <2>5, <3>1, <3>2, <3>3 DEF LengthsFit
    <2>8. PICK back, back2 : back = out.m_Buffer /\ back2 = out'.m_Buffer
        OBVIOUS
    <2>9. Joins(flow, m, u, s, o, UnreadBytes, stream, back)
        BY <1>1, <2>3, <2>8 DEF Way
    <2>10. PICK m2 \in Nat, o2 \in Nat : m2 = m + ws /\ o2 = o + ws
        OBVIOUS
    <2> DEFINE flow2 == [i \in 1..m2 |-> IF i <= m THEN flow[i] ELSE Wire(p, i - m)]
    <2>11. \A i \in 1..m : flow2[i] = flow[i]
        BY <2>10
    <2>12. ASSUME NEW i \in Nat, NEW j \in 1..ws, i = m + j
           PROVE  flow2[i] = Wire(p, j)
        <3>1. i \in 1..m2 /\ ~ (i <= m) /\ i - m = j
            BY <2>10, <2>12
        <3> QED
            BY <3>1
    <2> HIDE DEF flow2
    <2>13. PICK start2 : Lies(start2, flow2, m + ws, Append(ps, p), t)
        <3>1. Longer(flow, flow2, m, p, ws)
            BY <2>11, <2>12 DEF Longer
        <3>2. Lies(start, flow, m, ps, t) /\ t <= Len(ps) /\ p \in Package
            BY <1>3, <2>3, <2>4
        <3> QED
            BY <1>2, <3>1, <3>2, LiesMore
    <2>14. Packed(flow, flow2, m, back, back2, o, ws)
        <3>1. ASSUME NEW j \in 1..ws PROVE flow2[m + j] = back2[o + j]
            <4>1. PICK i \in Nat, k \in Nat : i = m + j /\ k = o + j
                OBVIOUS
            <4>2. flow2[i] = Wire(p, j)
                BY <2>12, <4>1
            <4>3. o2 <= OutSize
                BY <1>3, <1>6, <2>10, IsIOBufferIs
            <4>4. k \in 1..OutSize
                BY <2>10, <4>1, <4>3, Sizes
            <4>5. back2[k] = Wire(p, j)
                BY <1>6, <2>8, <4>1, <4>4
            <4> QED
                BY <4>1, <4>2, <4>5
        <3>2. \A i \in 1..o : back2[i] = back[i]
            BY <1>3, <2>8
        <3> QED
            BY <2>11, <3>1, <3>2 DEF Packed
    <2>15. Joins(flow2, m + ws, u, s, o + ws, UnreadBytes, stream, back2)
        BY <2>9, <2>14, JoinsPacked
    <2>16. Way(flow2, m2)'
        BY <1>4, <1>6, <2>8, <2>10, <2>15 DEF Way
    <2>17. Lies(start2, flow2, m2, posted', Len(taken'))
        BY <1>4, <1>6, <2>4, <2>10, <2>13
    <2>18. RestLies'
        BY <2>10, <2>16, <2>17 DEF RestLies
    <2> QED
        BY <2>6, <2>7, <2>18
<1> QED
    BY <1>3, <1>5, <1>6

(* What is read where a package lies whole is that package.                *)
Standing(io, r, u) == r = io.m_ReadPosition /\ r + u = io.m_AvailableReadSize
LiesAhead(io, r, u, p) ==
    \A j \in 1..WireSize(p) : \A k \in Nat :
        j <= u /\ k = r + j => io.m_Buffer[k] = Wire(p, j)

LEMMA ReadsBack ==
    ASSUME NEW io, IsIOBuffer(io), IsWhole(io), NEW p \in Package, Len(p.text) < LENGTH_SPAN,
           NEW r \in Nat, NEW u \in Nat, Standing(io, r, u), LiesAhead(io, r, u, p)
    PROVE  LET numbered == Skip(io, NUMBER_BYTES)
           IN  /\ GetInt(io, NUMBER_BYTES) = p.number /\ GetString(numbered) = p.text
               /\ WireSize(p) <= u
               /\ SkipString(numbered).m_ReadPosition = r + WireSize(p)
<1> DEFINE numbered == Skip(io, NUMBER_BYTES)
           length == StringLength(numbered)
           measured == Skip(numbered, LENGTH_BYTES)
<1>1. /\ CanGet(io, NUMBER_BYTES) /\ length \in Nat
      /\ IsIOBuffer(numbered) /\ CanGet(numbered, 2)
      /\ IsIOBuffer(measured) /\ CanGet(measured, length)
      /\ measured.m_Buffer = io.m_Buffer /\ numbered.m_Buffer = io.m_Buffer
      /\ numbered.m_ReadPosition = io.m_ReadPosition + NUMBER_BYTES
      /\ measured.m_ReadPosition = numbered.m_ReadPosition + 2
      /\ GetString(numbered) = Ahead(measured, length)
      /\ SkipString(numbered).m_ReadPosition = measured.m_ReadPosition + length
    BY WholeIs
<1>2. /\ numbered.m_AvailableReadSize = io.m_AvailableReadSize
      /\ measured.m_AvailableReadSize = io.m_AvailableReadSize
    BY DEF Skip
<1> HIDE DEF numbered, length, measured
<1>3. PICK w \in Nat : w = NUMBER_BYTES
    BY Widths
<1>4. PICK n \in Nat : n = Len(p.text)
    BY PackageIs
<1>5. PICK ws \in Nat : ws = WireSize(p)
    BY WireSizeType
<1>sum. ws = w + 2 + n
    BY <1>3, <1>4, <1>5, Widths DEF WireSize
<1>6. r = io.m_ReadPosition /\ r + u = io.m_AvailableReadSize
    BY DEF Standing
<1>7. PICK q \in Nat, x \in Nat : q = r + w /\ x = q + 2
    BY <1>6
<1>8. numbered.m_ReadPosition = q /\ measured.m_ReadPosition = x
    BY <1>1, <1>3, <1>6, <1>7
<1>9. w <= u /\ w + 2 <= u
    <2>1. r + w <= r + u /\ q + 2 <= r + u
        BY <1>1, <1>2, <1>3, <1>6, <1>8 DEF CanGet
    <2> QED
        BY <1>7, <2>1
<1>10. ASSUME NEW j \in 1..ws, j <= u, NEW k \in Nat, k = r + j
       PROVE  io.m_Buffer[k] = Wire(p, j)
    BY <1>5, <1>10 DEF LiesAhead
<1>11. GetInt(io, NUMBER_BYTES) = p.number
    <2>1. PICK bytes \in [1..w -> Byte] : bytes = Bytes(p.number, NUMBER_BYTES)
        BY <1>3, PackageIs, BytesType
    <2>2. PICK ahead \in [1..w -> Byte] :
            /\ ahead = Ahead(io, NUMBER_BYTES)
            /\ \A i \in 1..w : \A k \in Nat :
                  k = io.m_ReadPosition + i => ahead[i] = io.m_Buffer[k]
        <3>1. CanGet(io, w)
            BY <1>1, <1>3
        <3> QED
            BY <1>3, <3>1, AheadIs
    <2>3. ASSUME NEW i \in 1..w PROVE ahead[i] = bytes[i]
        <3>1. PICK k \in Nat : k = r + i
            BY <1>6
        <3>2. i \in 1..ws /\ i <= u
            BY <1>sum, <1>9
        <3>3. ahead[i] = Wire(p, i)
            BY <1>6, <1>10, <2>2, <3>1, <3>2
        <3> QED
            BY <1>3, <2>1, <3>3 DEF Wire
    <2>4. ahead = bytes
        BY <2>3
    <2>5. Value(Bytes(p.number, NUMBER_BYTES)) = p.number
        BY PackageIs, Widths, ValueOfBytes
    <2> QED
        BY <2>1, <2>2, <2>4, <2>5 DEF GetInt
<1>12. length = n
    <2>1. PICK bytes \in [1..2 -> Byte] : bytes = Bytes(Len(p.text) % LENGTH_SPAN, LENGTH_BYTES)
        BY PackageIs, Widths, BytesType
    <2>2. PICK ahead \in [1..2 -> Byte] :
            /\ ahead = Ahead(numbered, 2)
            /\ \A i \in 1..2 : \A k \in Nat :
                  k = numbered.m_ReadPosition + i => ahead[i] = numbered.m_Buffer[k]
        BY <1>1, AheadIs
    <2>3. ASSUME NEW i \in 1..2 PROVE ahead[i] = bytes[i]
        <3>1. PICK k \in Nat, j \in Nat : k = q + i /\ j = w + i
            OBVIOUS
        <3>2. j \in 1..ws /\ j <= u /\ k = r + j
            BY <1>sum, <1>7, <1>9, <3>1
        <3>3. ahead[i] = Wire(p, j)
            <4>1. ahead[i] = io.m_Buffer[k]
                <5>1. numbered.m_ReadPosition + i = k
                    BY <1>8, <3>1
                <5>2. numbered.m_Buffer = io.m_Buffer
                    BY <1>1
                <5> QED
                    BY <2>2, <5>1, <5>2
            <4>2. io.m_Buffer[k] = Wire(p, j)
                BY <1>10, <3>2
            <4> QED
                BY <4>1, <4>2
        <3>4. ~ (j <= w) /\ j <= w + 2 /\ j - w = i
            BY <3>1
        <3> QED
            BY <1>3, <2>1, <3>3, <3>4, Widths DEF Wire
    <2>4. ahead = bytes
        BY <2>3
    <2>5. Value(Bytes(Len(p.text) % LENGTH_SPAN, 2)) = Len(p.text) % LENGTH_SPAN
        BY PackageIs, ValueOfBytes
    <2>6. Len(p.text) % LENGTH_SPAN = n
        <3>1. PICK span \in Nat \ {0} : span = LENGTH_SPAN
            BY LengthSpanIs
        <3>2. n < span
            BY <1>4, <3>1
        <3>3. n % span = n
            BY <3>2
        <3> QED
            BY <1>4, <3>1, <3>3
    <2> QED
        BY <2>1, <2>2, <2>4, <2>5, <2>6, Widths DEF length, StringLength, GetInt
<1>13. ws <= u
    <2>1. x + n <= r + u
        BY <1>1, <1>2, <1>6, <1>8, <1>12 DEF CanGet
    <2> QED
        BY <1>sum, <1>7, <2>1
<1>14. GetString(numbered) = p.text
    <2>1. PICK text \in [1..n -> Byte] : text = p.text
        BY <1>4, PackageIs
    <2>2. CanGet(measured, n)
        BY <1>1, <1>12
    <2>3. PICK ahead \in [1..n -> Byte] :
            /\ ahead = Ahead(measured, n)
            /\ \A i \in 1..n : \A k \in Nat :
                  k = measured.m_ReadPosition + i => ahead[i] = measured.m_Buffer[k]
        BY <1>1, <2>2, AheadIs
    <2>4. ASSUME NEW i \in 1..n PROVE ahead[i] = text[i]
        <3>1. PICK k \in Nat, j \in Nat : k = x + i /\ j = w + 2 + i
            OBVIOUS
        <3>2. j \in 1..ws /\ j <= u /\ k = r + j
            BY <1>sum, <1>7, <1>13, <3>1
        <3>3. ahead[i] = Wire(p, j)
            <4>1. ahead[i] = io.m_Buffer[k]
                <5>1. measured.m_ReadPosition + i = k
                    BY <1>8, <3>1
                <5>2. measured.m_Buffer = io.m_Buffer
                    BY <1>1
                <5> QED
                    BY <2>3, <5>1, <5>2
            <4>2. io.m_Buffer[k] = Wire(p, j)
                BY <1>10, <3>2
            <4> QED
                BY <4>1, <4>2
        <3>4. ~ (j <= w) /\ ~ (j <= w + 2) /\ j - w - 2 = i
            BY <3>1
        <3> QED
            BY <1>3, <2>1, <3>3, <3>4, Widths DEF Wire
    <2>5. ahead = text
        BY <2>4
    <2> QED
        BY <1>1, <1>12, <2>1, <2>3, <2>5
<1>15. SkipString(numbered).m_ReadPosition = r + ws
    <2>1. x + n = r + ws
        BY <1>sum, <1>7
    <2> QED
        BY <1>1, <1>8, <1>12, <2>1
<1> QED
    BY <1>5, <1>11, <1>13, <1>14, <1>15 DEF numbered

LEMMA ArrivalTake == PackagesTypeInv /\ ArrivalInv /\ Take => ArrivalInv'
<1> SUFFICES ASSUME PackagesTypeInv, ArrivalInv, Take, ~spoiled'
             PROVE  Matches' /\ LengthsFit' /\ RestLies'
    BY DEF ArrivalInv
<1> DEFINE numbered == Skip(in, NUMBER_BYTES)
           got == [number |-> GetInt(in, NUMBER_BYTES), text |-> GetString(numbered)]
<1>1. /\ pc = "message" /\ IsWhole(in) /\ taken' = Append(taken, got)
      /\ in' = SkipString(numbered) /\ in'.m_Buffer = in.m_Buffer
      /\ in'.m_AvailableReadSize = in.m_AvailableReadSize
      /\ UNCHANGED <<out, posted, spoiled, stream, cPackageCache, pc, open>>
    BY TakeDoes
<1>2. Matches /\ LengthsFit /\ RestLies
    BY <1>1 DEF ArrivalInv
<1>3. PICK m \in Nat : \E start, flow :
            Way(flow, m) /\ Lies(start, flow, m, posted, Len(taken))
    BY <1>2 DEF RestLies
<1>4. PICK start, flow : Way(flow, m) /\ Lies(start, flow, m, posted, Len(taken))
    BY <1>3
<1>5. PICK ps \in Seq(Package), t \in Nat : ps = posted /\ t = Len(taken) /\ t <= Len(ps)
    <2>1. posted \in Seq(Package) /\ Len(taken) \in Nat /\ Len(taken) <= Len(posted)
        BY <1>2, TypeIs DEF Matches
    <2> QED
        BY <2>1
<1>6. PICK u \in Nat, s \in Nat, o \in Nat :
        u = Unread /\ s = Len(stream) /\ o = out.m_WritePosition
    BY WayType
<1>7. PICK r \in Nat, a \in Nat : r = in.m_ReadPosition /\ a = in.m_AvailableReadSize /\ r <= a
    BY TypeIs
<1>8. u = a - r
    BY <1>1, <1>6, <1>7 DEF Unread
<1>9. Standing(in, r, u)
    <2>1. r + u = a
        BY <1>8
    <2> QED
        BY <1>7, <2>1 DEF Standing
<1>10. Joins(flow, m, u, s, o, UnreadBytes, stream, out.m_Buffer)
    BY <1>4, <1>6 DEF Way
<1>11. m = u + s + o /\ \A i \in 1..u : flow[i] = UnreadBytes[i]
    BY <1>10 DEF Joins
<1>12. ASSUME NEW i \in 1..u, NEW k \in Nat, k = r + i
       PROVE  UnreadBytes[i] = in.m_Buffer[k]
    <2>1. UnreadBytes = [j \in 1..u |-> in.m_Buffer[in.m_ReadPosition + j]]
        BY <1>1, <1>6 DEF UnreadBytes
    <2> QED
        BY <1>7, <1>12, <2>1
<1>13. m > 0
    <2>1. PICK w \in Nat : w = NUMBER_BYTES /\ w >= 1
        BY Widths
    <2>2. r + w <= a
        BY <1>1, <1>7, <2>1 DEF IsWhole, CanGet
    <2> QED
        BY <1>8, <1>11, <2>1, <2>2
<1>14. PICK t1 \in 1..Len(ps) : t1 = t + 1
    <2>1. Lies(start, flow, m, ps, t)
        BY <1>4, <1>5
    <2>2. t + 1 \in 1..Len(ps)
        BY <1>5, <1>13, <2>1, LiesFirst
    <2> QED
        BY <2>2
<1>15. PICK p \in Package :
            /\ p = ps[t1] /\ WireSize(p) <= m
            /\ \A j \in 1..WireSize(p) : flow[j] = Wire(p, j)
    <2>1. Lies(start, flow, m, ps, t)
        BY <1>4, <1>5
    <2>2. /\ ps[t + 1] \in Package /\ WireSize(ps[t + 1]) <= m
          /\ \A j \in 1..WireSize(ps[t + 1]) : flow[j] = Wire(ps[t + 1], j)
        BY <1>5, <1>13, <2>1, LiesFirst
    <2> QED
        BY <1>14, <2>2
<1>16. LiesAhead(in, r, u, p)
    <2> SUFFICES ASSUME NEW j \in 1..WireSize(p), NEW k \in Nat, j <= u, k = r + j
                 PROVE  in.m_Buffer[k] = Wire(p, j)
        BY DEF LiesAhead
    <2>1. WireSize(p) \in Nat
        BY WireSizeType
    <2>2. j \in 1..u
        BY <2>1
    <2> QED
        BY <1>11, <1>12, <1>15, <2>2
<1>17. Len(p.text) < LENGTH_SPAN
    BY <1>2, <1>5, <1>15 DEF LengthsFit
<1>18. PICK ws \in Nat : ws = WireSize(p)
    BY WireSizeType
<1>19. /\ GetInt(in, NUMBER_BYTES) = p.number /\ GetString(numbered) = p.text
       /\ ws <= u /\ SkipString(numbered).m_ReadPosition = r + ws
    BY <1>1, <1>9, <1>16, <1>17, <1>18, TypeIs, ReadsBack
<1>20. got = p
    <2>1. p = [number |-> p.number, text |-> p.text]
        BY DEF Package
    <2> QED
        BY <1>19, <2>1
<1> HIDE DEF got, numbered
<1>21. taken' = Append(taken, p) /\ taken \in Seq(Package)
    BY <1>1, <1>20, TypeIs
<1>22. /\ Len(taken') = t1 /\ taken'[t1] = p /\ \A k \in 1..t : taken'[k] = taken[k]
    BY <1>5, <1>14, <1>21
<1>23. Matches'
    <2>1. ASSUME NEW k \in 1..t1 PROVE taken'[k] = ps[k]
        <3>1. CASE k = t1
            BY <1>15, <1>22, <3>1
        <3>2. CASE k # t1
            <4>1. k \in 1..t
                BY <1>14, <3>2
            <4> QED
                BY <1>2, <1>5, <1>22, <4>1 DEF Matches
        <3> QED
            BY <3>1, <3>2
    <2> QED
        BY <1>1, <1>5, <1>22, <2>1 DEF Matches
<1>24. LengthsFit'
    BY <1>1, <1>2 DEF LengthsFit
<1>25. PICK v \in Nat, m2 \in Nat : v = u - ws /\ m2 = m - ws
    BY <1>11, <1>19
<1>26. Unread' = v
    <2>1. in'.m_ReadPosition = r + ws
        BY <1>1, <1>19
    <2>2. a - (r + ws) = v
        BY <1>8, <1>25
    <2> QED
        BY <1>1, <1>7, <2>1, <2>2 DEF Unread
<1> DEFINE flow2 == [i \in 1..m2 |-> flow[ws + i]]
<1>27. \A i \in 1..m2 : flow2[i] = flow[ws + i]
    OBVIOUS
<1> HIDE DEF flow2
<1>28. PICK front, front2 : front = UnreadBytes /\ front2 = UnreadBytes'
    OBVIOUS
<1>29. ASSUME NEW i \in 1..v PROVE front2[i] = front[ws + i]
    <2>1. PICK j \in 1..u, k \in Nat : j = ws + i /\ k = r + j
        <3>1. ws + i \in 1..u /\ r + (ws + i) \in Nat
            BY <1>25
        <3> QED
            BY <3>1
    <2>2. UnreadBytes[j] = in.m_Buffer[k]
        BY <1>12, <2>1
    <2>3. UnreadBytes' = [x \in 1..v |-> in'.m_Buffer[in'.m_ReadPosition + x]]
        BY <1>1, <1>26 DEF UnreadBytes
    <2>4. in'.m_ReadPosition + i = k
        <3>1. (r + ws) + i = k
            BY <2>1
        <3> QED
            BY <1>1, <1>19, <3>1
    <2> QED
        BY <1>1, <1>28, <2>1, <2>2, <2>3, <2>4
<1>30. TakenOff(flow, flow2, m2, front, front2, v, ws)
    BY <1>27, <1>29 DEF TakenOff
<1>31. u = ws + v /\ m = ws + m2
    BY <1>25
<1>32. Joins(flow2, m2, v, s, o, front2, stream, out.m_Buffer)
    BY <1>10, <1>28, <1>30, <1>31, JoinsTaken
<1>33. Way(flow2, m2)'
    BY <1>1, <1>6, <1>26, <1>28, <1>32 DEF Way
<1>34. Lies(start, flow2, m2, ps, t1)
    <2>1. Lies(start, flow, m, ps, t)
        BY <1>4, <1>5
    <2>2. ws = WireSize(ps[t1])
        BY <1>15, <1>18
    <2>3. Shorter(flow, flow2, m2, ws) /\ m = ws + m2
        BY <1>27, <1>31 DEF Shorter
    <2> QED
        BY <1>14, <2>1, <2>2, <2>3, LiesLess
<1>35. Lies(start, flow2, m2, posted', Len(taken'))
    BY <1>1, <1>5, <1>22, <1>34
<1>36. RestLies'
    BY <1>33, <1>35 DEF RestLies
<1> QED
    BY <1>23, <1>24, <1>36

LEMMA ArrivalStep == PackagesTypeInv /\ ArrivalInv /\ [PackagesNext]_packageVars => ArrivalInv'
<1> SUFFICES ASSUME PackagesTypeInv, ArrivalInv, [PackagesNext]_packageVars PROVE ArrivalInv'
    OBVIOUS
<1>1. CASE CacheIsFull
    <2>1. \A m \in Nat : \A flow : Way(flow, m) => Way(flow, m)'
        BY <1>1 DEF CacheIsFull, senderVars, Way, Unread, UnreadBytes
    <2> QED
        BY <1>1, <2>1, FlowMoves DEF CacheIsFull, senderVars
<1>2. CASE UNCHANGED packageVars
    <2>1. \A m \in Nat : \A flow : Way(flow, m) => Way(flow, m)'
        BY <1>2 DEF packageVars, Way, Unread, UnreadBytes
    <2> QED
        BY <1>2, <2>1, FlowMoves DEF packageVars
<1> QED
    BY <1>1, <1>2, ArrivalPost, ArrivalSend, ArrivalReceive, ArrivalTake, ArrivalReturns
    DEF PackagesNext

LEMMA ArrivalIsWhole == PackagesTypeInv /\ ArrivalInv => PackagesArriveWhole
<1> SUFFICES ASSUME PackagesTypeInv, ArrivalInv, ~spoiled PROVE IsPrefix(taken, posted)
    BY DEF PackagesArriveWhole
<1>1. PICK n \in Nat, ps \in Seq(Package), took \in Seq(Package) :
        ps = posted /\ took = taken /\ n = Len(took)
    <2>1. posted \in Seq(Package) /\ taken \in Seq(Package) /\ Len(taken) \in Nat
        BY TypeIs
    <2> QED
        BY <2>1
<1>2. n <= Len(ps) /\ \A k \in 1..n : took[k] = ps[k]
    BY <1>1 DEF ArrivalInv, Matches
<1>3. PICK head : head = SubSeq(ps, 1, n)
    OBVIOUS
<1>4. head \in Seq(Package) /\ Len(head) = n /\ \A k \in 1..n : head[k] = ps[k]
    BY <1>2, <1>3
<1>5. head = took
    BY <1>1, <1>2, <1>4
<1> QED
    BY <1>1, <1>2, <1>3, <1>5 DEF IsPrefix

(* The packages OnMessage takes are those that were packed, whole, in      *)
(* order and each once, for every buffer and cache size, package and way   *)
(* to cut the stream: unless a send was short or a length has wrapped.     *)
THEOREM PackagesArrive == PackagesSpec => []PackagesArriveWhole
<1>1. PackagesInit => PackagesTypeInv /\ ArrivalInv
    BY PackagesTypeInit, ArrivalInit
<1>2. PackagesTypeInv /\ ArrivalInv /\ [PackagesNext]_packageVars
      => (PackagesTypeInv /\ ArrivalInv)'
    BY PackagesTypeStep, ArrivalStep
<1> QED
    BY <1>1, <1>2, ArrivalIsWhole, PTL DEF PackagesSpec
=============================================================================

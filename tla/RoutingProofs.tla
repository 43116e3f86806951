----------------------------- MODULE RoutingProofs -----------------------------
(***************************************************************************)
(* Proofs about the two ways to find a service: the quotas of the load     *)
(* balancer, for all service points, quotas and sizes of a uint32, and the *)
(* ring of hashed keys, for all keys, chains that do not meet, virtual     *)
(* sizes and quotas.                                                       *)
(*                                                                         *)
(* The total of the load balancer is a sum over a set, which the community *)
(* modules fold by recursion.  What such a sum is, is proved by the least  *)
(* counterexample: of the subsets for which a claim fails there would be   *)
(* one with the fewest elements, and it holds for that one without one of  *)
(* its elements.                                                           *)
(***************************************************************************)
EXTENDS LoadBalance, ConsistentHash, FiniteSetTheorems, WellFoundedInduction, TLAPS

-----------------------------------------------------------------------------
(* Sums over a set.  RealSum is a fold: it takes an element of the set,    *)
(* adds its quota and goes on with the rest.  Iterates(g, f, S) says that  *)
(* g has these sums for all subsets of S.                                  *)

Some(s) == CHOOSE x \in s : TRUE

Iterates(g, f, S) ==
    g = [s \in SUBSET S |-> IF s = {} THEN 0
                            ELSE f[Some(s)].dwRealQuotas + g[s \ {Some(s)}]]

LEMMA RealSumIs ==
    ASSUME NEW f, NEW S
    PROVE  RealSum(f, S) = (CHOOSE g : Iterates(g, f, S))[S]
BY DEF RealSum, MapThenSumSet, MapThenFoldSet, Iterates, Some

(* A set of numbers that is not empty has a least one.                     *)
LEMMA LeastNumber ==
    ASSUME NEW T, T \subseteq Nat, T # {}
    PROVE  \E m \in T : \A q \in T : m <= q
<1>1. PICK m \in T : \A q \in T : ~ (<<q, m>> \in OpToRel(<, Nat))
    BY NatLessThanWellFounded, WFMin
<1>2. \A q \in T : ~ (q < m)
    BY <1>1 DEF OpToRel
<1> QED
    BY <1>2

(* Of finite sets of a kind there is one with the fewest elements.         *)
LEMMA SmallestSet ==
    ASSUME NEW C, C # {}, \A s \in C : IsFiniteSet(s)
    PROVE  \E s \in C : \A t \in C : Cardinality(s) <= Cardinality(t)
<1>1. {Cardinality(s) : s \in C} \subseteq Nat /\ {Cardinality(s) : s \in C} # {}
    BY FS_CardinalityType
<1>2. PICK m \in {Cardinality(s) : s \in C} : \A q \in {Cardinality(s) : s \in C} : m <= q
    BY <1>1, LeastNumber
<1> QED
    BY <1>2

LEMMA SomeIsIn == ASSUME NEW s, s # {} PROVE Some(s) \in s
BY DEF Some

LEMMA FewerWithout ==
    ASSUME NEW s, IsFiniteSet(s), NEW x \in s
    PROVE  /\ s \ {x} \subseteq s /\ IsFiniteSet(s \ {x})
           /\ Cardinality(s \ {x}) < Cardinality(s)
<1>1. Cardinality(s) \in Nat
    BY FS_CardinalityType
<1>2. IsFiniteSet(s \ {x}) /\ Cardinality(s \ {x}) = Cardinality(s) - 1
    BY FS_RemoveElement
<1> QED
    BY <1>1, <1>2

LEMMA IteratesAt ==
    ASSUME NEW g, NEW f, NEW S, Iterates(g, f, S), NEW s \in SUBSET S
    PROVE  g[s] = IF s = {} THEN 0 ELSE f[Some(s)].dwRealQuotas + g[s \ {Some(s)}]
BY DEF Iterates

(* Two such functions agree where both are defined.                        *)
LEMMA IteratesAgree ==
    ASSUME NEW f, NEW S, NEW T, IsFiniteSet(S), NEW g, NEW h,
           Iterates(g, f, S), Iterates(h, f, T), NEW u \in (SUBSET S) \cap (SUBSET T)
    PROVE  g[u] = h[u]
<1> DEFINE C == {s \in (SUBSET S) \cap (SUBSET T) : g[s] # h[s]}
<1> SUFFICES ASSUME C # {} PROVE FALSE
    OBVIOUS
<1>1. \A s \in C : IsFiniteSet(s)
    BY FS_Subset
<1>2. PICK s \in C : \A t \in C : Cardinality(s) <= Cardinality(t)
    BY <1>1, SmallestSet
<1>3. /\ g[s] = IF s = {} THEN 0 ELSE f[Some(s)].dwRealQuotas + g[s \ {Some(s)}]
      /\ h[s] = IF s = {} THEN 0 ELSE f[Some(s)].dwRealQuotas + h[s \ {Some(s)}]
    BY IteratesAt
<1>4. s # {}
    BY <1>3
<1>5. s \ {Some(s)} \subseteq s /\ Cardinality(s \ {Some(s)}) < Cardinality(s)
    BY <1>1, <1>4, SomeIsIn, FewerWithout
<1>6. Cardinality(s) \in Nat /\ Cardinality(s \ {Some(s)}) \in Nat
    BY <1>1, <1>4, SomeIsIn, FewerWithout, FS_CardinalityType
<1>7. s \ {Some(s)} \notin C
    BY <1>2, <1>5, <1>6
<1>8. g[s \ {Some(s)}] = h[s \ {Some(s)}]
    BY <1>5, <1>7
<1> QED
    BY <1>3, <1>4, <1>8

(* Every finite set has its sums. *)
LEMMA IteratesExists ==
    ASSUME NEW f, NEW S, IsFiniteSet(S)
    PROVE  \E g : Iterates(g, f, S)
<1> DEFINE C == {s \in SUBSET S : ~ \E g : Iterates(g, f, s)}
           SumOf(s) == (CHOOSE g : Iterates(g, f, s))[s]
<1> SUFFICES ASSUME C # {} PROVE FALSE
    OBVIOUS
<1>1. \A s \in C : IsFiniteSet(s)
    BY FS_Subset
<1>2. PICK s \in C : \A t \in C : Cardinality(s) <= Cardinality(t)
    BY <1>1, SmallestSet
<1>3. ASSUME NEW u \in SUBSET s, u # s
      PROVE  \E g : Iterates(g, f, u)
    <2>1. IsFiniteSet(u) /\ Cardinality(u) <= Cardinality(s) /\ Cardinality(u) # Cardinality(s)
        BY <1>1, <1>3, FS_Subset
    <2>2. Cardinality(u) \in Nat /\ Cardinality(s) \in Nat
        BY <1>1, <2>1, FS_CardinalityType
    <2>3. u \notin C
        BY <1>2, <2>1, <2>2
    <2> QED
        BY <2>3
<1> DEFINE below == [u \in SUBSET s |-> IF u = {} THEN 0
                                       ELSE f[Some(u)].dwRealQuotas + SumOf(u \ {Some(u)})]
<1> HIDE DEF SumOf
<1>4. ASSUME NEW u \in SUBSET s, u # s, u # {}
      PROVE  SumOf(u) = f[Some(u)].dwRealQuotas + SumOf(u \ {Some(u)})
    <2> DEFINE rest == u \ {Some(u)}
               g == CHOOSE g : Iterates(g, f, u)
               h == CHOOSE h : Iterates(h, f, rest)
    <2>1. rest \in SUBSET u /\ rest \in SUBSET s /\ rest # s
        BY <1>4, SomeIsIn
    <2>2. Iterates(g, f, u) /\ Iterates(h, f, rest)
        BY <1>3, <1>4, <2>1
    <2>3. IsFiniteSet(u)
        BY <1>1, FS_Subset
    <2> HIDE DEF g, h, rest
    <2>4. g[rest] = h[rest]
        BY <2>1, <2>2, <2>3, IteratesAgree
    <2>5. g[u] = f[Some(u)].dwRealQuotas + g[rest]
        BY <1>4, <2>2, IteratesAt DEF rest
    <2> QED
        BY <2>4, <2>5 DEF SumOf, g, h, rest
<1>5. SumOf({}) = 0 \/ s = {}
    <2> SUFFICES ASSUME s # {} PROVE SumOf({}) = 0
        OBVIOUS
    <2>1. PICK g : g = (CHOOSE k : Iterates(k, f, {}))
        OBVIOUS
    <2>2. Iterates(g, f, {})
        BY <1>3, <2>1
    <2>3. g[{}] = 0
        BY <2>2, IteratesAt
    <2> QED
        BY <2>1, <2>3 DEF SumOf
<1>6. ASSUME NEW u \in SUBSET s, u # {}
      PROVE  below[u \ {Some(u)}] = SumOf(u \ {Some(u)})
    <2>1. u \ {Some(u)} \in SUBSET s /\ u \ {Some(u)} # s /\ s # {}
        BY <1>6, SomeIsIn
    <2> QED
        BY <1>4, <1>5, <2>1
<1>7. Iterates(below, f, s)
    BY <1>6 DEF Iterates
<1> QED
    BY <1>7

(* What the proofs below know of sums. *)
LEMMA SumOfNone == ASSUME NEW f PROVE RealSum(f, {}) = 0
<1>1. PICK g : g = (CHOOSE k : Iterates(k, f, {}))
    OBVIOUS
<1>2. Iterates(g, f, {})
    BY <1>1, IteratesExists, FS_EmptySet
<1> QED
    BY <1>1, <1>2, RealSumIs, IteratesAt

LEMMA SumOfSome ==
    ASSUME NEW f, NEW S, IsFiniteSet(S), S # {}
    PROVE  RealSum(f, S) = f[Some(S)].dwRealQuotas + RealSum(f, S \ {Some(S)})
<1>1. PICK g : g = (CHOOSE k : Iterates(k, f, S))
    OBVIOUS
<1>2. PICK h : h = (CHOOSE k : Iterates(k, f, S \ {Some(S)}))
    OBVIOUS
<1>3. IsFiniteSet(S \ {Some(S)}) /\ S \ {Some(S)} \in (SUBSET S) \cap SUBSET (S \ {Some(S)})
    BY FS_Subset
<1>4. Iterates(g, f, S) /\ Iterates(h, f, S \ {Some(S)})
    BY <1>1, <1>2, <1>3, IteratesExists
<1>5. g[S \ {Some(S)}] = h[S \ {Some(S)}]
    BY <1>3, <1>4, IteratesAgree
<1>6. g[S] = f[Some(S)].dwRealQuotas + g[S \ {Some(S)}]
    BY <1>4, IteratesAt
<1> QED
    BY <1>1, <1>2, <1>5, <1>6, RealSumIs

HasQuotas(f, S) == \A p \in S : f[p].dwRealQuotas \in Nat

LEMMA SumIsNatural ==
    ASSUME NEW f, NEW S, IsFiniteSet(S), HasQuotas(f, S)
    PROVE  RealSum(f, S) \in Nat
<1> DEFINE C == {s \in SUBSET S : RealSum(f, s) \notin Nat}
<1> SUFFICES ASSUME C # {} PROVE FALSE
    OBVIOUS
<1>1. \A s \in C : IsFiniteSet(s)
    BY FS_Subset
<1>2. PICK s \in C : \A t \in C : Cardinality(s) <= Cardinality(t)
    BY <1>1, SmallestSet
<1>3. s # {}
    BY <1>2, SumOfNone
<1>4. s \ {Some(s)} \subseteq s /\ Cardinality(s \ {Some(s)}) < Cardinality(s)
      /\ Cardinality(s) \in Nat /\ Cardinality(s \ {Some(s)}) \in Nat
    BY <1>1, <1>3, SomeIsIn, FewerWithout, FS_CardinalityType
<1>5. s \ {Some(s)} \notin C
    BY <1>2, <1>4
<1>6. RealSum(f, s \ {Some(s)}) \in Nat /\ f[Some(s)].dwRealQuotas \in Nat
    BY <1>3, <1>4, <1>5, SomeIsIn DEF HasQuotas
<1>7. RealSum(f, s) = f[Some(s)].dwRealQuotas + RealSum(f, s \ {Some(s)})
    BY <1>1, <1>3, SumOfSome
<1> QED
    BY <1>6, <1>7

(* An element can be taken out, whichever it is. *)
LEMMA SumWithout ==
    ASSUME NEW f, NEW S, IsFiniteSet(S), HasQuotas(f, S), NEW p \in S
    PROVE  RealSum(f, S) = f[p].dwRealQuotas + RealSum(f, S \ {p})
<1> DEFINE Splits(s, q) == RealSum(f, s) = f[q].dwRealQuotas + RealSum(f, s \ {q})
           C == {s \in SUBSET S : \E q \in s : ~Splits(s, q)}
<1> SUFFICES ASSUME C # {} PROVE FALSE
    OBVIOUS
<1>1. \A s \in C : IsFiniteSet(s)
    BY FS_Subset
<1>2. PICK s \in C : \A t \in C : Cardinality(s) <= Cardinality(t)
    BY <1>1, SmallestSet
<1>3. PICK q \in s : ~Splits(s, q)
    BY <1>2
<1>4. PICK x \in s : x = Some(s)
    BY <1>3, SomeIsIn
<1>5. Splits(s, x)
    BY <1>1, <1>4, SumOfSome
<1>6. q # x
    BY <1>3, <1>5
<1>7. ASSUME NEW y \in s
      PROVE  \A z \in s \ {y} : Splits(s \ {y}, z)
    <2>1. s \ {y} \subseteq s /\ Cardinality(s \ {y}) < Cardinality(s)
          /\ Cardinality(s) \in Nat /\ Cardinality(s \ {y}) \in Nat
        BY <1>1, FewerWithout, FS_CardinalityType
    <2>2. s \ {y} \notin C
        <3> HIDE DEF C
        <3> QED
            BY <1>2, <2>1
    <2> QED
        BY <2>1, <2>2
<1>8. Splits(s \ {x}, q) /\ Splits(s \ {q}, x)
    BY <1>6, <1>7
<1>9. (s \ {x}) \ {q} = (s \ {q}) \ {x}
    OBVIOUS
<1>10. /\ f[q].dwRealQuotas \in Nat /\ f[x].dwRealQuotas \in Nat
       /\ RealSum(f, (s \ {q}) \ {x}) \in Nat
    <2>1. IsFiniteSet((s \ {q}) \ {x}) /\ HasQuotas(f, (s \ {q}) \ {x})
        BY <1>1, FS_Subset DEF HasQuotas
    <2> QED
        BY <2>1, SumIsNatural DEF HasQuotas
<1> QED
    BY <1>3, <1>5, <1>8, <1>9, <1>10

(* Only the quotas of the set count. *)
LEMMA SumOfSame ==
    ASSUME NEW f, NEW g, NEW S, IsFiniteSet(S),
           \A p \in S : f[p].dwRealQuotas = g[p].dwRealQuotas
    PROVE  RealSum(f, S) = RealSum(g, S)
<1> DEFINE C == {s \in SUBSET S : RealSum(f, s) # RealSum(g, s)}
<1> SUFFICES ASSUME C # {} PROVE FALSE
    OBVIOUS
<1>1. \A s \in C : IsFiniteSet(s)
    BY FS_Subset
<1>2. PICK s \in C : \A t \in C : Cardinality(s) <= Cardinality(t)
    BY <1>1, SmallestSet
<1>3. s # {}
    BY <1>2, SumOfNone
<1>4. s \ {Some(s)} \subseteq s /\ Cardinality(s \ {Some(s)}) < Cardinality(s)
      /\ Cardinality(s) \in Nat /\ Cardinality(s \ {Some(s)}) \in Nat
    BY <1>1, <1>3, SomeIsIn, FewerWithout, FS_CardinalityType
<1>5. RealSum(f, s \ {Some(s)}) = RealSum(g, s \ {Some(s)})
    BY <1>2, <1>4
<1>6. f[Some(s)].dwRealQuotas = g[Some(s)].dwRealQuotas
    BY <1>3, SomeIsIn
<1> QED
    BY <1>1, <1>2, <1>3, <1>5, <1>6, SumOfSome

-----------------------------------------------------------------------------
(* Arithmetic of uint32.                                                   *)

LEMMA WrappedType == ASSUME NEW n \in Int PROVE Wrapped(n) \in Uint
BY BalanceAssumption DEF Wrapped, Uint

LEMMA Division ==
    ASSUME NEW n \in Int
    PROVE  \E s \in Int : n = UINT_SPAN * s + Wrapped(n)
<1>1. UINT_SPAN \in Nat /\ UINT_SPAN > 0
    BY BalanceAssumption
<1>2. n \div UINT_SPAN \in Int /\ n = UINT_SPAN * (n \div UINT_SPAN) + (n % UINT_SPAN)
    BY <1>1
<1> QED
    BY <1>2 DEF Wrapped

LEMMA WrappedOnly ==
    ASSUME NEW q \in Int, NEW r \in Uint, NEW n \in Int, n = UINT_SPAN * q + r
    PROVE  Wrapped(n) = r
<1>1. PICK s \in Int : n = UINT_SPAN * s + Wrapped(n)
    BY Division
<1>2. Wrapped(n) \in Uint
    BY WrappedType
<1>3. UINT_SPAN * (s - q) = r - Wrapped(n)
    BY <1>1, <1>2, BalanceAssumption DEF Uint
<1>4. s - q = 0
    <2>1. s - q >= 1 => UINT_SPAN * (s - q) >= UINT_SPAN
        BY BalanceAssumption
    <2>2. s - q <= -1 => UINT_SPAN * (s - q) <= -UINT_SPAN
        BY BalanceAssumption
    <2> QED
        BY <1>2, <1>3, <2>1, <2>2, BalanceAssumption DEF Uint
<1> QED
    BY <1>2, <1>3, <1>4, BalanceAssumption DEF Uint

LEMMA WrappedKeeps == ASSUME NEW n \in Uint PROVE Wrapped(n) = n
BY BalanceAssumption DEF Wrapped, Uint

(* What is taken off or added before a sum wraps counts the same after.    *)
LEMMA WrappedSum ==
    ASSUME NEW a \in Int, NEW b \in Int
    PROVE  Wrapped(Wrapped(a) + b) = Wrapped(a + b)
<1>1. PICK s \in Int : a = UINT_SPAN * s + Wrapped(a)
    BY Division
<1>2. PICK t \in Int : Wrapped(a) + b = UINT_SPAN * t + Wrapped(Wrapped(a) + b)
    <2>1. Wrapped(a) \in Int
        BY WrappedType DEF Uint
    <2>2. Wrapped(a) + b \in Int
        BY <2>1
    <2> QED
        BY <2>2, Division
<1>3. Wrapped(a) \in Uint /\ Wrapped(Wrapped(a) + b) \in Uint
    BY WrappedType, BalanceAssumption DEF Uint
<1>4. a + b = UINT_SPAN * (s + t) + Wrapped(Wrapped(a) + b)
    BY <1>1, <1>2, <1>3, BalanceAssumption DEF Uint
<1> QED
    BY <1>3, <1>4, WrappedOnly

LEMMA MinIs ==
    ASSUME NEW S, S \subseteq Nat, S # {}
    PROVE  Min(S) \in S /\ \A q \in S : Min(S) <= q
<1>1. \E m \in S : \A q \in S : m =< q
    BY LeastNumber
<1> QED
    BY <1>1 DEF Min

-----------------------------------------------------------------------------
(* Types.                                                                  *)

PointType == [dwSendCount : Uint, dwRecvCount : Uint, dwMaxQuotas : Uint,
              dwCurrentQuotas : Uint, dwRealQuotas : Uint]

LEMMA UintFacts == /\ Uint \subseteq Nat /\ 0 \in Uint /\ 1 \in Uint /\ Quotas \subseteq Uint
                   /\ \A n \in Nat : \A m \in Uint : n <= m => n \in Uint
                   /\ MaxCount \in Uint
BY BalanceAssumption DEF Uint

LEMMA CountFacts ==
    ASSUME NEW n \in Uint
    PROVE  /\ n < MaxCount => n + 1 \in Uint
           /\ Wrapped(n + 1) \in Uint /\ Wrapped(n - 1) \in Uint
<1>1. n \in Int /\ n + 1 \in Int /\ n - 1 \in Int
    BY UintFacts
<1>2. n < MaxCount => n + 1 \in Uint
    BY BalanceAssumption DEF Uint
<1> QED
    BY <1>1, <1>2, WrappedType

LEMMA KnownFacts == TypeOK => /\ Known \subseteq Nat /\ IsFiniteSet(Known)
                              /\ m_stServicesMap \in [Known -> PointType]
                              /\ HasQuotas(m_stServicesMap, Known)
<1> SUFFICES ASSUME TypeOK PROVE /\ Known \subseteq Nat /\ IsFiniteSet(Known)
                                 /\ m_stServicesMap \in [Known -> PointType]
                                 /\ HasQuotas(m_stServicesMap, Known)
    OBVIOUS
<1>1. Known \subseteq Nat /\ IsFiniteSet(Known)
    BY BalanceAssumption, FS_Subset DEF TypeOK
<1>2. m_stServicesMap \in [Known -> PointType]
    BY DEF TypeOK, PointType
<1>3. HasQuotas(m_stServicesMap, Known)
    BY <1>2, UintFacts DEF PointType, HasQuotas
<1> QED
    BY <1>1, <1>2, <1>3

(* A reset leaves a quota that is 1, as it was, or at most the configured. *)
LEMMA RaisedType ==
    ASSUME NEW point \in PointType, NEW share \in {5, 20}
    PROVE  /\ Raised(point, share) \in Uint
           /\ \/ Raised(point, share) = point.dwMaxQuotas
              \/ Raised(point, share) = Wrapped(RaisedSum(point, share))
<1>1. PICK max \in Nat : max = point.dwMaxQuotas
    BY UintFacts DEF PointType
<1>2. PICK sum \in Nat : sum = RaisedSum(point, share)
    <2>1. point.dwCurrentQuotas \in Nat
        BY UintFacts DEF PointType
    <2>2. max \div 5 \in Nat /\ max \div 20 \in Nat
        BY <1>1
    <2> QED
        BY <1>1, <2>1, <2>2 DEF RaisedSum
<1>3. max \in Uint /\ Wrapped(sum) \in Uint
    BY <1>1, WrappedType DEF PointType
<1>4. Raised(point, share) = Min({max, Wrapped(sum)})
    BY <1>1, <1>2 DEF Raised
<1>5. Min({max, Wrapped(sum)}) \in {max, Wrapped(sum)}
    BY <1>3, UintFacts, MinIs
<1> QED
    BY <1>1, <1>2, <1>3, <1>4, <1>5

LEMMA ResetIsPoint ==
    ASSUME NEW point \in PointType
    PROVE  Reset(point) \in PointType
<1>1. ResetQuotas(point) \in Uint
    BY RaisedType, UintFacts DEF ResetQuotas, PointType
<1> QED
    BY <1>1, UintFacts DEF Reset, PointType

LEMMA ResetType ==
    ASSUME NEW point \in PointType
    PROVE  Refilled(Reset(point)) \in PointType /\ Refilled(point) \in PointType
<1>1. \A q \in PointType : Refilled(q) \in PointType
    BY DEF Refilled, PointType
<1> QED
    BY <1>1, ResetIsPoint

LEMMA PreparedType ==
    ASSUME TypeOK, NEW reset \in BOOLEAN
    PROVE  /\ Prepared(reset) \in [Known -> PointType]
           /\ HasQuotas(Prepared(reset), Known)
           /\ PreparedTotal(reset) \in Uint
<1>1. Prepared(reset) \in [Known -> PointType]
    BY KnownFacts, ResetType DEF Prepared
<1>2. HasQuotas(Prepared(reset), Known)
    BY <1>1, UintFacts DEF HasQuotas, PointType
<1>3. RealSum(Prepared(reset), Known) \in Nat
    BY <1>2, KnownFacts, SumIsNatural
<1>4. PreparedTotal(reset) \in Uint
    BY <1>3, WrappedType DEF PreparedTotal, TypeOK
<1> QED
    BY <1>1, <1>2, <1>4

(* What Route does with the map it prepared: nothing, or it spends one     *)
(* quota of the first point that the seed reaches.                         *)
Spends(map, total, p) ==
    /\ m_stServicesMap' = [map EXCEPT ![p].dwSendCount = @ + 1,
                                      ![p].dwRealQuotas = Wrapped(@ - 1)]
    /\ m_dwTotalQuotas' = Wrapped(total - 1)

LEMMA RouteIs ==
    ASSUME TypeOK, NEW reset \in BOOLEAN, Route(reset)
    PROVE  \/ /\ m_stServicesMap' = Prepared(reset)
              /\ m_dwTotalQuotas' = PreparedTotal(reset)
           \/ \E seed \in Nat : \E p \in Reaches(Prepared(reset), seed) :
                 /\ p \in Known /\ p = Min(Reaches(Prepared(reset), seed))
                 /\ Prepared(reset)[p].dwSendCount < MaxCount
                 /\ Spends(Prepared(reset), PreparedTotal(reset), p)
<1>1. PICK seed \in Seeds(PreparedTotal(reset)) :
        IF Reaches(Prepared(reset), seed) = {}
        THEN /\ m_stServicesMap' = Prepared(reset)
             /\ m_dwTotalQuotas' = PreparedTotal(reset)
        ELSE LET p == Min(Reaches(Prepared(reset), seed))
             IN  /\ Prepared(reset)[p].dwSendCount < MaxCount
                 /\ Spends(Prepared(reset), PreparedTotal(reset), p)
    BY DEF Route, Spends
<1>2. seed \in Nat
    <2>1. Wrapped(PreparedTotal(reset) + 1) \in Nat
        BY PreparedType, UintFacts, CountFacts
    <2> QED
        BY <2>1 DEF Seeds
<1>3. DOMAIN Prepared(reset) = Known /\ Known \subseteq Nat
    BY PreparedType, KnownFacts
<1>4. Reaches(Prepared(reset), seed) \subseteq Known
    BY <1>3 DEF Reaches
<1>5. CASE Reaches(Prepared(reset), seed) # {}
    <2>1. Min(Reaches(Prepared(reset), seed)) \in Reaches(Prepared(reset), seed)
        BY <1>3, <1>4, <1>5, MinIs
    <2> QED
        BY <1>1, <1>2, <1>4, <1>5, <2>1
<1> QED
    BY <1>1, <1>5

LEMMA SpentType ==
    ASSUME TypeOK, NEW reset \in BOOLEAN, NEW p \in Known,
           Prepared(reset)[p].dwSendCount < MaxCount
    PROVE  [Prepared(reset) EXCEPT ![p].dwSendCount = @ + 1,
                                   ![p].dwRealQuotas = Wrapped(@ - 1)] \in [Known -> PointType]
<1>1. Prepared(reset) \in [Known -> PointType] /\ Prepared(reset)[p] \in PointType
    BY PreparedType
<1>2. Prepared(reset)[p].dwSendCount \in Uint /\ Prepared(reset)[p].dwRealQuotas \in Uint
    BY <1>1 DEF PointType
<1>3. Prepared(reset)[p].dwSendCount + 1 \in Uint
      /\ Wrapped(Prepared(reset)[p].dwRealQuotas - 1) \in Uint
    BY <1>2, CountFacts
<1> QED
    BY <1>1, <1>2, <1>3 DEF PointType

LEMMA TypedMap ==
    ASSUME NEW S \in SUBSET Points, m_stServicesMap' \in [S -> PointType],
           m_dwTotalQuotas' \in Uint
    PROVE  TypeOK'
BY DEF TypeOK, Known, PointType

(* A service point that was just added. *)
NewPoint(quota) ==
    [dwSendCount |-> 0, dwRecvCount |-> 0, dwMaxQuotas |-> quota,
     dwCurrentQuotas |-> quota, dwRealQuotas |-> quota]

LEMMA NewPointType == \A quota \in Quotas : NewPoint(quota) \in PointType
BY UintFacts DEF NewPoint, PointType

LEMMA BalanceInitTyped == Init => TypeOK
BY UintFacts DEF Init, TypeOK, Known

LEMMA BalanceNextTyped == TypeOK /\ [Next]_vars => TypeOK'
<1> SUFFICES ASSUME TypeOK, [Next]_vars PROVE TypeOK'
    OBVIOUS
<1>1. Known \in SUBSET Points /\ m_stServicesMap \in [Known -> PointType]
      /\ m_dwTotalQuotas \in Uint /\ m_dwTotalQuotas \in Int /\ Uint \subseteq Int
    BY UintFacts DEF TypeOK, PointType
<1>2. ASSUME NEW reset \in BOOLEAN, Route(reset) PROVE TypeOK'
    <2>1. CASE /\ m_stServicesMap' = Prepared(reset)
               /\ m_dwTotalQuotas' = PreparedTotal(reset)
        BY <1>1, <2>1, PreparedType, TypedMap
    <2>2. ASSUME NEW p \in Known, Prepared(reset)[p].dwSendCount < MaxCount,
                 Spends(Prepared(reset), PreparedTotal(reset), p)
          PROVE  TypeOK'
        <3>1. m_stServicesMap' \in [Known -> PointType]
            BY <2>2, SpentType DEF Spends
        <3>2. m_dwTotalQuotas' \in Uint
            BY <2>2, PreparedType, CountFacts DEF Spends
        <3> QED
            BY <1>1, <3>1, <3>2, TypedMap
    <2> QED
        BY <1>2, <2>1, <2>2, RouteIs
<1>3. ASSUME NEW p \in Points, NEW quotas \in Quotas, AddServicePoint(p, quotas) PROVE TypeOK'
    <2>1. m_stServicesMap' \in [Known \cup {p} -> PointType]
        BY <1>1, <1>3, UintFacts DEF AddServicePoint, PointType
    <2>2. m_dwTotalQuotas + quotas \in Int
        BY <1>1, UintFacts
    <2>3. m_dwTotalQuotas' \in Uint
        BY <1>3, <2>2, WrappedType DEF AddServicePoint
    <2> QED
        BY <1>1, <2>1, <2>3, TypedMap
<1>4. ASSUME NEW p \in Known, EraseServicePoint(p) \/ Failure(p) \/ Success(p) PROVE TypeOK'
    <2>1. m_stServicesMap[p] \in PointType /\ m_stServicesMap[p].dwRealQuotas \in Uint
          /\ m_stServicesMap[p].dwRecvCount \in Uint
        BY <1>1 DEF PointType
    <2>2. \A q \in Uint : m_dwTotalQuotas - q \in Int
        BY <1>1
    <2>3. m_dwTotalQuotas' \in Uint
        BY <1>1, <1>4, <2>1, <2>2, WrappedType DEF EraseServicePoint, Failure, Success
    <2>4. CASE EraseServicePoint(p)
        <3>1. m_stServicesMap' \in [Known \ {p} -> PointType]
            BY <1>1, <2>4 DEF EraseServicePoint
        <3> QED
            BY <1>1, <2>3, <3>1, TypedMap
    <2>5. CASE Failure(p)
        <3>1. m_stServicesMap' \in [Known -> PointType]
            BY <1>1, <2>1, <2>5, UintFacts DEF Failure, PointType
        <3> QED
            BY <1>1, <2>3, <3>1, TypedMap
    <2>6. CASE Success(p)
        <3>1. m_stServicesMap[p].dwRecvCount + 1 \in Uint
            BY <2>1, <2>6, CountFacts DEF Success
        <3>2. m_stServicesMap' \in [Known -> PointType]
            BY <1>1, <2>1, <2>6, <3>1 DEF Success, PointType
        <3> QED
            BY <1>1, <2>3, <3>2, TypedMap
    <2> QED
        BY <1>4, <2>4, <2>5, <2>6
<1>5. CASE LoadConfigure
    <2> DEFINE Loads(listed, quota, again) ==
            /\ m_stServicesMap' = [p \in listed |-> NewPoint(quota[p])]
            /\ m_dwTotalQuotas' = Wrapped(RealSum(m_stServicesMap', listed) + again)
    <2>1. PICK listed \in SUBSET Points :
            \E quota \in [listed -> Quotas], again \in Uint : Loads(listed, quota, again)
        BY <1>5, UintFacts DEF LoadConfigure, Repeated, NewPoint
    <2>2. PICK quota \in [listed -> Quotas], again \in Uint : Loads(listed, quota, again)
        BY <2>1
    <2>3. m_stServicesMap' \in [listed -> PointType]
        <3>1. \A p \in listed : NewPoint(quota[p]) \in PointType
            BY NewPointType
        <3> QED
            BY <2>2, <3>1
    <2>4. IsFiniteSet(listed) /\ HasQuotas(m_stServicesMap', listed)
        BY <2>3, BalanceAssumption, FS_Subset, UintFacts DEF HasQuotas, PointType
    <2>5. PICK sum \in Nat : sum = RealSum(m_stServicesMap', listed)
        BY <2>4, SumIsNatural
    <2>6. m_dwTotalQuotas' \in Uint
        <3>1. again \in Nat /\ sum + again \in Int
            BY UintFacts
        <3> QED
            BY <2>2, <2>5, <3>1, WrappedType
    <2> QED
        BY <2>3, <2>6, TypedMap
<1>6. CASE Clear
    <2>1. m_stServicesMap' \in [{} -> PointType] /\ m_dwTotalQuotas' \in Uint
        BY <1>6, UintFacts DEF Clear
    <2> QED
        BY <2>1, TypedMap
<1>7. CASE UNCHANGED vars
    BY <1>7 DEF vars, TypeOK, Known
<1> QED
    BY <1>2, <1>3, <1>4, <1>5, <1>6, <1>7 DEF Next

(* The load balancer keeps its types.                                      *)
THEOREM BalanceTypeCorrect == Spec => []TypeOK
BY BalanceInitTyped, BalanceNextTyped, PTL DEF Spec

-----------------------------------------------------------------------------
(* At a reset, a point that was sent to and answered everything gains      *)
(* quota until it has its configured quota again, if a fifth more of that  *)
(* is still a uint32.                                                      *)

Gains(p) ==
    LET before == m_stServicesMap[p].dwCurrentQuotas
        after == m_stServicesMap'[p].dwCurrentQuotas
    IN  after > before \/ after = m_stServicesMap[p].dwMaxQuotas

Recover == Route(TRUE) =>
    \A p \in {q \in Known : /\ AnsweredAll(m_stServicesMap[q])
                            /\ m_stServicesMap[q].dwMaxQuotas >= 5
                            /\ RaisedSum(m_stServicesMap[q], 5) \in Uint} : Gains(p)

LEMMA AnsweringIsRaised ==
    ASSUME NEW point \in PointType, AnsweredAll(point), point.dwMaxQuotas >= 5,
           RaisedSum(point, 5) \in Uint
    PROVE  \/ Refilled(Reset(point)).dwCurrentQuotas > point.dwCurrentQuotas
           \/ Refilled(Reset(point)).dwCurrentQuotas = point.dwMaxQuotas
<1>1. PICK sent \in Nat, max \in Nat, current \in Nat :
        /\ sent = point.dwSendCount /\ max = point.dwMaxQuotas
        /\ current = point.dwCurrentQuotas
    BY UintFacts DEF PointType
<1>2. Lost(point) = 0
    <2>1. point.dwSendCount - point.dwRecvCount = 0
        BY <1>1 DEF AnsweredAll
    <2> QED
        BY <2>1, UintFacts, WrappedKeeps DEF Lost
<1>3. sent > 0 /\ 0 * 100 <= sent * 3 /\ 0 * 2000 < sent
    BY <1>1 DEF AnsweredAll
<1>4. ResetQuotas(point) = Raised(point, 5)
    BY <1>1, <1>2, <1>3 DEF ResetQuotas
<1>5. Refilled(Reset(point)).dwCurrentQuotas = Raised(point, 5)
    BY <1>4 DEF Refilled, Reset, PointType
<1>6. Wrapped(RaisedSum(point, 5)) = current + max \div 5
    BY <1>1, WrappedKeeps DEF RaisedSum
<1>7. max \div 5 >= 1 /\ max \div 5 \in Nat
    BY <1>1
<1> QED
    BY <1>1, <1>5, <1>6, <1>7, RaisedType

LEMMA RouteRecovers == TypeOK /\ [Next]_vars => [Recover]_vars
<1> SUFFICES ASSUME TypeOK, Route(TRUE),
                    NEW p \in Known, AnsweredAll(m_stServicesMap[p]),
                    m_stServicesMap[p].dwMaxQuotas >= 5,
                    RaisedSum(m_stServicesMap[p], 5) \in Uint
             PROVE  Gains(p)
    BY DEF Recover
<1>1. Prepared(TRUE)[p] = Refilled(Reset(m_stServicesMap[p]))
      /\ m_stServicesMap[p] \in PointType
      /\ Prepared(TRUE) \in [Known -> PointType]
    BY KnownFacts, PreparedType DEF Prepared
<1>2. m_stServicesMap'[p].dwCurrentQuotas = Prepared(TRUE)[p].dwCurrentQuotas
    <2>1. CASE m_stServicesMap' = Prepared(TRUE)
        BY <2>1
    <2>2. ASSUME NEW q \in Known, Spends(Prepared(TRUE), PreparedTotal(TRUE), q)
          PROVE  m_stServicesMap'[p].dwCurrentQuotas = Prepared(TRUE)[p].dwCurrentQuotas
        BY <1>1, <2>2 DEF Spends, PointType
    <2> QED
        BY <2>1, <2>2, RouteIs
<1> QED
    BY <1>1, <1>2, AnsweringIsRaised DEF Gains

(* Points that answer recover at every reset, unless a fifth more of their *)
(* quota wraps.                                                            *)
THEOREM BalancePointsRecover == Spec => AnsweringPointsRecover
<1>1. TypeOK /\ [Next]_vars => [Route(TRUE) =>
          \A p \in {q \in Known : /\ AnsweredAll(m_stServicesMap[q])
                                /\ m_stServicesMap[q].dwMaxQuotas >= 5
                                /\ RaisedSum(m_stServicesMap[q], 5) \in Uint} :
              LET before == m_stServicesMap[p].dwCurrentQuotas
                  after == m_stServicesMap'[p].dwCurrentQuotas
              IN  after > before \/ after = m_stServicesMap[p].dwMaxQuotas]_vars
    BY RouteRecovers DEF Recover, Gains
<1> QED
    BY BalanceTypeCorrect, <1>1, PTL DEF Spec, AnsweringPointsRecover

-----------------------------------------------------------------------------
(* Between two refills only the first point of the map is picked more      *)
(* often than its quota.                                                   *)

UpTo(p) == {q \in Known : q <= p}

(* Of the points before one there is a last one.                           *)
LEMMA LastBefore ==
    ASSUME TypeOK, NEW p \in Known, NEW r \in Known, r < p
    PROVE  \E q \in Known : q < p /\ UpTo(q) = UpTo(p) \ {p}
<1> DEFINE T == {p - q : q \in {x \in Known : x < p}}
<1>1. Known \subseteq Nat
    BY KnownFacts
<1>2. T \subseteq Nat /\ T # {}
    BY <1>1
<1>3. PICK d \in T : \A e \in T : d <= e
    BY <1>2, LeastNumber
<1>4. PICK q \in Known : q < p /\ d = p - q
    OBVIOUS
<1>5. ASSUME NEW x \in Known, x < p PROVE x <= q
    <2>1. p - x \in T
        BY <1>5
    <2> HIDE DEF T
    <2>2. d <= p - x
        BY <1>3, <2>1
    <2> QED
        BY <1>1, <1>4, <2>2
<1>6. ASSUME NEW x \in Known PROVE x <= q <=> x <= p /\ x # p
    BY <1>1, <1>4, <1>5
<1>7. UpTo(q) = UpTo(p) \ {p}
    BY <1>6 DEF UpTo
<1> QED
    BY <1>4, <1>7

(* A point that has nothing left is reached by no seed that the points     *)
(* before it do not reach.                                                 *)
LEMMA EmptyIsFirst ==
    ASSUME TypeOK, NEW reset \in BOOLEAN, NEW seed \in Nat,
           NEW p \in Reaches(Prepared(reset), seed), p \in Known,
           p = Min(Reaches(Prepared(reset), seed)),
           Prepared(reset)[p].dwRealQuotas = 0
    PROVE  p = Min(Known)
<1>1. /\ DOMAIN Prepared(reset) = Known /\ Known \subseteq Nat /\ IsFiniteSet(Known)
      /\ HasQuotas(Prepared(reset), Known)
    BY PreparedType, KnownFacts
<1>2. Reaches(Prepared(reset), seed) =
        {q \in Known : seed <= RealSum(Prepared(reset), UpTo(q))}
    BY <1>1 DEF Reaches, UpTo
<1>3. \A q \in Reaches(Prepared(reset), seed) : p <= q
    BY <1>1, <1>2, MinIs
<1>4. Min(Known) \in Known /\ \A q \in Known : Min(Known) <= q
    BY <1>1, MinIs
<1>5. SUFFICES ASSUME p # Min(Known) PROVE FALSE
    OBVIOUS
<1>6. PICK m \in Known : m < p
    <2>1. PICK m \in Known : m = Min(Known) /\ m <= p
        BY <1>4
    <2>2. m \in Nat /\ p \in Nat /\ m # p
        BY <1>1, <1>5, <2>1
    <2> QED
        BY <2>1, <2>2
<1>7. PICK q \in Known : q < p /\ UpTo(q) = UpTo(p) \ {p}
    BY <1>6, LastBefore
<1>8. RealSum(Prepared(reset), UpTo(p)) = RealSum(Prepared(reset), UpTo(q))
    <2>1. IsFiniteSet(UpTo(p)) /\ HasQuotas(Prepared(reset), UpTo(p)) /\ p \in UpTo(p)
        BY <1>1, FS_Subset DEF UpTo, HasQuotas
    <2>2. IsFiniteSet(UpTo(q)) /\ HasQuotas(Prepared(reset), UpTo(q))
        BY <1>1, FS_Subset DEF UpTo, HasQuotas
    <2>3. RealSum(Prepared(reset), UpTo(p)) = 0 + RealSum(Prepared(reset), UpTo(q))
        BY <1>7, <2>1, SumWithout
    <2>4. RealSum(Prepared(reset), UpTo(q)) \in Nat
        BY <2>2, SumIsNatural
    <2> QED
        BY <2>3, <2>4
<1>9. q \in Reaches(Prepared(reset), seed)
    BY <1>2, <1>7, <1>8
<1> QED
    BY <1>1, <1>3, <1>7, <1>9

SpendsTooMuch(p) == p \in Known' /\ Overspent(p)' /\ ~Overspent(p)

LEMMA RouteOverspends ==
    ASSUME TypeOK, NEW reset \in BOOLEAN, Route(reset), NEW p \in Known, SpendsTooMuch(p)
    PROVE  p = Min(Known)
<1>1. /\ m_stServicesMap \in [Known -> PointType]
      /\ Prepared(reset) \in [Known -> PointType]
    BY KnownFacts, PreparedType
<1>2. PICK real \in Nat, current \in Nat :
        real = Prepared(reset)[p].dwRealQuotas /\ current = Prepared(reset)[p].dwCurrentQuotas
    BY <1>1, UintFacts DEF PointType
<1>3. real <= current
    <2>1. \/ Prepared(reset) = m_stServicesMap
          \/ \E point \in PointType : Prepared(reset)[p] = Refilled(point)
        <3>1. m_stServicesMap[p] \in PointType /\ Reset(m_stServicesMap[p]) \in PointType
            BY <1>1, ResetIsPoint
        <3> QED
            BY <3>1 DEF Prepared
    <2>2. CASE Prepared(reset) = m_stServicesMap
        BY <1>2, <2>2 DEF SpendsTooMuch, Overspent
    <2>3. CASE \E point \in PointType : Prepared(reset)[p] = Refilled(point)
        BY <1>2, <2>3 DEF Refilled, PointType
    <2> QED
        BY <2>1, <2>2, <2>3
<1>4. CASE m_stServicesMap' = Prepared(reset)
    BY <1>2, <1>3, <1>4 DEF SpendsTooMuch, Overspent
<1>5. ASSUME NEW seed \in Nat, NEW q \in Reaches(Prepared(reset), seed),
             q \in Known, q = Min(Reaches(Prepared(reset), seed)),
             Spends(Prepared(reset), PreparedTotal(reset), q)
      PROVE  p = Min(Known)
    <2>1. CASE p # q
        <3>1. m_stServicesMap'[p] = Prepared(reset)[p]
            BY <1>1, <1>5, <2>1 DEF Spends
        <3> QED
            BY <1>2, <1>3, <3>1 DEF SpendsTooMuch, Overspent
    <2>2. CASE p = q
        <3>1. m_stServicesMap'[p].dwRealQuotas = Wrapped(real - 1)
              /\ m_stServicesMap'[p].dwCurrentQuotas = current
            BY <1>1, <1>2, <1>5, <2>2 DEF Spends, PointType
        <3>2. Wrapped(real - 1) > current
            BY <3>1 DEF SpendsTooMuch, Overspent
        <3>3. real # 0 => Wrapped(real - 1) = real - 1
            <4>1. real \in Uint
                BY <1>1, <1>2 DEF PointType
            <4>2. real # 0 => real - 1 \in Uint
                BY <4>1, BalanceAssumption DEF Uint
            <4> QED
                BY <4>2, WrappedKeeps
        <3>4. real = 0
            BY <1>2, <1>3, <3>2, <3>3
        <3> QED
            BY <1>2, <1>5, <2>2, <3>4, EmptyIsFirst
    <2> QED
        BY <2>1, <2>2
<1> QED
    BY <1>4, <1>5, RouteIs

Overspends == \A p \in Known : SpendsTooMuch(p) => p = Min(Known)

LEMMA NextOverspends == TypeOK /\ [Next]_vars => [Overspends]_vars
<1> SUFFICES ASSUME TypeOK, Next, NEW p \in Known, SpendsTooMuch(p)
             PROVE  p = Min(Known)
    BY DEF Overspends
<1>1. m_stServicesMap \in [Known -> PointType] /\ p \in DOMAIN m_stServicesMap'
      /\ Known = DOMAIN m_stServicesMap
    BY KnownFacts DEF SpendsTooMuch, Known
<1>2. CASE \E reset \in BOOLEAN : Route(reset)
    BY <1>2, RouteOverspends
<1>3. ASSUME NEW q \in Points, NEW quotas \in Quotas, AddServicePoint(q, quotas)
      PROVE  m_stServicesMap'[p] = m_stServicesMap[p]
    BY <1>3 DEF AddServicePoint
<1>4. ASSUME NEW q \in Known, EraseServicePoint(q)
      PROVE  m_stServicesMap'[p] = m_stServicesMap[p]
    BY <1>1, <1>4 DEF EraseServicePoint
<1>5. ASSUME NEW q \in Known, Success(q)
      PROVE  /\ m_stServicesMap'[p].dwRealQuotas = m_stServicesMap[p].dwRealQuotas
             /\ m_stServicesMap'[p].dwCurrentQuotas = m_stServicesMap[p].dwCurrentQuotas
    BY <1>1, <1>5 DEF Success, PointType
<1>6. ASSUME NEW q \in Known, Failure(q)
      PROVE  \/ m_stServicesMap'[p] = m_stServicesMap[p]
             \/ m_stServicesMap'[p].dwRealQuotas = 0 /\ m_stServicesMap'[p].dwCurrentQuotas = 1
    BY <1>1, <1>6 DEF Failure, PointType
<1>7. CASE LoadConfigure
    <2>1. PICK listed \in SUBSET Points : \E quota \in [listed -> Quotas] :
            m_stServicesMap' = [q \in listed |-> NewPoint(quota[q])]
        BY <1>7 DEF LoadConfigure, NewPoint
    <2> PICK quota \in [listed -> Quotas] :
            m_stServicesMap' = [q \in listed |-> NewPoint(quota[q])]
        BY <2>1
    <2>2. p \in listed /\ quota[p] \in Nat /\ m_stServicesMap'[p] = NewPoint(quota[p])
        BY <1>1, <2>1, UintFacts
    <2>3. m_stServicesMap'[p].dwRealQuotas = quota[p]
          /\ m_stServicesMap'[p].dwCurrentQuotas = quota[p]
        BY <2>2 DEF NewPoint
    <2> QED
        BY <2>2, <2>3 DEF SpendsTooMuch, Overspent
<1>8. CASE Clear
    BY <1>1, <1>8 DEF Clear
<1> QED
    BY <1>2, <1>3, <1>4, <1>5, <1>6, <1>7, <1>8 DEF Next, SpendsTooMuch, Overspent

(* Only the first point of the map is ever overspent. *)
THEOREM BalanceOnlyFirstOverspends == Spec => OnlyTheFirstOverspends
<1>1. TypeOK /\ [Next]_vars =>
        [\A p \in Known : (p \in Known' /\ Overspent(p)' /\ ~Overspent(p)) => p = Min(Known)]_vars
    BY NextOverspends DEF Overspends, SpendsTooMuch
<1> QED
    BY BalanceTypeCorrect, <1>1, PTL DEF Spec, OnlyTheFirstOverspends

-----------------------------------------------------------------------------
(* The total is the sum of what the points have left.                      *)

QuotaSum == RealSum(m_stServicesMap, Known)
BalanceInv == TypeOK /\ TotalIsSum

LEMMA SumFacts == TypeOK => QuotaSum \in Nat
BY KnownFacts, SumIsNatural DEF QuotaSum

LEMMA SumPrimed ==
    ASSUME NEW S, DOMAIN m_stServicesMap' = S
    PROVE  QuotaSum' = RealSum(m_stServicesMap', S)
BY DEF QuotaSum, Known

(* A step that gives one point other quotas, and counts the difference.    *)
LEMMA OneQuotaChanges ==
    ASSUME NEW before, NEW S, IsFiniteSet(S), HasQuotas(before, S), NEW p \in S,
           NEW real \in Nat, NEW total \in Int, NEW change \in Int,
           total = Wrapped(RealSum(before, S)),
           DOMAIN m_stServicesMap' = S,
           m_stServicesMap'[p].dwRealQuotas = real,
           \A q \in S : q # p => m_stServicesMap'[q].dwRealQuotas = before[q].dwRealQuotas,
           Wrapped(before[p].dwRealQuotas + change) = Wrapped(real),
           m_dwTotalQuotas' = Wrapped(total + change)
    PROVE  TotalIsSum'
<1>1. PICK old \in Nat : old = before[p].dwRealQuotas
    BY DEF HasQuotas
<1>2. PICK rest \in Nat : rest = RealSum(before, S \ {p})
    <2>1. IsFiniteSet(S \ {p}) /\ HasQuotas(before, S \ {p})
        BY FS_Subset DEF HasQuotas
    <2> QED
        BY <2>1, SumIsNatural
<1>3. RealSum(before, S) = old + rest
    BY <1>1, <1>2, SumWithout
<1>4. RealSum(m_stServicesMap', S) = real + rest
    <2>1. HasQuotas(m_stServicesMap', S)
        BY DEF HasQuotas
    <2>2. PICK map : map = m_stServicesMap'
        OBVIOUS
    <2>3. RealSum(map, S) = real + RealSum(map, S \ {p})
        BY <2>1, <2>2, SumWithout
    <2>4. RealSum(map, S \ {p}) = RealSum(before, S \ {p})
        <3>1. IsFiniteSet(S \ {p})
            BY FS_Subset
        <3>2. \A q \in S \ {p} : map[q].dwRealQuotas = before[q].dwRealQuotas
            BY <2>2
        <3> QED
            BY <3>1, <3>2, SumOfSame
    <2> QED
        BY <1>2, <2>2, <2>3, <2>4
<1>5. Wrapped(total + change) = Wrapped(real + rest)
    <2>1. PICK sum \in Int : sum = old + rest
        BY <1>1, <1>2
    <2>2. Wrapped(total + change) = Wrapped(sum + change)
        BY <1>3, <2>1, WrappedSum
    <2>3. PICK new \in Int : new = old + change
        BY <1>1
    <2>4. Wrapped(new) = Wrapped(real)
        BY <1>1, <2>3
    <2>5. Wrapped(Wrapped(new) + rest) = Wrapped(new + rest)
          /\ Wrapped(Wrapped(real) + rest) = Wrapped(real + rest)
        <3>1. rest \in Int /\ real \in Int /\ new \in Int
            OBVIOUS
        <3>2. Wrapped(Wrapped(new) + rest) = Wrapped(new + rest)
            BY <3>1, WrappedSum
        <3>3. Wrapped(Wrapped(real) + rest) = Wrapped(real + rest)
            BY <3>1, WrappedSum
        <3> QED
            BY <3>2, <3>3
    <2>6. sum + change = new + rest
        BY <1>1, <1>2, <2>1, <2>3
    <2> QED
        BY <2>2, <2>4, <2>5, <2>6
<1> QED
    BY <1>4, <1>5, SumPrimed DEF TotalIsSum, QuotaSum

LEMMA BalanceInitSum == Init => BalanceInv
<1> SUFFICES ASSUME Init PROVE BalanceInv
    OBVIOUS
<1>1. Known = {} /\ m_dwTotalQuotas = 0
    BY DEF Init, Known
<1>2. Wrapped(0) = 0
    BY WrappedKeeps, UintFacts
<1> QED
    BY <1>1, <1>2, BalanceInitTyped, SumOfNone DEF BalanceInv, TotalIsSum

LEMMA RouteKeepsSum ==
    ASSUME BalanceInv, NEW reset \in BOOLEAN, Route(reset)
    PROVE  TotalIsSum'
<1>1. /\ Prepared(reset) \in [Known -> PointType] /\ HasQuotas(Prepared(reset), Known)
      /\ IsFiniteSet(Known) /\ PreparedTotal(reset) \in Int
    <2>1. TypeOK
        BY DEF BalanceInv
    <2>2. PreparedTotal(reset) \in Uint /\ Prepared(reset) \in [Known -> PointType]
          /\ HasQuotas(Prepared(reset), Known)
        BY <2>1, PreparedType
    <2>3. PreparedTotal(reset) \in Int
        <3>1. PICK total \in Uint : total = PreparedTotal(reset)
            BY <2>2
        <3>2. total \in Int
            BY UintFacts
        <3> QED
            BY <3>1, <3>2
    <2> QED
        BY <2>1, <2>2, <2>3, KnownFacts
<1>2. PreparedTotal(reset) = Wrapped(RealSum(Prepared(reset), Known))
    BY DEF PreparedTotal, Prepared, BalanceInv, TotalIsSum
<1>3. CASE /\ m_stServicesMap' = Prepared(reset)
           /\ m_dwTotalQuotas' = PreparedTotal(reset)
    BY <1>1, <1>2, <1>3, SumPrimed DEF TotalIsSum, QuotaSum
<1>4. ASSUME NEW p \in Known, Spends(Prepared(reset), PreparedTotal(reset), p)
      PROVE  TotalIsSum'
    <2>1. PICK old \in Uint : old = Prepared(reset)[p].dwRealQuotas
        BY <1>1 DEF PointType
    <2>2. PICK real \in Nat : real = Wrapped(old - 1)
        BY <2>1, CountFacts, UintFacts
    <2>3. DOMAIN m_stServicesMap' = Known /\ m_stServicesMap'[p].dwRealQuotas = real
        BY <1>1, <1>4, <2>1, <2>2 DEF Spends, PointType
    <2>4. \A q \in Known : q # p =>
              m_stServicesMap'[q].dwRealQuotas = Prepared(reset)[q].dwRealQuotas
        BY <1>1, <1>4 DEF Spends
    <2>5. Wrapped(Prepared(reset)[p].dwRealQuotas + (-1)) = Wrapped(real)
        <3>1. real \in Uint
            BY <2>1, <2>2, CountFacts
        <3>2. old \in Int /\ old + (-1) = old - 1
            BY <2>1, UintFacts
        <3> QED
            BY <2>1, <2>2, <3>1, <3>2, WrappedKeeps
    <2>6. m_dwTotalQuotas' = Wrapped(PreparedTotal(reset) + (-1))
        <3>1. PICK total \in Int : total = PreparedTotal(reset)
            BY <1>1
        <3>2. total - 1 = total + (-1)
            BY <3>1
        <3> QED
            BY <1>4, <3>1, <3>2 DEF Spends
    <2> QED
        BY <1>1, <1>2, <2>2, <2>3, <2>4, <2>5, <2>6, OneQuotaChanges
<1> QED
    BY <1>3, <1>4, RouteIs DEF BalanceInv

LEMMA AddKeepsSum ==
    ASSUME BalanceInv, ~Duplicates, NEW p \in Points, NEW quotas \in Quotas,
           AddServicePoint(p, quotas), TypeOK'
    PROVE  TotalIsSum'
<1>1. PICK map : map = m_stServicesMap'
    OBVIOUS
<1>2. /\ p \notin Known /\ DOMAIN map = Known \cup {p}
      /\ map[p].dwRealQuotas = quotas
      /\ \A q \in Known : map[q] = m_stServicesMap[q]
    BY <1>1 DEF AddServicePoint
<1>3. quotas \in Nat /\ IsFiniteSet(Known) /\ HasQuotas(m_stServicesMap, Known)
    BY KnownFacts, UintFacts DEF BalanceInv
<1>4. IsFiniteSet(Known \cup {p}) /\ HasQuotas(map, Known \cup {p})
    BY <1>2, <1>3, FS_AddElement DEF HasQuotas
<1>5. RealSum(map, Known \cup {p}) = quotas + RealSum(map, (Known \cup {p}) \ {p})
    BY <1>2, <1>4, SumWithout
<1>6. RealSum(map, (Known \cup {p}) \ {p}) = QuotaSum
    <2>1. (Known \cup {p}) \ {p} = Known
        BY <1>2
    <2> QED
        BY <1>2, <1>3, <2>1, SumOfSame DEF QuotaSum
<1>7. PICK sum \in Nat : sum = QuotaSum
    BY SumFacts DEF BalanceInv
<1>8. Wrapped(Wrapped(sum) + quotas) = Wrapped(sum + quotas) /\ sum + quotas = quotas + sum
    BY <1>3, <1>7, WrappedSum
<1>9. m_dwTotalQuotas' = Wrapped(m_dwTotalQuotas + quotas) /\ m_dwTotalQuotas = Wrapped(sum)
    BY <1>7 DEF AddServicePoint, BalanceInv, TotalIsSum, QuotaSum
<1>10. QuotaSum' = quotas + sum
    BY <1>1, <1>2, <1>5, <1>6, <1>7, SumPrimed
<1> QED
    BY <1>8, <1>9, <1>10 DEF TotalIsSum, QuotaSum

LEMMA EraseKeepsSum ==
    ASSUME BalanceInv, NEW p \in Known, EraseServicePoint(p)
    PROVE  TotalIsSum'
<1>1. PICK map : map = m_stServicesMap'
    OBVIOUS
<1>2. DOMAIN map = Known \ {p} /\ \A q \in Known \ {p} : map[q] = m_stServicesMap[q]
    BY <1>1 DEF EraseServicePoint
<1>3. IsFiniteSet(Known) /\ HasQuotas(m_stServicesMap, Known) /\ IsFiniteSet(Known \ {p})
    BY KnownFacts, FS_Subset DEF BalanceInv
<1>4. PICK real \in Nat : real = m_stServicesMap[p].dwRealQuotas
    BY <1>3 DEF HasQuotas
<1>5. PICK rest \in Nat : rest = RealSum(m_stServicesMap, Known \ {p})
    <2>1. HasQuotas(m_stServicesMap, Known \ {p})
        BY <1>3 DEF HasQuotas
    <2> QED
        BY <1>3, <2>1, SumIsNatural
<1>6. QuotaSum = real + rest
    BY <1>3, <1>4, <1>5, SumWithout DEF QuotaSum
<1>7. QuotaSum' = rest
    <2>1. RealSum(map, Known \ {p}) = RealSum(m_stServicesMap, Known \ {p})
        BY <1>2, <1>3, SumOfSame
    <2> QED
        BY <1>1, <1>2, <1>5, <2>1, SumPrimed
<1>8. PICK total \in Int : total = m_dwTotalQuotas
    BY UintFacts DEF BalanceInv, TypeOK
<1>9. total = Wrapped(real + rest) /\ m_dwTotalQuotas' = Wrapped(total - real)
    BY <1>4, <1>6, <1>8 DEF BalanceInv, TotalIsSum, QuotaSum, EraseServicePoint
<1>10. Wrapped(total + (-real)) = Wrapped((real + rest) + (-real))
    BY <1>9, WrappedSum
<1>11. total + (-real) = total - real /\ (real + rest) + (-real) = rest
    OBVIOUS
<1> QED
    BY <1>7, <1>9, <1>10, <1>11 DEF TotalIsSum, QuotaSum

LEMMA FailureKeepsSum ==
    ASSUME BalanceInv, NEW p \in Known, Failure(p)
    PROVE  TotalIsSum'
<1>1. /\ m_stServicesMap \in [Known -> PointType] /\ HasQuotas(m_stServicesMap, Known)
      /\ IsFiniteSet(Known)
    BY KnownFacts DEF BalanceInv
<1>2. PICK total \in Int : total = m_dwTotalQuotas
    BY UintFacts DEF BalanceInv, TypeOK
<1>3. PICK real \in Nat : real = m_stServicesMap[p].dwRealQuotas
    BY <1>1 DEF HasQuotas
<1>4. PICK change \in Int : change = -real
    OBVIOUS
<1>5. m_stServicesMap[p].dwRealQuotas + change = 0 /\ total - real = total + change
    BY <1>3, <1>4
<1>6. m_dwTotalQuotas' = Wrapped(total + change)
    BY <1>2, <1>3, <1>5 DEF Failure
<1>7. /\ DOMAIN m_stServicesMap' = Known
      /\ m_stServicesMap'[p].dwRealQuotas = 0
      /\ \A q \in Known : q # p =>
            m_stServicesMap'[q].dwRealQuotas = m_stServicesMap[q].dwRealQuotas
    BY <1>1 DEF Failure, PointType
<1>8. total = Wrapped(RealSum(m_stServicesMap, Known))
    BY <1>2 DEF BalanceInv, TotalIsSum
<1>9. 0 \in Nat /\ Wrapped(m_stServicesMap[p].dwRealQuotas + change) = Wrapped(0)
    BY <1>5
<1> QED
    BY <1>1, <1>6, <1>7, <1>8, <1>9, OneQuotaChanges

LEMMA SuccessKeepsSum ==
    ASSUME BalanceInv, NEW p \in Known, Success(p)
    PROVE  TotalIsSum'
<1>1. m_stServicesMap \in [Known -> PointType] /\ IsFiniteSet(Known)
    BY KnownFacts DEF BalanceInv
<1>2. PICK map : map = m_stServicesMap'
    OBVIOUS
<1>3. /\ DOMAIN map = Known /\ UNCHANGED m_dwTotalQuotas
      /\ \A q \in Known : map[q].dwRealQuotas = m_stServicesMap[q].dwRealQuotas
    BY <1>1, <1>2 DEF Success, PointType
<1>4. RealSum(map, Known) = QuotaSum
    BY <1>1, <1>3, SumOfSame DEF QuotaSum
<1> QED
    BY <1>2, <1>3, <1>4, SumPrimed DEF BalanceInv, TotalIsSum, QuotaSum

LEMMA BalanceNextSum == ~Duplicates /\ BalanceInv /\ [Next]_vars => BalanceInv'
<1> SUFFICES ASSUME ~Duplicates, BalanceInv, [Next]_vars PROVE TotalIsSum'
    BY BalanceNextTyped DEF BalanceInv
<1>1. TypeOK'
    BY BalanceNextTyped DEF BalanceInv
<1>2. CASE LoadConfigure
    <2>1. PICK listed \in SUBSET Points : DOMAIN m_stServicesMap' = listed
            /\ m_dwTotalQuotas' = Wrapped(RealSum(m_stServicesMap', listed) + 0)
        BY <1>2 DEF LoadConfigure, Repeated
    <2>2. m_stServicesMap' \in [listed -> PointType]
        BY <1>1, <2>1 DEF TypeOK, PointType, Known
    <2>3. IsFiniteSet(listed) /\ HasQuotas(m_stServicesMap', listed)
        BY <2>2, BalanceAssumption, FS_Subset, UintFacts DEF HasQuotas, PointType
    <2>4. RealSum(m_stServicesMap', listed) \in Nat
        BY <2>3, SumIsNatural
    <2> QED
        BY <2>1, <2>4, SumPrimed DEF TotalIsSum, QuotaSum
<1>3. CASE Clear
    <2>1. DOMAIN m_stServicesMap' = {} /\ m_dwTotalQuotas' = 0
        BY <1>3 DEF Clear
    <2>2. PICK map : map = m_stServicesMap'
        OBVIOUS
    <2>3. RealSum(map, {}) = 0 /\ Wrapped(0) = 0
        BY SumOfNone, WrappedKeeps, UintFacts
    <2> QED
        BY <2>1, <2>2, <2>3, SumPrimed DEF TotalIsSum, QuotaSum
<1>4. CASE UNCHANGED vars
    BY <1>4 DEF vars, BalanceInv, TotalIsSum, Known
<1> QED
    BY <1>1, <1>2, <1>3, <1>4, RouteKeepsSum, AddKeepsSum, EraseKeepsSum, FailureKeepsSum,
       SuccessKeepsSum DEF Next

(* The total Route draws its seed from is the sum of what the points have  *)
(* left, as long as the program adds no address that is known.             *)
THEOREM BalanceTotalIsSum == ~Duplicates /\ Spec => []TotalIsSum
<1> SUFFICES ASSUME ~Duplicates PROVE Spec => []TotalIsSum
    OBVIOUS
<1>1. BalanceInv /\ [Next]_vars => BalanceInv'
    BY BalanceNextSum
<1>2. BalanceInv => TotalIsSum
    BY DEF BalanceInv
<1> QED
    BY BalanceInitSum, <1>1, <1>2, PTL DEF Spec

-----------------------------------------------------------------------------
(* The ring of ConsistentHash.                                             *)

All(key) == {Chain[key][i] : i \in DOMAIN Chain[key]}

(* A point is one of the key its PointT was allocated for; with single     *)
(* quotas, one of those that Delete takes out.                             *)
PointsAreOwned ==
    \A p \in RingPoints :
        /\ p \in All(points[m_stHashRing[p]])
        /\ single => p \in PointsOf(points[m_stHashRing[p]], VirtualSize)

RingInv == RingTypeOK /\ PointsAreOwned /\ NoDanglingPoints

(* A key never has more points than its chain.                             *)
LEMMA CountFits ==
    ASSUME NEW quotas \in 0..MaxQuotas
    PROVE  /\ Count(quotas) \in Nat \ {0}
           /\ Count(quotas) <= VirtualSize * MaxQuotas
           /\ quotas <= 1 => Count(quotas) <= VirtualSize
<1>1. VirtualSize * MaxQuotas >= VirtualSize
    BY HashAssumption
<1>2. VirtualSize * quotas \in Nat /\ VirtualSize * quotas <= VirtualSize * MaxQuotas
    BY HashAssumption
<1>3. quotas # 0 => VirtualSize * quotas >= VirtualSize
    BY HashAssumption
<1> QED
    BY <1>1, <1>2, <1>3, HashAssumption DEF Count

LEMMA PointsFit ==
    ASSUME NEW key \in Keys, NEW n \in Nat, n <= VirtualSize * MaxQuotas
    PROVE  PointsOf(key, n) \subseteq All(key) /\ All(key) \subseteq Nat
<1>1. DOMAIN Chain[key] = 0..(VirtualSize * MaxQuotas - 1)
    BY HashAssumption
<1>2. \A i \in DOMAIN Chain[key] : Chain[key][i] \in Nat
    BY HashAssumption
<1>3. VirtualSize * MaxQuotas \in Nat
    BY HashAssumption
<1>4. 0..(n - 1) \subseteq 0..(VirtualSize * MaxQuotas - 1)
    BY <1>3
<1> QED
    BY <1>1, <1>2, <1>4 DEF PointsOf, All

(* The keys' points do not meet.                                           *)
LEMMA ChainsAreApart ==
    ASSUME NEW k \in Keys, NEW l \in Keys, NEW p \in All(k), p \in All(l)
    PROVE  k = l
BY ChainAssumption DEF All

LEMMA RingInitInv == RingInit => RingInv
<1> SUFFICES ASSUME RingInit PROVE RingInv
    OBVIOUS
<1> USE DEF RingInit, RingPoints
<1>1. RingTypeOK
    BY DEF RingTypeOK
<1>2. PointsAreOwned /\ NoDanglingPoints
    BY DEF PointsAreOwned, NoDanglingPoints
<1> QED
    BY <1>1, <1>2 DEF RingInv

LEMMA InsertInv ==
    ASSUME RingInv, NEW key \in Keys, NEW quotas \in 0..MaxQuotas, Insert(key, quotas)
    PROVE  RingInv'
<1> DEFINE object == Len(points) + 1
           all == RingPoints \cup PointsOf(key, Count(quotas))
<1> USE DEF RingInv
<1>1. /\ RingPoints' = all
      /\ \A p \in RingPoints : m_stHashRing'[p] = m_stHashRing[p]
      /\ \A p \in all \ RingPoints : m_stHashRing'[p] = object
    BY DEF Insert, RingPoints
<1>2. /\ points' \in Seq(Keys) /\ Len(points') = object
      /\ points'[object] = key
      /\ \A i \in 1..Len(points) : points'[i] = points[i]
    BY DEF Insert, RingTypeOK
<1>3. PointsOf(key, Count(quotas)) \subseteq All(key) /\ All(key) \subseteq Nat
    BY CountFits, PointsFit
<1>4. Len(points) \in Nat /\ \A p \in RingPoints : m_stHashRing[p] \in 1..Len(points)
    BY DEF RingTypeOK
<1>5. RingTypeOK'
    <2>1. m_stHashRing' \in [RingPoints' -> 1..Len(points')]
        <3>1. \A p \in all : m_stHashRing'[p] \in 1..object
            BY <1>1, <1>4
        <3>2. m_stHashRing' = [p \in all |-> m_stHashRing'[p]]
            BY DEF Insert
        <3> QED
            BY <1>1, <1>2, <3>1, <3>2
    <2>2. RingPoints' \subseteq Nat
        BY <1>1, <1>3 DEF RingTypeOK
    <2>3. freed' \subseteq 1..Len(points')
        BY <1>2, <1>4 DEF Insert, RingTypeOK
    <2>4. single' \in BOOLEAN
        BY DEF Insert, RingTypeOK
    <2> QED
        BY <1>2, <2>1, <2>2, <2>3, <2>4 DEF RingTypeOK
<1>6. PointsAreOwned'
    <2> SUFFICES ASSUME NEW p \in all
                 PROVE  /\ p \in All(points'[m_stHashRing'[p]])
                        /\ single' => p \in PointsOf(points'[m_stHashRing'[p]], VirtualSize)
        BY <1>1 DEF PointsAreOwned, All, PointsOf
    <2>1. single' => single /\ quotas <= 1
        BY DEF Insert, RingTypeOK
    <2>2. CASE p \in RingPoints
        BY <2>1, <2>2, <1>1, <1>2, <1>4 DEF PointsAreOwned
    <2>3. CASE p \notin RingPoints
        <3>1. points'[m_stHashRing'[p]] = key
            BY <2>3, <1>1, <1>2
        <3>2. p \in PointsOf(key, Count(quotas))
            BY <2>3
        <3>3. quotas <= 1 => PointsOf(key, Count(quotas)) \subseteq PointsOf(key, VirtualSize)
            <4>1. quotas <= 1 => 0..(Count(quotas) - 1) \subseteq 0..(VirtualSize - 1)
                BY CountFits, HashAssumption
            <4> QED
                BY <4>1 DEF PointsOf
        <3> QED
            BY <3>1, <3>2, <3>3, <1>3, <2>1
    <2> QED
        BY <2>2, <2>3
<1>7. NoDanglingPoints'
    <2> SUFFICES ASSUME single', NEW p \in all
                 PROVE  m_stHashRing'[p] \notin freed
        BY <1>1 DEF NoDanglingPoints, Insert
    <2>1. object \notin freed
        BY <1>4 DEF RingTypeOK
    <2>2. single
        BY DEF Insert, RingTypeOK
    <2> QED
        BY <1>1, <2>1, <2>2 DEF NoDanglingPoints
<1> QED
    BY <1>5, <1>6, <1>7

LEMMA DeleteInv ==
    ASSUME RingInv, NEW key \in Keys, Delete(key)
    PROVE  RingInv'
<1> USE DEF RingInv
<1>1. /\ RingPoints' = RingPoints \ PointsOf(key, VirtualSize)
      /\ \A p \in RingPoints' : m_stHashRing'[p] = m_stHashRing[p]
      /\ points' = points /\ single' = single
    BY DEF Delete, RingPoints
<1>2. RingTypeOK'
    <2>1. m_stHashRing' \in [RingPoints' -> 1..Len(points')]
        BY <1>1 DEF Delete, RingTypeOK
    <2>2. freed' \subseteq 1..Len(points')
        BY <1>1 DEF Delete, RingTypeOK
    <2> QED
        BY <1>1, <2>1, <2>2 DEF RingTypeOK
<1>3. PointsAreOwned'
    BY <1>1 DEF PointsAreOwned, All, PointsOf
<1>4. NoDanglingPoints'
    <2> SUFFICES ASSUME single, NEW p \in RingPoints, p \notin PointsOf(key, VirtualSize),
                        m_stHashRing[p] \in freed'
                 PROVE  FALSE
        BY <1>1 DEF NoDanglingPoints
    <2>1. m_stHashRing[p] \notin freed
        BY DEF NoDanglingPoints
    <2>2. FirstOf(key) \in RingPoints /\ m_stHashRing[p] = m_stHashRing[FirstOf(key)]
        BY <2>1 DEF Delete
    <2>3. points[m_stHashRing[p]] \in Keys
        BY DEF RingTypeOK
    <2>4. FirstOf(key) \in All(key)
        <3>1. VirtualSize * MaxQuotas >= 1
            BY HashAssumption
        <3>2. 0 \in DOMAIN Chain[key]
            BY <3>1, HashAssumption
        <3> QED
            BY <3>2 DEF FirstOf, All
    <2>5. FirstOf(key) \in All(points[m_stHashRing[p]])
        BY <2>2 DEF PointsAreOwned
    <2>6. points[m_stHashRing[p]] = key
        BY <2>3, <2>4, <2>5, ChainsAreApart
    <2>7. p \in PointsOf(points[m_stHashRing[p]], VirtualSize)
        BY DEF PointsAreOwned
    <2> QED
        BY <2>6, <2>7
<1> QED
    BY <1>2, <1>3, <1>4

LEMMA RingNextInv == RingInv /\ [RingNext]_ringVars => RingInv'
<1> SUFFICES ASSUME RingInv, [RingNext]_ringVars PROVE RingInv'
    OBVIOUS
<1>1. CASE \E key \in Keys, quotas \in 0..MaxQuotas : Insert(key, quotas)
    BY <1>1, InsertInv
<1>2. CASE \E key \in Keys : Delete(key)
    BY <1>2, DeleteInv
<1>3. CASE UNCHANGED ringVars
    BY <1>3 DEF ringVars, RingInv, RingTypeOK, PointsAreOwned, NoDanglingPoints, RingPoints, All, PointsOf
<1> QED
    BY <1>1, <1>2, <1>3 DEF RingNext

LEMMA RingInvHolds == RingSpec => []RingInv
BY RingInitInv, RingNextInv, PTL DEF RingSpec

-----------------------------------------------------------------------------
(* Lookups.                                                                *)
LEMMA LeastIsOnly ==
    ASSUME NEW T, T \subseteq Nat, NEW m \in T, \A q \in T : m <= q
    PROVE  {p \in T : \A q \in T : p <= q} = {m}
<1>1. \A p \in T : p <= m /\ m <= p => p = m
    OBVIOUS
<1>2. \A p \in T : (\A q \in T : p <= q) <=> p = m
    BY <1>1
<1> QED
    BY <1>2

LEMMA InsertTakesOverHash ==
    ASSUME RingInv, NEW key \in Keys, NEW quotas \in 0..MaxQuotas, Insert(key, quotas),
           NEW h \in Nat
    PROVE  InsertTakesOver(h)
<1>1. /\ RingPoints \subseteq RingPoints'
      /\ \A p \in RingPoints : m_stHashRing'[p] = m_stHashRing[p]
      /\ \A p \in RingPoints' \ RingPoints : m_stHashRing'[p] = Len(points')
    BY DEF Insert, RingPoints, RingInv, RingTypeOK
<1>2. RingPoints \subseteq Nat /\ RingPoints' \subseteq Nat
    BY InsertInv DEF RingInv, RingTypeOK
<1>3. Hash(h) = {m_stHashRing[p] : p \in LowerBound(h)}
      /\ Hash(h)' = {m_stHashRing'[p] : p \in LowerBound(h)'}
    BY DEF Hash
<1>4. CASE From(h)' = {}
    <2>1. LowerBound(h) = {} /\ LowerBound(h)' = {}
        BY <1>4, <1>1 DEF LowerBound, From
    <2> QED
        BY <2>1, <1>3 DEF InsertTakesOver
<1>5. CASE From(h)' # {}
    <2>1. PICK m \in From(h)' : \A q \in From(h)' : m <= q
        BY <1>5, <1>2, LeastNumber DEF From
    <2>2. LowerBound(h)' = {m}
        BY <2>1, <1>2, LeastIsOnly DEF LowerBound, From
    <2>3. CASE m \in RingPoints
        <3>1. m \in From(h) /\ \A q \in From(h) : m <= q
            BY <2>1, <2>3, <1>1 DEF From
        <3>2. LowerBound(h) = {m}
            BY <3>1, <1>2, LeastIsOnly DEF LowerBound, From
        <3> QED
            BY <3>2, <2>2, <2>3, <1>1, <1>3 DEF InsertTakesOver
    <2>4. CASE m \notin RingPoints
        <3>1. m_stHashRing'[m] = Len(points')
            BY <2>1, <2>4, <1>1 DEF From
        <3> QED
            BY <3>1, <2>2, <1>3 DEF InsertTakesOver
    <2> QED
        BY <2>3, <2>4
<1> QED
    BY <1>4, <1>5

LEMMA DeleteGivesUpHash ==
    ASSUME RingInv, NEW key \in Keys, Delete(key), NEW h \in Nat
    PROVE  DeleteGivesUp(key, h)
<1>1. /\ RingPoints' = RingPoints \ PointsOf(key, VirtualSize)
      /\ \A p \in RingPoints' : m_stHashRing'[p] = m_stHashRing[p]
    BY DEF Delete, RingPoints
<1>2. RingPoints \subseteq Nat
    BY DEF RingInv, RingTypeOK
<1>3. Hash(h) = {m_stHashRing[p] : p \in LowerBound(h)}
      /\ Hash(h)' = {m_stHashRing'[p] : p \in LowerBound(h)'}
    BY DEF Hash
<1>4. CASE From(h) = {}
    <2>1. LowerBound(h) = {} /\ LowerBound(h)' = {}
        BY <1>4, <1>1 DEF LowerBound, From
    <2> QED
        BY <2>1, <1>3 DEF DeleteGivesUp
<1>5. CASE From(h) # {}
    <2>1. PICK m \in From(h) : \A q \in From(h) : m <= q
        BY <1>5, <1>2, LeastNumber DEF From
    <2>2. LowerBound(h) = {m} /\ m \in RingPoints
        BY <2>1, <1>2, LeastIsOnly DEF LowerBound, From
    <2>3. CASE m \in RingPoints'
        <3>1. m \in From(h)' /\ \A q \in From(h)' : m <= q
            BY <2>1, <2>3, <1>1 DEF From
        <3>2. LowerBound(h)' = {m}
            BY <3>1, <1>1, <1>2, LeastIsOnly DEF LowerBound, From
        <3> QED
            BY <3>2, <2>2, <2>3, <1>1, <1>3 DEF DeleteGivesUp
    <2>4. CASE m \notin RingPoints'
        <3>1. m \in PointsOf(key, VirtualSize)
            BY <2>2, <2>4, <1>1
        <3>2. VirtualSize <= VirtualSize * MaxQuotas
            BY HashAssumption
        <3>3. m \in All(key)
            BY <3>1, <3>2, PointsFit, HashAssumption
        <3>4. m \in All(points[m_stHashRing[m]]) /\ points[m_stHashRing[m]] \in Keys
            BY <2>2 DEF RingInv, PointsAreOwned, RingTypeOK
        <3>5. points[m_stHashRing[m]] = key
            BY <3>3, <3>4, ChainsAreApart
        <3> QED
            BY <3>5, <2>2, <1>3 DEF DeleteGivesUp
    <2> QED
        BY <2>3, <2>4
<1> QED
    BY <1>4, <1>5

(* One step of the ring moves lookups as LookupsStay says.                 *)
MovesOnlyItsOwn ==
    \A h \in Hashes :
        /\ points' # points => InsertTakesOver(h)
        /\ \A key \in Keys : Delete(key) => DeleteGivesUp(key, h)

LEMMA RingNextMoves == RingInv /\ [RingNext]_ringVars => [MovesOnlyItsOwn]_ringVars
<1> SUFFICES ASSUME RingInv, RingNext, NEW h \in Hashes
             PROVE  /\ points' # points => InsertTakesOver(h)
                    /\ \A key \in Keys : Delete(key) => DeleteGivesUp(key, h)
    BY DEF MovesOnlyItsOwn
<1>1. h \in Nat
    BY HashAssumption
<1>2. ASSUME points' # points
      PROVE  \E key \in Keys, quotas \in 0..MaxQuotas : Insert(key, quotas)
    BY <1>2 DEF RingNext, Delete
<1> QED
    BY <1>1, <1>2, InsertTakesOverHash, DeleteGivesUpHash

-----------------------------------------------------------------------------
(* The ring keeps its types, whatever is inserted and deleted.             *)
THEOREM HashTypeCorrect == RingSpec => []RingTypeOK
BY RingInvHolds, PTL DEF RingInv

(* No lookup leads to a deleted PointT while quotas are single.            *)
THEOREM HashHasNoDanglingPoints == RingSpec => []NoDanglingPoints
BY RingInvHolds, PTL DEF RingInv

(* An Insert moves lookups to the new Value only, and a Delete moves only  *)
(* those of the deleted key.                                               *)
THEOREM HashLookupsStay == RingSpec => LookupsStay
BY RingInvHolds, RingNextMoves, PTL DEF RingSpec, LookupsStay, MovesOnlyItsOwn
=============================================================================

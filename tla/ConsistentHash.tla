--------------------------- MODULE ConsistentHash ---------------------------
(***************************************************************************)
(* The ring of include/ConsistentHash.hpp: points of a std::map, each with *)
(* the PointT (the program's Value) of the key that was inserted.  MD5 is  *)
(* external: Chain gives the points a key has, h(key) and then h2 of the   *)
(* point before, rounded to AlignSize; the chains of two keys do not meet. *)
(***************************************************************************)
EXTENDS Integers, Sequences

CONSTANTS
    Keys,
    Hashes,         \* what h(key) may be in a lookup
    VirtualSize,    \* points of a key for each of its quotas
    MaxQuotas,      \* bound on the quotas
    Chain,          \* the points of every key
    MaxInserts      \* bound on the calls of Insert

ASSUME HashAssumption ==
    /\ Hashes \subseteq Nat
    /\ VirtualSize \in Nat \ {0}
    /\ MaxQuotas \in Nat \ {0}
    /\ MaxInserts \in Nat
    /\ Chain \in [Keys -> [0..(VirtualSize * MaxQuotas - 1) -> Nat]]

ASSUME ChainAssumption ==
    \A k, l \in Keys : \A i \in DOMAIN Chain[k], j \in DOMAIN Chain[l] :
        Chain[k][i] = Chain[l][j] => k = l

VARIABLES
    m_stHashRing,   \* point |-> its PointT
    points,         \* the keys the PointTs were allocated for, in that order
    freed,          \* the PointTs that were deleted
    single          \* no key was inserted with more than one quota

ringVars == <<m_stHashRing, points, freed, single>>

RingPoints == DOMAIN m_stHashRing
FirstOf(key) == Chain[key][0]
PointsOf(key, n) == {Chain[key][i] : i \in 0..(n - 1)}

RingTypeOK ==
    /\ RingPoints \subseteq Nat
    /\ points \in Seq(Keys)
    /\ m_stHashRing \in [RingPoints -> 1..Len(points)]
    /\ freed \subseteq 1..Len(points)
    /\ single \in BOOLEAN

RingInit ==
    /\ m_stHashRing = [p \in {} |-> 0]
    /\ points = <<>>
    /\ freed = {}
    /\ single = TRUE

(* The first point is inserted whatever the quotas are; insert() leaves a  *)
(* point alone that is there already.                                      *)
Count(quotas) == IF quotas = 0 THEN 1 ELSE VirtualSize * quotas

Insert(key, quotas) ==
    LET object == Len(points) + 1
        all == RingPoints \cup PointsOf(key, Count(quotas))
    IN  /\ m_stHashRing' =
              [p \in all |-> IF p \in RingPoints THEN m_stHashRing[p] ELSE object]
        /\ points' = Append(points, key)
        /\ single' = (single /\ quotas <= 1)
        /\ UNCHANGED freed

(* A bug: the points after the first one stay. *)
DeleteFirst(key) ==
    /\ freed' = freed \cup {m_stHashRing[p] : p \in RingPoints \cap {FirstOf(key)}}
    /\ m_stHashRing' = [p \in RingPoints \ {FirstOf(key)} |-> m_stHashRing[p]]
    /\ UNCHANGED <<points, single>>

(* The points from h on, and the first of them (lower_bound). *)
From(h) == {p \in RingPoints : p >= h}
LowerBound(h) == {p \in From(h) : \A q \in From(h) : p <= q}

(* A bug: the first point is looked for with lower_bound. *)
DeleteLowerBound(key) ==
    /\ freed' = freed \cup {m_stHashRing[p] : p \in LowerBound(FirstOf(key))}
    /\ m_stHashRing' =
          [p \in RingPoints \ (LowerBound(FirstOf(key)) \cup PointsOf(key, VirtualSize)) |->
              m_stHashRing[p]]
    /\ UNCHANGED <<points, single>>

(* The PointT is deleted that the first point leads to, if there is one,   *)
(* and VirtualSize points are taken out, whatever the quotas were.         *)
Delete(key) ==
    /\ freed' = freed \cup {m_stHashRing[p] : p \in RingPoints \cap {FirstOf(key)}}
    /\ m_stHashRing' = [p \in RingPoints \ PointsOf(key, VirtualSize) |-> m_stHashRing[p]]
    /\ UNCHANGED <<points, single>>

(* Hash: the PointT it leads to, or none past the last point.              *)
Hash(h) == {m_stHashRing[p] : p \in LowerBound(h)}

RingNext ==
    \/ \E key \in Keys, quotas \in 0..MaxQuotas :
        Len(points) < MaxInserts /\ Insert(key, quotas)
    \/ \E key \in Keys : Delete(key)

RingSpec == RingInit /\ [][RingNext]_ringVars

-----------------------------------------------------------------------------
(* Properties. *)

(* Hash never leads to a PointT that was deleted, as long as no key is     *)
(* inserted with more than one quota.                                      *)
NoDanglingPoints == single => \A p \in RingPoints : m_stHashRing[p] \notin freed

(* What makes the hash consistent: an Insert moves lookups to the new      *)
(* Value only, a Delete moves those of the deleted key only, also for keys *)
(* that are inserted again, with any quotas, or unknown.                   *)
InsertTakesOver(h) == Hash(h)' = Hash(h) \/ Hash(h)' = {Len(points')}
DeleteGivesUp(key, h) == Hash(h)' = Hash(h) \/ \E o \in Hash(h) : points[o] = key

LookupsStay ==
    [][ \A h \in Hashes :
        /\ points' # points => InsertTakesOver(h)
        /\ \A key \in Keys : Delete(key) => DeleteGivesUp(key, h) ]_ringVars
=============================================================================

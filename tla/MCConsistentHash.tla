-------------------------- MODULE MCConsistentHash --------------------------
(***************************************************************************)
(* Instances of the ring for TLC: three keys with two points for a quota,  *)
(* which lie between those of the others, and lookups before, at, between  *)
(* and past the points.                                                    *)
(***************************************************************************)
EXTENDS ConsistentHash

Chains ==
    [key \in {1, 2, 3} |->
        CASE key = 1 -> [i \in 0..3 |-> <<2, 8, 5, 13>>[i + 1]]
          [] key = 2 -> [i \in 0..3 |-> <<4, 1, 11, 9>>[i + 1]]
          [] key = 3 -> [i \in 0..3 |-> <<7, 3, 10, 12>>[i + 1]]]
=============================================================================

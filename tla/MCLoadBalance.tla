---------------------------- MODULE MCLoadBalance ----------------------------
(***************************************************************************)
(* Instances of the load balancer for TLC.                                 *)
(***************************************************************************)
EXTENDS LoadBalance

TwoPoints == {1, 2}
SmallQuotas == {0, 5, 7}
=============================================================================

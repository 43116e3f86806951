------------------------------ MODULE MCWorkers ------------------------------
(***************************************************************************)
(* Instances of the workers for TLC: idle timeouts of the interval of the  *)
(* Timer, above it, and none.                                              *)
(***************************************************************************)
EXTENDS Workers

Timeouts == {10, 20}
=============================================================================

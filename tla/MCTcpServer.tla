----------------------------- MODULE MCTcpServer -----------------------------
(***************************************************************************)
(* Instances of the TCP server for TLC: a cache of two bytes, which three  *)
(* bytes of a client fill and overflow; for liveness one of one byte, two  *)
(* bytes, and a second client that only connects and leaves.               *)
(***************************************************************************)
EXTENDS TcpServer, TLC

ServerSymmetry == Permutations(Workers) \cup Permutations(Clients)
=============================================================================

-------------------------- MODULE MCConnectionPool --------------------------
(***************************************************************************)
(* Instances of the connection pool for TLC: one TimerID more than         *)
(* connections, so that SetTimeout always finds a fresh one.               *)
(***************************************************************************)
EXTENDS ConnectionPool
=============================================================================

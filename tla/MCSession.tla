------------------------------ MODULE MCSession ------------------------------
(***************************************************************************)
(* Instances of the sessions for TLC.  Tokens come round after four calls, *)
(* to sessions that have ended.                                            *)
(***************************************************************************)
EXTENDS Session
=============================================================================

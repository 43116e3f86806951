---------------------------- MODULE MCTcpClient ----------------------------
(***************************************************************************)
(* An instance of the TCP client for TLC: two TimerIDs, so that a timer    *)
(* that is left behind and that of the next attempt are told apart.        *)
(***************************************************************************)
EXTENDS TcpClient
=============================================================================

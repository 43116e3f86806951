------------------------------ MODULE MCBinlog ------------------------------
(***************************************************************************)
(* Instances of the binlog for TLC: blocks of 12 bytes with a head of 2,   *)
(* records of 3 bytes and their payload.                                   *)
(***************************************************************************)
EXTENDS Binlog

(* Records of 3, 5 and 8 bytes: blocks that are padded and blocks that are *)
(* exactly filled (5 + 5); and of 11, which Write accepts and no block     *)
(* holds.                                                                  *)
AllSizes == {0, 2, 5, 8}
=============================================================================

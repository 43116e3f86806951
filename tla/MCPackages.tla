----------------------------- MODULE MCPackages -----------------------------
(***************************************************************************)
(* Packages for TLC: bytes of three values, so the length of a string is   *)
(* below 9.                                                                *)
(***************************************************************************)
EXTENDS Packages

(* A string that is empty, so that two packages fit the cache; one that    *)
(* makes the package as long as the cache; and one whose length wraps to   *)
(* 0, and in which the receiver then finds a package too long for it.      *)
SomePayloads == {[number |-> 1, text |-> <<>>],
                 [number |-> 2, text |-> <<1, 0, 2>>],
                 [number |-> 0, text |-> <<1, 2, 2, 0, 0, 0, 0, 0, 0>>]}
=============================================================================

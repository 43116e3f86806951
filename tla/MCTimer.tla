------------------------------- MODULE MCTimer -------------------------------
(***************************************************************************)
(* Instances of the timing wheel for TLC.  TVR_SIZE = TVN_SIZE = 2 keeps   *)
(* all five levels and their clamp within a clock of a few dozen ticks.    *)
(***************************************************************************)
EXTENDS Timer

(* In milliseconds of a two-millisecond tick: ticks before, at and after   *)
(* the boundaries 2, 4, 8, 16 and 32 of levels, on both sides of a tick,   *)
(* and a negative one.  The clock may jump, and be set back.               *)
WheelTimeouts == {-3, 0, 1, 3, 7, 15, 16, 33, 63, 64, 81}
WheelClocks == {4, 5}
WheelSteps == {6, -6}

(* Timers at the tick that is running, the next ones and a passed one.     *)
CallbackTimeouts == {-1, 0, 1}
CallbackClocks == {1}
CallbackSteps == {1}
=============================================================================

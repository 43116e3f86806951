---------------------------- MODULE TimerService ----------------------------
(***************************************************************************)
(* What a timer promises to the code that arms it, with no wheel, no lists *)
(* and no identifiers: a tick that only moves forward, timers armed for a  *)
(* tick, and timers that are ringing.  A tick does not pass while a timer  *)
(* of the previous one is still ringing, and when it passes exactly the    *)
(* timers armed for it start to ring.  Timer.tla, the timing wheel of      *)
(* Timer.hpp, is shown to implement this specification.                    *)
(***************************************************************************)
EXTENDS Integers

CONSTANT Timers

VARIABLES
    tick,       \* the last tick that has not passed yet
    due,        \* the armed timers, each with the tick it is armed for
    ringing     \* the timers whose tick has passed and that were not run yet

sVars == <<tick, due, ringing>>

Armed == DOMAIN due

-----------------------------------------------------------------------------

SInit ==
    /\ tick \in Nat
    /\ due = [t \in {} |-> 0]
    /\ ringing = {}

(* A timer is armed, or armed again, for a tick that has not passed.       *)
Arm(t) ==
    /\ due' \in [Armed \cup {t} -> Int]
    /\ due'[t] >= tick
    /\ \A u \in Armed \ {t} : due'[u] = due[u]
    /\ ringing' = ringing \ {t}
    /\ UNCHANGED tick

(* A timer is given up: it will not ring, even if its tick has passed.     *)
Disarm(t) ==
    /\ t \in Armed \cup ringing
    /\ due' = [u \in Armed \ {t} |-> due[u]]
    /\ ringing' = ringing \ {t}
    /\ UNCHANGED tick

(* The tick passes: the timers armed for it, and no others, start to ring. *)
Tick ==
    /\ ringing = {}
    /\ tick' = tick + 1
    /\ ringing' = {t \in Armed : due[t] = tick}
    /\ due' = [t \in Armed \ ringing' |-> due[t]]

(* A ringing timer is run, once.                                           *)
Ring(t) ==
    /\ t \in ringing
    /\ ringing' = ringing \ {t}
    /\ UNCHANGED <<tick, due>>

SNext ==
    \/ Tick
    \/ \E t \in Timers : Arm(t) \/ Disarm(t) \/ Ring(t)

Service == SInit /\ [][SNext]_sVars
=============================================================================

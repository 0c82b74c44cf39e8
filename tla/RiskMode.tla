------------------------------ MODULE RiskMode ------------------------------
(***************************************************************************)
(* What the risk state machine promises to the rest of FuzzHelm: a level   *)
(* 0..3 (the SEVERITY of NORMAL, WARNING, COOLDOWN, HALTED) and a latch    *)
(* (the kill-switch).  The level may rise by any amount at a bar, falls by *)
(* one at a time, and leaves 3 only once the latch has been opened, which  *)
(* only an administrator can do.  Nothing is said of when: equity, day     *)
(* boundaries, dwell times and thresholds are the business of              *)
(* RiskStateMachine, which implements this specification.                  *)
(***************************************************************************)
EXTENDS Integers

VARIABLES level, latched

modeVars == <<level, latched>>

Halted == 3

Init == level = 0 /\ latched = FALSE

(* A bar raises the level; reaching HALTED closes the latch. *)
Escalate(n) ==
    /\ level < n
    /\ n = Halted \/ ~latched
    /\ level' = n
    /\ latched' = (latched \/ n = Halted)

(* A calm bar steps down one level, never past a closed latch. *)
Recover ==
    /\ level \in 1..2
    /\ ~latched
    /\ level' = level - 1
    /\ UNCHANGED latched

(* The guard's halt signal, or an operator, closes the latch. *)
Trip == latched' = TRUE /\ UNCHANGED level

(* An administrator opens the latch without touching the level. *)
Open == latched /\ latched' = FALSE /\ UNCHANGED level

(* An administrator releases HALTED, or the next bar notices the open latch. *)
Release == level = Halted /\ level' = 2 /\ latched' = FALSE

Next == (\E n \in 1..3 : Escalate(n)) \/ Recover \/ Trip \/ Open \/ Release

Spec == Init /\ [][Next]_modeVars
=============================================================================

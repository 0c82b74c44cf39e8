-------------------------- MODULE RiskStateMachine --------------------------
(***************************************************************************)
(* The risk state machine of FuzzHelm with the two objects it owns: the    *)
(* KillSwitch (a latch only an administrator opens) and the EquityTracker  *)
(* (running peak and the equity the UTC day opened with).                  *)
(*                                                                         *)
(* Source: risk/state.py, risk/killswitch.py, risk/context.py (the         *)
(* tracker) and the thresholds of risk/config.py.                          *)
(*                                                                         *)
(* Equity is an integer number of money units and a threshold t stands for *)
(* the fraction t/Scale, so "drawdown >= t" is a comparison of products    *)
(* and no division is rounded.  The volatility trigger is abstracted to    *)
(* whether the ratio exceeds warn_vol_ratio.  Of the clock only the UTC    *)
(* day boundary is kept.  dwell is capped at DwellCap, which no threshold  *)
(* exceeds: the code only asks whether it has reached one.                 *)
(***************************************************************************)
EXTENDS Integers

CONSTANTS
    Equities,     \* the equity values a bar may report
    Cfgs,         \* the validated threshold records that may be in force
    Scale,        \* the denominator of the thresholds
    DwellCap,     \* BOUND: where dwell stops counting
    MaxReleases   \* BOUND: how many audited releases a behaviour may hold

Modes  == {"NORMAL", "WARNING", "COOLDOWN", "HALTED"}
Events == {"HALT_BREACH", "COOL_BREACH", "WARN_BREACH", "RECOVERY", "STEADY",
           "ADMIN_RELEASE"}
Roles  == {"admin", "other"}

CfgType == [warnEnter : Nat, warnExit : Nat, warnDwell : Nat,
            coolEnter : Nat, coolExit : Nat, coolDwell : Nat,
            haltEnter : Nat, coolDaily : Nat, haltDaily : Nat]

(* StateMachineCfg._ordered and the field bounds: hysteresis bands nest. *)
Ordered(c) ==
    /\ c.warnExit < c.warnEnter /\ c.warnEnter <= c.coolExit
    /\ c.coolExit < c.coolEnter /\ c.coolEnter < c.haltEnter
    /\ c.haltEnter < Scale
    /\ 0 < c.coolDaily /\ c.coolDaily < c.haltDaily /\ c.haltDaily < Scale

ASSUME EquityAssumption == Equities \subseteq Int
ASSUME ScaleAssumption  == Scale \in Nat \ {0} /\ DwellCap \in Nat \ {0}
ASSUME ReleaseAssumption == MaxReleases \in Nat
ASSUME CfgAssumption ==
    /\ Cfgs \subseteq CfgType
    /\ \A c \in Cfgs : /\ Ordered(c)
                       /\ c.warnDwell <= DwellCap /\ c.coolDwell <= DwellCap

VARIABLES
    state,      \* RiskStateMachine._state
    dwell,      \* bars spent in state
    cfg,        \* the thresholds in force; apply_risk_limits replaces them
    snap,       \* the EquityTracker: seen, equity, peak, dayOpen
    tripped,    \* KillSwitch._tripped
    trips,      \* KillSwitch._trip_count
    releases,   \* audit rows "killswitch.release" written so far
    exits,      \* transitions out of HALTED recorded so far
    lastEvent,  \* the event of the last recorded transition
    sinceHalt   \* history: bars since HALTED was last left (large if never)

vars == <<state, dwell, cfg, snap, tripped, trips, releases, exits,
          lastEvent, sinceHalt>>

SnapType == [seen : BOOLEAN, equity : Int, peak : Int, dayOpen : Int]

TypeOK ==
    /\ state \in Modes
    /\ dwell \in 0..DwellCap
    /\ cfg \in Cfgs
    /\ snap \in SnapType
    /\ tripped \in BOOLEAN
    /\ trips \in Nat /\ releases \in 0..MaxReleases /\ exits \in Nat
    /\ lastEvent \in Events
    /\ sinceHalt \in 0..(2 * DwellCap)

-----------------------------------------------------------------------------
(* The transition table and the severity order. *)

(* Fault: a recovery from COOLDOWN skips WARNING. *)
FaultyTable ==
    LET same(m) == [ev \in Events |-> m]
        up(m)   == [same(m) EXCEPT !.HALT_BREACH = "HALTED"]
    IN  [NORMAL   |-> [up("NORMAL") EXCEPT !.COOL_BREACH = "COOLDOWN", !.WARN_BREACH = "WARNING"],
         WARNING  |-> [up("WARNING") EXCEPT !.COOL_BREACH = "COOLDOWN", !.RECOVERY = "NORMAL"],
         COOLDOWN |-> [up("COOLDOWN") EXCEPT !.RECOVERY = "NORMAL"],
         HALTED   |-> [same("HALTED") EXCEPT !.ADMIN_RELEASE = "COOLDOWN"]]

TRANSITIONS ==
    [NORMAL   |-> [HALT_BREACH |-> "HALTED", COOL_BREACH |-> "COOLDOWN",
                   WARN_BREACH |-> "WARNING", RECOVERY |-> "NORMAL",
                   STEADY |-> "NORMAL", ADMIN_RELEASE |-> "NORMAL"],
     WARNING  |-> [HALT_BREACH |-> "HALTED", COOL_BREACH |-> "COOLDOWN",
                   WARN_BREACH |-> "WARNING", RECOVERY |-> "NORMAL",
                   STEADY |-> "WARNING", ADMIN_RELEASE |-> "WARNING"],
     COOLDOWN |-> [HALT_BREACH |-> "HALTED", COOL_BREACH |-> "COOLDOWN",
                   WARN_BREACH |-> "COOLDOWN", RECOVERY |-> "WARNING",
                   STEADY |-> "COOLDOWN", ADMIN_RELEASE |-> "COOLDOWN"],
     HALTED   |-> [HALT_BREACH |-> "HALTED", COOL_BREACH |-> "HALTED",
                   WARN_BREACH |-> "HALTED", RECOVERY |-> "HALTED",
                   STEADY |-> "HALTED", ADMIN_RELEASE |-> "COOLDOWN"]]

SEVERITY == [NORMAL |-> 0, WARNING |-> 1, COOLDOWN |-> 2, HALTED |-> 3]

-----------------------------------------------------------------------------
(* EquityTracker. *)

(* E_open of a new day is the equity carried over midnight. *)
TrackerUpdate(s, newDay, e) ==
    [seen    |-> TRUE,
     equity  |-> e,
     peak    |-> IF ~s.seen \/ e > s.peak THEN e ELSE s.peak,
     dayOpen |-> IF ~s.seen THEN e ELSE IF newDay THEN s.equity ELSE s.dayOpen]

Rebase(s) ==
    IF s.seen THEN [s EXCEPT !.peak = s.equity, !.dayOpen = s.equity] ELSE s

(* drawdown >= t/Scale, drawdown <= t/Scale; a peak <= 0 means drawdown 1. *)
DrawdownAtLeast(s, t) == s.peak <= 0 \/ (s.peak - s.equity) * Scale >= t * s.peak
DrawdownAtMost(s, t)  == s.peak > 0 /\ (s.peak - s.equity) * Scale <= t * s.peak

(* day_return <= -t/Scale; day_return is 0 when E_open <= 0. *)
DayLossAtLeast(s, t) ==
    s.dayOpen > 0 /\ (s.dayOpen - s.equity) * Scale >= t * s.dayOpen

HaltBreach(s, c) == DrawdownAtLeast(s, c.haltEnter) \/ DayLossAtLeast(s, c.haltDaily)
CoolBreach(s, c) == DrawdownAtLeast(s, c.coolEnter) \/ DayLossAtLeast(s, c.coolDaily)

-----------------------------------------------------------------------------
(* Fault: the switch is not consulted. *)
FaultyClassifyNoSwitch(s, d, volHigh) ==
    IF HaltBreach(s, cfg) THEN "HALT_BREACH"
    ELSE IF state = "HALTED" THEN "STEADY"
    ELSE IF CoolBreach(s, cfg) THEN "COOL_BREACH"
    ELSE "STEADY"

(* Fault: in COOLDOWN the recovery is considered before the halt. *)
FaultyClassifyRecoveryFirst(s, d, volHigh) ==
    IF state = "COOLDOWN" /\ ~tripped /\ DrawdownAtMost(s, cfg.coolExit) THEN "RECOVERY"
    ELSE IF tripped \/ HaltBreach(s, cfg) THEN "HALT_BREACH"
    ELSE IF state = "HALTED" THEN "STEADY"
    ELSE IF CoolBreach(s, cfg) THEN "COOL_BREACH"
    ELSE "STEADY"

(* One event per observation, relative to the current state. *)
classify(s, d, volHigh) ==
    LET warn == DrawdownAtLeast(s, cfg.warnEnter) \/ volHigh
        recovered ==
            \/ state = "COOLDOWN" /\ DrawdownAtMost(s, cfg.coolExit) /\ d >= cfg.coolDwell
            \/ state = "WARNING" /\ DrawdownAtMost(s, cfg.warnExit) /\ d >= cfg.warnDwell
    IN  IF tripped \/ HaltBreach(s, cfg) THEN "HALT_BREACH"
        ELSE IF state = "HALTED" THEN "STEADY"
        ELSE IF CoolBreach(s, cfg) THEN "COOL_BREACH"
        ELSE IF state # "COOLDOWN" /\ warn THEN "WARN_BREACH"
        ELSE IF recovered THEN "RECOVERY"
        ELSE "STEADY"

Tick(n, cap) == IF n < cap THEN n + 1 ELSE n

(* Fault: dwell survives a change of state. *)
FaultyApply(event, d, closed) ==
    LET target == TRANSITIONS[state][event]
        halts  == target = "HALTED" /\ state # "HALTED"
    IN  /\ state' = target
        /\ dwell' = d
        /\ lastEvent' = IF target = state THEN lastEvent ELSE event
        /\ tripped' = (closed \/ halts)
        /\ trips' = IF halts /\ ~closed THEN trips + 1 ELSE trips
        /\ exits' = IF state = "HALTED" /\ target # "HALTED" THEN exits + 1 ELSE exits
        /\ sinceHalt' = IF target = "HALTED" \/ state = "HALTED" THEN 0
                        ELSE Tick(sinceHalt, 2 * DwellCap)

(* _apply: follow the table; a change of state restarts dwell, is recorded,
   and entering HALTED trips the switch, which stood at "closed". *)
Apply(event, d, closed) ==
    LET target == TRANSITIONS[state][event]
        halts  == target = "HALTED" /\ state # "HALTED"
    IN  /\ state' = target
        /\ dwell' = IF target = state THEN d ELSE 0
        /\ lastEvent' = IF target = state THEN lastEvent ELSE event
        /\ tripped' = (closed \/ halts)
        /\ trips' = IF halts /\ ~closed THEN trips + 1 ELSE trips
        /\ exits' = IF state = "HALTED" /\ target # "HALTED" THEN exits + 1 ELSE exits
        /\ sinceHalt' = IF target = "HALTED" \/ state = "HALTED" THEN 0
                        ELSE Tick(sinceHalt, 2 * DwellCap)

(* update(obs), the switch still agreeing with HALTED. *)
Update(newDay, e, volHigh) ==
    LET s == TrackerUpdate(snap, newDay, e)
        d == Tick(dwell, DwellCap)
    IN  /\ ~(state = "HALTED" /\ ~tripped)
        /\ snap' = s
        /\ Apply(classify(s, d, volHigh), d, tripped)
        /\ UNCHANGED <<cfg, releases>>

(* update(obs) after the switch was opened directly: leave HALTED. *)
UpdateSync(newDay, e) ==
    /\ state = "HALTED" /\ ~tripped
    /\ snap' = Rebase(TrackerUpdate(snap, newDay, e))
    /\ Apply("ADMIN_RELEASE", Tick(dwell, DwellCap), tripped)
    /\ UNCHANGED <<cfg, releases>>

Bar == \E newDay \in BOOLEAN, e \in Equities :
          (\E volHigh \in BOOLEAN : Update(newDay, e, volHigh)) \/ UpdateSync(newDay, e)

(* KillSwitch.trip: the first reason wins, a second call is a no-op. *)
Trip ==
    /\ ~tripped
    /\ tripped' = TRUE
    /\ trips' = trips + 1
    /\ UNCHANGED <<state, dwell, cfg, snap, releases, exits, lastEvent, sinceHalt>>

(* KillSwitch.release called directly. *)
KillSwitchRelease(role) ==
    /\ role = "admin"
    /\ tripped
    /\ releases < MaxReleases
    /\ tripped' = FALSE
    /\ releases' = releases + 1
    /\ UNCHANGED <<state, dwell, cfg, snap, trips, exits, lastEvent, sinceHalt>>

(* RiskStateMachine.release outside HALTED: only the switch opens and the peak
   stays where it was. *)
ReleaseEarly(role) ==
    /\ state # "HALTED"
    /\ KillSwitchRelease(role)

(* Fault: the state is left without opening the switch through its audited path. *)
FaultyRelease(role) ==
    /\ role = "admin"
    /\ state = "HALTED"
    /\ snap' = Rebase(snap)
    /\ Apply("ADMIN_RELEASE", dwell, tripped)
    /\ UNCHANGED <<cfg, releases>>

(* RiskStateMachine.release in HALTED: open the switch (audited when it was
   closed), rebase, follow ADMIN_RELEASE. *)
Release(role) ==
    /\ role = "admin"
    /\ state = "HALTED"
    /\ tripped => releases < MaxReleases
    /\ releases' = IF tripped THEN releases + 1 ELSE releases
    /\ snap' = Rebase(snap)
    /\ Apply("ADMIN_RELEASE", dwell, FALSE)
    /\ UNCHANGED cfg

(* TradingLoop.apply_risk_limits: new thresholds, state and switch kept. *)
ApplyRiskLimits(c) ==
    /\ cfg' = c
    /\ UNCHANGED <<state, dwell, snap, tripped, trips, releases, exits,
                   lastEvent, sinceHalt>>

Init ==
    /\ state = "NORMAL" /\ dwell = 0
    /\ cfg \in Cfgs
    /\ snap = [seen |-> FALSE, equity |-> 0, peak |-> 0, dayOpen |-> 0]
    /\ tripped = FALSE /\ trips = 0 /\ releases = 0 /\ exits = 0
    /\ lastEvent = "STEADY"
    /\ sinceHalt = 2 * DwellCap

Next ==
    \/ Bar
    \/ Trip
    \/ \E role \in Roles :
          KillSwitchRelease(role) \/ ReleaseEarly(role) \/ Release(role)
    \/ \E c \in Cfgs : ApplyRiskLimits(c)

Spec == Init /\ [][Next]_vars

-----------------------------------------------------------------------------
(* Properties. *)

(* HALTED is never left without an audit row of an administrator opening the
   switch, whichever of the two release paths was taken and however often the
   guard tripped it again in between (state.py update, release). *)
EveryExitAudited ==
    /\ exits <= releases
    /\ trips - releases = IF tripped THEN 1 ELSE 0

(* At the end of every bar the machine and its switch agree: HALTED exactly
   when the switch is closed, although the guard, an administrator and the bar
   handler move them separately (state.py update). *)
LatchAgreesAfterBar == [][snap'.seen /\ Bar => (state' = "HALTED" <=> tripped')]_vars

BreachLevel(s, c) ==
    IF HaltBreach(s, c) THEN 3
    ELSE IF CoolBreach(s, c) THEN 2
    ELSE IF DrawdownAtLeast(s, c.warnEnter) THEN 1
    ELSE 0

(* While equity is positive, a bar never ends in a mode milder than the one its
   own drawdown and day loss call for: escalation skips no bar, a recovery or a
   synchronised release never hides a live breach (state.py classify, update). *)
BreachNeverUnderstated ==
    [][snap'.equity > 0 /\ Bar => SEVERITY[state'] >= BreachLevel(snap', cfg)]_vars

(* Right after an administrator's release the tracker shows no breach under any
   thresholds, so the switch does not latch again on an unchanged equity
   (context.py rebase: "otherwise the latch would fire on the next bar"). *)
ReleasedIsClean ==
    lastEvent = "ADMIN_RELEASE" /\ dwell = 0 /\ snap.equity > 0 =>
        \A c \in Cfgs : ~HaltBreach(snap, c) /\ ~CoolBreach(snap, c)

(* Full trading after HALTED takes at least one cooldown dwell and one warning
   dwell of bars, through any mix of relapses, day changes and threshold
   changes (state.py classify, _apply). *)
RecoveryTakesDwell ==
    state = "NORMAL" =>
        \E c1, c2 \in Cfgs : sinceHalt >= c1.coolDwell + c2.warnDwell

(* Both halves of a release: it was audited, and it left nothing behind that
   would latch the machine again. *)
ReleasesAreSound == EveryExitAudited /\ ReleasedIsClean

RM == INSTANCE RiskMode WITH level <- SEVERITY[state], latched <- tripped

(* The machine implements the contract the rest of the system relies on: levels
   fall one at a time and HALTED is left only through an opened switch. *)
ImplementsRiskMode == RM!Spec
=============================================================================

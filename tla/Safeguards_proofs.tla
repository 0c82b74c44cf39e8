------------------------- MODULE Safeguards_proofs --------------------------
(***************************************************************************)
(* Proofs about what stands before the market: the risk state machine with *)
(* its kill-switch, for every set of equities, every set of validated      *)
(* thresholds and every bound, and the pre-trade risk chain.               *)
(*                                                                         *)
(* The chain: a verdict is a fraction between 0 and 1, and composing can   *)
(* only lower it: the quantity x the chain lets through fits every single  *)
(* verdict, x * d <= increase * n.  Each rule then says what x means for   *)
(* its limit.                                                              *)
(***************************************************************************)
EXTENDS RiskStateMachine, RiskGuard, TLAPS

-----------------------------------------------------------------------------
(* The risk state machine. *)

(* The transition table maps a mode and an event to a mode. *)
LEMMA TableType ==
    ASSUME NEW m \in Modes, NEW ev \in Events
    PROVE  TRANSITIONS[m][ev] \in Modes
BY DEF Modes, Events, TRANSITIONS

(* classify always returns an event a bar can raise, never ADMIN_RELEASE. *)
LEMMA ClassifyType ==
    ASSUME NEW s, NEW d, NEW v
    PROVE  classify(s, d, v) \in Events \ {"ADMIN_RELEASE"}
BY DEF classify, Events

LEMMA TickType ==
    ASSUME NEW cap \in Nat, NEW n \in 0..cap
    PROVE  Tick(n, cap) \in 0..cap /\ Tick(n, cap) >= n
BY DEF Tick

(* The tracker stays well typed. *)
LEMMA TrackerType ==
    ASSUME NEW s \in SnapType, NEW e \in Int, NEW nd \in BOOLEAN
    PROVE  /\ TrackerUpdate(s, nd, e) \in SnapType
           /\ Rebase(s) \in SnapType
BY DEF TrackerUpdate, Rebase, SnapType

(* Following the table preserves the types. *)
LEMMA ApplyType ==
    ASSUME TypeOK, NEW ev \in Events, NEW d \in 0..DwellCap, NEW k \in BOOLEAN,
           Apply(ev, d, k)
    PROVE  /\ state' \in Modes /\ dwell' \in 0..DwellCap /\ tripped' \in BOOLEAN
           /\ trips' \in Nat /\ exits' \in Nat /\ lastEvent' \in Events
           /\ sinceHalt' \in 0..(2 * DwellCap)
<1>1. TRANSITIONS[state][ev] \in Modes
  BY TableType DEF TypeOK
<1>2. Tick(sinceHalt, 2 * DwellCap) \in 0..(2 * DwellCap)
  BY TickType, ScaleAssumption DEF TypeOK
<1>3. state' \in Modes /\ dwell' \in 0..DwellCap /\ lastEvent' \in Events
  BY <1>1, ScaleAssumption DEF TypeOK, Apply
<1>4. trips' \in Nat /\ exits' \in Nat
  BY DEF TypeOK, Apply
<1>5. sinceHalt' \in 0..(2 * DwellCap)
  BY <1>2, ScaleAssumption DEF Apply
<1>6. tripped' \in BOOLEAN
  BY DEF Apply
<1> QED BY <1>3, <1>4, <1>5, <1>6

(* Type correctness: every operation of the machine, its switch and its tracker
   keeps all state in its type. *)
THEOREM TypeCorrect == Spec => []TypeOK
<1>1. Init => TypeOK
  <2> SUFFICES ASSUME Init PROVE TypeOK
    OBVIOUS
  <2>1. tripped \in BOOLEAN
    BY Zenon DEF Init
  <2>2. snap \in SnapType
    BY DEF Init, SnapType
  <2>3. dwell \in 0..DwellCap /\ releases \in 0..MaxReleases /\ sinceHalt \in 0..(2 * DwellCap)
    BY ScaleAssumption, ReleaseAssumption DEF Init
  <2> QED BY <2>1, <2>2, <2>3 DEF Init, TypeOK, Modes, Events
<1>2. TypeOK /\ [Next]_vars => TypeOK'
  <2> SUFFICES ASSUME TypeOK, [Next]_vars PROVE TypeOK'
    OBVIOUS
  <2>d. Tick(dwell, DwellCap) \in 0..DwellCap
    BY TickType, ScaleAssumption DEF TypeOK
  <2>1. ASSUME NEW nd \in BOOLEAN, NEW e \in Equities, NEW v \in BOOLEAN, Update(nd, e, v)
        PROVE  TypeOK'
    <3>1. snap' \in SnapType
      BY <2>1, TrackerType, EquityAssumption DEF Update, TypeOK
    <3>2. PICK ev \in Events : Apply(ev, Tick(dwell, DwellCap), tripped)
      BY <2>1, ClassifyType DEF Update
    <3> QED BY <2>1, <3>1, <3>2, <2>d, ApplyType DEF Update, TypeOK
  <2>2. ASSUME NEW nd \in BOOLEAN, NEW e \in Equities, UpdateSync(nd, e)
        PROVE  TypeOK'
    <3>1. snap' \in SnapType
      BY <2>2, TrackerType, EquityAssumption DEF UpdateSync, TypeOK
    <3>2. Apply("ADMIN_RELEASE", Tick(dwell, DwellCap), tripped)
      BY <2>2 DEF UpdateSync
    <3>3. "ADMIN_RELEASE" \in Events
      BY DEF Events
    <3> QED BY <2>2, <3>1, <3>2, <3>3, <2>d, ApplyType DEF UpdateSync, TypeOK
  <2>3. CASE Trip
    <3>1. tripped' \in BOOLEAN
      BY <2>3, Zenon DEF Trip
    <3> QED BY <2>3, <3>1 DEF Trip, TypeOK
  <2>4. ASSUME NEW role \in Roles, KillSwitchRelease(role) \/ ReleaseEarly(role)
        PROVE  TypeOK'
    <3>1. tripped' \in BOOLEAN
      BY <2>4, Zenon DEF KillSwitchRelease, ReleaseEarly
    <3> QED BY <2>4, <3>1, ReleaseAssumption DEF KillSwitchRelease, ReleaseEarly, TypeOK
  <2>5. ASSUME NEW role \in Roles, Release(role)
        PROVE  TypeOK'
    <3>1. snap' \in SnapType
      BY <2>5, TrackerType DEF Release, TypeOK, Rebase, SnapType
    <3>2. releases' \in 0..MaxReleases
      BY <2>5, ReleaseAssumption DEF Release, TypeOK
    <3>3. Apply("ADMIN_RELEASE", dwell, FALSE) /\ "ADMIN_RELEASE" \in Events
      BY <2>5 DEF Release, Events
    <3> QED BY <2>5, <3>1, <3>2, <3>3, ApplyType DEF Release, TypeOK
  <2>6. ASSUME NEW c \in Cfgs, ApplyRiskLimits(c)
        PROVE  TypeOK'
    BY <2>6 DEF ApplyRiskLimits, TypeOK
  <2>7. CASE UNCHANGED vars
    BY <2>7 DEF vars, TypeOK
  <2> QED BY <2>1, <2>2, <2>3, <2>4, <2>5, <2>6, <2>7 DEF Next, Bar
<1> QED BY <1>1, <1>2, PTL DEF Spec

-----------------------------------------------------------------------------
(* What the table does with each event a bar can raise. *)
LEMMA TableRows ==
    ASSUME NEW m \in Modes
    PROVE  /\ TRANSITIONS[m]["HALT_BREACH"] = "HALTED"
           /\ TRANSITIONS[m]["COOL_BREACH"] = IF m = "HALTED" THEN "HALTED" ELSE "COOLDOWN"
           /\ TRANSITIONS[m]["WARN_BREACH"] = IF m = "NORMAL" THEN "WARNING" ELSE m
           /\ TRANSITIONS[m]["STEADY"] = m
           /\ TRANSITIONS[m]["RECOVERY"] = IF m = "WARNING" THEN "NORMAL"
                                           ELSE IF m = "COOLDOWN" THEN "WARNING" ELSE m
           /\ TRANSITIONS[m]["ADMIN_RELEASE"] = IF m = "HALTED" THEN "COOLDOWN" ELSE m
BY DEF Modes, TRANSITIONS

(* A bar that is not a synchronisation ends HALTED exactly when the switch was
   closed or the observation breaches the halt thresholds. *)
LEMMA UpdateHalts ==
    ASSUME TypeOK, NEW nd \in BOOLEAN, NEW e \in Equities, NEW v \in BOOLEAN, Update(nd, e, v)
    PROVE  /\ state' = "HALTED" <=> (tripped \/ HaltBreach(snap', cfg))
           /\ tripped' <=> (tripped \/ HaltBreach(snap', cfg))
<1> DEFINE s == TrackerUpdate(snap, nd, e)
           d == Tick(dwell, DwellCap)
           ev == classify(s, d, v)
<1>1. snap' = s /\ Apply(ev, d, tripped) /\ ~(state = "HALTED" /\ ~tripped)
  BY DEF Update
<1>2. CASE tripped \/ HaltBreach(s, cfg)
  <2>1. ev = "HALT_BREACH"
    BY <1>2 DEF classify
  <2>2. TRANSITIONS[state][ev] = "HALTED"
    BY <2>1, TableRows DEF TypeOK
  <2> HIDE DEF s, d, ev
  <2>3. state' = "HALTED"
    BY <1>1, <2>2 DEF Apply
  <2>4. tripped'
    BY <1>1, <2>2 DEF Apply
  <2> QED BY <1>1, <1>2, <2>3, <2>4
<1>3. CASE ~tripped /\ ~HaltBreach(s, cfg)
  <2>1. state # "HALTED"
    BY <1>1, <1>3
  <2>2. ev \in {"STEADY", "COOL_BREACH", "WARN_BREACH", "RECOVERY"}
    BY <1>3 DEF classify
  <2> HIDE DEF s, d, ev
  <2>3. TRANSITIONS[state][ev] # "HALTED"
    BY <2>1, <2>2, TableRows DEF TypeOK, Modes
  <2>4. state' # "HALTED" /\ ~tripped'
    BY <1>1, <1>3, <2>3 DEF Apply
  <2> QED BY <1>1, <1>3, <2>4
<1> QED BY <1>2, <1>3

(* At the end of every bar the switch and HALTED agree. *)
THEOREM LatchAgrees == Spec => LatchAgreesAfterBar
<1>1. TypeOK /\ [Next]_vars => [snap'.seen /\ Bar => (state' = "HALTED" <=> tripped')]_vars
  <2> SUFFICES ASSUME TypeOK, Bar PROVE state' = "HALTED" <=> tripped'
    BY DEF vars
  <2>1. ASSUME NEW nd \in BOOLEAN, NEW e \in Equities, NEW v \in BOOLEAN, Update(nd, e, v)
        PROVE  state' = "HALTED" <=> tripped'
    BY <2>1, UpdateHalts
  <2>2. ASSUME NEW nd \in BOOLEAN, NEW e \in Equities, UpdateSync(nd, e)
        PROVE  state' = "HALTED" <=> tripped'
    <3>1. Apply("ADMIN_RELEASE", Tick(dwell, DwellCap), tripped) /\ state = "HALTED" /\ ~tripped
      BY <2>2 DEF UpdateSync
    <3>2. TRANSITIONS[state]["ADMIN_RELEASE"] = "COOLDOWN"
      BY <3>1, TableRows DEF TypeOK
    <3>3. state' = "COOLDOWN" /\ ~tripped'
      BY <3>1, <3>2 DEF Apply
    <3> QED BY <3>3
  <2> QED BY <2>1, <2>2 DEF Bar
<1> QED BY <1>1, TypeCorrect, PTL DEF Spec, LatchAgreesAfterBar

-----------------------------------------------------------------------------
(* Every exit is audited.  The inductive form charges an exit in advance while
   HALTED stands with an open switch. *)
AuditInv ==
    /\ trips = releases + (IF tripped THEN 1 ELSE 0)
    /\ exits + (IF state = "HALTED" /\ ~tripped THEN 1 ELSE 0) <= releases

(* HALTED is never left without an administrator's audit row, whichever release
   path was taken. *)
THEOREM ExitsAudited == Spec => []EveryExitAudited
<1>1. Init => AuditInv
  BY DEF Init, AuditInv
<1>2. TypeOK /\ AuditInv /\ [Next]_vars => AuditInv'
  <2> SUFFICES ASSUME TypeOK, AuditInv, [Next]_vars PROVE AuditInv'
    OBVIOUS
  <2>1. ASSUME NEW nd \in BOOLEAN, NEW e \in Equities, NEW v \in BOOLEAN, Update(nd, e, v)
        PROVE  AuditInv'
    <3>1. /\ state' = "HALTED" <=> tripped'
          /\ tripped => tripped'
      BY <2>1, UpdateHalts
    <3>2. ~(state = "HALTED" /\ ~tripped) /\ releases' = releases
      BY <2>1 DEF Update
    <3>3. PICK ev, d : Apply(ev, d, tripped)
      BY <2>1 DEF Update
    <3>4. state = "HALTED" => state' = "HALTED"
      BY <3>1, <3>2
    <3>5. exits' = exits
      BY <3>3, <3>4 DEF Apply
    <3>6. trips' = IF state' = "HALTED" /\ state # "HALTED" /\ ~tripped THEN trips + 1 ELSE trips
      BY <3>3 DEF Apply
    <3> QED BY <3>1, <3>2, <3>4, <3>5, <3>6 DEF AuditInv, TypeOK
  <2>2. ASSUME NEW role \in Roles, Release(role)
        PROVE  AuditInv'
    <3>1. TRANSITIONS[state]["ADMIN_RELEASE"] = "COOLDOWN"
      BY <2>2, TableRows DEF Release, TypeOK
    <3>2. /\ state = "HALTED" /\ state' = "COOLDOWN" /\ ~tripped'
          /\ exits' = exits + 1 /\ trips' = trips
          /\ releases' = IF tripped THEN releases + 1 ELSE releases
      BY <2>2, <3>1 DEF Release, Apply
    <3> QED BY <3>2 DEF AuditInv, TypeOK
  <2>3. ASSUME NEW nd \in BOOLEAN, NEW e \in Equities, UpdateSync(nd, e)
        PROVE  AuditInv'
    <3>1. TRANSITIONS[state]["ADMIN_RELEASE"] = "COOLDOWN"
      BY <2>3, TableRows DEF UpdateSync, TypeOK
    <3>2. /\ state = "HALTED" /\ state' = "COOLDOWN" /\ ~tripped /\ ~tripped'
          /\ exits' = exits + 1 /\ trips' = trips /\ releases' = releases
      BY <2>3, <3>1 DEF UpdateSync, Apply
    <3> QED BY <3>2 DEF AuditInv, TypeOK
  <2>4. CASE Trip
    BY <2>4 DEF Trip, AuditInv, TypeOK
  <2>5. ASSUME NEW role \in Roles, KillSwitchRelease(role)
        PROVE  AuditInv'
    BY <2>5 DEF KillSwitchRelease, AuditInv, TypeOK
  <2>6. ASSUME NEW c \in Cfgs, ApplyRiskLimits(c)
        PROVE  AuditInv'
    BY <2>6 DEF ApplyRiskLimits, AuditInv
  <2>7. CASE UNCHANGED vars
    BY <2>7 DEF vars, AuditInv
  <2> QED BY <2>1, <2>2, <2>3, <2>4, <2>5, <2>6, <2>7 DEF Next, Bar, ReleaseEarly
<1>3. TypeOK /\ AuditInv => EveryExitAudited
  BY DEF AuditInv, EveryExitAudited, TypeOK
<1> QED BY <1>1, <1>2, <1>3, TypeCorrect, PTL DEF Spec

-----------------------------------------------------------------------------
(* A tracker whose peak and day open both equal a positive equity shows no
   breach of any threshold. *)
LEMMA FlatIsClean ==
    ASSUME NEW s \in SnapType, s.peak = s.equity, s.dayOpen = s.equity, s.equity > 0,
           NEW c \in Cfgs
    PROVE  /\ ~HaltBreach(s, c) /\ ~CoolBreach(s, c)
           /\ ~DrawdownAtLeast(s, c.warnEnter)
<1>1. /\ c.haltEnter \in Nat /\ c.coolEnter \in Nat /\ c.warnEnter \in Nat
      /\ c.haltDaily \in Nat /\ c.coolDaily \in Nat
      /\ c.warnExit \in Nat /\ c.coolExit \in Nat
  BY CfgAssumption DEF CfgType
<1>2. /\ c.haltEnter > 0 /\ c.coolEnter > 0 /\ c.warnEnter > 0
      /\ c.haltDaily > 0 /\ c.coolDaily > 0
  BY <1>1, CfgAssumption, ScaleAssumption DEF Ordered
<1>3. s.equity \in Int
  BY DEF SnapType
<1>4. \A t \in Nat : t > 0 => t * s.equity > 0
  BY <1>3
<1>5. (s.equity - s.equity) * Scale = 0
  BY <1>3, ScaleAssumption
<1>6. \A t \in Nat : t > 0 => ~((s.equity - s.equity) * Scale >= t * s.equity)
  BY <1>3, <1>4, <1>5
<1>7. \A t \in Nat : t > 0 => ~DrawdownAtLeast(s, t) /\ ~DayLossAtLeast(s, t)
  BY <1>3, <1>6 DEF DrawdownAtLeast, DayLossAtLeast
<1> QED BY <1>1, <1>2, <1>7 DEF HaltBreach, CoolBreach

(* The inductive form of ReleasedIsClean: HALTED implies an observation, and a
   fresh release leaves the peak and the day open on the current equity. *)
CleanInv ==
    /\ state = "HALTED" => snap.seen
    /\ lastEvent = "ADMIN_RELEASE" /\ dwell = 0 =>
          snap.peak = snap.equity /\ snap.dayOpen = snap.equity

(* After an administrator's release no threshold is breached on an unchanged
   positive equity, so the switch does not latch straight back. *)
THEOREM ReleaseClean == Spec => []ReleasedIsClean
<1>1. Init => CleanInv
  BY DEF Init, CleanInv
<1>2. TypeOK /\ CleanInv /\ [Next]_vars => CleanInv'
  <2> SUFFICES ASSUME TypeOK, CleanInv, [Next]_vars PROVE CleanInv'
    OBVIOUS
  <2>d. Tick(dwell, DwellCap) > 0 /\ Tick(dwell, DwellCap) \in Nat
    BY ScaleAssumption DEF Tick, TypeOK
  <2>1. ASSUME NEW nd \in BOOLEAN, NEW e \in Equities, NEW v \in BOOLEAN, Update(nd, e, v)
        PROVE  CleanInv'
    <3>1. PICK ev \in Events \ {"ADMIN_RELEASE"} : Apply(ev, Tick(dwell, DwellCap), tripped)
      BY <2>1, ClassifyType DEF Update
    <3>2. snap'.seen
      BY <2>1 DEF Update, TrackerUpdate
    <3>3. ~(lastEvent' = "ADMIN_RELEASE" /\ dwell' = 0)
      BY <3>1, <2>d DEF Apply
    <3> QED BY <3>2, <3>3 DEF CleanInv
  <2>2. ASSUME NEW role \in Roles, Release(role)
        PROVE  CleanInv'
    <3>1. snap.seen /\ snap' = Rebase(snap)
      BY <2>2 DEF Release, CleanInv
    <3>2. snap'.seen /\ snap'.peak = snap'.equity /\ snap'.dayOpen = snap'.equity
      BY <3>1 DEF Rebase, TypeOK, SnapType
    <3> QED BY <3>2 DEF CleanInv
  <2>3. ASSUME NEW nd \in BOOLEAN, NEW e \in Equities, UpdateSync(nd, e)
        PROVE  CleanInv'
    <3> DEFINE s == TrackerUpdate(snap, nd, e)
    <3>1. s \in SnapType /\ s.seen
      BY TrackerType, EquityAssumption DEF TypeOK, TrackerUpdate
    <3> HIDE DEF s
    <3>2. snap' = Rebase(s)
      BY <2>3 DEF UpdateSync, s
    <3>3. snap'.seen /\ snap'.peak = snap'.equity /\ snap'.dayOpen = snap'.equity
      BY <3>1, <3>2 DEF Rebase, SnapType
    <3> QED BY <3>3 DEF CleanInv
  <2>4. CASE Trip
    BY <2>4 DEF Trip, CleanInv
  <2>5. ASSUME NEW role \in Roles, KillSwitchRelease(role)
        PROVE  CleanInv'
    BY <2>5 DEF KillSwitchRelease, CleanInv
  <2>6. ASSUME NEW c \in Cfgs, ApplyRiskLimits(c)
        PROVE  CleanInv'
    BY <2>6 DEF ApplyRiskLimits, CleanInv
  <2>7. CASE UNCHANGED vars
    BY <2>7 DEF vars, CleanInv
  <2> QED BY <2>1, <2>2, <2>3, <2>4, <2>5, <2>6, <2>7 DEF Next, Bar, ReleaseEarly
<1>3. TypeOK /\ CleanInv => ReleasedIsClean
  BY FlatIsClean DEF CleanInv, ReleasedIsClean, TypeOK
<1> QED BY <1>1, <1>2, <1>3, TypeCorrect, PTL DEF Spec

(* A release is audited and leaves no breach behind. *)
THEOREM ReleasesSound == Spec => []ReleasesAreSound
BY ExitsAudited, ReleaseClean, PTL DEF ReleasesAreSound

-----------------------------------------------------------------------------
(* How sinceHalt pays for each step down: in COOLDOWN it covers the dwell there,
   in WARNING a full cooldown dwell as well, in NORMAL both dwells. *)
DwellInv ==
    /\ state = "COOLDOWN" => sinceHalt >= dwell
    /\ state = "WARNING"  => \E c \in Cfgs : sinceHalt >= c.coolDwell + dwell
    /\ state = "NORMAL"   => \E c1, c2 \in Cfgs : sinceHalt >= c1.coolDwell + c2.warnDwell

(* What an ordinary bar does to the mode: it stays, moves up, or moves down one
   level after the dwell of the level it leaves. *)
LEMMA UpdateMoves ==
    ASSUME TypeOK, NEW nd \in BOOLEAN, NEW e \in Equities, NEW v \in BOOLEAN, Update(nd, e, v)
    PROVE  \/ state' = state /\ dwell' = Tick(dwell, DwellCap)
           \/ SEVERITY[state'] > SEVERITY[state] /\ dwell' = 0
           \/ /\ state = "COOLDOWN" /\ state' = "WARNING" /\ dwell' = 0
              /\ Tick(dwell, DwellCap) >= cfg.coolDwell /\ ~CoolBreach(snap', cfg)
           \/ /\ state = "WARNING" /\ state' = "NORMAL" /\ dwell' = 0
              /\ Tick(dwell, DwellCap) >= cfg.warnDwell /\ ~CoolBreach(snap', cfg)
              /\ ~DrawdownAtLeast(snap', cfg.warnEnter)
<1> DEFINE s == TrackerUpdate(snap, nd, e)
           d == Tick(dwell, DwellCap)
           ev == classify(s, d, v)
<1>1. snap' = s /\ Apply(ev, d, tripped)
  BY DEF Update
<1>2. ev \in Events \ {"ADMIN_RELEASE"}
  BY ClassifyType
<1>3. ev = "RECOVERY" =>
        \/ state = "COOLDOWN" /\ d >= cfg.coolDwell /\ ~CoolBreach(s, cfg)
        \/ /\ state = "WARNING" /\ d >= cfg.warnDwell /\ ~CoolBreach(s, cfg)
           /\ ~DrawdownAtLeast(s, cfg.warnEnter)
  BY DEF classify
<1> HIDE DEF s, d, ev
<1>4. state' = TRANSITIONS[state][ev]
  BY <1>1 DEF Apply
<1>5. /\ state' = state => dwell' = d
      /\ state' # state => dwell' = 0
  BY <1>1, <1>4 DEF Apply
<1>6. \/ state' = state
      \/ SEVERITY[state'] > SEVERITY[state]
      \/ ev = "RECOVERY" /\ state = "COOLDOWN" /\ state' = "WARNING"
      \/ ev = "RECOVERY" /\ state = "WARNING" /\ state' = "NORMAL"
  BY <1>2, <1>4, TableRows DEF TypeOK, Modes, Events, SEVERITY
<1> QED BY <1>1, <1>3, <1>5, <1>6 DEF d, SEVERITY, TypeOK, Modes

(* After HALTED, NORMAL is reached only through a full cooldown dwell and a full
   warning dwell of thresholds that were in force. *)
THEOREM RecoveryDwells == Spec => []RecoveryTakesDwell
<1>c. \A c \in Cfgs : /\ c.coolDwell \in Nat /\ c.warnDwell \in Nat
                       /\ c.coolDwell <= DwellCap /\ c.warnDwell <= DwellCap
  BY CfgAssumption DEF CfgType
<1>1. Init => DwellInv
  BY <1>c, ScaleAssumption DEF Init, DwellInv
<1>2. TypeOK /\ DwellInv /\ [Next]_vars => DwellInv'
  <2> SUFFICES ASSUME TypeOK, DwellInv, [Next]_vars PROVE DwellInv'
    OBVIOUS
  <2>1. ASSUME NEW nd \in BOOLEAN, NEW e \in Equities, NEW v \in BOOLEAN, Update(nd, e, v)
        PROVE  DwellInv'
    <3> DEFINE d == Tick(dwell, DwellCap)
               h == Tick(sinceHalt, 2 * DwellCap)
    <3>1. /\ d \in 0..DwellCap /\ d >= dwell /\ d <= dwell + 1
          /\ h \in 0..(2 * DwellCap) /\ h >= sinceHalt
          /\ h < 2 * DwellCap => h = sinceHalt + 1
      BY ScaleAssumption DEF Tick, TypeOK
    <3>2. state' # "HALTED" /\ state # "HALTED" => sinceHalt' = h
      <4>1. PICK ev : Apply(ev, Tick(dwell, DwellCap), tripped)
        BY <2>1 DEF Update
      <4> QED BY <4>1 DEF Apply
    <3>3. state = "HALTED" => state' = "HALTED"
      BY <2>1, UpdateHalts DEF Update
    <3>4. cfg \in Cfgs /\ sinceHalt \in Nat /\ dwell \in 0..DwellCap /\ DwellCap \in Nat
          /\ state \in Modes
      BY ScaleAssumption DEF TypeOK
    <3> HIDE DEF d, h
    <3>5. CASE state' = state /\ dwell' = d
      <4>1. CASE state = "COOLDOWN"
        BY <3>1, <3>2, <3>4, <3>5, <4>1 DEF DwellInv
      <4>2. CASE state = "WARNING"
        <5>1. PICK c \in Cfgs : sinceHalt >= c.coolDwell + dwell
          BY <4>2 DEF DwellInv
        <5>2. h >= c.coolDwell + d
          BY <3>1, <3>4, <5>1, <1>c
        <5> QED BY <3>2, <3>5, <4>2, <5>2 DEF DwellInv
      <4>3. CASE state = "NORMAL"
        <5>1. PICK c1 \in Cfgs, c2 \in Cfgs : sinceHalt >= c1.coolDwell + c2.warnDwell
          BY <4>3 DEF DwellInv
        <5>2. h >= c1.coolDwell + c2.warnDwell
          BY <3>1, <3>4, <5>1, <1>c
        <5> QED BY <3>2, <3>5, <4>3, <5>2 DEF DwellInv
      <4>4. CASE state = "HALTED"
        BY <3>5, <4>4 DEF DwellInv
      <4> QED BY <3>4, <4>1, <4>2, <4>3, <4>4 DEF Modes
    <3>6. CASE SEVERITY[state'] > SEVERITY[state] /\ dwell' = 0
      <4>1. state' \in {"HALTED", "COOLDOWN"} \/ (state' = "WARNING" /\ state = "NORMAL")
        <5>1. PICK ev \in Events : state' = TRANSITIONS[state][ev]
          BY <2>1, ClassifyType DEF Update, Apply
        <5> QED BY <3>4, <3>6, <5>1, TableType DEF Modes, SEVERITY
      <4>2. CASE state' = "HALTED"
        BY <4>2 DEF DwellInv
      <4>3. CASE state' = "COOLDOWN"
        BY <3>1, <3>2, <3>3, <3>6, <4>3 DEF DwellInv
      <4>4. CASE state' = "WARNING" /\ state = "NORMAL"
        <5>1. PICK c1 \in Cfgs, c2 \in Cfgs : sinceHalt >= c1.coolDwell + c2.warnDwell
          BY <4>4 DEF DwellInv
        <5>2. h >= c1.coolDwell + 0
          BY <3>1, <3>4, <5>1, <1>c
        <5> QED BY <3>2, <3>6, <4>4, <5>2 DEF DwellInv
      <4> QED BY <4>1, <4>2, <4>3, <4>4
    <3>7. CASE state = "COOLDOWN" /\ state' = "WARNING" /\ dwell' = 0 /\ d >= cfg.coolDwell
      <4>1. h >= cfg.coolDwell + 0
        BY <3>1, <3>4, <3>7, <1>c DEF DwellInv
      <4> QED BY <3>2, <3>4, <3>7, <4>1 DEF DwellInv
    <3>8. CASE state = "WARNING" /\ state' = "NORMAL" /\ dwell' = 0 /\ d >= cfg.warnDwell
      <4>1. PICK c \in Cfgs : sinceHalt >= c.coolDwell + dwell
        BY <3>8 DEF DwellInv
      <4>2. h >= c.coolDwell + cfg.warnDwell
        BY <3>1, <3>4, <3>8, <4>1, <1>c
      <4>3. cfg \in Cfgs /\ sinceHalt' = h
        BY <3>2, <3>4, <3>8
      <4> QED BY <3>8, <4>2, <4>3 DEF DwellInv
    <3> QED BY <2>1, UpdateMoves, <3>5, <3>6, <3>7, <3>8 DEF d
  <2>2. ASSUME NEW role \in Roles, Release(role)
        PROVE  DwellInv'
    <3>1. TRANSITIONS[state]["ADMIN_RELEASE"] = "COOLDOWN"
      BY <2>2, TableRows DEF Release, TypeOK
    <3>2. state' = "COOLDOWN" /\ dwell' = 0 /\ sinceHalt' = 0
      BY <2>2, <3>1 DEF Release, Apply
    <3> QED BY <3>2 DEF DwellInv
  <2>3. ASSUME NEW nd \in BOOLEAN, NEW e \in Equities, UpdateSync(nd, e)
        PROVE  DwellInv'
    <3>1. TRANSITIONS[state]["ADMIN_RELEASE"] = "COOLDOWN"
      BY <2>3, TableRows DEF UpdateSync, TypeOK
    <3>2. state' = "COOLDOWN" /\ dwell' = 0 /\ sinceHalt' = 0
      BY <2>3, <3>1 DEF UpdateSync, Apply
    <3> QED BY <3>2 DEF DwellInv
  <2>4. CASE Trip
    BY <2>4 DEF Trip, DwellInv
  <2>5. ASSUME NEW role \in Roles, KillSwitchRelease(role)
        PROVE  DwellInv'
    BY <2>5 DEF KillSwitchRelease, DwellInv
  <2>6. ASSUME NEW c \in Cfgs, ApplyRiskLimits(c)
        PROVE  DwellInv'
    BY <2>6 DEF ApplyRiskLimits, DwellInv
  <2>7. CASE UNCHANGED vars
    BY <2>7 DEF vars, DwellInv
  <2> QED BY <2>1, <2>2, <2>3, <2>4, <2>5, <2>6, <2>7 DEF Next, Bar, ReleaseEarly
<1>3. DwellInv => RecoveryTakesDwell
  BY DEF DwellInv, RecoveryTakesDwell
<1> QED BY <1>1, <1>2, <1>3, TypeCorrect, PTL DEF Spec

-----------------------------------------------------------------------------
(* A bar never ends in a mode milder than its own breach calls for. *)
THEOREM BreachStated == Spec => BreachNeverUnderstated
<1>1. TypeOK /\ [Next]_vars =>
        [snap'.equity > 0 /\ Bar => SEVERITY[state'] >= BreachLevel(snap', cfg)]_vars
  <2> SUFFICES ASSUME TypeOK, Bar, snap'.equity > 0
               PROVE  SEVERITY[state'] >= BreachLevel(snap', cfg)
    BY DEF vars
  <2>1. ASSUME NEW nd \in BOOLEAN, NEW e \in Equities, NEW v \in BOOLEAN, Update(nd, e, v)
        PROVE  SEVERITY[state'] >= BreachLevel(snap', cfg)
    <3> DEFINE s == TrackerUpdate(snap, nd, e)
               ev == classify(s, Tick(dwell, DwellCap), v)
    <3>1. snap' = s /\ state' = TRANSITIONS[state][ev]
      BY <2>1 DEF Update, Apply
    <3>2. state \in Modes
      BY DEF TypeOK
    <3>3. CASE HaltBreach(s, cfg)
      <4>1. ev = "HALT_BREACH"
        BY <3>3 DEF classify
      <4> HIDE DEF s, ev
      <4>2. state' = "HALTED"
        BY <3>1, <3>2, <4>1, TableRows
      <4> QED BY <3>1, <3>3, <4>2 DEF BreachLevel, SEVERITY
    <3>4. CASE ~HaltBreach(s, cfg) /\ CoolBreach(s, cfg)
      <4>1. ev \in {"HALT_BREACH", "COOL_BREACH"} \/ (ev = "STEADY" /\ state = "HALTED")
        BY <3>4 DEF classify
      <4> HIDE DEF s, ev
      <4>2. state' \in {"HALTED", "COOLDOWN"}
        BY <3>1, <3>2, <4>1, TableRows
      <4> QED BY <3>1, <3>4, <4>2 DEF BreachLevel, SEVERITY
    <3>5. CASE ~HaltBreach(s, cfg) /\ ~CoolBreach(s, cfg) /\ DrawdownAtLeast(s, cfg.warnEnter)
      <4>1. \/ ev \in {"HALT_BREACH", "WARN_BREACH"}
            \/ ev \in {"STEADY", "RECOVERY"} /\ state \in {"HALTED", "COOLDOWN"}
        BY <3>2, <3>5 DEF classify, Modes
      <4> HIDE DEF s, ev
      <4>2. state' \in {"HALTED", "COOLDOWN", "WARNING"}
        BY <3>1, <3>2, <4>1, TableRows DEF Modes
      <4> QED BY <3>1, <3>5, <4>2 DEF BreachLevel, SEVERITY
    <3>6. CASE ~HaltBreach(s, cfg) /\ ~CoolBreach(s, cfg) /\ ~DrawdownAtLeast(s, cfg.warnEnter)
      <4>1. ev \in Events
        BY ClassifyType
      <4> HIDE DEF s, ev
      <4>2. state' \in Modes
        BY <3>1, <3>2, <4>1, TableType
      <4> QED BY <3>1, <3>6, <4>2 DEF BreachLevel, SEVERITY, Modes
    <3> QED BY <3>3, <3>4, <3>5, <3>6
  <2>2. ASSUME NEW nd \in BOOLEAN, NEW e \in Equities, UpdateSync(nd, e)
        PROVE  SEVERITY[state'] >= BreachLevel(snap', cfg)
    <3> DEFINE s == TrackerUpdate(snap, nd, e)
    <3>1. s \in SnapType /\ s.seen
      BY TrackerType, EquityAssumption DEF TypeOK, TrackerUpdate
    <3> HIDE DEF s
    <3>2. snap' = Rebase(s)
      BY <2>2 DEF UpdateSync, s
    <3>3. snap' \in SnapType /\ snap'.peak = snap'.equity /\ snap'.dayOpen = snap'.equity
      BY <3>1, <3>2 DEF Rebase, SnapType
    <3>4. BreachLevel(snap', cfg) = 0
      BY <3>3, FlatIsClean DEF BreachLevel, TypeOK
    <3>5. TRANSITIONS[state]["ADMIN_RELEASE"] = "COOLDOWN"
      BY <2>2, TableRows DEF UpdateSync, TypeOK
    <3>6. state' = "COOLDOWN"
      BY <2>2, <3>5 DEF UpdateSync, Apply
    <3> QED BY <3>4, <3>6 DEF SEVERITY
  <2> QED BY <2>1, <2>2 DEF Bar
<1> QED BY <1>1, TypeCorrect, PTL DEF Spec, BreachNeverUnderstated

-----------------------------------------------------------------------------
(* The machine implements RiskMode: initial states map to initial states and
   every step to a step of the contract or to a stutter. *)
THEOREM RefinesRiskMode == Spec => ImplementsRiskMode
<1>1. Init => RM!Init
  BY DEF Init, RM!Init, SEVERITY
<1>2. TypeOK /\ [Next]_vars => [RM!Next]_(RM!modeVars)
  <2> SUFFICES ASSUME TypeOK, [Next]_vars
               PROVE  RM!Next \/ (SEVERITY[state'] = SEVERITY[state] /\ tripped' = tripped)
    BY DEF RM!modeVars
  <2>1. ASSUME NEW nd \in BOOLEAN, NEW e \in Equities, NEW v \in BOOLEAN, Update(nd, e, v)
        PROVE  RM!Next \/ (SEVERITY[state'] = SEVERITY[state] /\ tripped' = tripped)
    <3>1. /\ state' = "HALTED" <=> tripped'
          /\ tripped => tripped'
          /\ ~(state = "HALTED" /\ ~tripped)
          /\ state \in Modes
          /\ tripped \in BOOLEAN
      BY <2>1, UpdateHalts DEF Update, TypeOK
    <3>t. state' \in Modes /\ tripped' \in BOOLEAN
      <4>1. PICK ev \in Events : Apply(ev, Tick(dwell, DwellCap), tripped)
        BY <2>1, ClassifyType DEF Update
      <4> QED BY <4>1, TickType, ScaleAssumption, ApplyType DEF TypeOK
    <3>2. CASE state' = state
      <4>1. CASE tripped' = tripped
        BY <3>2, <4>1
      <4>2. CASE ~tripped /\ tripped'
        BY <3>1, <3>2, <4>2
      <4> QED BY <3>1, <3>t, <4>1, <4>2
    <3>3. CASE SEVERITY[state'] > SEVERITY[state]
      <4>1. SEVERITY[state'] \in 1..3
        BY <3>1, <3>t, <3>3 DEF SEVERITY, Modes
      <4>2. SEVERITY[state'] = 3 <=> state' = "HALTED"
        BY <3>t DEF SEVERITY, Modes
      <4>3. SEVERITY[state'] = 3 \/ ~tripped
        BY <3>1, <4>2
      <4>4. tripped' = (tripped \/ SEVERITY[state'] = 3)
        BY <3>1, <3>t, <4>2
      <4>5. RM!Escalate(SEVERITY[state'])
        BY <3>3, <4>3, <4>4 DEF RM!Escalate, RM!Halted
      <4> QED BY <4>1, <4>5 DEF RM!Next
    <3>4. CASE \/ state = "COOLDOWN" /\ state' = "WARNING"
               \/ state = "WARNING" /\ state' = "NORMAL"
      <4>1. ~tripped /\ ~tripped' /\ tripped' = tripped
        BY <3>1, <3>t, <3>4
      <4>2. SEVERITY[state] \in 1..2 /\ SEVERITY[state'] = SEVERITY[state] - 1
        BY <3>4 DEF SEVERITY
      <4>3. RM!Recover
        BY <4>1, <4>2 DEF RM!Recover
      <4> QED BY <4>3 DEF RM!Next
    <3> QED BY <2>1, UpdateMoves, <3>2, <3>3, <3>4
  <2>2. ASSUME state = "HALTED", state' = "COOLDOWN", tripped' = FALSE
        PROVE  RM!Next
    <3>1. RM!Release
      BY <2>2 DEF RM!Release, RM!Halted, SEVERITY
    <3> QED BY <3>1 DEF RM!Next
  <2>3. ASSUME NEW nd \in BOOLEAN, NEW e \in Equities, UpdateSync(nd, e)
        PROVE  RM!Next
    <3>1. TRANSITIONS[state]["ADMIN_RELEASE"] = "COOLDOWN"
      BY <2>3, TableRows DEF UpdateSync, TypeOK
    <3>2. state = "HALTED" /\ state' = "COOLDOWN" /\ ~tripped'
      BY <2>3, <3>1 DEF UpdateSync, Apply
    <3>3. tripped' \in BOOLEAN
      BY <2>3 DEF UpdateSync, Apply
    <3>4. tripped' = FALSE
      BY <3>2, <3>3
    <3> QED BY <2>2, <3>2, <3>4
  <2>4. ASSUME NEW role \in Roles, Release(role)
        PROVE  RM!Next
    <3>1. TRANSITIONS[state]["ADMIN_RELEASE"] = "COOLDOWN"
      BY <2>4, TableRows DEF Release, TypeOK
    <3>2. state = "HALTED" /\ state' = "COOLDOWN" /\ ~tripped'
      BY <2>4, <3>1 DEF Release, Apply
    <3>3. tripped' \in BOOLEAN
      BY <2>4 DEF Release, Apply
    <3>4. tripped' = FALSE
      BY <3>2, <3>3
    <3> QED BY <2>2, <3>2, <3>4
  <2>5. CASE Trip
    BY <2>5, Zenon DEF Trip, RM!Trip, RM!Next
  <2>6. ASSUME NEW role \in Roles, KillSwitchRelease(role)
        PROVE  RM!Next
    BY <2>6, Zenon DEF KillSwitchRelease, RM!Open, RM!Next
  <2>7. ASSUME NEW c \in Cfgs, ApplyRiskLimits(c)
        PROVE  SEVERITY[state'] = SEVERITY[state] /\ tripped' = tripped
    BY <2>7 DEF ApplyRiskLimits
  <2>8. CASE UNCHANGED vars
    BY <2>8 DEF vars
  <2> QED BY <2>1, <2>3, <2>4, <2>5, <2>6, <2>7, <2>8 DEF Next, Bar, ReleaseEarly
<1> QED BY <1>1, <1>2, TypeCorrect, PTL DEF Spec, ImplementsRiskMode, RM!Spec

-----------------------------------------------------------------------------
(* The pre-trade risk chain. *)

GuardContexts ==
    [cur : Int, target : Int, price : Nat \ {0}, equity : Int, atr : Nat, other : Nat,
     level : 0 .. 3, tripped : BOOLEAN, scaled : BOOLEAN, stale : BOOLEAN, dayBreach : BOOLEAN,
     halt : BOOLEAN]

IsVerdict(v) == v[1] \in Nat /\ v[2] \in Nat \ {0} /\ v[1] <= v[2]

(* A part x of the quantity q that the verdict allows. *)
Fits(x, q, v) == x * v[2] <= q * v[1]

-----------------------------------------------------------------------------
(* Verdicts. *)

LEMMA AllowVeto == IsVerdict(ALLOW) /\ IsVerdict(VETO)
  BY DEF IsVerdict, ALLOW, VETO

LEMMA BothIsVerdict ==
    ASSUME NEW v, NEW w, IsVerdict(v), IsVerdict(w)
    PROVE  IsVerdict(Both(v, w))
<1> DEFINE a == v[1]  b == v[2]  c == w[1]  d == w[2]
<1>1. a \in Nat /\ b \in Nat \ {0} /\ c \in Nat /\ d \in Nat \ {0} /\ a <= b /\ c <= d
  BY DEF IsVerdict
<1>2. Both(v, w)[1] = a * c /\ Both(v, w)[2] = b * d
  BY DEF Both
<1> HIDE DEF a, b, c, d
<1>3. a * c \in Nat /\ b * d \in Nat \ {0}
  BY <1>1
<1>4. a * c <= b * c /\ b * c <= b * d
  BY <1>1
<1>5. a * c <= b * d
  BY <1>1, <1>3, <1>4
<1> QED BY <1>2, <1>3, <1>5 DEF IsVerdict

(* What fits the composition of two verdicts fits each of them. *)
LEMMA FitsBoth ==
    ASSUME NEW v, NEW w, IsVerdict(v), IsVerdict(w), NEW x \in Nat, NEW q \in Nat,
           Fits(x, q, Both(v, w))
    PROVE  Fits(x, q, v) /\ Fits(x, q, w)
<1> DEFINE a == v[1]  b == v[2]  c == w[1]  d == w[2]
<1>1. a \in Nat /\ b \in Nat \ {0} /\ c \in Nat /\ d \in Nat \ {0} /\ a <= b /\ c <= d
  BY DEF IsVerdict
<1>2. x * (b * d) <= q * (a * c)
  BY DEF Both, Fits
<1>3. (Fits(x, q, v) <=> x * b <= q * a) /\ (Fits(x, q, w) <=> x * d <= q * c)
  BY DEF Fits
<1> HIDE DEF a, b, c, d
<1>4. x * b <= q * a
  <2>1. q * (a * c) <= (q * a) * d
    <3>1. q * (a * c) = (q * a) * c /\ q * a \in Nat
      BY <1>1
    <3> QED BY <1>1, <3>1
  <2>2. x * (b * d) = (x * b) * d /\ x * b \in Nat /\ q * a \in Nat /\ q * (a * c) \in Nat
    BY <1>1
  <2>3. (x * b) * d <= (q * a) * d
    BY <1>1, <1>2, <2>1, <2>2
  <2> QED BY <1>1, <2>2, <2>3
<1>5. x * d <= q * c
  <2>1. q * (a * c) <= (q * c) * b
    <3>1. q * (a * c) = (q * c) * a /\ q * c \in Nat
      BY <1>1
    <3> QED BY <1>1, <3>1
  <2>2. x * (b * d) = (x * d) * b /\ x * d \in Nat /\ q * c \in Nat /\ q * (a * c) \in Nat
    BY <1>1
  <2>3. (x * d) * b <= (q * c) * b
    BY <1>1, <1>2, <2>1, <2>2
  <2> QED BY <1>1, <2>2, <2>3
<1> QED BY <1>3, <1>4, <1>5

(* The floor fits, and never exceeds what was asked. *)
LEMMA ExposureFits ==
    ASSUME NEW v, IsVerdict(v), NEW q \in Nat
    PROVE  exposure(v, q) \in 0 .. q /\ Fits(exposure(v, q), q, v)
<1> DEFINE a == v[1]  b == v[2]  x == (q * a) \div b
<1>1. a \in Nat /\ b \in Nat \ {0} /\ a <= b
  BY DEF IsVerdict
<1>2. exposure(v, q) = x /\ (Fits(x, q, v) <=> x * b <= q * a)
  BY DEF exposure, Fits
<1> HIDE DEF a, b
<1>3. q * a \in Nat /\ q * a <= q * b
  BY <1>1
<1>4. x \in Nat /\ x * b <= q * a
  <2>1. \A y \in Nat, z \in Nat \ {0} : y \div z \in Nat /\ (y \div z) * z <= y
    OBVIOUS
  <2> QED BY <1>1, <1>3, <2>1
<1> HIDE DEF x
<1>5. x <= q
  <2>1. x * b <= q * b
    BY <1>1, <1>3, <1>4
  <2> QED BY <1>1, <1>4, <2>1
<1> QED BY <1>2, <1>4, <1>5

-----------------------------------------------------------------------------
(* The part of a target that is kept, and the increase. *)

LEMMA KeptPart ==
    ASSUME NEW c \in GuardContexts
    PROVE  /\ BaseQty(c) \in Nat /\ IncreaseQty(c) \in Nat /\ PostQty(c) \in Nat
           /\ PostQty(c) = BaseQty(c) + IncreaseQty(c) /\ PostQty(c) = abs(c.target)
           /\ BaseQty(c) = 0 /\ c.target # 0 => sign(c.cur) # sign(c.target)
<1>1. c.cur \in Int /\ c.target \in Int
  BY DEF GuardContexts
<1> DEFINE u == c.cur  t == c.target
<1>2. \A x \in Int : abs(x) \in Nat /\ (abs(x) = 0 <=> x = 0) /\ sign(x) \in {-1, 0, 1}
                     /\ (sign(x) = 0 <=> x = 0)
  BY DEF abs, sign
<1>3. CASE t = 0 \/ IsFlip(c)
  <2>1. BaseQty(c) = 0
    BY <1>3 DEF BaseQty
  <2>2. IsFlip(c) => sign(c.cur) # sign(c.target)
    BY <1>1, <1>2 DEF IsFlip
  <2> QED BY <1>1, <1>2, <1>3, <2>1, <2>2 DEF IncreaseQty, PostQty
<1>4. CASE ~(t = 0 \/ IsFlip(c))
  <2>1. BaseQty(c) = IF abs(u) < abs(t) THEN abs(u) ELSE abs(t)
    BY <1>4 DEF BaseQty
  <2>2. BaseQty(c) = 0 => u = 0
    BY <1>1, <1>2, <1>4, <2>1
  <2> QED BY <1>1, <1>2, <1>4, <2>1, <2>2 DEF IncreaseQty, PostQty
<1> QED BY <1>3, <1>4

LEMMA VetoIncreaseRight ==
    ASSUME NEW c \in GuardContexts, NEW bad \in BOOLEAN
    PROVE  /\ IsVerdict(VetoIncrease(c, bad))
           /\ \A x \in Nat : x > 0 /\ Fits(x, IncreaseQty(c), VetoIncrease(c, bad)) => ~bad
<1>1. IncreaseQty(c) \in Nat
  BY KeptPart
<1>2. \A x \in Nat : Fits(x, IncreaseQty(c), VETO) => x = 0
  BY <1>1 DEF Fits, VETO
<1>3. \A x \in Nat : Fits(x, IncreaseQty(c), ALLOW) => x <= IncreaseQty(c)
  BY <1>1 DEF Fits, ALLOW
<1>4. CASE bad /\ IncreaseQty(c) > 0
  BY <1>1, <1>2, <1>4, AllowVeto DEF VetoIncrease
<1>5. CASE ~(bad /\ IncreaseQty(c) > 0)
  BY <1>1, <1>3, <1>5, AllowVeto DEF VetoIncrease
<1> QED BY <1>4, <1>5

(* A cap: what fits its verdict, on top of what is kept, stays within the cap. *)
LEMMA CapRight ==
    ASSUME NEW c \in GuardContexts, NEW cap, cap[1] \in Int, cap[2] \in Nat \ {0}
    PROVE  /\ IsVerdict(cap_increase(c, cap))
           /\ \A x \in Nat : x > 0 /\ Fits(x, IncreaseQty(c), cap_increase(c, cap))
                             => AtMost(BaseQty(c) + x, cap)
<1> DEFINE base == BaseQty(c)
           inc == IncreaseQty(c)
           n == cap[1]
           d == cap[2]
           room == n - base * d
<1>1. base \in Nat /\ inc \in Nat /\ PostQty(c) = base + inc /\ n \in Int /\ d \in Nat \ {0}
  BY KeptPart
<1>2. \A q : AtMost(q, cap) <=> q * d <= n
  BY DEF AtMost
<1>3. cap_increase(c, cap) = IF inc <= 0 \/ (base + inc) * d <= n THEN ALLOW
                             ELSE IF room <= 0 THEN VETO ELSE <<room, d * inc>>
  BY <1>1, <1>2 DEF cap_increase
<1>4. \A x \in Nat : /\ Fits(x, inc, VETO) => x = 0
                     /\ Fits(x, inc, ALLOW) => x <= inc
  BY <1>1 DEF Fits, VETO, ALLOW
<1> HIDE DEF base, inc, n, d
<1>5. room \in Int /\ base * d \in Nat /\ inc * d \in Nat /\ d * inc = inc * d
      /\ (base + inc) * d = base * d + inc * d
  BY <1>1
<1>6. CASE inc <= 0 \/ (base + inc) * d <= n
  <2> SUFFICES ASSUME NEW x \in Nat, x > 0, x <= inc PROVE (base + x) * d <= n
    BY <1>2, <1>3, <1>4, <1>6, AllowVeto DEF base, inc
  <2>1. (base + x) * d <= (base + inc) * d
    BY <1>1
  <2>2. (base + x) * d \in Int /\ (base + inc) * d \in Int
    BY <1>1
  <2> QED BY <1>1, <1>6, <2>1, <2>2
<1>7. CASE ~(inc <= 0 \/ (base + inc) * d <= n) /\ room <= 0
  BY <1>3, <1>4, <1>7, AllowVeto DEF inc
<1>8. CASE ~(inc <= 0 \/ (base + inc) * d <= n) /\ room > 0
  <2>1. cap_increase(c, cap) = <<room, d * inc>>
    BY <1>3, <1>5, <1>8
  <2>2. IsVerdict(<<room, d * inc>>)
    <3>1. room \in Nat /\ room <= inc * d /\ inc * d > 0
      BY <1>1, <1>5, <1>8
    <3> HIDE DEF room
    <3> QED BY <1>5, <3>1 DEF IsVerdict
  <2>3. ASSUME NEW x \in Nat, Fits(x, inc, <<room, d * inc>>) PROVE (base + x) * d <= n
    <3>1. x * (d * inc) <= inc * room
      BY <2>3 DEF Fits
    <3>2. x * (d * inc) = (x * d) * inc /\ inc * room = room * inc /\ x * d \in Int
      BY <1>1, <1>5
    <3>3. x * d <= room
      <4> HIDE DEF room
      <4>1. (x * d) * inc <= room * inc /\ inc > 0
        BY <1>1, <1>8, <3>1, <3>2
      <4> QED BY <1>1, <1>5, <3>2, <4>1
    <3>4. (base + x) * d = base * d + x * d
      BY <1>1
    <3> QED BY <1>1, <1>5, <3>2, <3>3, <3>4
  <2> QED BY <1>2, <2>1, <2>2, <2>3 DEF base, inc
<1> QED BY <1>5, <1>6, <1>7, <1>8

-----------------------------------------------------------------------------
(* The rules. *)

LEMMA LimitTypes ==
    /\ MarginFrac[1] \in Nat \ {0} /\ MarginFrac[2] \in Nat \ {0}
    /\ BufferFrac[1] \in Nat \ {0} /\ BufferFrac[2] \in Nat \ {0}
    /\ Mmr[1] \in Nat \ {0} /\ Mmr[2] \in Nat \ {0} /\ Mmr[1] < Mmr[2]
    /\ LevSet \in Nat \ {0} /\ MaxLeverage \in Nat \ {0} /\ MinDtl \in Nat \ {0}
    /\ StopMult \in Nat \ {0}
  BY LimitAssumption DEF LimitsCfg

LEMMA ContextTypes ==
    ASSUME NEW c \in GuardContexts
    PROVE  /\ c.cur \in Int /\ c.target \in Int /\ c.price \in Nat \ {0} /\ c.equity \in Int
           /\ c.atr \in Nat /\ c.other \in Nat /\ c.level \in 0 .. 3 /\ c.tripped \in BOOLEAN
           /\ c.scaled \in BOOLEAN /\ c.stale \in BOOLEAN /\ c.dayBreach \in BOOLEAN
           /\ c.halt \in BOOLEAN
  BY DEF GuardContexts

LEMMA NotionalRight ==
    ASSUME NEW c \in GuardContexts
    PROVE  /\ IsVerdict(MaxPositionNotional(c))
           /\ \A x \in Nat : x > 0 /\ Fits(x, IncreaseQty(c), MaxPositionNotional(c)) =>
                /\ c.equity > 0
                /\ (BaseQty(c) + x) * c.price * MarginFrac[2] <= MarginFrac[1] * c.equity * LevSet
<1> DEFINE cap == <<MarginFrac[1] * c.equity * LevSet, MarginFrac[2] * c.price>>
<1>1. c.equity \in Int /\ c.price \in Nat \ {0} /\ BaseQty(c) \in Nat
  BY ContextTypes, KeptPart
<1>2. CASE c.equity <= 0
  BY <1>1, <1>2, VetoIncreaseRight DEF MaxPositionNotional
<1>3. CASE c.equity > 0
  <2>1. cap[1] \in Int /\ cap[2] \in Nat \ {0}
    BY <1>1, LimitTypes
  <2>2. MaxPositionNotional(c) = cap_increase(c, cap)
    <3>1. ~(c.equity <= 0)
      BY <1>1, <1>3
    <3> QED BY ONLY <3>1, Zenon DEF MaxPositionNotional
  <2>3. \A q \in Nat : AtMost(q, cap)
                       <=> q * c.price * MarginFrac[2] <= MarginFrac[1] * c.equity * LevSet
    <3> SUFFICES ASSUME NEW q \in Nat PROVE q * (MarginFrac[2] * c.price) = q * c.price * MarginFrac[2]
      BY DEF AtMost
    <3> QED BY <1>1, LimitTypes
  <2> HIDE DEF cap
  <2>4. \A x \in Nat : BaseQty(c) + x \in Nat
    BY <1>1
  <2> QED BY <1>3, <2>1, <2>2, <2>3, <2>4, CapRight
<1> QED BY <1>1, <1>2, <1>3

LEMMA LeverageRight ==
    ASSUME NEW c \in GuardContexts
    PROVE  /\ IsVerdict(MaxGrossLeverage(c))
           /\ \A x \in Nat : x > 0 /\ Fits(x, IncreaseQty(c), MaxGrossLeverage(c)) =>
                c.other + (BaseQty(c) + x) * c.price <= MaxLeverage * c.equity
<1> DEFINE cap == <<MaxLeverage * c.equity - c.other, c.price>>
<1>1. c.equity \in Int /\ c.price \in Nat \ {0} /\ BaseQty(c) \in Nat /\ c.other \in Nat
  BY ContextTypes, KeptPart
<1>2. CASE c.equity <= 0
  BY <1>1, <1>2, VetoIncreaseRight DEF MaxGrossLeverage
<1>3. CASE c.equity > 0
  <2>1. cap[1] \in Int /\ cap[2] \in Nat \ {0}
    BY <1>1, LimitTypes
  <2>2. MaxGrossLeverage(c) = cap_increase(c, cap)
    <3>1. ~(c.equity <= 0)
      BY <1>1, <1>3
    <3> QED BY ONLY <3>1, Zenon DEF MaxGrossLeverage
  <2>3. \A q \in Nat : AtMost(q, cap) => c.other + q * c.price <= MaxLeverage * c.equity
    <3> SUFFICES ASSUME NEW q \in Nat, q * c.price <= MaxLeverage * c.equity - c.other
                 PROVE  c.other + q * c.price <= MaxLeverage * c.equity
      BY DEF AtMost
    <3>1. q * c.price \in Int /\ MaxLeverage * c.equity \in Int
      BY <1>1, LimitTypes
    <3> QED BY <1>1, <3>1
  <2> HIDE DEF cap
  <2>4. \A x \in Nat : BaseQty(c) + x \in Nat
    BY <1>1
  <2> QED BY <1>3, <2>1, <2>2, <2>3, <2>4, CapRight
<1> QED BY <1>1, <1>2, <1>3

(* Both distances to liquidation only grow when the position gets smaller. *)
LEMMA SmallerIsSafer ==
    ASSUME NEW c \in GuardContexts, NEW s \in {-1, 0, 1}, NEW q \in Nat, NEW r \in Nat, q <= r
    PROVE  /\ LiqUnreachable(c, s, r) => LiqUnreachable(c, s, q)
           /\ DtlOk(c, s, r) => DtlOk(c, s, q)
<1> DEFINE w == Wallet(c)  m == Mmr[1]  n == Mmr[2]  p == c.price  h == MinDtl * c.atr
           f == SideFactor(s)
<1>1. p \in Nat /\ m \in Nat /\ n \in Nat /\ h \in Nat /\ f \in Nat
  BY ContextTypes, LimitTypes DEF SideFactor
<1>2. w \in Int
  BY ContextTypes, LimitTypes DEF Wallet
<1>3. /\ LiqUnreachable(c, s, r) <=> s > 0 /\ r * p * n <= w
      /\ LiqUnreachable(c, s, q) <=> s > 0 /\ q * p * n <= w
      /\ DtlOk(c, s, r) <=> w - r * p * m >= h * r * f
      /\ DtlOk(c, s, q) <=> w - q * p * m >= h * q * f
  BY DEF LiqUnreachable, DtlOk
<1> HIDE DEF w, m, n, p, h, f
<1>4. q * p <= r * p /\ q * p \in Nat /\ r * p \in Nat /\ h * q <= h * r /\ h * q \in Nat
      /\ h * r \in Nat
  BY <1>1
<1>5. q * p * n <= r * p * n /\ q * p * m <= r * p * m /\ h * q * f <= h * r * f
      /\ q * p * n \in Nat /\ r * p * n \in Nat /\ q * p * m \in Nat /\ r * p * m \in Nat
      /\ h * q * f \in Nat /\ h * r * f \in Nat
  BY <1>1, <1>4
<1> QED BY <1>2, <1>3, <1>5

(* The lower of two caps is below both. *)
LEMMA LowerCapRight ==
    ASSUME NEW a, NEW b, a[1] \in Int, a[2] \in Nat \ {0}, b[1] \in Int, b[2] \in Nat \ {0},
           NEW q \in Nat, AtMost(q, LowerCap(a, b))
    PROVE  AtMost(q, b)
<1> DEFINE j == a[1]  k == a[2]  m == b[1]  n == b[2]
<1>1. j \in Int /\ k \in Nat \ {0} /\ m \in Int /\ n \in Nat \ {0}
  OBVIOUS
<1>2. (AtMost(q, a) <=> q * k <= j) /\ (AtMost(q, b) <=> q * n <= m)
  BY DEF AtMost
<1>3. LowerCap(a, b) = IF j * n <= m * k THEN a ELSE b
  BY DEF LowerCap
<1> HIDE DEF j, k, m, n
<1>4. CASE j * n <= m * k /\ q * k <= j
  <2>1. (q * k) * n <= j * n
    BY <1>1, <1>4
  <2>2. (q * k) * n = (q * n) * k /\ q * n \in Int /\ (q * k) * n \in Int /\ j * n \in Int /\ m * k \in Int
    BY <1>1
  <2>3. (q * n) * k <= m * k
    BY <1>4, <2>1, <2>2
  <2>4. q * n <= m
    BY <1>1, <2>2, <2>3
  <2> QED BY <1>2, <2>4
<1> QED BY <1>2, <1>3, <1>4

LEMMA LiquidationRight ==
    ASSUME NEW c \in GuardContexts
    PROVE  /\ IsVerdict(LiquidationBufferGuard(c))
           /\ \A x \in Nat : x > 0 /\ Fits(x, IncreaseQty(c), LiquidationBufferGuard(c)) =>
                /\ c.atr > 0
                /\ \/ LiqUnreachable(c, sign(c.target), BaseQty(c) + x)
                   \/ DtlOk(c, sign(c.target), BaseQty(c) + x)
<1> DEFINE s == sign(c.target)
           a == QtyForStop(c)
           b == QtyForDtl(c, s)
           base == BaseQty(c)
           inc == IncreaseQty(c)
<1>1. base \in Nat /\ inc \in Nat /\ PostQty(c) = base + inc /\ s \in {-1, 0, 1} /\ c.atr \in Nat
      /\ Wallet(c) \in Int /\ c.price \in Nat \ {0}
  BY KeptPart, ContextTypes, LimitTypes DEF sign, Wallet
<1>2. \A x \in Nat : Fits(x, inc, ALLOW) => x <= inc
  BY <1>1 DEF Fits, ALLOW
<1>3. CASE PostQty(c) = 0
  <2>1. inc = 0
    BY <1>1, <1>3
  <2> QED BY <1>2, <1>3, <2>1, AllowVeto DEF LiquidationBufferGuard
<1>4. CASE PostQty(c) # 0 /\ (Wallet(c) <= 0 \/ c.atr <= 0)
  BY <1>4, VetoIncreaseRight DEF LiquidationBufferGuard
<1>5. CASE /\ PostQty(c) # 0 /\ ~(Wallet(c) <= 0 \/ c.atr <= 0)
           /\ LiqUnreachable(c, s, PostQty(c)) \/ DtlOk(c, s, PostQty(c))
  <2>1. LiquidationBufferGuard(c) = ALLOW
    BY <1>5 DEF LiquidationBufferGuard
  <2> SUFFICES ASSUME NEW x \in Nat, x > 0, x <= inc
               PROVE  LiqUnreachable(c, s, base + x) \/ DtlOk(c, s, base + x)
    BY <1>1, <1>2, <1>5, <2>1, AllowVeto
  <2>2. base + x \in Nat /\ base + inc \in Nat /\ base + x <= base + inc
    BY <1>1
  <2> HIDE DEF s, base, inc
  <2> QED BY <1>1, <1>5, <2>2, SmallerIsSafer
<1>6. CASE /\ PostQty(c) # 0 /\ ~(Wallet(c) <= 0 \/ c.atr <= 0)
           /\ ~(LiqUnreachable(c, s, PostQty(c)) \/ DtlOk(c, s, PostQty(c)))
  <2> DEFINE w == Wallet(c)  m == Mmr[1]  p == c.price  h == MinDtl * c.atr  f == SideFactor(s)
             e == StopMult * c.atr * BufferFrac[2] * Mmr[2] + Mmr[1] * c.price * BufferFrac[1]
  <2>1. m \in Nat \ {0} /\ p \in Nat \ {0} /\ h \in Nat /\ f \in Nat /\ w \in Int
    BY <1>1, LimitTypes DEF SideFactor
  <2>2. e \in Nat \ {0} /\ w * BufferFrac[1] \in Int
    <3>1. StopMult * c.atr \in Nat /\ Mmr[1] * c.price \in Nat \ {0}
      BY <1>1, LimitTypes
    <3>2. StopMult * c.atr * BufferFrac[2] \in Nat /\ Mmr[1] * c.price * BufferFrac[1] \in Nat \ {0}
      BY <3>1, LimitTypes
    <3>3. StopMult * c.atr * BufferFrac[2] * Mmr[2] \in Nat
      BY <3>2, LimitTypes
    <3> QED BY <1>1, <3>2, <3>3, LimitTypes
  <2>3. a[1] = w * BufferFrac[1] /\ a[2] = e /\ b[1] = w /\ b[2] = p * m + h * f
    BY DEF QtyForStop, QtyForDtl
  <2>4. \A q \in Nat : DtlOk(c, s, q) <=> w - q * p * m >= h * q * f
    BY DEF DtlOk
  <2>5. \A q \in Nat : AtMost(q, b) <=> q * (p * m + h * f) <= w
    BY <2>3 DEF AtMost
  <2>6. LiquidationBufferGuard(c) = cap_increase(c, LowerCap(a, b))
    BY <1>1, <1>6 DEF LiquidationBufferGuard
  <2> HIDE DEF w, m, p, h, f, e, a, b
  <2>7. p * m + h * f \in Nat \ {0}
    BY <2>1
  <2>8. a[1] \in Int /\ a[2] \in Nat \ {0} /\ b[1] \in Int /\ b[2] \in Nat \ {0}
    BY <2>1, <2>2, <2>3, <2>7
  <2>9. LowerCap(a, b)[1] \in Int /\ LowerCap(a, b)[2] \in Nat \ {0}
    BY <2>8 DEF LowerCap
  <2>10. ASSUME NEW q \in Nat, AtMost(q, LowerCap(a, b)) PROVE DtlOk(c, s, q)
    <3>1. q * (p * m + h * f) <= w
      BY <2>5, <2>8, <2>10, LowerCapRight
    <3>2. q * (p * m + h * f) = q * p * m + h * q * f /\ q * p * m \in Int /\ h * q * f \in Int
      BY <2>1
    <3>3. w - q * p * m >= h * q * f
      BY <2>1, <3>1, <3>2
    <3> QED BY <2>4, <3>3
  <2>11. \A x \in Nat : base + x \in Nat
    BY <1>1
  <2> QED BY <1>1, <1>6, <2>6, <2>9, <2>10, <2>11, CapRight
<1> QED BY <1>3, <1>4, <1>5, <1>6

LEMMA GateRight ==
    ASSUME NEW c \in GuardContexts
    PROVE  /\ IsVerdict(RiskModeGate(c))
           /\ \A x \in Nat : x > 0 /\ Fits(x, IncreaseQty(c), RiskModeGate(c)) =>
                /\ ~c.tripped /\ c.level < 3
                /\ c.level = 2 => c.scaled /\ BaseQty(c) = 0
<1> DEFINE observed == IF c.tripped THEN 3 ELSE c.level
           newEntry == IncreaseQty(c) > 0 /\ BaseQty(c) = 0
           limit == IF c.scaled /\ newEntry THEN 2 ELSE 1
<1>1. c.level \in 0 .. 3 /\ c.tripped \in BOOLEAN /\ c.scaled \in BOOLEAN
  BY ContextTypes
<1>2. observed \in 0 .. 3 /\ limit \in {1, 2} /\ (observed > limit) \in BOOLEAN
  BY <1>1
<1>3. RiskModeGate(c) = VetoIncrease(c, observed > limit)
  BY DEF RiskModeGate
<1>4. ASSUME ~(observed > limit)
      PROVE  ~c.tripped /\ c.level < 3 /\ (c.level = 2 => c.scaled /\ BaseQty(c) = 0)
  BY <1>1, <1>4
<1> HIDE DEF observed, limit
<1> QED BY <1>2, <1>3, <1>4, VetoIncreaseRight

LEMMA SimpleRules ==
    ASSUME NEW c \in GuardContexts
    PROVE  IsVerdict(StaleDataGuard(c)) /\ IsVerdict(MaxDailyLoss(c)) /\ IsVerdict(MaxDrawdownHalt(c))
  BY ContextTypes, VetoIncreaseRight DEF StaleDataGuard, MaxDailyLoss, MaxDrawdownHalt

(* What the chain lets through fits the verdict of every rule a limit depends on. *)
LEMMA ChainFits ==
    ASSUME NEW c \in GuardContexts
    PROVE  LET x == exposure(compose(Rules(c)), IncreaseQty(c))
           IN  /\ x \in 0 .. IncreaseQty(c)
               /\ Fits(x, IncreaseQty(c), MaxPositionNotional(c))
               /\ Fits(x, IncreaseQty(c), MaxGrossLeverage(c))
               /\ Fits(x, IncreaseQty(c), LiquidationBufferGuard(c))
               /\ Fits(x, IncreaseQty(c), RiskModeGate(c))
<1> DEFINE v1 == StaleDataGuard(c)  v2 == MaxPositionNotional(c)  v3 == MaxGrossLeverage(c)
           v4 == MaxDailyLoss(c)  v5 == MaxDrawdownHalt(c)  v6 == LiquidationBufferGuard(c)
           v7 == RiskModeGate(c)
           w6 == Both(v6, v7)  w5 == Both(v5, w6)  w4 == Both(v4, w5)  w3 == Both(v3, w4)
           w2 == Both(v2, w3)  w1 == Both(v1, w2)
           q == IncreaseQty(c)
           x == exposure(w1, q)
<1>1. compose(Rules(c)) = w1
  BY DEF compose, Rules
<1>2. /\ IsVerdict(v1) /\ IsVerdict(v2) /\ IsVerdict(v3) /\ IsVerdict(v4) /\ IsVerdict(v5)
      /\ IsVerdict(v6) /\ IsVerdict(v7) /\ q \in Nat
  BY SimpleRules, NotionalRight, LeverageRight, LiquidationRight, GateRight, KeptPart
<1> HIDE DEF v1, v2, v3, v4, v5, v6, v7, q
<1>3. IsVerdict(w6)
  BY <1>2, BothIsVerdict
<1> HIDE DEF w6
<1>4. IsVerdict(w5)
  BY <1>2, <1>3, BothIsVerdict
<1> HIDE DEF w5
<1>5. IsVerdict(w4)
  BY <1>2, <1>4, BothIsVerdict
<1> HIDE DEF w4
<1>6. IsVerdict(w3)
  BY <1>2, <1>5, BothIsVerdict
<1> HIDE DEF w3
<1>7. IsVerdict(w2)
  BY <1>2, <1>6, BothIsVerdict
<1> HIDE DEF w2
<1>8. IsVerdict(w1)
  BY <1>2, <1>7, BothIsVerdict
<1> HIDE DEF w1
<1>9. x \in 0 .. q /\ Fits(x, q, w1)
  BY <1>2, <1>8, ExposureFits
<1> HIDE DEF x
<1>10. x \in Nat
  BY <1>2, <1>9
<1>11. Fits(x, q, w2)
  BY <1>2, <1>7, <1>9, <1>10, FitsBoth DEF w1
<1>12. Fits(x, q, v2) /\ Fits(x, q, w3)
  BY <1>2, <1>6, <1>10, <1>11, FitsBoth DEF w2
<1>13. Fits(x, q, v3) /\ Fits(x, q, w4)
  BY <1>2, <1>5, <1>10, <1>12, FitsBoth DEF w3
<1>14. Fits(x, q, w5)
  BY <1>2, <1>4, <1>10, <1>13, FitsBoth DEF w4
<1>15. Fits(x, q, w6)
  BY <1>2, <1>3, <1>10, <1>14, FitsBoth DEF w5
<1>16. Fits(x, q, v6) /\ Fits(x, q, v7)
  BY <1>2, <1>10, <1>15, FitsBoth DEF w6
<1> QED BY <1>1, <1>9, <1>12, <1>13, <1>16 DEF x, q, v2, v3, v6, v7

-----------------------------------------------------------------------------
(* The specification. *)

(* What one evaluation grants. *)
GrantIsSafe(c, res) ==
    /\ res.approved \in Int
    /\ Grew(c, res.approved) =>
         LET q == abs(res.approved)
         IN  /\ c.equity > 0 /\ c.atr > 0
             /\ q * c.price * MarginFrac[2] <= MarginFrac[1] * c.equity * LevSet
             /\ c.other + q * c.price <= MaxLeverage * c.equity
             /\ LiqUnreachable(c, sign(c.target), q) \/ DtlOk(c, sign(c.target), q)
             /\ ~c.tripped /\ ~c.halt /\ c.level < 3
             /\ c.level = 2 => c.scaled /\ sign(c.cur) # sign(c.target)
    /\ IF res.flatten THEN res.approved = 0
       ELSE /\ abs(res.approved) \in BaseQty(c) .. PostQty(c)
            /\ res.approved # 0 => sign(res.approved) = sign(c.target)

LEMMA EvaluationIsSafe ==
    ASSUME NEW c \in GuardContexts
    PROVE  GrantIsSafe(c, evaluate(c))
<1> DEFINE x == exposure(compose(Rules(c)), IncreaseQty(c))
           base == BaseQty(c)
           inc == IncreaseQty(c)
           s == sign(c.target)
           flatten == c.halt \/ c.tripped \/ c.level = 3
           approved == IF flatten THEN 0 ELSE (base + x) * s
<1>1. evaluate(c).approved = approved /\ evaluate(c).flatten = flatten
  BY DEF evaluate
<1>2. base \in Nat /\ inc \in Nat /\ PostQty(c) = base + inc /\ PostQty(c) = abs(c.target)
      /\ (base = 0 /\ c.target # 0 => sign(c.cur) # s)
  BY KeptPart
<1>3. x \in 0 .. inc /\ Fits(x, inc, MaxPositionNotional(c)) /\ Fits(x, inc, MaxGrossLeverage(c))
      /\ Fits(x, inc, LiquidationBufferGuard(c)) /\ Fits(x, inc, RiskModeGate(c))
  BY ChainFits
<1> HIDE DEF x, base, inc
<1>4. x \in Nat /\ x <= inc
  BY <1>2, <1>3
<1>5. c.target \in Int /\ s \in {-1, 0, 1} /\ (s = 0 <=> c.target = 0)
      /\ (c.target = 0 => base = 0 /\ x = 0)
  BY <1>2, <1>4, ContextTypes DEF sign, abs
<1>6. CASE flatten
  <2>1. approved = 0 /\ abs(approved) = 0 /\ ~Grew(c, approved)
    BY <1>2, <1>6 DEF abs, Grew, base
  <2> HIDE DEF flatten, approved
  <2> QED BY <1>1, <1>6, <2>1 DEF GrantIsSafe
<1>7. CASE ~flatten
  <2>1. approved \in Int /\ abs(approved) = base + x /\ (approved # 0 => sign(approved) = s)
    <3>1. approved = (base + x) * s
      BY <1>7
    <3> HIDE DEF approved, s
    <3>2. CASE s = 1
      BY <1>2, <1>4, <3>1, <3>2 DEF abs, sign
    <3>3. CASE s = -1
      BY <1>2, <1>4, <3>1, <3>3 DEF abs, sign
    <3>4. CASE s = 0
      <4>1. base = 0 /\ x = 0
        BY <1>5, <3>4
      <4> QED BY <3>1, <3>4, <4>1 DEF abs
    <3> QED BY <1>5, <3>2, <3>3, <3>4
  <2>2. base + x \in base .. PostQty(c)
    BY <1>2, <1>4
  <2>3. ASSUME Grew(c, approved)
        PROVE  /\ c.equity > 0 /\ c.atr > 0
               /\ (base + x) * c.price * MarginFrac[2] <= MarginFrac[1] * c.equity * LevSet
               /\ c.other + (base + x) * c.price <= MaxLeverage * c.equity
               /\ LiqUnreachable(c, s, base + x) \/ DtlOk(c, s, base + x)
               /\ ~c.tripped /\ ~c.halt /\ c.level < 3
               /\ c.level = 2 => c.scaled /\ sign(c.cur) # s
    <3>1. x > 0
      BY <1>2, <1>4, <2>1, <2>3 DEF Grew, base
    <3>2. c.target # 0
      BY <1>5, <3>1
    <3>3. /\ c.equity > 0
          /\ (base + x) * c.price * MarginFrac[2] <= MarginFrac[1] * c.equity * LevSet
      BY <1>3, <1>4, <3>1, NotionalRight DEF base, inc
    <3>4. c.other + (base + x) * c.price <= MaxLeverage * c.equity
      BY <1>3, <1>4, <3>1, LeverageRight DEF base, inc
    <3>5. c.atr > 0 /\ (LiqUnreachable(c, s, base + x) \/ DtlOk(c, s, base + x))
      BY <1>3, <1>4, <3>1, LiquidationRight DEF base, inc
    <3>6. ~c.tripped /\ c.level < 3 /\ (c.level = 2 => c.scaled /\ base = 0)
      BY <1>3, <1>4, <3>1, GateRight DEF base, inc
    <3> QED BY <1>2, <1>7, <3>2, <3>3, <3>4, <3>5, <3>6
  <2> HIDE DEF approved, flatten, s
  <2> QED BY <1>1, <1>7, <2>1, <2>2, <2>3 DEF GrantIsSafe, base, s
<1> QED BY <1>6, <1>7

GuardInv ==
    /\ rgPos \in Int /\ rgTripped \in BOOLEAN
    /\ rgLast # NoRequest =>
         /\ rgLast.ctx \in GuardContexts /\ GrantIsSafe(rgLast.ctx, rgLast.res)
         /\ rgLast.ctx.halt => rgTripped

LEMMA GuardInvImplies == GuardInv => GuardIsSafe
  BY DEF GuardInv, GrantIsSafe, GuardIsSafe, LimitsHonoured, BetweenKeptAndTarget, ModeRespected

(* Whatever the decision asks for and whatever the market and the risk state are, an
   increase the guard approves meets every limit at the size approved, moves the
   position between what is kept and the target, and respects the mode
   (RiskGuard.evaluate, verdict.py compose, rules/*.py). *)
THEOREM GuardSafe == GuardSpec => []GuardIsSafe
<1>1. GuardInit => GuardInv
  <2> SUFFICES ASSUME GuardInit PROVE GuardInv
    OBVIOUS
  <2>1. 0 \in Int /\ rgPos = 0 /\ rgTripped = FALSE /\ rgLast = NoRequest
    BY DEF GuardInit
  <2> QED BY <2>1, Zenon DEF GuardInv
<1>2. GuardInv /\ [GuardNext]_rgVars => GuardInv'
  <2> SUFFICES ASSUME GuardInv, [GuardNext]_rgVars PROVE GuardInv'
    OBVIOUS
  <2>1. ASSUME NEW c \in Contexts, Evaluate(c) PROVE GuardInv'
    <3>1. c \in GuardContexts
      BY QuantityAssumption, MarketAssumption DEF Contexts, GuardContexts, GuardInv
    <3>2. GrantIsSafe(c, evaluate(c)) /\ c.halt \in BOOLEAN
      BY <3>1, EvaluationIsSafe, ContextTypes
    <3>3. rgLast'.ctx = c /\ rgLast'.res = evaluate(c)
      BY <2>1 DEF Evaluate
    <3> QED BY <2>1, <3>1, <3>2, <3>3 DEF Evaluate, GuardInv
  <2>2. CASE Settle
    BY <2>2 DEF Settle, GuardInv, GrantIsSafe
  <2>3. CASE OpenSwitch
    BY <2>3 DEF OpenSwitch, GuardInv
  <2>4. CASE UNCHANGED rgVars
    BY <2>4 DEF rgVars, GuardInv
  <2> QED BY <2>1, <2>2, <2>3, <2>4 DEF GuardNext
<1> QED BY <1>1, <1>2, GuardInvImplies, PTL DEF GuardSpec

=============================================================================

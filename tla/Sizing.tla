------------------------------- MODULE Sizing -------------------------------
(***************************************************************************)
(* From the intent of the decision core to a target quantity: the          *)
(* hysteresis gate (sizing/hysteresis.py), the volatility target           *)
(* (sizing/vol_target.py), the three budgets of the position sizer         *)
(* (sizing/sizer.py, sizing/atr_risk.py) and the way _decide of            *)
(* backtest/engine.py uses them bar by bar.                                *)
(*                                                                         *)
(* The code computes in floats and rounds the quantity down at the end;    *)
(* here the budgets are exact fractions.  The estimate of the volatility   *)
(* is an input: 0, or a value the EWMA may take.  The intent is in units   *)
(* of 1 / UnitU, the scale of 1 / UnitS, the risk mode factor of 1 / UnitK. *)
(***************************************************************************)
EXTENDS Integers

CONSTANTS
    Intents,           \* u_final, in 1 / UnitU
    UnitU, UnitS, UnitK,   \* the units: see above
    Enter, Exit,       \* thresholds of the gate, in 1 / UnitU
    SizingEquities, SizingPrices,
    Ranges,            \* ATR; 0 stands for unknown (NaN) as well
    Kappas,            \* kappa_mode, in 1 / UnitK
    Sigmas,            \* annualised volatility estimates
    SigmaTarget, ScaleMin, ScaleMax,   \* the clip, in 1 / UnitS
    Gamma,             \* the filter: 1/Gamma of the way per bar
    RiskDivisor,       \* rho_base = 1 / RiskDivisor
    Chi, MaxLeverage,
    StepSize, SizeMinNotional

(* SizingCfg._bounds and HysteresisCfg._band: what the file of limits must keep. *)
SizingCfg == Exit <= Enter /\ Enter <= UnitU /\ ScaleMin <= ScaleMax

ASSUME SizingAssumption ==
    /\ {Enter, Exit, SigmaTarget, SizeMinNotional} \subseteq Nat
    /\ {UnitU, UnitS, UnitK, ScaleMin, ScaleMax, Gamma} \subseteq Nat \ {0}
    /\ {RiskDivisor, Chi, MaxLeverage, StepSize} \subseteq Nat \ {0}
    /\ SizingCfg

ASSUME SizingInputs ==
    /\ Intents \subseteq Int /\ SizingEquities \subseteq Int
    /\ SizingPrices \subseteq Nat \ {0} /\ Ranges \subseteq Nat
    /\ Kappas \subseteq Nat /\ Sigmas \subseteq Nat

VARIABLES
    szGate,            \* the side of the hysteresis gate
    szPos,             \* the position
    szScale,           \* s_t
    szTurn,            \* the gate's last own change: the side it took and the
                       \* intent; side 0 when the position moved it since
    szLast             \* the last decision

szVars == <<szGate, szPos, szScale, szTurn, szLast>>

sideOf(x) == IF x > 0 THEN 1 ELSE IF x < 0 THEN -1 ELSE 0

magnitude(x) == IF x < 0 THEN -x ELSE x

-----------------------------------------------------------------------------
(* HysteresisGate.update: a Schmitt trigger with a signed exit. *)
GateUpdate(side, u) ==
    CASE u >= Enter -> 1
      [] u <= -Enter -> -1
      [] side = 1 /\ u >= Exit -> 1
      [] side = -1 /\ u <= -Exit -> -1
      [] OTHER -> 0

(* VolTarget.target_scale and the first-order filter towards it. *)
TargetScale(sigma) ==
    IF sigma = 0 THEN ScaleMax
    ELSE LET wanted == (UnitS * SigmaTarget) \div sigma
         IN  IF wanted < ScaleMin THEN ScaleMin
             ELSE IF wanted > ScaleMax THEN ScaleMax ELSE wanted

Filtered(s, sigma) == s + (TargetScale(sigma) - s) \div Gamma

-----------------------------------------------------------------------------
(* The three budgets, as fractions <<numerator, denominator>>. *)
q_atr(u, e, atr) ==
    IF atr = 0 \/ e <= 0 THEN <<0, 1>>
    ELSE <<magnitude(u) * e, UnitU * RiskDivisor * Chi * atr>>

q_vt(s, e, p) == IF e <= 0 THEN <<0, 1>> ELSE <<s * e, UnitS * p>>

q_lev(e, p) == IF e <= 0 THEN <<0, 1>> ELSE <<e * MaxLeverage, p>>

Below(x, y) == x[1] * y[2] < y[1] * x[2]

Lesser(x, y) == IF Below(y, x) THEN y ELSE x

(* to_decimal: the largest multiple of the step not above kappa * q. *)
floor_step(kappa, q) == ((kappa * q[1]) \div (UnitK * q[2] * StepSize)) * StepSize

(* Fault: a small order is lifted to the minimum instead of refused. *)
FaultySize(u, e, p, atr, s, kappa) ==
    LET q == floor_step(kappa, Lesser(Lesser(q_atr(u, e, atr), q_vt(s, e, p)),
                                      q_lev(e, p)))
    IN  IF kappa = 0 \/ sideOf(u) = 0 \/ q <= 0 THEN 0
        ELSE IF q * p < SizeMinNotional THEN (SizeMinNotional + p - 1) \div p ELSE q

(* PositionSizer.size: the target quantity, 0 when it is refused. *)
Size(u, e, p, atr, s, kappa) ==
    LET q == floor_step(kappa, Lesser(Lesser(q_atr(u, e, atr), q_vt(s, e, p)),
                                      q_lev(e, p)))
    IN  IF kappa = 0 \/ sideOf(u) = 0 \/ q <= 0 \/ q * p < SizeMinNotional THEN 0 ELSE q

-----------------------------------------------------------------------------
NoDecision == [u |-> 0, from |-> 0, size |-> 0, equity |-> 0, price |-> 1,
               atr |-> 0, kappa |-> 0, scale |-> ScaleMin]

SizingInit ==
    /\ szGate = 0 /\ szPos = 0 /\ szScale = ScaleMin
    /\ szTurn = [side |-> 0, u |-> 0]
    /\ szLast = NoDecision

(* One bar of _decide: the scale follows the volatility, the gate is set   *)
(* to the side really held and then moved by the intent, a halt wants no   *)
(* position, and only a wanted change of side is sized.  The new side may  *)
(* still be refused (RiskGuard), which leaves the account flat.            *)
SizingBar(u, e, p, atr, kappa, sigma) ==
    LET held == sideOf(szPos)
        gate == GateUpdate(held, u)
        desired == IF kappa = 0 THEN 0 ELSE gate
        s == Filtered(szScale, sigma)
        size == IF desired # held /\ desired # 0 THEN Size(u, e, p, atr, s, kappa) ELSE 0
        requested == desired * size
    IN  /\ szScale' = s
        /\ szGate' = gate
        /\ szTurn' = IF gate # held THEN [side |-> gate, u |-> u]
                     ELSE IF szGate # held THEN [side |-> 0, u |-> u] ELSE szTurn
        /\ szLast' = [u |-> u, from |-> held, size |-> size, equity |-> e,
                      price |-> p, atr |-> atr, kappa |-> kappa, scale |-> s]
        /\ IF desired = held THEN szPos' = szPos ELSE szPos' \in {requested, 0}

(* Between two bars a stop, a take-profit or a rejected order leaves the   *)
(* account without the position.                                           *)
SizingStopped ==
    /\ szPos # 0 /\ szPos' = 0
    /\ UNCHANGED <<szGate, szScale, szTurn, szLast>>

SizingNext ==
    \/ \E u \in Intents, e \in SizingEquities, p \in SizingPrices,
          atr \in Ranges, kappa \in Kappas, sigma \in Sigmas :
          SizingBar(u, e, p, atr, kappa, sigma)
    \/ SizingStopped

-----------------------------------------------------------------------------
(* A target never costs more than its budgets, whatever the rounding: its  *)
(* loss at the stop stays within the risk per trade, scaled by the intent  *)
(* and the mode; its notional within the volatility target and the         *)
(* leverage; an order is never smaller than the venue's minimum, and a     *)
(* halted mode asks for none.  The scale stays within its clip.            *)
(* (PositionSizer.size, VolTarget.update)                                  *)
SizeWithinBudgets ==
    /\ ScaleMin <= szScale /\ szScale <= ScaleMax
    /\ LET d == szLast
       IN  d.size > 0 =>
             /\ d.size * Chi * d.atr * RiskDivisor * UnitU * UnitK
                    <= magnitude(d.u) * d.equity * d.kappa
             /\ d.size * d.price * UnitS * UnitK <= d.scale * d.equity * d.kappa
             /\ d.size * d.price * UnitK <= d.equity * MaxLeverage * d.kappa
             /\ d.size * d.price >= SizeMinNotional
             /\ d.kappa > 0 /\ d.size % StepSize = 0

(* The gate does not chatter: between two changes of side of its own, with *)
(* no stop or rejection in between, the intent has moved by at least the   *)
(* width of the loop, and a position held agrees with the intent.          *)
(* (HysteresisGate.update, _decide)                                        *)
GateDoesNotChatter ==
    /\ szTurn.side # 0 /\ szGate = sideOf(szPos) /\ szGate # 0
    /\ szGate' # szGate
    => szTurn.side * (szTurn.u - szLast'.u) >= Enter - Exit

(* At every bar the size stays within its budgets and the side does not    *)
(* chatter.  (PositionSizer.size, HysteresisGate.update, _decide)          *)
SizingIsSteady == [][SizeWithinBudgets' /\ GateDoesNotChatter]_szVars

=============================================================================

----------------------------- MODULE RiskGuard -----------------------------
(***************************************************************************)
(* The pre-trade risk chain: seven rules give a verdict on the INCREASE of *)
(* exposure an order asks for, the verdicts are composed, and the approved *)
(* target position is what the execution contour may move to.              *)
(*                                                                         *)
(* Source: risk/guard.py, risk/verdict.py, risk/context.py (RiskContext),  *)
(* risk/rules/*.py and risk/margin.py.                                     *)
(*                                                                         *)
(* A quantity is a whole number of instrument steps, so flooring to the    *)
(* step is integer division.  A verdict is its exact factor <<n, d>>:      *)
(* ALLOW is <<1, 1>>, VETO has n = 0, SHRINK lies strictly between.        *)
(* Quantity caps are rationals <<n, d>>; nothing is rounded before the     *)
(* final floor.  maint_amount is 0.  Stale data and the daily loss enter   *)
(* as the outcome of their comparison, which uses none of the other state. *)
(***************************************************************************)
EXTENDS Integers, Sequences

CONSTANTS
    Quantities,   \* target positions a sizer may ask for (signed)
    Prices, GuardEquities, Atrs, OtherNotionals,
    MarginFrac,   \* max_position_notional.value as <<n, d>>
    LevSet,       \* the venue leverage L_set of a position
    MaxLeverage,  \* max_gross_leverage.value
    MinDtl,       \* liquidation_buffer.min_dtl_atr
    BufferFrac,   \* 1 - liquidation_buffer.b as <<n, d>>
    StopMult,     \* stop distance in ATR
    Mmr           \* maintenance margin rate as <<n, d>>

ASSUME QuantityAssumption == Quantities \subseteq Int /\ 0 \in Quantities
ASSUME MarketAssumption ==
    /\ Prices \subseteq Nat \ {0} /\ GuardEquities \subseteq Int
    /\ Atrs \subseteq Nat /\ OtherNotionals \subseteq Nat

(* The bounds the file of limits is checked against (risk/config.py). *)
LimitsCfg ==
    /\ {MarginFrac, BufferFrac} \subseteq (Nat \ {0}) \X (Nat \ {0})
    /\ MarginFrac[1] <= MarginFrac[2] /\ BufferFrac[1] <= BufferFrac[2]
    /\ {MaxLeverage, MinDtl} \subseteq Nat \ {0}

ASSUME LimitAssumption ==
    /\ LimitsCfg
    /\ Mmr \in (Nat \ {0}) \X (Nat \ {0}) /\ Mmr[1] < Mmr[2]
    /\ {LevSet, StopMult} \subseteq Nat \ {0}

VARIABLES
    rgPos,      \* the current position (signed)
    rgTripped,  \* the kill-switch shared with the state machine
    rgLast      \* the request being processed and its GuardResult

rgVars == <<rgPos, rgTripped, rgLast>>

abs(x) == IF x < 0 THEN -x ELSE x
sign(x) == IF x > 0 THEN 1 ELSE IF x < 0 THEN -1 ELSE 0

ALLOW == <<1, 1>>
VETO  == <<0, 1>>

(* RiskContext.__post_init__: what of the target is kept and what is new. *)
IsFlip(ctx) == sign(ctx.cur) * sign(ctx.target) < 0

BaseQty(ctx) ==
    IF ctx.target = 0 \/ IsFlip(ctx) THEN 0
    ELSE IF abs(ctx.cur) < abs(ctx.target) THEN abs(ctx.cur) ELSE abs(ctx.target)

IncreaseQty(ctx) == abs(ctx.target) - BaseQty(ctx)
PostQty(ctx) == abs(ctx.target)

VetoIncrease(ctx, bad) == IF bad /\ IncreaseQty(ctx) > 0 THEN VETO ELSE ALLOW

AtMost(q, cap) == q * cap[2] <= cap[1]

(* Fault: the factor is taken of the whole target, not of the increase. *)
FaultyCapIncrease(ctx, cap) ==
    IF IncreaseQty(ctx) <= 0 \/ AtMost(PostQty(ctx), cap) THEN ALLOW
    ELSE IF cap[1] <= 0 THEN VETO
    ELSE <<cap[1], cap[2] * PostQty(ctx)>>

(* Shrinking the increase to (cap - base) / increase keeps the result within cap. *)
cap_increase(ctx, cap) ==
    LET room == cap[1] - BaseQty(ctx) * cap[2]
    IN  IF IncreaseQty(ctx) <= 0 \/ AtMost(PostQty(ctx), cap) THEN ALLOW
        ELSE IF room <= 0 THEN VETO
        ELSE <<room, cap[2] * IncreaseQty(ctx)>>

-----------------------------------------------------------------------------
(* The rules, in chain order. *)

StaleDataGuard(ctx) == VetoIncrease(ctx, ctx.stale)

MaxPositionNotional(ctx) ==
    IF ctx.equity <= 0 THEN VetoIncrease(ctx, TRUE)
    ELSE cap_increase(ctx, <<MarginFrac[1] * ctx.equity * LevSet, MarginFrac[2] * ctx.price>>)

MaxGrossLeverage(ctx) ==
    IF ctx.equity <= 0 THEN VetoIncrease(ctx, TRUE)
    ELSE cap_increase(ctx, <<MaxLeverage * ctx.equity - ctx.other, ctx.price>>)

MaxDailyLoss(ctx) == VetoIncrease(ctx, ctx.dayBreach)

MaxDrawdownHalt(ctx) == VetoIncrease(ctx, ctx.halt)

(* Own funds left after the maintenance margin of the other positions, times
   Mmr[2]: W = equity - other * mmr. *)
Wallet(ctx) == ctx.equity * Mmr[2] - ctx.other * Mmr[1]

(* 1 - mmr for a long, 1 + mmr for a short, times Mmr[2]. *)
SideFactor(s) == IF s > 0 THEN Mmr[2] - Mmr[1] ELSE Mmr[2] + Mmr[1]

(* A long whose liquidation price q*P - W is not positive cannot be liquidated. *)
LiqUnreachable(ctx, s, q) == s > 0 /\ q * ctx.price * Mmr[2] <= Wallet(ctx)

(* signed_dtl_atr >= MinDtl for q at this price: the signed distance to P_liq is
   (W - q*P*mmr) / (q * (1 -+ mmr)). *)
DtlOk(ctx, s, q) ==
    Wallet(ctx) - q * ctx.price * Mmr[1] >= MinDtl * ctx.atr * q * SideFactor(s)

(* max_qty_for_dtl and reduced_max_leverage as quantity caps. *)
QtyForDtl(ctx, s) ==
    <<Wallet(ctx), ctx.price * Mmr[1] + MinDtl * ctx.atr * SideFactor(s)>>
QtyForStop(ctx) ==
    \* L' = 1 / (stop / (P * (1-b)) + mmr), q = L' * W / P
    <<Wallet(ctx) * BufferFrac[1],
      StopMult * ctx.atr * BufferFrac[2] * Mmr[2] + Mmr[1] * ctx.price * BufferFrac[1]>>

LowerCap(a, b) == IF a[1] * b[2] <= b[1] * a[2] THEN a ELSE b

LiquidationBufferGuard(ctx) ==
    LET s == sign(ctx.target)
    IN  IF PostQty(ctx) = 0 THEN ALLOW
        ELSE IF Wallet(ctx) <= 0 \/ ctx.atr <= 0 THEN VetoIncrease(ctx, TRUE)
        ELSE IF LiqUnreachable(ctx, s, PostQty(ctx)) \/ DtlOk(ctx, s, PostQty(ctx)) THEN ALLOW
        ELSE cap_increase(ctx, LowerCap(QtyForStop(ctx), QtyForDtl(ctx, s)))

(* RiskModeGate: COOLDOWN admits new entries only under scaled_entries, never an
   increase of an open position; HALTED or a closed switch admits nothing. *)
RiskModeGate(ctx) ==
    LET observed == IF ctx.tripped THEN 3 ELSE ctx.level
        newEntry == IncreaseQty(ctx) > 0 /\ BaseQty(ctx) = 0
        limit    == IF ctx.scaled /\ newEntry THEN 2 ELSE 1
    IN  VetoIncrease(ctx, observed > limit)

Rules(ctx) ==
    <<StaleDataGuard(ctx), MaxPositionNotional(ctx), MaxGrossLeverage(ctx),
      MaxDailyLoss(ctx), MaxDrawdownHalt(ctx), LiquidationBufferGuard(ctx),
      RiskModeGate(ctx)>>

(* compose: VETO absorbs, shrink factors multiply exactly. *)
Both(v, w) == <<v[1] * w[1], v[2] * w[2]>>

compose(v) == Both(v[1], Both(v[2], Both(v[3], Both(v[4], Both(v[5], Both(v[6], v[7]))))))

(* exposure and the floor to the step. *)
exposure(v, q) == (q * v[1]) \div v[2]

(* RiskGuard.evaluate. *)
evaluate(ctx) ==
    LET inc     == exposure(compose(Rules(ctx)), IncreaseQty(ctx))
        flatten == ctx.halt \/ ctx.tripped \/ ctx.level = 3
    IN  [approved |-> IF flatten THEN 0 ELSE (BaseQty(ctx) + inc) * sign(ctx.target),
         flatten  |-> flatten]

-----------------------------------------------------------------------------
(* What a decision may bring to the guard: any market, any risk state (level is
   its SEVERITY) and either cooldown policy (scaled = scaled_entries). *)
Contexts ==
    [cur : {rgPos}, target : Quantities, price : Prices, equity : GuardEquities,
     atr : Atrs, other : OtherNotionals, level : 0..3, tripped : {rgTripped},
     scaled : BOOLEAN, stale : BOOLEAN, dayBreach : BOOLEAN, halt : BOOLEAN]

NoRequest == <<>>

(* RiskGuard.evaluate for one order; a halt signal trips the switch. *)
Evaluate(ctx) ==
    /\ rgLast' = [ctx |-> ctx, res |-> evaluate(ctx)]
    /\ rgTripped' = (rgTripped \/ ctx.halt)
    /\ UNCHANGED rgPos

(* The order executes, or never does; either way the next decision starts from
   the position actually held. *)
Settle ==
    /\ rgLast # NoRequest
    /\ rgPos' \in {rgPos, rgLast.res.approved}
    /\ rgLast' = NoRequest
    /\ UNCHANGED rgTripped

(* An administrator opens the switch between two decisions. *)
OpenSwitch ==
    /\ rgLast = NoRequest /\ rgTripped
    /\ rgTripped' = FALSE
    /\ UNCHANGED <<rgPos, rgLast>>

GuardInit == rgPos = 0 /\ rgTripped = FALSE /\ rgLast = NoRequest

GuardNext ==
    \/ rgLast = NoRequest /\ \E ctx \in Contexts : Evaluate(ctx)
    \/ Settle
    \/ OpenSwitch

GuardSpec == GuardInit /\ [][GuardNext]_rgVars

-----------------------------------------------------------------------------
(* Properties of an evaluated request. *)

Grew(ctx, q) == abs(q) > BaseQty(ctx)

(* An approved increase meets every quantitative limit at the size approved,
   measured from the definitions of margin, leverage and liquidation distance
   and not from the caps the rules computed: multiplying the shrink factors and
   flooring never leaves a limit exceeded (rules/*.py, verdict.py compose). *)
LimitsHonoured ==
    rgLast # NoRequest /\ Grew(rgLast.ctx, rgLast.res.approved) =>
        LET c == rgLast.ctx
            q == abs(rgLast.res.approved)
        IN  /\ c.equity > 0 /\ c.atr > 0
            /\ q * c.price * MarginFrac[2] <= MarginFrac[1] * c.equity * LevSet
            /\ c.other + q * c.price <= MaxLeverage * c.equity
            /\ LiqUnreachable(c, sign(c.target), q) \/ DtlOk(c, sign(c.target), q)

(* The guard moves the position nowhere the decision did not ask for: between
   the part that is kept and the target, so reductions and closes always pass
   and nothing grows beyond the request; a flatten closes everything
   (context.py "reduction always passes", guard.py evaluate). *)
BetweenKeptAndTarget ==
    rgLast # NoRequest =>
        LET c == rgLast.ctx
            q == rgLast.res.approved
        IN  IF rgLast.res.flatten THEN q = 0
            ELSE /\ abs(q) \in BaseQty(c)..PostQty(c)
                 /\ q # 0 => sign(q) = sign(c.target)

(* No exposure grows once the mode forbids it: in COOLDOWN only a new entry under
   scaled_entries, in HALTED, with a closed switch or after a halt signal
   nothing, and the signal leaves the switch closed (guard.py RiskModeGate). *)
ModeRespected ==
    rgLast # NoRequest =>
        LET c == rgLast.ctx
        IN  /\ Grew(c, rgLast.res.approved) =>
                  /\ ~c.tripped /\ ~c.halt /\ c.level < 3
                  /\ c.level = 2 => c.scaled /\ sign(c.cur) # sign(c.target)
            /\ c.halt => rgTripped

(* The guard's verdict is safe in all three respects: limits, direction, mode. *)
GuardIsSafe == LimitsHonoured /\ BetweenKeptAndTarget /\ ModeRespected
=============================================================================

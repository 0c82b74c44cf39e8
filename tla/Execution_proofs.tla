-------------------------- MODULE Execution_proofs --------------------------
(***************************************************************************)
(* Proofs about the parts between a decision and the books, which share no *)
(* state: the order router, the sizing, the account and the simulated      *)
(* venue, whose methods BrokerBook_proofs reasons about.                   *)
(*                                                                         *)
(* The account: what a fill does is settled on one account record, by      *)
(* cases on whether it increases, reduces, closes or reverses the          *)
(* position; the invariant of the specification says that the record of    *)
(* the current state is in order.  When funding is due is arithmetic on    *)
(* the schedule.                                                           *)
(***************************************************************************)
EXTENDS OrderRouter, Sizing, Portfolio, PaperBroker, BrokerBook_proofs, FiniteSetTheorems, TLAPS

-----------------------------------------------------------------------------
(* The order router. *)

RouterSpec == RouterInit /\ [][RouterNext]_rtVars

VenueOrders == [content : Contents \cup {"none"}, status : {"none", "NEW", "REJECTED"}]
KnownOrders == [content : Contents \cup {"none"}, status : {"none", "NEW", "REJECTED", "DUPLICATE"}]

RouterTypeOK ==
    /\ rtKnown \in [OrderIds -> KnownOrders]
    /\ rtVenue \in [OrderIds -> VenueOrders]
    /\ rtArrived \in [OrderIds -> Nat]

(* An order without a status is no order, and as long as every failed call of an id
   was explained, a call of it arrived exactly when the venue has its order. *)
ArrivalsMatch ==
    \A i \in OrderIds :
        /\ rtKnown[i].status = "none" => rtKnown[i] = NoOrder
        /\ rtVenue[i].status = "none" => rtVenue[i] = NoOrder
        /\ i \notin rtUnsure /\ rtVenue[i] = NoOrder => rtArrived[i] = 0

RouterInv == RouterTypeOK /\ ArrivalsMatch /\ RouterIsTruthful

(* The id a call is not about keeps its order, its arrivals and its doubts. *)
LEMMA RouterStepKeeps == RouterInv /\ [RouterNext]_rtVars => RouterInv'
<1> SUFFICES ASSUME RouterInv, [RouterNext]_rtVars PROVE RouterInv'
  OBVIOUS
<1> USE DEF RouterInv, RouterTypeOK, ArrivalsMatch, RouterIsTruthful, NoOrder, KnownOrders,
            VenueOrders
<1>1. ASSUME NEW i \in OrderIds, NEW c \in Contents, SubmitKnown(i, c) PROVE RouterInv'
  BY <1>1 DEF SubmitKnown, Responded
<1>2. ASSUME NEW i \in OrderIds, NEW c \in Contents, SubmitTaken(i, c) PROVE RouterInv'
  BY <1>2 DEF SubmitTaken, Arrives, Recorded, Responded
<1>3. ASSUME NEW i \in OrderIds, NEW c \in Contents, SubmitReconciled(i, c) PROVE RouterInv'
  <2>1. CASE Arrives(i, c)
    <3>1. /\ rtVenue'[i].status \in {"NEW", "REJECTED"}
          /\ rtVenue' \in [OrderIds -> VenueOrders] /\ rtArrived' \in [OrderIds -> Nat]
          /\ \A j \in OrderIds \ {i} : rtVenue'[j] = rtVenue[j] /\ rtArrived'[j] = rtArrived[j]
          /\ i \notin rtUnsure => rtVenue'[i].content = c /\ rtArrived'[i] = 1
      BY <1>3, <2>1 DEF SubmitReconciled, Arrives
    <3>2. /\ rtKnown' = [rtKnown EXCEPT ![i] = [content |-> c, status |-> rtVenue'[i].status]]
          /\ rtAnswer' = [id |-> i, content |-> c, status |-> rtVenue'[i].status]
          /\ rtUnsure' = rtUnsure
      BY <1>3, <3>1 DEF SubmitReconciled, Recorded, Responded, Recovered
    <3> QED BY <3>1, <3>2
  <2>2. CASE UNCHANGED <<rtVenue, rtArrived>> /\ rtVenue[i].status = "none"
    BY <1>3, <2>2 DEF SubmitReconciled, Responded, Recovered
  <2>3. CASE UNCHANGED <<rtVenue, rtArrived>> /\ rtVenue[i].status # "none"
    <3>1. i \in rtUnsure
      BY <1>3, <2>3 DEF SubmitReconciled
    <3>2. rtKnown' = [rtKnown EXCEPT ![i] = [content |-> c, status |-> rtVenue[i].status]]
      BY <1>3, <2>3 DEF SubmitReconciled, Recorded, Recovered
    <3> QED BY <1>3, <2>3, <3>1, <3>2 DEF SubmitReconciled, Recorded, Responded, Recovered
  <2> QED BY <1>3, <2>1, <2>2, <2>3 DEF SubmitReconciled
<1>4. ASSUME NEW i \in OrderIds, NEW c \in Contents, SubmitUnexplained(i, c) PROVE RouterInv'
  <2>1. CASE Arrives(i, c)
    BY <1>4, <2>1 DEF SubmitUnexplained, Arrives, Responded
  <2>2. CASE UNCHANGED <<rtVenue, rtArrived>>
    BY <1>4, <2>2 DEF SubmitUnexplained, Responded
  <2> QED BY <1>4, <2>1, <2>2 DEF SubmitUnexplained
<1>5. CASE UNCHANGED rtVars
  BY <1>5 DEF rtVars
<1> QED BY <1>1, <1>2, <1>3, <1>4, <1>5 DEF RouterNext

(* Whatever fails on the way to the venue, an order reported NEW is live, an order
   reported as failed is not there, and no id arrives twice, unless a failed call of
   that id could not be explained (OrderRouter.submit, _reconcile). *)
THEOREM RouterTruthful == RouterSpec => []RouterIsTruthful
<1>1. RouterInit => RouterInv
  BY DEF RouterInit, RouterInv, RouterTypeOK, ArrivalsMatch, RouterIsTruthful, NoOrder,
         KnownOrders, VenueOrders
<1>2. RouterInv => RouterIsTruthful
  BY DEF RouterInv
<1> QED BY <1>1, <1>2, RouterStepKeeps, PTL DEF RouterSpec

-----------------------------------------------------------------------------
(* Sizing. *)

SizingSpec == SizingInit /\ [][SizingNext]_szVars

(* Division by a positive number stays between 0 and the dividend. *)
LEMMA DivBounds ==
    ASSUME NEW a \in Int, NEW g \in Nat \ {0}
    PROVE  /\ a \div g \in Int
           /\ g * (a \div g) <= a
           /\ a >= 0 => 0 <= a \div g /\ a \div g <= a
           /\ a < 0 => a <= a \div g /\ a \div g <= 0
<1>1. a \div g \in Int /\ a = g * (a \div g) + (a % g) /\ (a % g) \in 0..(g - 1)
  OBVIOUS
<1> QED BY <1>1

(* A fraction is a budget if its numerator is a natural number and its denominator
   a positive one. *)
Fractions == {f \in Nat \X Nat : f[2] > 0}

LEMMA BudgetTypes ==
    ASSUME NEW u \in Int, NEW e \in Int, NEW p \in Nat \ {0}, NEW atr \in Nat, NEW s \in Nat
    PROVE  q_atr(u, e, atr) \in Fractions /\ q_vt(s, e, p) \in Fractions /\ q_lev(e, p) \in Fractions
<1> USE SizingAssumption DEF SizingCfg
<1>1. magnitude(u) \in Nat
  BY DEF magnitude
<1>2. ASSUME e > 0 PROVE magnitude(u) * e \in Nat /\ s * e \in Nat /\ e * MaxLeverage \in Nat
  BY <1>1, <1>2
<1>3. ASSUME atr > 0 PROVE UnitU * RiskDivisor * Chi * atr \in Nat \ {0}
  <2>1. UnitU * RiskDivisor \in Nat \ {0}
    OBVIOUS
  <2>2. UnitU * RiskDivisor * Chi \in Nat \ {0}
    BY <2>1
  <2> QED BY <1>3, <2>2
<1>4. UnitS * p \in Nat \ {0}
  OBVIOUS
<1>5. q_atr(u, e, atr) \in Fractions
  BY <1>2, <1>3 DEF q_atr, Fractions
<1>6. q_vt(s, e, p) \in Fractions
  BY <1>2, <1>4 DEF q_vt, Fractions
<1>7. q_lev(e, p) \in Fractions
  BY <1>2 DEF q_lev, Fractions
<1> QED BY <1>5, <1>6, <1>7

(* The lesser of two fractions is one of them and below both. *)
LEMMA LesserBelow ==
    ASSUME NEW x \in Fractions, NEW y \in Fractions
    PROVE  /\ Lesser(x, y) \in Fractions
           /\ Lesser(x, y)[1] * x[2] <= x[1] * Lesser(x, y)[2]
           /\ Lesser(x, y)[1] * y[2] <= y[1] * Lesser(x, y)[2]
BY DEF Lesser, Below, Fractions

LEMMA BelowTransitive ==
    ASSUME NEW x \in Fractions, NEW y \in Fractions, NEW z \in Fractions,
           x[1] * y[2] <= y[1] * x[2], y[1] * z[2] <= z[1] * y[2]
    PROVE  x[1] * z[2] <= z[1] * x[2]
<1> DEFINE a == x[1]  b == x[2]  c == y[1]  d == y[2]  m == z[1]  n == z[2]
<1>1. a \in Nat /\ b \in Nat \ {0} /\ c \in Nat /\ d \in Nat \ {0} /\ m \in Nat /\ n \in Nat \ {0}
  BY DEF Fractions
<1> HIDE DEF a, b, c, d, m, n
<1>2. a * d <= c * b /\ c * n <= m * d
  BY DEF a, b, c, d, m, n
<1>3. (a * d) * n <= (c * b) * n /\ (c * n) * b <= (m * d) * b
  BY <1>1, <1>2
<1>4. (a * n) * d <= (m * b) * d
  BY <1>1, <1>3
<1>5. a * n <= m * b
  <2> DEFINE s == a * n  t == m * b
  <2>1. s \in Nat /\ t \in Nat /\ s * d <= t * d
    BY <1>1, <1>4
  <2> HIDE DEF s, t
  <2>2. s <= t
    BY <1>1, <2>1
  <2> QED BY <2>2 DEF s, t
<1> QED BY <1>5 DEF a, b, c, d, m, n

(* Rounding down to the step keeps a quantity below any fraction that its own is
   below. *)
LEMMA FlooredBelow ==
    ASSUME NEW k \in Nat, NEW f \in Fractions, NEW y \in Fractions, f[1] * y[2] <= y[1] * f[2]
    PROVE  /\ floor_step(k, f) \in Nat
           /\ floor_step(k, f) % StepSize = 0
           /\ floor_step(k, f) * UnitK * y[2] <= k * y[1]
<1> USE SizingAssumption DEF SizingCfg
<1> DEFINE n == f[1]  d == f[2]  g == UnitK * d * StepSize  h == (k * n) \div g
<1>1. n \in Nat /\ d \in Nat \ {0} /\ y[1] \in Nat /\ y[2] \in Nat \ {0}
  BY DEF Fractions
<1>2. g \in Nat \ {0}
  <2>1. UnitK * d \in Nat \ {0}
    BY <1>1
  <2> QED BY <2>1
<1>3. h \in Nat /\ g * h <= k * n
  <2> DEFINE a == k * n
  <2>1. a \in Nat
    BY <1>1
  <2> HIDE DEF a, g
  <2>2. a \div g \in Nat /\ g * (a \div g) <= a
    BY <1>2, <2>1, DivBounds
  <2> QED BY <2>2 DEF a
<1>4. floor_step(k, f) = h * StepSize
  BY DEF floor_step
<1> HIDE DEF n, d, h
<1>5. h * StepSize \in Nat /\ (h * StepSize) % StepSize = 0
  <2>1. \A x \in Nat, z \in Nat \ {0} : x * z \in Nat /\ (x * z) % z = 0
    OBVIOUS
  <2>2. StepSize \in Nat \ {0} /\ h \in Nat
    BY <1>3
  <2> QED BY ONLY <2>1, <2>2, Zenon
<1> DEFINE w == h * StepSize * UnitK
<1>6. w \in Nat /\ w * d <= k * n
  BY <1>1, <1>3
<1> HIDE DEF w
<1>7. (w * d) * y[2] <= (k * n) * y[2]
  BY <1>1, <1>6
<1>8. (k * n) * y[2] <= (k * y[1]) * d
  <2>1. n * y[2] <= y[1] * d
    BY DEF n, d
  <2>2. k * (n * y[2]) <= k * (y[1] * d)
    BY <1>1, <2>1
  <2> QED BY <1>1, <2>2
<1>9. (w * y[2]) * d <= (k * y[1]) * d
  BY <1>1, <1>6, <1>7, <1>8
<1>10. w * y[2] <= k * y[1]
  BY <1>1, <1>6, <1>9
<1> QED BY <1>4, <1>5, <1>10 DEF w

(* What SizeWithinBudgets says of one decision. *)
Fits(d, u, e, p, atr, s, kappa) ==
    /\ d * Chi * atr * RiskDivisor * UnitU * UnitK <= magnitude(u) * e * kappa
    /\ d * p * UnitS * UnitK <= s * e * kappa
    /\ d * p * UnitK <= e * MaxLeverage * kappa
    /\ d * p >= SizeMinNotional
    /\ kappa > 0 /\ d % StepSize = 0

(* A size that is not refused lies within the three budgets. *)
LEMMA SizeFits ==
    ASSUME NEW u \in Int, NEW e \in Int, NEW p \in Nat \ {0}, NEW atr \in Nat, NEW s \in Nat,
           NEW kappa \in Nat, Size(u, e, p, atr, s, kappa) # 0
    PROVE  /\ Size(u, e, p, atr, s, kappa) \in Nat
           /\ Fits(Size(u, e, p, atr, s, kappa), u, e, p, atr, s, kappa)
<1> DEFINE d == Size(u, e, p, atr, s, kappa)
<1> USE SizingAssumption DEF SizingCfg
<1> DEFINE x == q_atr(u, e, atr)  y == q_vt(s, e, p)  z == q_lev(e, p)
           xy == Lesser(x, y)  low == Lesser(xy, z)
<1>1. x \in Fractions /\ y \in Fractions /\ z \in Fractions
  BY BudgetTypes
<1> HIDE DEF x, y, z
<1>2. /\ xy \in Fractions
      /\ xy[1] * x[2] <= x[1] * xy[2] /\ xy[1] * y[2] <= y[1] * xy[2]
  BY <1>1, LesserBelow
<1> HIDE DEF xy
<1>3. /\ low \in Fractions
      /\ low[1] * xy[2] <= xy[1] * low[2] /\ low[1] * z[2] <= z[1] * low[2]
  BY <1>1, <1>2, LesserBelow
<1> HIDE DEF low
<1>4. low[1] * x[2] <= x[1] * low[2] /\ low[1] * y[2] <= y[1] * low[2]
  BY <1>1, <1>2, <1>3, BelowTransitive
<1> HIDE DEF d
<1>5. d = floor_step(kappa, low) /\ kappa # 0 /\ ~(d <= 0) /\ ~(d * p < SizeMinNotional)
  BY DEF Size, low, xy, x, y, z, d
<1>6. /\ d \in Nat /\ d % StepSize = 0
      /\ d * UnitK * x[2] <= kappa * x[1]
      /\ d * UnitK * y[2] <= kappa * y[1]
      /\ d * UnitK * z[2] <= kappa * z[1]
  BY <1>1, <1>3, <1>4, <1>5, FlooredBelow
<1>7. d > 0 /\ kappa > 0 /\ d * p >= SizeMinNotional
  BY <1>5, <1>6
<1>8. e > 0
  <2> SUFFICES ASSUME e <= 0 PROVE FALSE
    OBVIOUS
  <2>1. z = <<0, 1>>
    BY DEF z, q_lev
  <2>2. d * UnitK * 1 <= 0
    BY <1>6, <2>1
  <2> QED BY <1>6, <1>7, <2>2
<1>9. atr # 0
  <2> SUFFICES ASSUME atr = 0 PROVE FALSE
    OBVIOUS
  <2>1. x = <<0, 1>>
    BY DEF x, q_atr
  <2>2. d * UnitK * 1 <= 0
    BY <1>6, <2>1
  <2> QED BY <1>6, <1>7, <2>2
<1>10. magnitude(u) \in Nat
  BY DEF magnitude
<1>11. d * UnitK * (UnitU * RiskDivisor * Chi * atr) <= kappa * (magnitude(u) * e)
  BY <1>6, <1>8, <1>9 DEF x, q_atr
<1>12. d * UnitK * (UnitS * p) <= kappa * (s * e)
  BY <1>6, <1>8 DEF y, q_vt
<1>13. d * UnitK * p <= kappa * (e * MaxLeverage)
  BY <1>6, <1>8 DEF z, q_lev
<1>14. d * UnitK * (UnitU * RiskDivisor * Chi * atr) = d * Chi * atr * RiskDivisor * UnitU * UnitK
  BY <1>6
<1>15. d * UnitK * (UnitS * p) = d * p * UnitS * UnitK /\ d * UnitK * p = d * p * UnitK
  BY <1>6
<1>16. /\ kappa * (magnitude(u) * e) = magnitude(u) * e * kappa
       /\ kappa * (s * e) = s * e * kappa
       /\ kappa * (e * MaxLeverage) = e * MaxLeverage * kappa
  BY <1>10
<1> QED BY <1>6, <1>7, <1>11, <1>12, <1>13, <1>14, <1>15, <1>16 DEF d, Fits

(* The filtered scale stays within the clip of its targets. *)
LEMMA ScaleStays ==
    ASSUME NEW s \in ScaleMin..ScaleMax, NEW sigma \in Nat
    PROVE  Filtered(s, sigma) \in ScaleMin..ScaleMax
<1> USE SizingAssumption DEF SizingCfg
<1> DEFINE t == TargetScale(sigma)
<1>1. t \in ScaleMin..ScaleMax
  <2>1. CASE sigma = 0
    BY <2>1 DEF TargetScale
  <2>2. CASE sigma # 0
    <3> DEFINE a == UnitS * SigmaTarget
    <3>1. a \in Nat
      OBVIOUS
    <3> HIDE DEF a
    <3>2. a \div sigma \in Int
      BY <2>2, <3>1, DivBounds
    <3> QED BY <2>2, <3>2 DEF TargetScale, a
  <2> QED BY <2>1, <2>2
<1> HIDE DEF t
<1>2. /\ (t - s) \div Gamma \in Int
      /\ t - s >= 0 => 0 <= (t - s) \div Gamma /\ (t - s) \div Gamma <= t - s
      /\ t - s < 0 => t - s <= (t - s) \div Gamma /\ (t - s) \div Gamma <= 0
  <2>1. t - s \in Int
    BY <1>1
  <2> QED BY <2>1, DivBounds
<1> QED BY <1>1, <1>2 DEF Filtered, t

Decisions ==
    [u : Int, from : {-1, 0, 1}, size : Nat, equity : Int, price : Nat \ {0}, atr : Nat,
     kappa : Nat, scale : Nat]

SizingTypeOK ==
    /\ szGate \in {-1, 0, 1} /\ szPos \in Int /\ szScale \in ScaleMin..ScaleMax
    /\ szTurn \in [side : {-1, 0, 1}, u : Int]
    /\ szLast \in Decisions

(* A turn of the gate that no stop has undone is the side of the gate, and the
   intent that made it had reached the entry threshold. *)
TurnReachedEntry ==
    szTurn.side # 0 => szTurn.side = szGate /\ szTurn.side * szTurn.u >= Enter

SizingInv == SizingTypeOK /\ SizeWithinBudgets /\ TurnReachedEntry

LEMMA GateType ==
    ASSUME NEW side \in {-1, 0, 1}, NEW u \in Int
    PROVE  /\ GateUpdate(side, u) \in {-1, 0, 1}
           /\ GateUpdate(side, u) \notin {0, side} => GateUpdate(side, u) * u >= Enter
           /\ side # 0 /\ GateUpdate(side, u) # side => side * u <= Exit
BY SizingAssumption DEF SizingCfg, GateUpdate

(* One bar: the inductive invariant, and no chatter. *)
LEMMA SizingBarKeeps ==
    ASSUME SizingInv,
           NEW u \in Int, NEW e \in Int, NEW p \in Nat \ {0}, NEW atr \in Nat,
           NEW kappa \in Nat, NEW sigma \in Nat,
           SizingBar(u, e, p, atr, kappa, sigma)
    PROVE  SizingInv' /\ GateDoesNotChatter
<1> USE SizingAssumption DEF SizingCfg, SizingInv, SizingTypeOK
<1> DEFINE held == sideOf(szPos)
           gate == GateUpdate(held, u)
           desired == IF kappa = 0 THEN 0 ELSE gate
           s == Filtered(szScale, sigma)
           size == IF desired # held /\ desired # 0 THEN Size(u, e, p, atr, s, kappa) ELSE 0
<1>2. held \in {-1, 0, 1}
  BY DEF sideOf
<1>3. /\ gate \in {-1, 0, 1}
      /\ gate \notin {0, held} => gate * u >= Enter
      /\ held # 0 /\ gate # held => held * u <= Exit
  BY <1>2, GateType
<1>4. s \in ScaleMin..ScaleMax /\ s \in Nat
  BY ScaleStays
<1>5. size \in Nat /\ (size > 0 => Fits(size, u, e, p, atr, s, kappa))
  <2>1. CASE size = 0
    BY <2>1
  <2>2. CASE size # 0
    <3>1. size = Size(u, e, p, atr, s, kappa)
      BY <2>2
    <3> HIDE DEF size, s
    <3> QED BY <1>4, <2>2, <3>1, SizeFits
  <2> QED BY <2>1, <2>2
<1>6. /\ szScale' = s /\ szGate' = gate
      /\ szTurn' = IF gate # held THEN [side |-> gate, u |-> u]
                   ELSE IF szGate # held THEN [side |-> 0, u |-> u] ELSE szTurn
      /\ szLast' = [u |-> u, from |-> held, size |-> size, equity |-> e,
                    price |-> p, atr |-> atr, kappa |-> kappa, scale |-> s]
      /\ szPos' \in {szPos, desired * size, 0}
  BY DEF SizingBar
<1> HIDE DEF held, gate, s, size
<1>7. SizingTypeOK'
  <2>1. desired * size \in Int
    BY <1>3, <1>5
  <2> QED BY <1>2, <1>3, <1>4, <1>5, <1>6, <2>1 DEF Decisions
<1>8. SizeWithinBudgets'
  BY <1>4, <1>5, <1>6 DEF SizeWithinBudgets, Fits
<1>9. TurnReachedEntry'
  BY <1>2, <1>3, <1>6 DEF TurnReachedEntry
<1>10. GateDoesNotChatter
  <2> SUFFICES ASSUME szTurn.side # 0, szGate = held, szGate # 0, szGate' # szGate
               PROVE  szTurn.side * (szTurn.u - szLast'.u) >= Enter - Exit
    BY DEF GateDoesNotChatter, held
  <2>1. szTurn.side = held /\ held * szTurn.u >= Enter /\ szLast'.u = u /\ held * u <= Exit
    BY <1>3, <1>6 DEF TurnReachedEntry
  <2> QED BY <1>2, <2>1
<1> QED BY <1>7, <1>8, <1>9, <1>10

LEMMA SizingStepKeeps ==
    ASSUME SizingInv, [SizingNext]_szVars
    PROVE  SizingInv' /\ (UNCHANGED szVars \/ GateDoesNotChatter)
<1>1. ASSUME NEW u \in Intents, NEW e \in SizingEquities, NEW p \in SizingPrices,
             NEW atr \in Ranges, NEW kappa \in Kappas, NEW sigma \in Sigmas,
             SizingBar(u, e, p, atr, kappa, sigma)
      PROVE  SizingInv' /\ GateDoesNotChatter
  BY <1>1, SizingInputs, SizingBarKeeps
<1>2. CASE SizingStopped
  BY <1>2 DEF SizingStopped, SizingInv, SizingTypeOK, SizeWithinBudgets, TurnReachedEntry,
              GateDoesNotChatter
<1>3. CASE UNCHANGED szVars
  BY <1>3 DEF szVars, SizingInv, SizingTypeOK, SizeWithinBudgets, TurnReachedEntry
<1> QED BY <1>1, <1>2, <1>3 DEF SizingNext

(* For every set of thresholds, budgets and markets: the size of a bar stays within
   its three budgets, whatever is rounded, and between two turns of the gate the
   intent has moved by the width of the loop (PositionSizer.size, VolTarget.update,
   HysteresisGate.update, _decide). *)
THEOREM SizingSteady == SizingSpec => SizingIsSteady
<1>1. SizingInit => SizingInv
  BY SizingAssumption DEF SizingCfg, SizingInit, SizingInv, SizingTypeOK, SizeWithinBudgets, TurnReachedEntry,
                          NoDecision, Decisions
<1>2. SizingInv /\ [SizingNext]_szVars => SizingInv'
  BY SizingStepKeeps
<1>3. SizingInv /\ [SizingNext]_szVars => [SizeWithinBudgets' /\ GateDoesNotChatter]_szVars
  <2> SUFFICES ASSUME SizingInv, [SizingNext]_szVars
               PROVE  [SizeWithinBudgets' /\ GateDoesNotChatter]_szVars
    OBVIOUS
  <2>1. SizingInv' /\ (UNCHANGED szVars \/ GateDoesNotChatter)
    BY SizingStepKeeps
  <2>2. SizeWithinBudgets'
    BY <2>1 DEF SizingInv
  <2> QED BY <2>1, <2>2
<1> QED BY <1>1, <1>2, <1>3, PTL DEF SizingSpec, SizingIsSteady

-----------------------------------------------------------------------------
(* The account. *)

PortfolioSpec == PortfolioInit /\ [][PortfolioNext]_pfVars

-----------------------------------------------------------------------------
(* The books. *)

TradeRecords ==
    [side : {-1, 0, 1}, maxQty : Int, realized : Int, fees : Int, funding : Int, entryN : Int,
     entryQ : Int, exitN : Int, exitQ : Int, mae : Int]

Positions == [qty : Int, basis : Int, trade : TradeRecords]

Totals == [realized : Int, fees : Int, funding : Int, last : TradeRecords]

Accounts == [cash : Int, realized : Int, fees : Int, trades : Totals, pos : Positions]

(* What belongs to the trade in progress. *)
TradeOf(p) == IF p.qty = 0 THEN NoTrade ELSE p.trade

(* A trade that is over: as much out as in, and the profit and the fees of its turnover. *)
ClosedRight(tr) ==
    /\ tr.entryQ = tr.exitQ
    /\ tr.realized = tr.side * (tr.exitN - tr.entryN)
    /\ tr.fees * FeeDivisor = tr.entryN + tr.exitN

(* A trade in progress: what is still in the position is the basis. *)
OpenRight(p) ==
    /\ p.trade.side = signOf(p.qty)
    /\ p.qty = 0 => p.basis = 0
    /\ p.qty # 0 =>
         /\ p.trade.entryQ - p.trade.exitQ = absOf(p.qty)
         /\ p.trade.realized = p.trade.side * (p.trade.exitN - p.trade.entryN) + p.basis
         /\ p.trade.fees * FeeDivisor = p.trade.entryN + p.trade.exitN
         /\ p.trade.mae <= 0

(* The account is in order, with the funding paid so far. *)
Balanced(a, funding) ==
    /\ a.cash = a.realized - funding - a.pos.basis
    /\ a.realized = a.trades.realized + TradeOf(a.pos).realized
    /\ a.fees = a.trades.fees + TradeOf(a.pos).fees
    /\ funding = a.trades.funding + TradeOf(a.pos).funding
    /\ ClosedRight(a.trades.last)
    /\ OpenRight(a.pos)

(* A fill at a price of k FeeDivisors costs k for every unit of quantity. *)
FillOf(side, qty, k) == [side |-> side, qty |-> qty, price |-> k * FeeDivisor, fee |-> qty * k]

LEMMA Distributes == \A x, y, z \in Int : (x + y) * z = x * z + y * z
  OBVIOUS

LEMMA IncreaseKeeps ==
    ASSUME NEW a \in Accounts, NEW funding \in Int, Balanced(a, funding),
           NEW side \in {-1, 1}, NEW qty \in Nat \ {0}, NEW k \in Nat,
           a.pos.qty = 0 \/ signOf(a.pos.qty) = side
    PROVE  LET r == apply_fill(a, FillOf(side, qty, k))
           IN  r \in Accounts /\ Balanced(r, funding)
<1> DEFINE f == FillOf(side, qty, k)
           n == qty * (k * FeeDivisor)
           sn == side * n
           fee == qty * k
           p == a.pos
           t == IF p.qty = 0 THEN StartTrade(side) ELSE p.trade
           q == p.qty + side * qty
           m == IF absOf(q) > t.maxQty THEN absOf(q) ELSE t.maxQty
           pos == [qty |-> q, basis |-> p.basis + sn,
                   trade |-> [t EXCEPT !.fees = t.fees + fee, !.entryN = t.entryN + n,
                                       !.entryQ = t.entryQ + qty, !.maxQty = m]]
           r == [a EXCEPT !.cash = a.cash - sn, !.fees = a.fees + fee, !.pos = pos]
<1>1. n \in Nat /\ fee \in Nat /\ fee * FeeDivisor = n /\ sn \in Int /\ FeeDivisor \in Nat
      /\ (side = 1 => sn = n) /\ (side = -1 => sn = -n)
  BY MoneyAssumption
<1>2. f.side * f.qty * f.price = sn /\ f.qty * f.price = n /\ f.fee = fee /\ f.side = side
      /\ f.qty = qty
  BY MoneyAssumption DEF FillOf
<1>3. apply_fill(a, f) = r
  <2>1. apply_fill(a, f) = Increase([a EXCEPT !.cash = @ - f.side * f.qty * f.price,
                                              !.fees = @ + f.fee], f)
    BY <1>2 DEF apply_fill
  <2> HIDE DEF f, n, sn, fee
  <2>2. QED BY <1>1, <1>2, <2>1 DEF Increase, Accounts
<1> HIDE DEF n, sn, fee, f
<1>4. t \in TradeRecords
  BY DEF StartTrade, NoTrade, TradeRecords, Accounts, Positions
<1>5. q \in Int /\ m \in Int /\ pos \in Positions /\ r \in Accounts
  <2>1. q \in Int /\ absOf(q) \in Int
    BY DEF Accounts, Positions, absOf
  <2>2. t.maxQty \in Int
    BY <1>4 DEF TradeRecords
  <2>3. m \in Int
    BY <2>1, <2>2
  <2> HIDE DEF q, m, t
  <2>4. pos \in Positions
    <3>1. pos.trade \in TradeRecords
      <4>1. t.fees + fee \in Int /\ t.entryN + n \in Int /\ t.entryQ + qty \in Int
        BY <1>1, <1>4 DEF TradeRecords
      <4> HIDE DEF pos
      <4>2. pos.trade = [t EXCEPT !.fees = t.fees + fee, !.entryN = t.entryN + n,
                                  !.entryQ = t.entryQ + qty, !.maxQty = m]
        BY DEF pos
      <4> QED BY <1>4, <2>3, <4>1, <4>2 DEF TradeRecords
    <3>2. p.basis + sn \in Int
      BY <1>1 DEF Positions, Accounts
    <3> QED BY <2>1, <3>1, <3>2 DEF Positions
  <2>5. a.cash - sn \in Int /\ a.fees + fee \in Int
    BY <1>1 DEF Accounts
  <2> HIDE DEF pos
  <2> QED BY <2>1, <2>3, <2>4, <2>5 DEF Accounts
<1>6. q # 0 /\ signOf(q) = side /\ absOf(q) = absOf(p.qty) + qty
  BY DEF Accounts, Positions, absOf, signOf
<1>7. t.side = side /\ t.entryQ - t.exitQ = absOf(p.qty)
      /\ t.fees * FeeDivisor = t.entryN + t.exitN /\ t.mae <= 0
      /\ t.realized = side * (t.exitN - t.entryN) + p.basis
  <2>1. CASE p.qty = 0
    <3>1. t = StartTrade(side) /\ p.basis = 0 /\ absOf(p.qty) = 0
      BY <2>1 DEF Balanced, OpenRight, absOf
    <3> QED BY <1>1, <3>1 DEF StartTrade, NoTrade
  <2>2. CASE p.qty # 0
    <3>1. t = p.trade /\ signOf(p.qty) = side
      BY <2>2
    <3> QED BY <2>2, <3>1 DEF Balanced, OpenRight
  <2> QED BY <2>1, <2>2
<1>8. pos.trade.side = side /\ pos.trade.fees = t.fees + fee /\ pos.trade.entryN = t.entryN + n
      /\ pos.trade.entryQ = t.entryQ + qty /\ pos.trade.exitN = t.exitN /\ pos.trade.exitQ = t.exitQ
      /\ pos.trade.realized = t.realized /\ pos.trade.funding = t.funding /\ pos.trade.mae = t.mae
  BY <1>4, <1>7 DEF TradeRecords
<1>9. TradeOf(p).realized = t.realized /\ TradeOf(p).fees = t.fees /\ TradeOf(p).funding = t.funding
  BY DEF TradeOf, StartTrade, NoTrade
<1> HIDE DEF t, m
<1>10. OpenRight(pos)
  <2>1. (t.fees + fee) * FeeDivisor = t.entryN + n + t.exitN
    <3>1. t.fees \in Int /\ t.exitN \in Int /\ t.entryN \in Int
      BY <1>4 DEF TradeRecords
    <3>2. (t.fees + fee) * FeeDivisor = t.fees * FeeDivisor + fee * FeeDivisor
      BY <1>1, <3>1, Distributes
    <3> QED BY ONLY <1>1, <1>7, <3>1, <3>2
  <2>2. t.realized = side * (t.exitN - (t.entryN + n)) + (p.basis + sn)
    <3>1. t.realized \in Int /\ t.exitN \in Int /\ t.entryN \in Int /\ p.basis \in Int
      BY <1>4 DEF TradeRecords, Accounts, Positions
    <3>2. CASE side = 1
      BY ONLY <1>1, <1>7, <3>1, <3>2
    <3>3. CASE side = -1
      BY ONLY <1>1, <1>7, <3>1, <3>3
    <3> QED BY <3>2, <3>3
  <2>3. pos.qty = q /\ pos.basis = p.basis + sn
    OBVIOUS
  <2> HIDE DEF pos, q
  <2> QED BY <1>1, <1>4, <1>6, <1>7, <1>8, <2>1, <2>2, <2>3 DEF OpenRight, TradeRecords, Accounts, Positions, absOf
<1>11. TradeOf(pos) = pos.trade
  BY <1>6 DEF TradeOf
<1>12. r.cash = a.cash - sn /\ r.fees = a.fees + fee /\ r.pos = pos /\ r.trades = a.trades
       /\ r.realized = a.realized /\ pos.basis = p.basis + sn
  BY DEF Accounts
<1> HIDE DEF pos, r
<1>13. Balanced(r, funding)
  BY <1>1, <1>4, <1>8, <1>9, <1>10, <1>11, <1>12 DEF Balanced, Accounts, Positions, Totals, TradeRecords
<1> QED BY <1>3, <1>5, <1>13 DEF f, r

(* The trade a fill of the opposite side has reduced by "closed". *)
Reduced(p, f, closed, pnl, fee) ==
    [p.trade EXCEPT !.realized = @ + pnl, !.fees = @ + fee, !.exitN = @ + closed * f.price,
                    !.exitQ = @ + closed]

(* It is still in order, with a basis that is smaller by "cost". *)
RightlyReduced(t, p, f, closed, cost, s, k) ==
    /\ t \in TradeRecords
    /\ t.side = s /\ t.entryQ - t.exitQ = absOf(p.qty) - closed
    /\ t.realized = s * (t.exitN - t.entryN) + (p.basis - cost)
    /\ t.fees * FeeDivisor = t.entryN + t.exitN
    /\ t.mae <= 0
    /\ t.realized = p.trade.realized + (s * closed * f.price - cost)
    /\ t.fees = p.trade.fees + closed * k /\ t.funding = p.trade.funding

LEMMA ReducedRight ==
    ASSUME NEW p \in Positions, p.qty # 0, OpenRight(p), NEW closed \in Nat, NEW k \in Nat,
           NEW cost \in Int, NEW f, f.price = k * FeeDivisor,
           NEW s \in {-1, 1}, s = signOf(p.qty)
    PROVE  RightlyReduced(Reduced(p, f, closed, s * closed * f.price - cost, closed * k),
                          p, f, closed, cost, s, k)
<1> DEFINE n == closed * f.price
           pnl == s * closed * f.price - cost
           fee == closed * k
           t == Reduced(p, f, closed, pnl, fee)
           tr == p.trade
<1>1. /\ n \in Nat /\ fee \in Nat /\ FeeDivisor \in Nat /\ fee * FeeDivisor = n
      /\ (s = 1 => pnl = n - cost) /\ (s = -1 => pnl = -n - cost) /\ pnl \in Int
      /\ pnl = s * n - cost
  BY MoneyAssumption
<1>2. /\ tr \in TradeRecords /\ p.basis \in Int
      /\ tr.side = s /\ tr.entryQ - tr.exitQ = absOf(p.qty) /\ tr.mae <= 0
      /\ tr.realized = s * (tr.exitN - tr.entryN) + p.basis
      /\ tr.fees * FeeDivisor = tr.entryN + tr.exitN
  BY DEF Positions, OpenRight
<1>3. /\ tr.realized \in Int /\ tr.fees \in Int /\ tr.exitN \in Int /\ tr.exitQ \in Int
      /\ tr.entryN \in Int /\ tr.entryQ \in Int /\ tr.funding \in Int
  BY <1>2 DEF TradeRecords
<1> HIDE DEF n, pnl, fee, tr
<1>4. t = [tr EXCEPT !.realized = tr.realized + pnl, !.fees = tr.fees + fee, !.exitN = tr.exitN + n,
                     !.exitQ = tr.exitQ + closed]
  BY <1>2 DEF Reduced, n, tr, TradeRecords
<1> HIDE DEF t
<1>5. tr.realized + pnl \in Int /\ tr.fees + fee \in Int /\ tr.exitN + n \in Int
      /\ tr.exitQ + closed \in Int
  BY <1>1, <1>3
<1>6. t \in TradeRecords
  BY <1>2, <1>4, <1>5 DEF TradeRecords
<1>7. /\ t.realized = tr.realized + pnl /\ t.fees = tr.fees + fee /\ t.exitN = tr.exitN + n
      /\ t.exitQ = tr.exitQ + closed /\ t.side = s /\ t.mae = tr.mae /\ t.funding = tr.funding
      /\ t.entryN = tr.entryN /\ t.entryQ = tr.entryQ
  BY <1>2, <1>4 DEF TradeRecords
<1>8. (tr.fees + fee) * FeeDivisor = tr.entryN + (tr.exitN + n)
  <2>1. (tr.fees + fee) * FeeDivisor = tr.fees * FeeDivisor + fee * FeeDivisor
    BY <1>1, <1>3, Distributes
  <2> QED BY ONLY <1>1, <1>2, <1>3, <2>1
<1>9. tr.realized + pnl = s * ((tr.exitN + n) - tr.entryN) + (p.basis - cost)
  <2>1. CASE s = 1
    BY ONLY <1>1, <1>2, <1>3, <2>1, cost \in Int
  <2>2. CASE s = -1
    BY ONLY <1>1, <1>2, <1>3, <2>2, cost \in Int
  <2> QED BY <2>1, <2>2
<1>10. (tr.entryQ) - (tr.exitQ + closed) = absOf(p.qty) - closed
  BY <1>2, <1>3 DEF Positions, absOf
<1>11. /\ t \in TradeRecords
       /\ t.side = s /\ t.entryQ - t.exitQ = absOf(p.qty) - closed
       /\ t.realized = s * (t.exitN - t.entryN) + (p.basis - cost)
       /\ t.fees * FeeDivisor = t.entryN + t.exitN
       /\ t.mae <= 0
       /\ t.realized = p.trade.realized + pnl
       /\ t.fees = p.trade.fees + fee /\ t.funding = p.trade.funding
  BY <1>2, <1>6, <1>7, <1>8, <1>9, <1>10 DEF tr
<1> QED BY <1>11 DEF t, pnl, fee, RightlyReduced

(* The fee of a fill divides exactly between the trades on its two sides. *)
LEMMA FeeCloseExact ==
    ASSUME NEW side, NEW qty \in Nat \ {0}, NEW k \in Nat, NEW closed \in Nat
    PROVE  FeeClose(FillOf(side, qty, k), closed) = closed * k
<1>1. (qty * k * closed) \div qty = closed * k
  <2>1. qty * k * closed = qty * (closed * k) /\ closed * k \in Nat
    OBVIOUS
  <2>2. \A x \in Nat : (qty * x) \div qty = x
    OBVIOUS
  <2> QED BY <2>1, <2>2
<1> QED BY <1>1 DEF FeeClose, FillOf

LEMMA CashMoves ==
    ASSUME NEW cash \in Int, NEW realized \in Int, NEW funding \in Int, NEW basis \in Int,
           cash = realized - funding - basis,
           NEW cost \in Int, NEW n \in Int, NEW side \in {-1, 1}
    PROVE  cash - side * n = (realized + ((-side) * n - cost)) - funding - (basis - cost)
<1>1. CASE side = 1
  BY <1>1
<1>2. CASE side = -1
  BY <1>2
<1> QED BY <1>1, <1>2

LEMMA UpdatedAccount ==
    ASSUME NEW a \in Accounts, NEW c \in Int, NEW g \in Int, NEW h \in Int, NEW t \in Totals,
           NEW p \in Positions
    PROVE  [a EXCEPT !.cash = c, !.realized = g, !.fees = h, !.trades = t, !.pos = p] \in Accounts
  BY DEF Accounts

LEMMA DecreaseKeeps ==
    ASSUME NEW a \in Accounts, NEW funding \in Int, Balanced(a, funding),
           NEW side \in {-1, 1}, NEW qty \in Nat \ {0}, NEW k \in Nat,
           a.pos.qty # 0, signOf(a.pos.qty) # side
    PROVE  LET r == apply_fill(a, FillOf(side, qty, k))
           IN  r \in Accounts /\ Balanced(r, funding)
<1> DEFINE f == FillOf(side, qty, k)
           p == a.pos
           s == -side
           closed == least(qty, absOf(p.qty))
           cost == IF closed = absOf(p.qty) THEN p.basis
                   ELSE (p.basis * closed) \div absOf(p.qty)
           pnl == s * closed * f.price - cost
           t == Reduced(p, f, closed, pnl, closed * k)
           q == p.qty + side * closed
           held == [qty |-> q, basis |-> p.basis - cost, trade |-> t]
           flat == [qty |-> 0, basis |-> 0, trade |-> [t EXCEPT !.side = 0]]
           pos == IF qty > closed THEN Remainder(f, closed, closed * k)
                  ELSE IF q = 0 THEN flat ELSE held
           trades == IF q = 0 THEN Finished(a.trades, t) ELSE a.trades
           all == side * qty * f.price
           r == [a EXCEPT !.cash = a.cash - all, !.realized = a.realized + pnl,
                          !.fees = a.fees + qty * k, !.trades = trades, !.pos = pos]
<1>1. p \in Positions /\ p.qty \in Int /\ p.basis \in Int /\ OpenRight(p) /\ signOf(p.qty) = s
      /\ s \in {-1, 1} /\ a.cash \in Int /\ a.realized \in Int /\ a.fees \in Int
  BY DEF Accounts, Positions, Balanced, signOf
<1>2. closed \in Nat \ {0} /\ closed <= qty /\ absOf(p.qty) \in Nat \ {0}
      /\ closed <= absOf(p.qty) /\ (closed < qty => closed = absOf(p.qty))
  BY <1>1 DEF least, absOf
<1>3. q \in Int /\ (q = 0 <=> closed = absOf(p.qty))
      /\ (q # 0 => signOf(q) = s /\ absOf(q) = absOf(p.qty) - closed /\ qty = closed)
  <2>1. CASE side = 1
    BY <1>1, <1>2, <2>1 DEF absOf, signOf
  <2>2. CASE side = -1
    BY <1>1, <1>2, <2>2 DEF absOf, signOf
  <2> QED BY <2>1, <2>2
<1>4. cost \in Int /\ (q = 0 => cost = p.basis)
  <2>1. CASE closed = absOf(p.qty)
    BY <1>1, <2>1
  <2>2. CASE closed # absOf(p.qty)
    <3>1. p.basis * closed \in Int
      BY <1>1, <1>2
    <3>2. \A x \in Int, y \in Nat \ {0} : x \div y \in Int
      OBVIOUS
    <3> QED BY <1>2, <1>3, <2>2, <3>1, <3>2
  <2> QED BY <2>1, <2>2
<1>5. f.side = side /\ f.qty = qty /\ f.fee = qty * k /\ f.price = k * FeeDivisor /\ f.price \in Nat
      /\ FeeClose(f, closed) = closed * k
  BY <1>2, FeeCloseExact, MoneyAssumption DEF FillOf
<1> HIDE DEF f, closed, cost
<1>6. apply_fill(a, f) = r
  <2> DEFINE b == [a EXCEPT !.cash = @ - f.side * f.qty * f.price, !.fees = @ + f.fee]
  <2>1. apply_fill(a, f) = Decrease(b, f)
    BY <1>1, <1>5 DEF apply_fill
  <2>2. b.pos = p /\ b.realized = a.realized /\ b.trades = a.trades /\ b.cash = a.cash - all
        /\ b.fees = a.fees + qty * k
    BY <1>5 DEF Accounts
  <2> HIDE DEF b
  <2>3. Decrease(b, f) = [b EXCEPT !.realized = @ + pnl, !.trades = trades, !.pos = pos]
    <3>1. least(f.qty, absOf(b.pos.qty)) = closed
      BY <1>5, <2>2 DEF closed
    <3>2. cost = IF closed = absOf(b.pos.qty) THEN b.pos.basis
                 ELSE (b.pos.basis * closed) \div absOf(b.pos.qty)
      BY <2>2 DEF cost
    <3>3. signOf(b.pos.qty) * closed * f.price - cost = pnl
      BY <1>1, <2>2
    <3> HIDE DEF pnl, s
    <3>4. t = [b.pos.trade EXCEPT !.realized = @ + pnl, !.fees = @ + FeeClose(f, closed),
                                  !.exitN = @ + closed * f.price, !.exitQ = @ + closed]
      BY <1>5, <2>2 DEF Reduced
    <3> HIDE DEF t
    <3>5. pos = IF f.qty > closed THEN Remainder(f, closed, FeeClose(f, closed))
                ELSE IF b.pos.qty + f.side * closed = 0 THEN flat
                ELSE [qty |-> b.pos.qty + f.side * closed, basis |-> b.pos.basis - cost, trade |-> t]
      BY <1>5, <2>2
    <3>6. trades = IF b.pos.qty + f.side * closed = 0 THEN Finished(b.trades, t) ELSE b.trades
      BY <1>5, <2>2
    <3> HIDE DEF pos, trades
    <3> QED BY ONLY <3>1, <3>2, <3>3, <3>4, <3>5, <3>6 DEF Decrease, flat
  <2> HIDE DEF pos, trades, pnl, all
  <2> QED BY <2>1, <2>3, <1>5, ZenonT(40) DEF b, all
<1> DEFINE n == closed * f.price
<1>7. n \in Nat /\ pnl = s * n - cost /\ pnl \in Int /\ closed * k \in Nat /\ qty * k \in Nat
      /\ all \in Int
  BY <1>1, <1>2, <1>4, <1>5
<1>8. /\ t \in TradeRecords
      /\ t.side = s /\ t.entryQ - t.exitQ = absOf(p.qty) - closed
      /\ t.realized = s * (t.exitN - t.entryN) + (p.basis - cost)
      /\ t.fees * FeeDivisor = t.entryN + t.exitN
      /\ t.mae <= 0
      /\ t.realized = p.trade.realized + pnl
      /\ t.fees = p.trade.fees + closed * k /\ t.funding = p.trade.funding
  <2> HIDE DEF s, p
  <2>1. p.qty # 0
    BY DEF p
  <2>2. RightlyReduced(t, p, f, closed, cost, s, k)
    BY <1>1, <1>2, <1>4, <1>5, <2>1, ReducedRight
  <2> HIDE DEF t, pnl
  <2> QED BY <2>2 DEF RightlyReduced, pnl
<1>9. /\ a.cash = a.realized - funding - p.basis
      /\ a.realized = a.trades.realized + p.trade.realized
      /\ a.fees = a.trades.fees + p.trade.fees
      /\ funding = a.trades.funding + p.trade.funding
      /\ ClosedRight(a.trades.last)
  BY DEF Balanced, TradeOf
<1>10. /\ a.trades \in Totals /\ a.trades.realized \in Int /\ a.trades.fees \in Int
       /\ a.trades.funding \in Int /\ p.trade.realized \in Int /\ p.trade.fees \in Int
       /\ p.trade.funding \in Int
  BY <1>1 DEF Accounts, Totals, Positions, TradeRecords
<1>11. a.cash - all \in Int /\ a.realized + pnl \in Int /\ a.fees + qty * k \in Int
  BY <1>1, <1>7
<1> HIDE DEF t, pnl, n, all
(* A closed trade is over. *)
<1>12. ASSUME q = 0
       PROVE  trades \in Totals /\ ClosedRight(trades.last)
              /\ trades.realized = a.realized + pnl
              /\ trades.fees = a.trades.fees + p.trade.fees + closed * k
              /\ trades.funding = funding
  <2>1. trades = Finished(a.trades, t) /\ p.basis - cost = 0 /\ absOf(p.qty) - closed = 0
    BY <1>1, <1>2, <1>3, <1>4, <1>12
  <2>2. ClosedRight(t)
    <3>1. t.entryQ \in Int /\ t.exitQ \in Int /\ s * (t.exitN - t.entryN) \in Int
      BY <1>1, <1>8 DEF TradeRecords
    <3>2. t.entryQ = t.exitQ
      BY ONLY <1>8, <2>1, <3>1
    <3>3. t.realized = t.side * (t.exitN - t.entryN)
      BY ONLY <1>8, <2>1, <3>1
    <3> QED BY <1>8, <3>2, <3>3 DEF ClosedRight
  <2>3. t.realized \in Int /\ t.fees \in Int /\ t.funding \in Int
    BY <1>8 DEF TradeRecords
  <2> QED BY <1>7, <1>8, <1>9, <1>10, <2>1, <2>2, <2>3 DEF Finished, Totals
(* Through zero: the remainder opens a trade of its own. *)
<1>13. CASE qty > closed
  <2> DEFINE rest == qty - closed
             m == rest * f.price
             fe == qty * k - closed * k
  <2>1. q = 0 /\ pos = Remainder(f, closed, closed * k)
    BY <1>2, <1>3, <1>13
  <2>2. rest \in Nat \ {0} /\ m \in Nat /\ fe \in Nat /\ fe * FeeDivisor = m
        /\ f.side * rest * f.price = side * m /\ all = side * (n + m)
    <3>1. rest \in Nat \ {0} /\ m \in Nat /\ FeeDivisor \in Nat
      BY <1>2, <1>5, <1>13, MoneyAssumption
    <3>2. \A x, y, z, d \in Int : (x * z - y * z) * d = (x - y) * (z * d)
      OBVIOUS
    <3>3. \A x, y, z \in Int : x * y * z = x * (y * z)
      OBVIOUS
    <3>4. fe * FeeDivisor = m
      BY <1>2, <1>5, <3>1, <3>2
    <3>5. fe \in Nat
      BY <1>2
    <3>6. qty * f.price = n + m
      BY <1>2, <1>5, <3>1, Distributes DEF n
    <3>7. f.side * rest * f.price = side * m /\ all = side * (n + m)
      BY <1>5, <3>1, <3>3, <3>6 DEF all
    <3> QED BY <3>1, <3>4, <3>5, <3>7
  <2>3. f.fee - closed * k = fe /\ f.qty - closed = rest
    BY <1>5
  <2> HIDE DEF rest, m, fe
  <2>4. pos = [qty |-> side * rest, basis |-> side * m,
               trade |-> [NoTrade EXCEPT !.side = side, !.fees = fe, !.entryN = m, !.entryQ = rest,
                                         !.maxQty = rest]]
    BY <1>5, <2>1, <2>2, <2>3 DEF Remainder, StartTrade, NoTrade, m
  <2>5. pos.qty = side * rest /\ pos.basis = side * m /\ pos.trade.side = side /\ pos.trade.fees = fe
        /\ pos.trade.entryN = m /\ pos.trade.entryQ = rest /\ pos.trade.exitQ = 0
        /\ pos.trade.exitN = 0 /\ pos.trade.realized = 0 /\ pos.trade.funding = 0
        /\ pos.trade.mae = 0 /\ pos \in Positions
    <3>1. side * rest \in Int /\ side * m \in Int
      BY <2>2
    <3> HIDE DEF pos
    <3>2. pos.trade \in TradeRecords
      <4>1. fe \in Int /\ m \in Int /\ rest \in Int /\ side \in {-1, 0, 1}
        BY <2>2
      <4>2. pos.trade = [side |-> side, maxQty |-> rest, realized |-> 0, fees |-> fe, funding |-> 0,
                         entryN |-> m, entryQ |-> rest, exitN |-> 0, exitQ |-> 0, mae |-> 0]
        BY <2>4 DEF NoTrade
      <4> QED BY <4>1, <4>2 DEF TradeRecords
    <3>3. pos \in Positions
      BY <2>4, <3>1, <3>2 DEF Positions
    <3> QED BY <2>4, <3>3 DEF NoTrade
  <2>6. pos.qty # 0 /\ signOf(pos.qty) = side /\ absOf(pos.qty) = rest
    BY <2>2, <2>5 DEF signOf, absOf
  <2>7. OpenRight(pos) /\ TradeOf(pos) = pos.trade
    BY <2>2, <2>5, <2>6 DEF OpenRight, TradeOf
  <2>8. a.cash - all = (a.realized + pnl) - funding - side * m
    BY <1>1, <1>4, <1>7, <1>9, <2>1, <2>2
  <2>9. a.fees + qty * k = (a.trades.fees + p.trade.fees + closed * k) + fe
    BY <1>1, <1>7, <1>9, <1>10, <2>2, <1>2 DEF fe
  <2> HIDE DEF pos, trades
  <2>10. r \in Accounts
    BY <1>12, <1>11, <2>1, <2>5, UpdatedAccount
  <2>11. Balanced(r, funding)
    BY <1>1, <1>7, <1>12, <2>1, <2>5, <2>7, <2>8, <2>9 DEF Balanced
  <2> QED BY <1>6, <2>10, <2>11 DEF f
<1>14. CASE qty = closed /\ q = 0
  <2>1. pos = flat
    BY <1>2, <1>14
  <2>2. flat \in Positions /\ flat.qty = 0 /\ flat.basis = 0 /\ flat.trade.side = 0
    BY <1>8 DEF Positions, TradeRecords
  <2>3. OpenRight(flat) /\ TradeOf(flat) = NoTrade
    BY <2>2 DEF OpenRight, TradeOf, signOf
  <2>4. NoTrade.realized = 0 /\ NoTrade.fees = 0 /\ NoTrade.funding = 0
    BY DEF NoTrade
  <2>5. a.cash - all = (a.realized + pnl) - funding - 0
    <3>1. all = side * n
      BY <1>2, <1>5, <1>14 DEF all, n
    <3> QED BY ONLY <1>1, <1>4, <1>7, <1>9, <1>14, <3>1, n \in Int, funding \in Int,
                    side \in {-1, 1}, CashMoves
  <2>6. r.pos = flat /\ r.trades = trades /\ r.cash = a.cash - all /\ r.realized = a.realized + pnl
        /\ r.fees = a.fees + closed * k
    BY <1>14, <2>1
  <2> HIDE DEF pos, trades, flat
  <2>7. r \in Accounts
    BY <1>12, <1>14, <1>11, <2>1, <2>2, UpdatedAccount, ZenonT(40)
  <2> HIDE DEF r
  <2>8. Balanced(r, funding)
    BY <1>1, <1>7, <1>9, <1>10, <1>12, <1>14, <2>2, <2>3, <2>4, <2>5, <2>6 DEF Balanced
  <2> QED BY <1>6, <2>7, <2>8 DEF f
<1>15. CASE q # 0
  <2>1. pos = held /\ trades = a.trades /\ qty = closed
    BY <1>2, <1>3, <1>15
  <2>2. held.qty = q /\ held.basis = p.basis - cost /\ held.trade = t /\ held \in Positions
    BY <1>1, <1>3, <1>4, <1>8 DEF Positions
  <2>3. OpenRight(held) /\ TradeOf(held) = t
    BY <1>3, <1>8, <1>15, <2>2 DEF OpenRight, TradeOf
  <2>4. a.cash - all = (a.realized + pnl) - funding - (p.basis - cost)
    <3>1. all = side * n
      BY <1>2, <1>5, <2>1 DEF all, n
    <3> QED BY ONLY <1>1, <1>4, <1>7, <1>9, <3>1, n \in Int, funding \in Int,
                    side \in {-1, 1}, CashMoves
  <2>5. r.pos = held /\ r.trades = a.trades /\ r.cash = a.cash - all /\ r.realized = a.realized + pnl
        /\ r.fees = a.fees + closed * k
    BY <2>1
  <2> HIDE DEF pos, trades, held
  <2>6. r \in Accounts
    BY <1>10, <1>11, <2>1, <2>2, UpdatedAccount
  <2> HIDE DEF r
  <2>7. Balanced(r, funding)
    BY <1>1, <1>7, <1>8, <1>9, <1>10, <2>2, <2>3, <2>4, <2>5 DEF Balanced
  <2> QED BY <1>6, <2>6, <2>7 DEF f
<1> QED BY <1>2, <1>13, <1>14, <1>15

-----------------------------------------------------------------------------
(* The schedule. *)

(* The moments of (from, to], without the calendar. *)
DueIn(from, to) == {m \in (from + 1) .. to : m % DayLength \in FundingOffsets}

LEMMA DayParts ==
    ASSUME NEW t \in Int
    PROVE  /\ DayOf(t) \in Int /\ (t % DayLength) \in 0 .. (DayLength - 1)
           /\ t = DayOf(t) + (t % DayLength)
           /\ DayOf(t) = DayLength * (t \div DayLength) /\ t \div DayLength \in Int
<1>1. DayLength \in Nat \ {0}
  BY ScheduleAssumption
<1>2. t \div DayLength \in Int /\ (t % DayLength) \in 0 .. (DayLength - 1)
      /\ t = DayLength * (t \div DayLength) + (t % DayLength)
  BY <1>1
<1> HIDE DEF DayOf
<1>3. DayOf(t) = t - (t % DayLength)
  BY DEF DayOf
<1> QED BY <1>1, <1>2, <1>3

LEMMA DayBegins ==
    ASSUME NEW t \in Nat
    PROVE  LET c == t \div DayLength
           IN  /\ DayOf(t) = DayLength * c /\ c \in Int /\ DayOf(t) \in Int
               /\ DayOf(t) <= t /\ t < DayLength * c + DayLength
<1> DEFINE c == t \div DayLength
           r == t % DayLength
<1>1. DayLength \in Nat \ {0}
  BY ScheduleAssumption
<1>2. DayOf(t) = DayLength * c /\ c \in Int /\ DayOf(t) \in Int /\ r \in 0 .. (DayLength - 1)
      /\ t = DayOf(t) + r
  BY DayParts
<1> HIDE DEF c, r
<1> QED BY <1>1, <1>2 DEF c

(* A whole number of days and an offset: the offset is the time of the day. *)
LEMMA TimeOfDay ==
    ASSUME NEW j \in Int, NEW o \in 0 .. (DayLength - 1)
    PROVE  (DayLength * j + o) % DayLength = o /\ (DayLength * j + o) \div DayLength = j
<1>1. DayLength \in Nat \ {0}
  BY ScheduleAssumption
<1> QED BY <1>1

LEMMA FundingTimesAreDue ==
    ASSUME NEW from \in Nat, NEW to \in Nat, from <= to
    PROVE  funding_times(from, to) = DueIn(from, to)
<1> DEFINE D == DayLength
           c == from \div DayLength
<1>1. D \in Nat \ {0} /\ FundingOffsets \subseteq 0 .. (D - 1)
  BY ScheduleAssumption
<1>2. DayOf(from) = D * c /\ c \in Int /\ DayOf(from) \in Int /\ DayOf(from) <= from /\ from < D * c + D
  BY DayBegins
<1> HIDE DEF c
<1>3. ASSUME NEW m \in funding_times(from, to) PROVE m \in DueIn(from, to)
  <2>1. PICK d \in 0 .. ((to - DayOf(from)) \div D), o \in FundingOffsets :
           m = DayOf(from) + d * D + o
    BY <1>3 DEF funding_times, MomentsFrom
  <2>2. o \in 0 .. (D - 1) /\ d \in Int
    BY <1>1, <2>1
  <2>3. D * c + d * D = D * (c + d)
    BY <1>1, <1>2, <2>2
  <2>4. m = D * (c + d) + o /\ c + d \in Int
    BY <1>1, <1>2, <2>1, <2>2, <2>3
  <2>5. m % D = o
    BY <2>2, <2>4, TimeOfDay
  <2>6. m \in Int
    BY <1>1, <2>2, <2>4
  <2>7. from < m /\ m <= to
    BY <1>3 DEF funding_times
  <2> QED BY <2>5, <2>6, <2>7 DEF DueIn
<1>4. ASSUME NEW m \in DueIn(from, to) PROVE m \in funding_times(from, to)
  <2> DEFINE o == m % D
             e == m \div D
             d == e - c
             f == (to - DayOf(from)) \div D
  <2>1. m \in Int /\ from < m /\ m <= to /\ o \in FundingOffsets
    BY <1>4 DEF DueIn
  <2>2. e \in Int /\ o \in 0 .. (D - 1) /\ m = D * e + o
    BY <2>1, DayParts
  <2>3. f \in Int /\ D * f <= to - D * c /\ to - D * c < D * (f + 1)
    <3>1. \A x \in Int : x \div D \in Int /\ D * (x \div D) <= x /\ x < D * (x \div D + 1)
      BY <1>1
    <3>2. to - D * c \in Int
      BY <1>1, <1>2
    <3> QED BY <1>2, <3>1, <3>2
  <2> HIDE DEF e, o, f, D
  <2>4. e >= c
    <3>1. D * c < D * (e + 1)
      BY <1>1, <1>2, <2>1, <2>2
    <3> QED BY <1>1, <1>2, <2>2, <3>1
  <2>5. e - c <= f
    <3>1. D * (e - c) < D * (f + 1)
      BY <1>1, <1>2, <2>1, <2>2, <2>3
    <3> QED BY <1>1, <1>2, <2>2, <2>3, <3>1
  <2>6. d \in 0 .. f
    BY <1>2, <2>2, <2>3, <2>4, <2>5
  <2>7. m = DayOf(from) + d * D + o
    BY <1>1, <1>2, <2>2
  <2>8. m \in MomentsFrom(from, to)
    BY <2>1, <2>6, <2>7 DEF MomentsFrom, f, D
  <2> QED BY <2>1, <2>8 DEF funding_times
<1> QED BY <1>3, <1>4

LEMMA LeastMember ==
    ASSUME NEW S, S \subseteq Nat, S # {}
    PROVE  Min(S) \in S /\ \A y \in S : Min(S) <= y
<1>1. PICK x \in S : \A y \in S : <<y, x>> \notin OpToRel(<, Nat)
  BY NatLessThanWellFounded, WFMin
<1>2. \A y \in S : x <= y
  <2> SUFFICES ASSUME NEW y \in S PROVE x <= y
    OBVIOUS
  <2>1. x \in Nat /\ y \in Nat
    OBVIOUS
  <2>2. ~(y < x)
    BY <1>1, <2>1 DEF OpToRel
  <2> QED BY <2>1, <2>2
<1> QED BY <1>2 DEF Min

LEMMA GreatestMember ==
    ASSUME NEW S, S \subseteq Int, S # {}, NEW b \in Int, \A x \in S : x <= b
    PROVE  Max(S) \in S /\ \A y \in S : y <= Max(S)
<1> DEFINE T == {b - x : x \in S}
<1>1. T \subseteq Nat /\ T # {}
  <2>1. ASSUME NEW x \in S PROVE b - x \in Nat
    <3>1. x \in Int /\ x <= b
      OBVIOUS
    <3> QED BY <3>1
  <2> QED BY <2>1
<1>2. Min(T) \in T /\ \A z \in T : Min(T) <= z
  BY <1>1, LeastMember
<1>3. PICK x \in S : Min(T) = b - x
  BY <1>2
<1>4. \A y \in S : x >= y
  <2> SUFFICES ASSUME NEW y \in S PROVE x >= y
    OBVIOUS
  <2>1. x \in Int /\ y \in Int
    OBVIOUS
  <2>2. b - x <= b - y
    BY <1>2, <1>3
  <2> QED BY <2>1, <2>2
<1> QED BY <1>4 DEF Max

LEMMA NextIsFirst ==
    ASSUME NEW from \in Nat, NEW m \in Nat, from < m, m % DayLength \in FundingOffsets
    PROVE  next_funding_time(from) <= m
<1> DEFINE D == DayLength
           c == from \div DayLength
           e == m \div DayLength
           o == m % DayLength
           later == {x \in FundingOffsets : DayOf(from) + x > from}
<1>1. D \in Nat \ {0} /\ FundingOffsets \subseteq 0 .. (D - 1) /\ FundingOffsets # {}
      /\ FundingOffsets \subseteq Nat
  BY ScheduleAssumption
<1>2. DayOf(from) = D * c /\ c \in Int /\ DayOf(from) \in Int /\ from < D * c + D
  BY <1>1, DayBegins
<1>3. e \in Int /\ o \in 0 .. (D - 1) /\ m = D * e + o
  BY DayParts
<1> HIDE DEF c, e, o, D
<1>4. c <= e
  <2>1. D * c < D * (e + 1)
    BY <1>1, <1>2, <1>3, DayBegins DEF c, D
  <2> QED BY <1>1, <1>2, <1>3, <2>1
<1>5. CASE c = e
  <2>1. o \in later
    BY <1>2, <1>3, <1>5 DEF o
  <2>2. later \subseteq Nat
    BY <1>1, Zenon
  <2>3. Min(later) <= o /\ Min(later) \in Nat
    BY <2>1, <2>2, LeastMember
  <2> QED BY <1>2, <1>3, <1>5, <2>1, <2>3 DEF next_funding_time
<1>6. CASE c < e
  <2>1. D * c + D <= D * e
    BY <1>1, <1>2, <1>3, <1>6
  <2>2. FundingOffsets \subseteq Nat /\ later \subseteq FundingOffsets
    BY <1>1
  <2>3. CASE later # {}
    <3>1. Min(later) \in 0 .. (D - 1)
      BY <1>1, <2>2, <2>3, LeastMember
    <3> QED BY <1>1, <1>2, <1>3, <2>1, <2>3, <3>1 DEF next_funding_time
  <2>4. CASE later = {}
    <3>1. Min(FundingOffsets) <= o /\ Min(FundingOffsets) \in Nat
      BY <1>1, <2>2, LeastMember DEF o
    <3>2. next_funding_time(from) = DayOf(from) + D + Min(FundingOffsets)
      BY <2>4 DEF next_funding_time, D
    <3> QED BY <1>1, <1>2, <1>3, <2>1, <3>1, <3>2
  <2> QED BY <2>3, <2>4
<1> QED BY <1>2, <1>3, <1>4, <1>5, <1>6

LEMMA NextIsInt ==
    ASSUME NEW from \in Nat
    PROVE  next_funding_time(from) \in Int
<1>1. DayLength \in Nat \ {0} /\ FundingOffsets \subseteq Nat /\ FundingOffsets # {}
  BY ScheduleAssumption
<1>2. DayOf(from) \in Int
  BY DayParts
<1>3. ASSUME NEW S, S \subseteq FundingOffsets, S # {} PROVE Min(S) \in Nat
  BY <1>1, <1>3, LeastMember
<1>4. \A o \in Nat : DayOf(from) + o \in Int /\ DayOf(from) + DayLength + o \in Int
  BY <1>1, <1>2
<1> QED BY <1>1, <1>3, <1>4 DEF next_funding_time

LEMMA SeriesTypes ==
    /\ Len(FundingSeries) \in Nat /\ DOMAIN FundingSeries = 1 .. Len(FundingSeries)
    /\ \A i \in 1 .. Len(FundingSeries) : FundingSeries[i].t \in Int /\ FundingSeries[i].r \in Int
    /\ \A i, j \in 1 .. Len(FundingSeries) : i < j => FundingSeries[i].t <= FundingSeries[j].t
<1> DEFINE R == [t : Int, r : Int]
<1>1. FundingSeries \in Seq(R)
  BY ScheduleAssumption
<1> HIDE DEF R
<1>2. Len(FundingSeries) \in Nat /\ DOMAIN FundingSeries = 1 .. Len(FundingSeries)
      /\ \A i \in 1 .. Len(FundingSeries) : FundingSeries[i] \in R
  BY <1>1
<1> QED BY <1>2, ScheduleAssumption DEF R

(* The records up to a time are an initial part of the series, as the pointer has it. *)
LEMMA ConsumedIsPrefix ==
    ASSUME NEW m \in Int, NEW close \in Int
    PROVE  /\ Consumed(m, close) \in Nat
           /\ {i \in DOMAIN FundingSeries : FundingSeries[i].t <= least(m + MatchWindow, close)}
              = 1 .. Consumed(m, close)
<1> DEFINE n == Len(FundingSeries)
           h == least(m + MatchWindow, close)
           S == {i \in DOMAIN FundingSeries : FundingSeries[i].t <= h}
<1>1. n \in Nat /\ DOMAIN FundingSeries = 1 .. n /\ h \in Int
      /\ (\A i \in 1 .. n : FundingSeries[i].t \in Int)
      /\ (\A i, j \in 1 .. n : i < j => FundingSeries[i].t <= FundingSeries[j].t)
  BY SeriesTypes, ScheduleAssumption DEF least
<1> HIDE DEF n, h
<1>2. CASE S = {}
  <2>1. Consumed(m, close) = 0
    BY <1>2, FS_EmptySet DEF Consumed, h
  <2> QED BY <1>2, <2>1 DEF h
<1>3. CASE S # {}
  <2>1. Max(S) \in S /\ \A y \in S : y <= Max(S)
    <3>1. S \subseteq Int /\ \A x \in S : x <= n
      BY <1>1
    <3> HIDE DEF S
    <3>2. n \in Int
      BY <1>1
    <3> QED BY ONLY <1>3, <3>1, <3>2, GreatestMember, Zenon
  <2> DEFINE j == Max(S)
  <2> HIDE DEF j
  <2>2. j \in 1 .. n /\ FundingSeries[j].t <= h
    BY <1>1, <2>1 DEF j
  <2>3. S = 1 .. j
    <3>1. ASSUME NEW i \in 1 .. j PROVE i \in S
      <4>1. i \in 1 .. n /\ (i = j \/ i < j)
        BY <1>1, <2>2
      <4>2. FundingSeries[i].t <= h
        BY <1>1, <2>2, <4>1
      <4> QED BY <1>1, <4>1, <4>2
    <3>2. ASSUME NEW i \in S PROVE i \in 1 .. j
      <4>1. i \in 1 .. n /\ i <= j
        BY <1>1, <2>1 DEF j
      <4> QED BY <2>2, <4>1
    <3> QED BY <3>1, <3>2
  <2>4. Cardinality(S) = j
    <3>1. 1 \in Int /\ j \in Int /\ ~(1 > j) /\ j - 1 + 1 = j
      BY <1>1, <2>2
    <3>2. Cardinality(1 .. j) = j
      BY ONLY <3>1, FS_Interval
    <3> QED BY <2>3, <3>2
  <2>5. Consumed(m, close) = j
    BY <2>4 DEF Consumed, h
  <2> QED BY <1>1, <2>2, <2>3, <2>5 DEF h
<1> QED BY <1>2, <1>3

(* The rate of a bar is the newest one that lies near the moment and is known. *)
LEMMA RateIsNewest ==
    ASSUME NEW m \in Int, NEW t \in Int
    PROVE  LET p == Consumed(m, t + BarLength)
               known == KnownRates(m, t)
           IN  /\ p \in Nat /\ RateOf(m, p) \in Int
               /\ RateOf(m, p) = IF known = {} THEN FallbackRate ELSE FundingSeries[Max(known)].r
<1> DEFINE p == Consumed(m, t + BarLength)
           known == KnownRates(m, t)
           n == Len(FundingSeries)
<1>1. n \in Nat /\ DOMAIN FundingSeries = 1 .. n /\ MatchWindow \in Nat /\ BarLength \in Nat
      /\ (\A i \in 1 .. n : FundingSeries[i].t \in Int /\ FundingSeries[i].r \in Int)
      /\ (\A i, j \in 1 .. n : i < j => FundingSeries[i].t <= FundingSeries[j].t)
      /\ FallbackRate \in Int
  BY SeriesTypes, ScheduleAssumption
<1>2. p \in Nat /\ {i \in 1 .. n : FundingSeries[i].t <= least(m + MatchWindow, t + BarLength)} = 1 .. p
  <2>1. t + BarLength \in Int
    BY <1>1
  <2> QED BY <1>1, <2>1, ConsumedIsPrefix
<1> HIDE DEF p, n
<1>3. p <= n
  <2>1. 1 .. p \subseteq 1 .. n
    BY <1>2
  <2> QED BY <1>1, <1>2, <2>1
<1>4. known = {i \in 1 .. p : FundingSeries[i].t > m - MatchWindow}
  <2>1. \A x \in Int : x <= least(m + MatchWindow, t + BarLength)
                       <=> x <= m + MatchWindow /\ x <= t + BarLength
    BY <1>1 DEF least
  <2>2. \A i \in 1 .. n : i \in 1 .. p <=> FundingSeries[i].t <= m + MatchWindow
                                           /\ FundingSeries[i].t <= t + BarLength
    BY <1>1, <1>2, <2>1
  <2>3. 1 .. p \subseteq 1 .. n
    BY <1>1, <1>2, <1>3
  <2> QED BY <1>1, <2>2, <2>3 DEF KnownRates
<1> HIDE DEF known
<1>5. RateOf(m, p) \in Int
  BY <1>1, <1>2, <1>3 DEF RateOf
<1>6. CASE p > 0 /\ FundingSeries[p].t > m - MatchWindow
  <2>1. p \in known /\ \A i \in known : i <= p /\ i \in Int
    BY <1>2, <1>4, <1>6
  <2>2. Max(known) \in known /\ \A y \in known : y <= Max(known)
    BY <1>2, <2>1, GreatestMember
  <2>3. Max(known) = p
    <3>1. Max(known) \in Int /\ Max(known) <= p /\ p <= Max(known)
      BY <2>1, <2>2
    <3> QED BY <1>2, <3>1
  <2> QED BY <1>2, <1>5, <1>6, <2>1, <2>3 DEF RateOf, p, known
<1>7. CASE ~(p > 0 /\ FundingSeries[p].t > m - MatchWindow)
  <2>1. ASSUME NEW i \in known PROVE FALSE
    <3>1. i \in 1 .. p /\ FundingSeries[i].t > m - MatchWindow
      BY <1>4
    <3>2. i \in 1 .. n /\ p \in 1 .. n /\ (i = p \/ i < p)
      BY <1>1, <1>2, <1>3, <3>1
    <3>3. FundingSeries[i].t <= FundingSeries[p].t
      BY <1>1, <3>2
    <3> QED BY <1>1, <1>7, <3>1, <3>2, <3>3
  <2> QED BY <1>2, <1>5, <1>7, <2>1 DEF RateOf, p, known
<1> QED BY <1>6, <1>7

-----------------------------------------------------------------------------
(* The specification. *)

Account ==
    [cash |-> pfCash, realized |-> pfRealized, fees |-> pfFees, trades |-> pfTrades, pos |-> pfPos]

PortfolioTypeOK ==
    /\ Account \in Accounts
    /\ pfFunding \in Int /\ pfMark \in Int /\ pfRate \in Int
    /\ pfClock \in [prev : Int, open : Int, bars : Int] /\ pfClock.open >= -1

(* The books are in order, and the worst loss of the trade in progress counts the last mark. *)
BooksInOrder ==
    /\ Balanced(Account, pfFunding)
    /\ pfPos.qty # 0 => pfPos.trade.mae <= least(0, unrealized)

PortfolioInv == PortfolioTypeOK /\ BooksInOrder /\ FundingIsExact

LEMMA BooksFollow == PortfolioTypeOK /\ BooksInOrder => BooksBalance
<1> SUFFICES ASSUME PortfolioTypeOK, BooksInOrder PROVE BooksBalance
  OBVIOUS
<1>1. /\ pfCash \in Int /\ pfRealized \in Int /\ pfFees \in Int /\ pfFunding \in Int
      /\ pfPos.basis \in Int /\ pfPos.qty \in Int /\ pfMark \in Int
  BY DEF PortfolioTypeOK, Account, Accounts, Positions
<1>2. /\ pfCash = pfRealized - pfFunding - pfPos.basis
      /\ pfRealized = pfTrades.realized + OpenTrade.realized
      /\ pfFees = pfTrades.fees + OpenTrade.fees
      /\ pfFunding = pfTrades.funding + OpenTrade.funding
      /\ ClosedRight(pfTrades.last)
      /\ OpenRight(pfPos)
  BY DEF BooksInOrder, Balanced, Account, TradeOf, OpenTrade
<1>3. identity_residual = 0
  <2>1. pfPos.qty * pfMark \in Int
    BY <1>1
  <2> QED BY <1>1, <1>2, <2>1 DEF identity_residual, equity_cash_form, equity, wallet_balance, unrealized
<1>4. OpenTrade.entryQ - OpenTrade.exitQ = absOf(pfPos.qty)
  BY <1>2 DEF OpenRight, OpenTrade, NoTrade, absOf
<1> QED BY <1>2, <1>3, <1>4 DEF BooksBalance, BooksInOrder, ClosedRight, OpenRight

(* Funding is charged to the trade in progress, and none when there is none. *)
LEMMA FundedKeeps ==
    ASSUME NEW a \in Accounts, NEW funding \in Int, Balanced(a, funding), NEW paid \in Int,
           a.pos.qty = 0 => paid = 0
    PROVE  LET r == [cash |-> a.cash - paid, realized |-> a.realized, fees |-> a.fees,
                     trades |-> a.trades, pos |-> [a.pos EXCEPT !.trade.funding = @ + paid]]
           IN  r \in Accounts /\ Balanced(r, funding + paid)
<1> DEFINE p == a.pos
           u == p.trade.funding + paid
           t == [p.trade EXCEPT !.funding = u]
           pos == [p EXCEPT !.trade = t]
           r == [cash |-> a.cash - paid, realized |-> a.realized, fees |-> a.fees,
                 trades |-> a.trades, pos |-> pos]
<1>1. p \in Positions /\ p.trade \in TradeRecords /\ a.cash \in Int /\ a.realized \in Int
      /\ a.fees \in Int /\ a.trades \in Totals /\ a.trades.funding \in Int /\ p.basis \in Int
  BY DEF Accounts, Positions, Totals
<1>2. u \in Int /\ p.trade.funding \in Int
  BY <1>1 DEF TradeRecords
<1> HIDE DEF u, p
<1>3. t \in TradeRecords
  BY <1>1, <1>2 DEF TradeRecords
<1>4. t.side = p.trade.side /\ t.realized = p.trade.realized /\ t.fees = p.trade.fees /\ t.funding = u
      /\ t.entryN = p.trade.entryN /\ t.exitN = p.trade.exitN /\ t.entryQ = p.trade.entryQ
      /\ t.exitQ = p.trade.exitQ /\ t.mae = p.trade.mae
  BY <1>1 DEF TradeRecords
<1> HIDE DEF t
<1>5. pos \in Positions /\ pos.qty = p.qty /\ pos.basis = p.basis /\ pos.trade = t
  BY <1>1, <1>3 DEF Positions
<1>6. [a.pos EXCEPT !.trade.funding = @ + paid] = pos
  BY DEF pos, p, t, u
<1> HIDE DEF pos
<1>7. a.cash - paid \in Int
  BY <1>1
<1>8. r \in Accounts
  BY <1>1, <1>5, <1>7 DEF Accounts
<1>9. OpenRight(pos)
  BY <1>4, <1>5 DEF OpenRight, Balanced, p
<1>10. TradeOf(pos).realized = TradeOf(p).realized /\ TradeOf(pos).fees = TradeOf(p).fees
       /\ TradeOf(pos).funding = TradeOf(p).funding + paid /\ TradeOf(p).funding \in Int
  <2>1. CASE p.qty = 0
    BY <1>5, <2>1 DEF TradeOf, NoTrade, p
  <2>2. CASE p.qty # 0
    BY <1>2, <1>4, <1>5, <2>2 DEF TradeOf, u
  <2> QED BY <2>1, <2>2
<1>11. /\ a.cash = a.realized - funding - p.basis
       /\ a.realized = a.trades.realized + TradeOf(p).realized
       /\ a.fees = a.trades.fees + TradeOf(p).fees
       /\ funding = a.trades.funding + TradeOf(p).funding
       /\ ClosedRight(a.trades.last)
  BY DEF Balanced, p
<1>12. /\ a.cash - paid = a.realized - (funding + paid) - p.basis
       /\ funding + paid = a.trades.funding + (TradeOf(p).funding + paid)
  BY <1>1, <1>10, <1>11
<1>13. Balanced(r, funding + paid)
  BY <1>5, <1>9, <1>10, <1>11, <1>12 DEF Balanced
<1> QED BY <1>6, <1>8, <1>13

(* The moments a bar is charged for are those that are due. *)
LEMMA ChargedIsDue ==
    ASSUME pfClock.open \in Nat, NEW t \in Nat, pfClock.open <= t
    PROVE  Charged(t) = IF pfPos.qty = 0 THEN {} ELSE DueIn(pfClock.open, t)
<1>1. funding_times(pfClock.open, t) = DueIn(pfClock.open, t)
  BY FundingTimesAreDue
<1>2. ASSUME t < next_funding_time(pfClock.open) PROVE DueIn(pfClock.open, t) = {}
  <2> SUFFICES ASSUME NEW m \in DueIn(pfClock.open, t) PROVE FALSE
    OBVIOUS
  <2>1. m \in Nat /\ pfClock.open < m /\ m <= t /\ m % DayLength \in FundingOffsets
    BY DEF DueIn
  <2>2. next_funding_time(pfClock.open) <= m
    BY <2>1, NextIsFirst
  <2>3. next_funding_time(pfClock.open) \in Int
    BY NextIsInt
  <2> QED BY <1>2, <2>1, <2>2, <2>3
<1> QED BY <1>1, <1>2 DEF Charged

LEMMA PointerRight ==
    ASSUME pfClock.open \in Int, pfRate \in Int, NEW t \in Nat, pfClock.open <= t
    PROVE  /\ Pointer(t).rate \in Int
           /\ pfClock.open >= 0 /\ DueIn(pfClock.open, t) # {} =>
                LET m == Max(DueIn(pfClock.open, t))
                    known == KnownRates(m, t)
                IN  Pointer(t).rate = IF known = {} THEN FallbackRate ELSE FundingSeries[Max(known)].r
<1> DEFINE due == DueIn(pfClock.open, t)
           m == Max(due)
<1>1. CASE pfClock.open < 0
  BY <1>1 DEF Pointer
<1>2. CASE pfClock.open >= 0
  <2>1. funding_times(pfClock.open, t) = due
    BY <1>2, FundingTimesAreDue
  <2>2. CASE due = {}
    BY <1>2, <2>1, <2>2 DEF Pointer
  <2>3. CASE due # {}
    <3>1. due \subseteq Int /\ \A x \in due : x <= t
      BY DEF DueIn
    <3> HIDE DEF due
    <3>2. m \in Int
      <4>1. Max(due) \in due
        BY ONLY <2>3, <3>1, t \in Int, GreatestMember, Zenon
      <4> QED BY <3>1, <4>1
    <3>3. Pointer(t).rate = RateOf(m, Consumed(m, t + BarLength))
      BY <1>2, <2>1, <2>3 DEF Pointer
    <3> HIDE DEF m
    <3>4. /\ RateOf(m, Consumed(m, t + BarLength)) \in Int
          /\ RateOf(m, Consumed(m, t + BarLength))
             = IF KnownRates(m, t) = {} THEN FallbackRate ELSE FundingSeries[Max(KnownRates(m, t))].r
      BY ONLY <3>2, t \in Int, RateIsNewest, Zenon
    <3> QED BY <3>3, <3>4 DEF due, m
  <2> QED BY <2>2, <2>3
<1> QED BY <1>1, <1>2

LEMMA PaymentRight ==
    ASSUME PortfolioTypeOK, NEW t \in Nat, pfClock.open <= t, NEW open \in Int, NEW rate \in Int
    PROVE  Payment(t, open, rate) \in Int /\ (pfPos.qty = 0 => Payment(t, open, rate) = 0)
<1>1. pfClock.open \in Int /\ pfMark \in Int /\ pfPos.qty \in Int /\ FundingDivisor \in Nat \ {0}
  BY MoneyAssumption DEF PortfolioTypeOK, Account, Accounts, Positions
<1> DEFINE c == Cardinality(Charged(t) \ {t})
           earlier == c * pfMark
           now == IF t \in Charged(t) THEN open ELSE 0
           all == pfPos.qty * rate * (earlier + now)
<1>2. c \in Nat
  <2>1. Charged(t) \subseteq (pfClock.open + 1) .. t
    <3>1. CASE pfClock.open < 0
      BY <3>1 DEF Charged
    <3>2. CASE pfClock.open >= 0
      <4>1. pfClock.open \in Nat
        BY <1>1, <3>2
      <4> QED BY <4>1, ChargedIsDue DEF DueIn
    <3> QED BY <1>1, <3>1, <3>2
  <2>2. IsFiniteSet((pfClock.open + 1) .. t)
    <3>1. pfClock.open + 1 \in Int /\ t \in Int
      BY <1>1
    <3> QED BY <3>1, FS_Interval
  <2>3. IsFiniteSet(Charged(t) \ {t})
    BY <2>1, <2>2, FS_Subset
  <2> QED BY <2>3, FS_CardinalityType
<1> HIDE DEF c
<1>3. earlier \in Int /\ now \in Int
  BY <1>1, <1>2
<1> HIDE DEF earlier, now
<1>4. all \in Int /\ (pfPos.qty = 0 => all = 0)
  BY <1>1, <1>3
<1>5. Payment(t, open, rate) = all \div FundingDivisor
  BY DEF Payment, all, earlier, now, c
<1> HIDE DEF all
<1> QED BY <1>1, <1>4, <1>5

(* The account after the funding and the fill of a bar is in order. *)
LEMMA SettledRight ==
    ASSUME PortfolioTypeOK, Balanced(Account, pfFunding), NEW paid \in Int,
           pfPos.qty = 0 => paid = 0,
           NEW open \in BarPrices, NEW fill \in FillsAt(open)
    PROVE  Settled(paid, fill) \in Accounts /\ Balanced(Settled(paid, fill), pfFunding + paid)
<1> DEFINE funded == [cash |-> pfCash - paid, realized |-> pfRealized, fees |-> pfFees,
                      trades |-> pfTrades, pos |-> [pfPos EXCEPT !.trade.funding = @ + paid]]
           all == pfFunding + paid
<1>1. Account \in Accounts /\ pfFunding \in Int /\ Account.pos = pfPos /\ Account.cash = pfCash
      /\ Account.realized = pfRealized /\ Account.fees = pfFees /\ Account.trades = pfTrades
  BY DEF PortfolioTypeOK, Account
<1>2. funded \in Accounts /\ Balanced(funded, all)
  BY <1>1, FundedKeeps
<1>3. all \in Int
  BY <1>1
<1> HIDE DEF funded, all
<1>4. PICK s \in {-1, 1}, q \in FillQtys \cup {0} :
         fill = [side |-> s, qty |-> q, price |-> open, fee |-> (q * open) \div FeeDivisor]
  BY DEF FillsAt
<1>5. CASE q = 0
  <2>1. Settled(paid, fill) = funded
    BY <1>4, <1>5 DEF Settled, funded
  <2> QED BY <1>2, <2>1 DEF all
<1>6. CASE q # 0
  <2>1. q \in Nat \ {0} /\ FeeDivisor \in Nat \ {0} /\ open \in Nat /\ open % FeeDivisor = 0
    BY <1>4, <1>6, MoneyAssumption
  <2> DEFINE k == open \div FeeDivisor
  <2>2. k \in Nat /\ open = k * FeeDivisor
    BY <2>1
  <2> HIDE DEF k
  <2>3. (q * open) \div FeeDivisor = q * k
    <3>1. q * open = FeeDivisor * (q * k) /\ q * k \in Nat
      BY <2>1, <2>2
    <3>2. \A x \in Nat : (FeeDivisor * x) \div FeeDivisor = x
      BY <2>1
    <3> QED BY <3>1, <3>2
  <2>4. fill = FillOf(s, q, k)
    BY <1>4, <2>2, <2>3 DEF FillOf
  <2>5. Settled(paid, fill) = apply_fill(funded, fill)
    BY <1>4, <1>6 DEF Settled, funded
  <2>6. CASE funded.pos.qty = 0 \/ signOf(funded.pos.qty) = s
    BY <1>2, <1>3, <2>1, <2>2, <2>4, <2>5, <2>6, IncreaseKeeps DEF all
  <2>7. CASE funded.pos.qty # 0 /\ signOf(funded.pos.qty) # s
    BY <1>2, <1>3, <2>1, <2>2, <2>4, <2>5, <2>7, DecreaseKeeps DEF all
  <2> QED BY <2>6, <2>7
<1> QED BY <1>5, <1>6

LEMMA BarKeeps ==
    ASSUME PortfolioInv, NEW t \in Nat, pfClock.open < t, NEW open \in BarPrices,
           NEW close \in BarPrices, NEW fill \in FillsAt(open), AccountBar(t, open, fill, close)
    PROVE  PortfolioInv'
<1> DEFINE rate == Pointer(t).rate
           paid == Payment(t, open, rate)
           a == Settled(paid, fill)
           loss == a.pos.qty * close - a.pos.basis
           mae == least(a.pos.trade.mae, loss)
           pos == IF a.pos.qty = 0 THEN a.pos ELSE [a.pos EXCEPT !.trade.mae = least(@, loss)]
<1>1. /\ pfRate' = rate /\ pfFunding' = pfFunding + paid
      /\ pfDue' = [qty |-> pfPos.qty, moments |-> Charged(t)]
      /\ pfCash' = a.cash /\ pfRealized' = a.realized /\ pfFees' = a.fees /\ pfTrades' = a.trades
      /\ pfPos' = pos
      /\ pfMark' = close
      /\ pfClock' = [prev |-> pfClock.open, open |-> t, bars |-> pfClock.bars + 1]
  BY DEF AccountBar
<1>2. pfClock.open \in Int /\ pfClock.bars \in Int /\ pfFunding \in Int /\ pfRate \in Int
      /\ close \in Int /\ open \in Int /\ pfClock.open <= t
  BY MoneyAssumption DEF PortfolioInv, PortfolioTypeOK
<1>3. /\ rate \in Int
      /\ pfClock.open >= 0 /\ DueIn(pfClock.open, t) # {} =>
           LET m == Max(DueIn(pfClock.open, t))
               known == KnownRates(m, t)
           IN  rate = IF known = {} THEN FallbackRate ELSE FundingSeries[Max(known)].r
  BY <1>2, PointerRight
<1> HIDE DEF rate
<1>4. paid \in Int /\ (pfPos.qty = 0 => paid = 0)
  BY <1>2, <1>3, PaymentRight DEF PortfolioInv
<1> HIDE DEF paid
<1>5. a \in Accounts /\ Balanced(a, pfFunding + paid)
  BY <1>4, SettledRight DEF PortfolioInv, BooksInOrder
<1> HIDE DEF a
<1>6. a.pos \in Positions /\ a.pos.trade \in TradeRecords /\ a.pos.qty \in Int /\ a.pos.basis \in Int
      /\ a.pos.trade.mae \in Int /\ OpenRight(a.pos)
  BY <1>5 DEF Accounts, Positions, TradeRecords, Balanced
<1>7. loss \in Int
  BY <1>2, <1>6
<1> HIDE DEF loss
<1>8. mae \in Int /\ mae <= a.pos.trade.mae /\ mae <= loss
  BY <1>6, <1>7 DEF least
<1> HIDE DEF mae
<1>9. a.pos.qty # 0 => pos = [a.pos EXCEPT !.trade = [a.pos.trade EXCEPT !.mae = mae]]
  BY DEF mae
<1> HIDE DEF pos
<1>10. /\ pos \in Positions /\ pos.qty = a.pos.qty /\ pos.basis = a.pos.basis /\ OpenRight(pos)
       /\ TradeOf(pos).realized = TradeOf(a.pos).realized /\ TradeOf(pos).fees = TradeOf(a.pos).fees
       /\ TradeOf(pos).funding = TradeOf(a.pos).funding
       /\ pos.qty # 0 => pos.trade.mae <= least(0, loss)
  <2>1. CASE a.pos.qty = 0
    <3>1. pos = a.pos
      BY <2>1 DEF pos
    <3> QED BY <1>6, <2>1, <3>1
  <2>2. CASE a.pos.qty # 0
    <3> DEFINE b == a.pos.trade
               u == [b EXCEPT !.mae = mae]
    <3>1. b \in TradeRecords
      BY <1>6
    <3> HIDE DEF b
    <3>2. u \in TradeRecords
      BY <1>8, <3>1 DEF TradeRecords
    <3>3. /\ u.side = b.side /\ u.realized = b.realized /\ u.fees = b.fees /\ u.funding = b.funding
          /\ u.entryN = b.entryN /\ u.exitN = b.exitN /\ u.entryQ = b.entryQ /\ u.exitQ = b.exitQ
          /\ u.mae = mae
      BY <3>1 DEF TradeRecords
    <3>4. pos = [a.pos EXCEPT !.trade = u]
      BY <1>9, <2>2 DEF b
    <3> HIDE DEF u
    <3>5. pos \in Positions /\ pos.qty = a.pos.qty /\ pos.basis = a.pos.basis /\ pos.trade = u
      BY <1>6, <3>2, <3>4 DEF Positions
    <3>6. mae <= 0
      BY <1>6, <1>8, <2>2 DEF OpenRight
    <3>7. OpenRight(pos)
      BY <1>6, <2>2, <3>3, <3>5, <3>6 DEF OpenRight, b
    <3>8. mae <= least(0, loss)
      BY <1>7, <1>8, <3>6 DEF least
    <3> QED BY <2>2, <3>3, <3>5, <3>7, <3>8 DEF TradeOf, b
  <2> QED BY <2>1, <2>2
<1>11. Account' = [cash |-> a.cash, realized |-> a.realized, fees |-> a.fees, trades |-> a.trades,
                   pos |-> pos]
  BY <1>1 DEF Account
<1>12. Account' \in Accounts
  BY <1>5, <1>10, <1>11 DEF Accounts
<1>13. Balanced(Account', pfFunding')
  BY <1>1, <1>5, <1>10, <1>11 DEF Balanced
<1>14. PortfolioTypeOK'
  BY <1>1, <1>2, <1>3, <1>4, <1>12 DEF PortfolioTypeOK
<1>15. BooksInOrder'
  <2>1. unrealized' = loss
    BY <1>1, <1>10 DEF unrealized, loss
  <2> QED BY <1>1, <1>10, <1>13, <2>1 DEF BooksInOrder
<1>16. FundingIsExact'
  <2>1. CASE pfClock.open < 0
    BY <1>1, <1>2, <2>1 DEF FundingIsExact
  <2>2. CASE pfClock.open >= 0
    <3>1. Charged(t) = IF pfPos.qty = 0 THEN {} ELSE DueIn(pfClock.open, t)
      BY <1>2, <2>2, ChargedIsDue
    <3>2. pfClock'.prev = pfClock.open /\ pfClock'.open = t /\ pfRate' = rate
          /\ pfDue'.qty = pfPos.qty /\ pfDue'.moments = Charged(t)
      BY <1>1
    <3> QED BY <1>3, <2>2, <3>1, <3>2 DEF FundingIsExact, DueIn, KnownRates
  <2> QED BY <1>2, <2>1, <2>2
<1> QED BY <1>14, <1>15, <1>16 DEF PortfolioInv

(* The account is exact after every sequence of bars: both forms of the equity agree,
   every cent of profit, fee and funding is in exactly one trade, and funding is
   charged once for every moment a position was held into, at the newest rate the bar
   could know (Portfolio.apply_fill, PaperBroker._charge_funding,
   TradingLoop._apply_funding_rate). *)
THEOREM AccountsExact == PortfolioSpec => []AccountsAreExact
<1>1. PortfolioInit => PortfolioInv
  <2> SUFFICES ASSUME PortfolioInit PROVE PortfolioInv
    OBVIOUS
  <2>1. NoTrade \in TradeRecords
    BY DEF NoTrade, TradeRecords
  <2>2. /\ pfPos \in Positions /\ pfTrades \in Totals /\ pfPos.qty = 0 /\ pfPos.basis = 0
        /\ pfPos.trade = NoTrade /\ pfTrades.realized = 0 /\ pfTrades.fees = 0
        /\ pfTrades.funding = 0 /\ pfTrades.last = NoTrade
    BY <2>1 DEF PortfolioInit, Positions, Totals
  <2>3. Account \in Accounts
    BY <2>2 DEF PortfolioInit, Account, Accounts
  <2>4. /\ NoTrade.side = 0 /\ NoTrade.realized = 0 /\ NoTrade.fees = 0 /\ NoTrade.funding = 0
        /\ NoTrade.entryQ = 0 /\ NoTrade.exitQ = 0 /\ NoTrade.entryN = 0 /\ NoTrade.exitN = 0
    BY DEF NoTrade
  <2>5. Balanced(Account, 0)
    BY <2>2, <2>4, MoneyAssumption
       DEF Balanced, Account, TradeOf, ClosedRight, OpenRight, signOf, PortfolioInit
  <2> QED BY <2>2, <2>3, <2>5, ScheduleAssumption
          DEF PortfolioInit, PortfolioInv, PortfolioTypeOK, BooksInOrder, FundingIsExact
<1>2. PortfolioInv /\ [PortfolioNext]_pfVars => PortfolioInv'
  <2> SUFFICES ASSUME PortfolioInv, [PortfolioNext]_pfVars PROVE PortfolioInv'
    OBVIOUS
  <2>1. CASE PortfolioNext
    <3>1. PICK step \in OpenSteps, open \in BarPrices, close \in BarPrices :
             \E fill \in FillsAt(open) :
                AccountBar(IF pfClock.open < 0 THEN 0 ELSE pfClock.open + step, open, fill, close)
      BY <2>1 DEF PortfolioNext
    <3> DEFINE t == IF pfClock.open < 0 THEN 0 ELSE pfClock.open + step
    <3>2. t \in Nat /\ pfClock.open < t
      BY ScheduleAssumption DEF PortfolioInv, PortfolioTypeOK
    <3> HIDE DEF t
    <3> QED BY <3>1, <3>2, BarKeeps DEF t
  <2>2. CASE UNCHANGED pfVars
    BY <2>2 DEF pfVars, PortfolioInv, PortfolioTypeOK, BooksInOrder, FundingIsExact, KnownRates,
                Account, unrealized
  <2> QED BY <2>1, <2>2
<1>3. PortfolioInv => AccountsAreExact
  BY BooksFollow DEF PortfolioInv, AccountsAreExact
<1> QED BY <1>1, <1>2, <1>3, PTL DEF PortfolioSpec

-----------------------------------------------------------------------------
(* The simulated venue under arbitrary callers. *)

BrokerSpec == BrokerInit /\ [][BrokerNext]_brVars

(* The book is at rest between calls, a flat book has no liquidation       *)
(* level, and the fills of the last bar are in order.                      *)
BrokerInv ==
    /\ Sound(book, {})
    /\ book.pos = 0 => book.liq = 0
    /\ fills \in Seq(Fills)
    /\ \A k \in 1 .. Len(fills) : FillOk(fills[k], bar.l, bar.h)

LEMMA BarsAreBars ==
    ASSUME NEW x \in Bars(Prices)
    PROVE  IsBar(x) /\ x.c \in Nat
<1>1. /\ x.o \in Nat /\ x.h \in Nat /\ x.l \in Nat /\ x.c \in Nat
      /\ x.l <= x.o /\ x.o <= x.h /\ x.l <= x.c /\ x.c <= x.h
  BY BrokerAssumption DEF Bars
<1> QED BY <1>1 DEF IsBar

LEMMA BrokerStart == BrokerInit => BrokerInv
<1> SUFFICES ASSUME BrokerInit PROVE BrokerInv
  OBVIOUS
<1>1. /\ book = EmptyBook /\ fills = <<>> /\ book.queue = <<>> /\ book.stops = <<>> /\ book.pos = 0 /\ book.liq = 0
      /\ \A i \in Ids : book.status[i] = "NONE"
  BY DEF BrokerInit, EmptyBook
<1>2. <<>> \in Seq(Orders) /\ <<>> \in Seq(Fills) /\ Len(<<>>) = 0 /\ 0 \in -1 .. 1
  OBVIOUS
<1>3. book \in Books
  BY <1>1, <1>2 DEF EmptyBook, Books, Statuses
<1>4. IdsOf(<<>>) = {} /\ Uniq(<<>>)
  BY DEF IdsOf, Uniq
<1>5. {i \in Ids : book.status[i] = "NEW"} = {}
  BY <1>1
<1>6. Sound(book, {})
  BY <1>1, <1>3, <1>4, <1>5 DEF Sound
<1> QED BY <1>1, <1>2, <1>6 DEF BrokerInv

(* What a step does to the position, the liquidation level and the orphans. *)
StepOk ==
    /\ sign(book'.pos) # sign(book.pos) => book'.liq = 0
    /\ bar' # NoBar => \A o \in ToSet(book'.stops) : o.ro =>
          \/ sign(book'.pos) = -o.side
          \/ \E e \in ToSet(book'.queue) \cup ToSet(book'.stops) : ~e.ro /\ e.side = -o.side

LEMMA BrokerStep ==
    ASSUME BrokerInv, [BrokerNext]_brVars
    PROVE  BrokerInv' /\ (BrokerNext => StepOk)
<1> USE DEF BrokerInv
<1>0. book \in Books /\ book.pos \in Int
  BY DEF Sound, Books
<1>1. ASSUME NEW b, Called(b), Sound(b, {}), b.pos = book.pos, b.pos = 0 => b.liq = 0
      PROVE  BrokerInv' /\ StepOk
  BY <1>1 DEF Called, StepOk
<1>2. CASE \E s \in Shapes : Submit(s)
  <2>1. PICK s \in Shapes, i \in Ids :
           Called(submit(book, [id |-> i, side |-> s.side, qty |-> s.qty, stop |-> s.stop,
                              ro |-> s.ro, wait |-> s.wait]))
    BY <1>2 DEF Submit, FreshId
  <2> DEFINE o == [id |-> i, side |-> s.side, qty |-> s.qty, stop |-> s.stop, ro |-> s.ro, wait |-> s.wait]
  <2>2. s \in ShapeType /\ i \in Nat
    BY BrokerAssumption, BookAssumption
  <2>3. o \in Orders /\ o.id = i
    BY <2>2 DEF ShapeType, Orders
  <2> HIDE DEF o
  <2>4. Sound(submit(book, o), {}) /\ submit(book, o).pos = book.pos /\ submit(book, o).liq = book.liq
    BY <2>3, SubmitSound
  <2>5. Called(submit(book, o))
    BY <2>1 DEF o
  <2> QED BY <1>1, <2>4, <2>5
<1>3. CASE \E i \in Ids : Cancel(i)
  BY <1>1, <1>3, CancelSound DEF Cancel
<1>4. CASE CancelAll
  BY <1>1, <1>4, CancelAllSound DEF CancelAll
<1>5. CASE \E p \in TpLevels \cup {0}, side \in -1..1 : SetTakeProfit(p, side)
  <2>1. PICK p \in TpLevels \cup {0}, side \in -1..1 : Called(set_take_profit(book, p, side))
    BY <1>5 DEF SetTakeProfit
  <2> DEFINE c == set_take_profit(book, p, side)
             sd == IF p = 0 THEN 0 ELSE side
  <2>2. p \in Nat /\ sd \in -1..1
    BY BrokerAssumption
  <2> HIDE DEF sd
  <2>3. /\ c \in Books /\ c.pos = book.pos /\ c.liq = book.liq /\ c.queue = book.queue
        /\ c.stops = book.stops /\ c.status = book.status
    <3>1. c = [book EXCEPT !.tp = p, !.tpSide = sd]
      BY DEF set_take_profit, sd
    <3> HIDE DEF c
    <3> QED BY <1>0, <2>2, <3>1 DEF Books
  <2> HIDE DEF c
  <2>4. Sound(c, {})
    BY <2>3 DEF Sound
  <2>5. Called(c)
    BY <2>1 DEF c
  <2> QED BY <1>1, <2>3, <2>4, <2>5
<1>6. CASE \E p \in LiqLevels \cup {0} : SetLiquidationPrice(p)
  <2>1. PICK p \in LiqLevels \cup {0} : book.pos # 0 /\ Called(set_liquidation_price(book, p))
    BY <1>6 DEF SetLiquidationPrice
  <2> DEFINE c == set_liquidation_price(book, p)
  <2>2. p \in Nat
    BY BrokerAssumption
  <2>3. /\ c \in Books /\ c.pos = book.pos /\ c.queue = book.queue
        /\ c.stops = book.stops /\ c.status = book.status
    BY <1>0, <2>2 DEF Books, set_liquidation_price
  <2> HIDE DEF c
  <2>4. Sound(c, {})
    BY <2>3 DEF Sound
  <2>5. Called(c)
    BY <2>1 DEF c
  <2> QED BY <1>1, <2>1, <2>3, <2>4, <2>5
<1>7. CASE \E x \in Bars(Prices) : OnBar(x)
  <2>1. PICK x \in Bars(Prices) : OnBar(x)
    BY <1>7
  <2>2. IsBar(x) /\ x.c \in Nat
    BY BarsAreBars
  <2> DEFINE r == on_bar(book, x, FALSE)
  <2>3. bar' = x /\ book' = r.b /\ fills' = r.fills
    BY <2>1 DEF OnBar
  <2>4. BarOk(book, x, r)
    BY <2>2, OnBarSound
  <2> HIDE DEF r
  <2>5. BrokerInv'
    BY <2>3, <2>4 DEF BarOk
  <2>6. StepOk
    BY <2>3, <2>4 DEF StepOk, BarOk
  <2> QED BY <2>5, <2>6
<1>8. CASE TakeFills
  <2>1. <<>> \in Seq(Fills) /\ Len(<<>>) = 0
    OBVIOUS
  <2> QED BY <1>8, <2>1 DEF TakeFills, StepOk
<1>9. CASE UNCHANGED brVars /\ ~BrokerNext
  BY <1>9 DEF brVars
<1> QED BY <1>2, <1>3, <1>4, <1>5, <1>6, <1>7, <1>8, <1>9 DEF BrokerNext

LEMMA BrokerHolds == BrokerSpec => []BrokerInv
<1>1. BrokerInv /\ [BrokerNext]_brVars => BrokerInv'
  BY BrokerStep
<1> QED BY <1>1, BrokerStart, PTL DEF BrokerSpec

(* The book of the simulated venue is sound whatever the callers do and    *)
(* whatever the bars are: an order is NEW exactly while it stands once in   *)
(* one list, a reduce-only execution only reduces, and every price lies in *)
(* its bar (paper_broker.py).                                              *)
THEOREM BrokerBookSound == BrokerSpec => []BookIsSound
<1>1. BrokerInv => BookIsSound
  <2> SUFFICES ASSUME BrokerInv PROVE BookIsSound
    OBVIOUS
  <2> DEFINE q == book.queue
             s == book.stops
             l == q \o s
  <2>1. /\ q \in Seq(Orders) /\ s \in Seq(Orders) /\ Uniq(q) /\ Uniq(s) /\ IdsOf(q) \cap IdsOf(s) = {}
        /\ IdsOf(q) \cup IdsOf(s) = {i \in Ids : book.status[i] = "NEW"}
    BY DEF BrokerInv, Sound, Books
  <2> HIDE DEF q, s
  <2>2. IdsOf(l) = IdsOf(q) \cup IdsOf(s) /\ Uniq(l) /\ l \in Seq(Orders)
    BY <2>1, JoinedOrders
  <2>3. DOMAIN l = 1 .. Len(l)
    BY <2>2
  <2> HIDE DEF l
  <2>4. IsInjective([k \in DOMAIN l |-> l[k].id])
    BY <2>2, <2>3 DEF IsInjective, Uniq
  <2>5. StatusMatchesBook
    BY <2>1, <2>2, <2>4 DEF StatusMatchesBook, l, q, s
  <2>6. DOMAIN fills = 1 .. Len(fills) /\ \A k \in 1 .. Len(fills) : FillOk(fills[k], bar.l, bar.h)
    BY DEF BrokerInv
  <2>7. ReduceOnlyReduces /\ FillsInsideBar
    BY <2>6 DEF ReduceOnlyReduces, FillsInsideBar, FillOk
  <2> QED BY <2>5, <2>7 DEF BookIsSound
<1> QED BY <1>1, BrokerHolds, PTL

(* Nothing of a position outlives it: after a bar no reduce-only stop is    *)
(* left that protects neither the position held nor one an entry may open, *)
(* and a position that changes side takes its liquidation level with it    *)
(* (paper_broker.py _expire_orphan_stops, _on_position_closed).            *)
THEOREM PositionTakesAll == BrokerSpec => NothingOutlivesPosition
<1>1. BrokerInv /\ [BrokerNext]_brVars =>
        [bar' # NoBar =>
          \A o \in ToSet(book'.stops) :
             o.ro => \/ sign(book'.pos) = -o.side
                     \/ \E e \in ToSet(book'.queue \o book'.stops) : ~e.ro /\ e.side = -o.side]_brVars
  <2> SUFFICES ASSUME BrokerInv, BrokerNext, bar' # NoBar, NEW o \in ToSet(book'.stops), o.ro,
                      sign(book'.pos) # -o.side
               PROVE  \E e \in ToSet(book'.queue \o book'.stops) : ~e.ro /\ e.side = -o.side
    OBVIOUS
  <2>1. Sound(book', {}) /\ StepOk
    BY BrokerStep DEF BrokerInv
  <2>2. book'.queue \in Seq(Orders) /\ book'.stops \in Seq(Orders)
    BY <2>1 DEF Sound, Books
  <2>3. PICK e \in ToSet(book'.queue) \cup ToSet(book'.stops) : ~e.ro /\ e.side = -o.side
    BY <2>1 DEF StepOk
  <2>4. ToSet(book'.queue \o book'.stops) = ToSet(book'.queue) \cup ToSet(book'.stops)
    BY <2>2, JoinedOrders
  <2> QED BY <2>3, <2>4
<1>2. BrokerInv /\ [BrokerNext]_brVars => [sign(book'.pos) # sign(book.pos) => book'.liq = 0]_brVars
  BY BrokerStep DEF StepOk
<1> QED BY <1>1, <1>2, BrokerHolds, PTL DEF BrokerSpec, NothingOutlivesPosition, NoOrphanAfterBar, NoStaleLiquidation

-----------------------------------------------------------------------------
(* The stop before the take-profit. *)

(* The venue in the middle of a bar in which nothing was opened inside it. *)
NoTp(q) == \A k \in 1 .. Len(q) : q[k].reason # "TP"

Calm(x) == x \in Runs /\ Sound(x.b, {}) /\ (\A o \in ToSet(x.b.stops) : o.ro) /\ NoTp(x.fills)

Flat(x) == Calm(x) /\ x.b.pos = 0

(* g is a stop of the position of b, for all of it. *)
Guards(b, g) ==
    g \in ToSet(b.stops) /\ g.ro /\ g.wait = 0 /\ g.side = -sign(b.pos) /\ g.qty >= abs(b.pos)

(* The position of b, or what reductions left of it, with the stop g. *)
Guarded(x, b, g) ==
    /\ Calm(x) /\ x.b.pos # 0
    /\ sign(x.b.pos) = sign(b.pos) /\ abs(x.b.pos) <= abs(b.pos) /\ x.b.tp = b.tp
    /\ g \in ToSet(x.b.stops) /\ ToSet(x.b.stops) \subseteq ToSet(b.stops)

LEMMA ReasonsKept ==
    ASSUME NEW r, NEW q \in Seq(Fills), NoTp(q), NEW f, f.reason # "TP", f \in Fills,
           r = q \/ r = Append(q, f)
    PROVE  NoTp(r)
<1>1. CASE r = q
  BY <1>1
<1>2. CASE r = Append(q, f)
  <2>1. /\ Len(q) \in Nat /\ Len(r) = Len(q) + 1 /\ r[Len(q) + 1] = f
        /\ \A k \in 1 .. Len(q) : r[k] = q[k]
    BY <1>2
  <2> SUFFICES ASSUME NEW k \in 1 .. Len(r) PROVE r[k].reason # "TP"
    BY DEF NoTp
  <2>2. k = Len(q) + 1 \/ k \in 1 .. Len(q)
    BY <2>1
  <2> QED BY <2>1, <2>2 DEF NoTp
<1> QED BY <1>1, <1>2

LEMMA FillTyped ==
    ASSUME NEW b \in Books, NEW o \in Orders, NEW price \in Int, NEW reason \in Reasons
    PROVE  FillMade(b, o, price, reason) \in Fills /\ FillMade(b, o, price, reason).reason = reason
<1>1. /\ ExecutableQty(b, o) \in Nat /\ b.pos \in Int /\ o.id \in Nat /\ o.side \in {-1, 1}
      /\ o.ro \in BOOLEAN
  BY QtyReduces DEF Books, Orders
<1> QED BY <1>1 DEF FillMade, Fills

(* What fires next to x and leaves a position: a stop that reduced it. *)
TookStop(x, tr, c) ==
    \E o \in ToSet(x.b.stops) :
        /\ o.wait = 0 /\ o.stop = tr.level /\ tr.up = (o.side = 1)
        /\ ToSet(c.b.stops) = ToSet(x.b.stops) \ {o}
        /\ ~(o.side = -sign(x.b.pos) /\ o.qty >= abs(x.b.pos))

LEMMA FireCalm ==
    ASSUME NEW x, Calm(x), NEW tr \in Triggers(x.b), tr.kind # "TP", NEW price \in Int
    PROVE  /\ Calm(Fire(x, tr, price))
           /\ ToSet(Fire(x, tr, price).b.stops) \subseteq ToSet(x.b.stops)
           /\ x.b.pos = 0 => Fire(x, tr, price).b.pos = 0
           /\ Fire(x, tr, price).b.pos # 0 =>
                 /\ sign(Fire(x, tr, price).b.pos) = sign(x.b.pos)
                 /\ abs(Fire(x, tr, price).b.pos) <= abs(x.b.pos)
                 /\ Fire(x, tr, price).b.tp = x.b.tp
                 /\ TookStop(x, tr, Fire(x, tr, price))
<1> DEFINE c == Fire(x, tr, price)
<1>1. x \in Runs /\ Sound(x.b, {}) /\ x.b \in Books /\ x.b.pos \in Int /\ x.fills \in Seq(Fills)
  BY DEF Calm, Sound, Runs, Books
<1>2. PICK s \in Runs, o \in Orders, reason \in Reasons : FiredAs(x, tr, price, s, o, reason)
  BY <1>1, FireIsExecution
<1> DEFINE X == {o.id} \ {NoId}
           q == ExecutableQty(s.b, o)
<1>3. /\ c = Execute(s, o, price, reason) /\ s.fills = x.fills /\ s.b.pos = x.b.pos
      /\ Sound(s.b, X) /\ o.id \in X \cup {NoId} /\ X \ {o.id} = {} /\ o.ro /\ reason # "TP"
      /\ ToSet(s.b.stops) \subseteq ToSet(x.b.stops)
  <2>1. \A y \in ToSet(x.b.stops) : y.ro
    BY DEF Calm
  <2> QED BY <1>2, <2>1 DEF FiredAs
<1> HIDE DEF X, c
<1>4. s.b \in Books /\ s.b.pos \in Int
  BY <1>3 DEF Sound, Books
<1>5. ExecutionOf(s, X, o, price, reason, c)
  BY <1>3, ExecuteBook
<1>6. /\ c \in Runs /\ Sound(c.b, {}) /\ c.b.pos = x.b.pos + o.side * q
      /\ c.fills = IF q = 0 THEN x.fills ELSE Append(x.fills, FillMade(s.b, o, price, reason))
      /\ ToSet(c.b.stops) \subseteq ToSet(s.b.stops)
      /\ ~Closes(s.b, o) => c.b.stops = s.b.stops /\ c.b.tp = s.b.tp
  BY <1>3, <1>5 DEF ExecutionOf, After
<1>7. q \in Nat /\ (q > 0 => /\ sign(x.b.pos) = -o.side /\ q <= abs(x.b.pos)
                             /\ abs(x.b.pos + o.side * q) = abs(x.b.pos) - q
                             /\ sign(x.b.pos + o.side * q) \in {0, sign(x.b.pos)})
  BY <1>3, <1>4, QtyReduces
<1> HIDE DEF q
<1>8. Calm(c)
  <2>1. FillMade(s.b, o, price, reason) \in Fills /\ FillMade(s.b, o, price, reason).reason # "TP"
    BY <1>3, <1>4, FillTyped
  <2>2. NoTp(x.fills)
    BY DEF Calm
  <2>3. NoTp(c.fills)
    BY <1>1, <1>6, <2>1, <2>2, ReasonsKept
  <2>4. \A y \in ToSet(c.b.stops) : y.ro
    BY <1>3, <1>6 DEF Calm
  <2> QED BY <1>6, <2>3, <2>4 DEF Calm
<1>9. q = 0 => c.b.pos = x.b.pos
  <2>1. o.side * 0 = 0
    BY DEF Orders
  <2> QED BY <1>1, <1>6, <2>1
<1>10. x.b.pos = 0 => c.b.pos = 0
  <2>1. sign(0) = 0 /\ (o.side = 1 \/ o.side = -1)
    BY DEF sign, Orders
  <2> QED BY <1>7, <1>9, <2>1
<1>11. ASSUME c.b.pos # 0
       PROVE  /\ sign(c.b.pos) = sign(x.b.pos) /\ abs(c.b.pos) <= abs(x.b.pos)
              /\ c.b.tp = x.b.tp /\ TookStop(x, tr, c)
  <2>1. x.b.pos # 0 /\ abs(x.b.pos) \in Nat /\ c.b.pos \in Int
    BY <1>1, <1>6, <1>10, <1>11, SignFacts DEF Sound, Books
  <2>2. sign(c.b.pos) = sign(x.b.pos) /\ abs(c.b.pos) <= abs(x.b.pos)
    <3>1. CASE q = 0
      BY <1>9, <2>1, <3>1
    <3>2. CASE q # 0
      <4>1. q > 0
        BY <1>7, <3>2
      <4>2. sign(c.b.pos) # 0
        BY <1>11, <2>1, SignFacts
      <4> QED BY <1>6, <1>7, <2>1, <4>1, <4>2
    <3> QED BY <3>1, <3>2
  <2>3. ~Closes(s.b, o)
    BY <1>3, <1>5, <2>2 DEF Closes, ExecutionOf
  <2>4. ~(o.side = -sign(x.b.pos) /\ o.qty >= abs(x.b.pos))
    <3> SUFFICES ASSUME o.side = -sign(x.b.pos), o.qty >= abs(x.b.pos) PROVE FALSE
      OBVIOUS
    <3>1. q = abs(x.b.pos)
      <4>1. sign(x.b.pos) \in Int /\ o.qty \in Nat
        BY <1>1, SignFacts DEF Orders
      <4>2. o.side = 1 \/ o.side = -1
        BY DEF Orders
      <4> QED BY <1>3, <2>1, <4>1, <4>2 DEF ExecutableQty, q
    <3>2. abs(x.b.pos) > 0
      BY <1>1, <2>1 DEF abs
    <3>3. abs(c.b.pos) = 0
      BY <1>6, <1>7, <2>1, <3>1, <3>2
    <3> QED BY <1>11, <2>1, <3>3 DEF abs
  <2>5. tr.kind = "STOP"
    <3>1. o.side = -sign(x.b.pos) /\ o.qty = abs(x.b.pos) => FALSE
      BY <2>1, <2>4
    <3> QED BY <1>2, <3>1 DEF FiredAs
  <2>6. /\ o \in ToSet(x.b.stops) /\ o.wait = 0 /\ o.stop = tr.level /\ tr.up = (o.side = 1)
        /\ ToSet(s.b.stops) = ToSet(x.b.stops) \ {o} /\ s.b.tp = x.b.tp
    BY <1>2, <2>5 DEF FiredAs
  <2>7. c.b.tp = x.b.tp /\ ToSet(c.b.stops) = ToSet(x.b.stops) \ {o}
    BY <1>6, <2>3, <2>6
  <2> QED BY <2>2, <2>4, <2>6, <2>7 DEF TookStop
<1> QED BY <1>3, <1>6, <1>8, <1>10, <1>11 DEF c

(* Without a position nothing opens one, and no take-profit fires. *)
LEMMA FlatStays ==
    ASSUME NEW x, Flat(x), NEW tr \in Triggers(x.b), NEW price \in Int
    PROVE  Flat(Fire(x, tr, price))
<1>1. x.b \in Books /\ tr.kind # "TP"
  <2>1. x.b \in Books
    BY DEF Flat, Calm, Sound
  <2> QED BY <2>1, TriggerSource DEF Flat
<1> QED BY <1>1, FireCalm DEF Flat

(* A round without a position. *)
LEMMA FlatStep ==
    ASSUME NEW up \in BOOLEAN, NEW to \in Int, NEW x \in [r : Runs, cur : Int], Flat(x.r)
    PROVE  WalkStep(up, to, x) \in [r : Runs, cur : Int] /\ Flat(WalkStep(up, to, x).r)
<1> DEFINE S == Within(up, to, x.r.b, x.cur)
           tr == FirstHit(up, S)
           c == Fire(x.r, tr, tr.level)
           y == WalkStep(up, to, x)
<1>1. x.r.b \in Books /\ x.cur \in Int
  BY DEF Flat, Calm, Sound
<1>2. CASE S = {} \/ to = x.cur
  BY <1>2 DEF WalkStep
<1>3. CASE S # {} /\ to # x.cur
  <2>1. tr \in S
    BY <1>1, <1>3, FirstHitIs
  <2>2. y = [r |-> c, cur |-> tr.level]
    BY <1>3 DEF WalkStep
  <2> HIDE DEF tr, c, y
  <2>3. tr \in Triggers(x.r.b)
    BY <2>1 DEF Within
  <2>4. tr.level \in Nat
    BY <1>1, <2>3, TriggerSource DEF TriggerSet
  <2>5. Flat(c)
    BY <2>3, <2>4, FlatStays DEF c
  <2>6. c \in Runs
    BY <2>5 DEF Flat, Calm
  <2> QED BY <2>2, <2>4, <2>5, <2>6 DEF y
<1> QED BY <1>2, <1>3

(* One that fires while g waits closes the position or leaves it to g. *)
LEMMA GuardedStays ==
    ASSUME NEW b \in Books, NEW g, Guards(b, g), NEW x, Guarded(x, b, g),
           NEW tr \in Triggers(x.b), tr.kind # "TP", NEW price \in Int
    PROVE  \/ Flat(Fire(x, tr, price))
           \/ /\ Guarded(Fire(x, tr, price), b, g)
              /\ \E o \in ToSet(x.b.stops) :
                    /\ o # g /\ o.stop = tr.level /\ tr.up = (o.side = 1)
                    /\ ToSet(Fire(x, tr, price).b.stops) = ToSet(x.b.stops) \ {o}
<1> DEFINE c == Fire(x, tr, price)
<1>1. /\ Calm(c) /\ ToSet(c.b.stops) \subseteq ToSet(x.b.stops)
      /\ c.b.pos # 0 => /\ sign(c.b.pos) = sign(x.b.pos) /\ abs(c.b.pos) <= abs(x.b.pos)
                        /\ c.b.tp = x.b.tp /\ TookStop(x, tr, c)
  BY FireCalm DEF Guarded
<1> HIDE DEF c
<1>2. CASE c.b.pos = 0
  BY <1>1, <1>2 DEF Flat, c
<1>3. CASE c.b.pos # 0
  <2>1. PICK o \in ToSet(x.b.stops) :
           /\ o.wait = 0 /\ o.stop = tr.level /\ tr.up = (o.side = 1)
           /\ ToSet(c.b.stops) = ToSet(x.b.stops) \ {o}
           /\ ~(o.side = -sign(x.b.pos) /\ o.qty >= abs(x.b.pos))
    BY <1>1, <1>3 DEF TookStop
  <2>2. x.b.pos \in Int /\ c.b.pos \in Int /\ b.pos \in Int /\ ToSet(b.stops) \subseteq Orders
    BY <1>1, IdsOfSet DEF Guarded, Calm, Sound, Books
  <2>3. abs(x.b.pos) \in Nat /\ abs(c.b.pos) \in Nat /\ abs(b.pos) \in Nat /\ g.qty \in Nat
    BY <2>2, SignFacts DEF Guards, Orders
  <2>4. g.side = -sign(x.b.pos) /\ g.qty >= abs(x.b.pos)
    BY <2>3 DEF Guards, Guarded
  <2>5. o # g
    BY <2>1, <2>4
  <2>6. abs(c.b.pos) <= abs(b.pos)
    BY <1>1, <1>3, <2>3 DEF Guarded
  <2>7. Guarded(c, b, g)
    BY <1>1, <1>3, <2>1, <2>5, <2>6 DEF Guarded
  <2> QED BY <2>1, <2>5, <2>7 DEF c
<1> QED BY <1>2, <1>3


(* A stop that sees the bar is a trigger. *)
LEMMA StopTriggers ==
    ASSUME NEW b \in Books, NEW o \in ToSet(b.stops), o.wait = 0
    PROVE  \E tr \in Triggers(b) : tr.level = o.stop /\ tr.up = (o.side = 1)
<1> DEFINE st(x) == [kind |-> "STOP", level |-> x.stop, up |-> x.side = 1, id |-> x.id, prio |-> 1]
<1>1. st(o) \in {st(x) : x \in {y \in ToSet(b.stops) : y.wait = 0}}
  OBVIOUS
<1>2. {st(x) : x \in {y \in ToSet(b.stops) : y.wait = 0}} \subseteq Triggers(b)
  BY DEF Triggers
<1>3. st(o).level = o.stop /\ st(o).up = (o.side = 1)
  OBVIOUS
<1> QED BY <1>1, <1>2, <1>3

(* The take-profit of a position lies on its favourable side. *)
LEMMA TakeProfitSide ==
    ASSUME NEW b \in Books, NEW g, Guards(b, g), NEW x, Guarded(x, b, g),
           NEW tr \in Triggers(x.b), tr.kind = "TP"
    PROVE  /\ tr.level = b.tp /\ tr.up = (b.pos > 0) /\ tr.up # (g.side = 1)
<1>1. x.b \in Books /\ x.b.pos \in Int /\ b.pos \in Int
  BY DEF Guarded, Calm, Sound, Books
<1>2. tr.level = x.b.tp /\ tr.up = (x.b.pos > 0) /\ x.b.pos # 0
  BY <1>1, TriggerSource
<1>3. sign(x.b.pos) = sign(b.pos) /\ x.b.tp = b.tp /\ g.side = -sign(b.pos)
  BY DEF Guarded, Guards
<1>4. x.b.pos > 0 <=> b.pos > 0
  <2>1. (x.b.pos > 0 <=> sign(x.b.pos) = 1) /\ (b.pos > 0 <=> sign(b.pos) = 1)
    BY <1>1, SignFacts
  <2> QED BY <1>3, <2>1
<1>5. g.side = 1 <=> ~(b.pos > 0)
  <2>1. /\ sign(x.b.pos) \in {-1, 0, 1} /\ (x.b.pos > 0 <=> sign(x.b.pos) = 1)
        /\ (sign(x.b.pos) = 0 <=> x.b.pos = 0)
    BY <1>1, SignFacts
  <2> QED BY <1>2, <1>3, <1>4, <2>1
<1> QED BY <1>2, <1>3, <1>4, <1>5

(* The gap at the open closes the position or leaves it to g. *)
LEMMA GapLeavesIt ==
    ASSUME NEW b \in Books, NEW g, Guards(b, g), NEW m, Guarded(m, b, g), NEW o \in Int,
           IF b.pos > 0 THEN o < b.tp ELSE o > b.tp
    PROVE  Flat(GapAtOpen(m, o)) \/ Guarded(GapAtOpen(m, o), b, g)
<1> DEFINE I == {x \in Runs : Flat(x) \/ Guarded(x, b, g)}
<1>1. m \in I
  BY DEF Guarded, Calm
<1>2. \A x \in I : x.b \in Books
  BY DEF Runs
<1>3. ASSUME NEW x \in I, NEW tr \in Triggers(x.b), IF tr.up THEN o >= tr.level ELSE o <= tr.level
      PROVE  Fire(x, tr, o) \in I
  <2>1. CASE Flat(x)
    BY <2>1, FlatStays DEF Flat, Calm
  <2>2. CASE Guarded(x, b, g)
    <3>1. tr.kind # "TP"
      <4> SUFFICES ASSUME tr.kind = "TP" PROVE FALSE
        OBVIOUS
      <4>1. tr.level = b.tp /\ tr.up = (b.pos > 0)
        BY <2>2, TakeProfitSide
      <4>2. b.tp \in Int
        BY DEF Books
      <4>3. IF tr.up THEN o >= b.tp ELSE o <= b.tp
        BY <1>3, <4>1
      <4>4. CASE b.pos > 0
        <5>1. tr.up
          BY <4>1, <4>4
        <5> QED BY <4>2, <4>3, <4>4, <5>1
      <4>5. CASE ~(b.pos > 0)
        <5>1. ~tr.up
          BY <4>1, <4>5
        <5> QED BY <4>2, <4>3, <4>5, <5>1
      <4> QED BY <4>4, <4>5
    <3>2. Flat(Fire(x, tr, o)) \/ Guarded(Fire(x, tr, o), b, g)
      BY <2>2, <3>1, GuardedStays
    <3> QED BY <3>2 DEF Flat, Guarded, Calm
  <2> QED BY <2>1, <2>2
<1> HIDE DEF I
<1>4. GapAtOpen(m, o) \in I
  BY <1>1, <1>2, <1>3, GapStays
<1> QED BY <1>4 DEF I

(* The path has not come to g yet and goes on. *)
Before(g, to, cur) ==
    cur \in Int /\ IF g.side = 1 THEN cur <= g.stop /\ cur < to ELSE cur >= g.stop /\ cur > to

(* g lies on the way to the end of the piece, and is alone there if it is the end. *)
OnTheWay(b, g, to) ==
    /\ b \in Books /\ Guards(b, g) /\ to \in Int
    /\ IF g.side = 1 THEN g.stop <= to ELSE to <= g.stop
    /\ g.stop = to => \A o \in ToSet(b.stops) : o.stop = g.stop => o = g

(* From x the round to y closes the position, or takes a stop out of the book *)
(* and still has g ahead.                                                     *)
Nearer(b, g, to, x, y) ==
    /\ y \in [r : Runs, cur : Int]
    /\ \/ Flat(y.r)
       \/ /\ Guarded(y.r, b, g) /\ Before(g, to, y.cur)
          /\ \E o \in ToSet(x.r.b.stops) : ToSet(y.r.b.stops) = ToSet(x.r.b.stops) \ {o}

(* Every round of the first piece does one or the other. *)
LEMMA RoundTowardStop ==
    ASSUME NEW b, NEW g, NEW to, OnTheWay(b, g, to),
           NEW x, Guarded(x.r, b, g), Before(g, to, x.cur)
    PROVE  Nearer(b, g, to, x, WalkStep(g.side = 1, to, x))
<1> SUFFICES ASSUME b \in Books, Guards(b, g), to \in Int,
                    IF g.side = 1 THEN g.stop <= to ELSE to <= g.stop,
                    g.stop = to => \A o \in ToSet(b.stops) : o.stop = g.stop => o = g
             PROVE  Nearer(b, g, to, x, WalkStep(g.side = 1, to, x))
  BY Zenon DEF OnTheWay
<1> DEFINE up == g.side = 1
           S == Within(up, to, x.r.b, x.cur)
           tr == FirstHit(up, S)
           c == Fire(x.r, tr, tr.level)
           y == WalkStep(up, to, x)
<1>1. x.r.b \in Books /\ x.cur \in Int /\ g \in ToSet(x.r.b.stops) /\ g.wait = 0 /\ up \in BOOLEAN
  BY DEF Guarded, Calm, Sound, Guards, Before
<1>2. g.stop \in Nat /\ g \in Orders /\ \A o \in ToSet(b.stops) : o.stop \in Nat
  <2>1. ToSet(b.stops) \subseteq Orders
    BY IdsOfSet DEF Books
  <2> QED BY <2>1 DEF Guards, Orders
<1>3. PICK tg \in Triggers(x.r.b) : tg.level = g.stop /\ tg.up = up
  BY <1>1, StopTriggers
<1> HIDE DEF up
<1>4. IF up THEN x.cur <= g.stop /\ x.cur < to /\ g.stop <= to ELSE x.cur >= g.stop /\ x.cur > to /\ to <= g.stop
  BY DEF Before, up
<1>5. tg \in S /\ to # x.cur
  BY <1>1, <1>3, <1>4 DEF Within
<1>6. tr \in S /\ NotLater(up, tr, tg)
  <2>1. S # {}
    BY <1>5
  <2> QED BY <1>1, <1>5, <2>1, FirstHitIs
<1>7. y = [r |-> c, cur |-> tr.level]
  <2>1. S # {}
    BY <1>5
  <2> QED BY <1>5, <2>1 DEF WalkStep
<1> HIDE DEF tr, y, c
<1>8. tr \in Triggers(x.r.b) /\ tr.up = up
  BY <1>6 DEF Within
<1>9. tr.level \in Nat
  BY <1>1, <1>8, TriggerSource DEF TriggerSet
<1>10. tr.kind # "TP"
  BY <1>8, TakeProfitSide DEF up
<1>11. \/ Flat(c)
       \/ /\ Guarded(c, b, g)
          /\ \E o \in ToSet(x.r.b.stops) :
                 /\ o # g /\ o.stop = tr.level
                 /\ ToSet(c.b.stops) = ToSet(x.r.b.stops) \ {o}
  BY <1>8, <1>9, <1>10, GuardedStays DEF c
<1>12. y.r = c /\ y.cur = tr.level /\ y \in [r : Runs, cur : Int]
  <2>1. c \in Runs
    BY <1>11 DEF Flat, Guarded, Calm
  <2> QED BY <1>7, <1>9, <2>1
<1>13. ASSUME NEW o \in ToSet(x.r.b.stops), o # g, o.stop = tr.level PROVE Before(g, to, tr.level)
  <2>1. IF up THEN tr.level <= g.stop ELSE tr.level >= g.stop
    BY <1>2, <1>3, <1>6, <1>9 DEF NotLater, Sooner
  <2>2. tr.level # to
    <3> SUFFICES ASSUME tr.level = to PROVE FALSE
      OBVIOUS
    <3>1. g.stop = to
      BY <1>2, <1>4, <1>9, <2>1
    <3>2. o \in ToSet(b.stops)
      BY DEF Guarded
    <3> QED BY <1>13, <3>1, <3>2
  <2> QED BY <1>2, <1>4, <1>9, <2>1, <2>2 DEF Before, up
<1>14. \/ Flat(y.r)
       \/ /\ Guarded(y.r, b, g) /\ Before(g, to, y.cur)
          /\ \E o \in ToSet(x.r.b.stops) : ToSet(y.r.b.stops) = ToSet(x.r.b.stops) \ {o}
  BY <1>11, <1>12, <1>13
<1> QED BY <1>12, <1>14 DEF y, up, Nearer

(* A list has no more members than places. *)
LEMMA MembersCounted ==
    ASSUME NEW q \in Seq(Orders)
    PROVE  IsFiniteSet(ToSet(q)) /\ Cardinality(ToSet(q)) <= Len(q)
<1> DEFINE f == [k \in 1 .. Len(q) |-> q[k]]
<1>1. Len(q) \in Nat /\ DOMAIN q = 1 .. Len(q) /\ ToSet(q) = {q[k] : k \in 1 .. Len(q)}
  BY DEF ToSet
<1>2. f \in Surjection(1 .. Len(q), ToSet(q))
  BY <1>1 DEF Surjection
<1>3. IsFiniteSet(1 .. Len(q)) /\ Cardinality(1 .. Len(q)) = Len(q)
  <2>1. 1 \in Int /\ Len(q) \in Int
    BY <1>1
  <2>2. IsFiniteSet(1 .. Len(q)) /\ Cardinality(1 .. Len(q)) = IF 1 > Len(q) THEN 0 ELSE Len(q) - 1 + 1
    BY <2>1, FS_Interval
  <2> QED BY <1>1, <2>2
<1> HIDE DEF f
<1>4. IsFiniteSet(ToSet(q)) /\ Cardinality(ToSet(q)) <= Cardinality(1 .. Len(q))
  BY <1>2, <1>3, FS_Surjection
<1> QED BY <1>3, <1>4

(* The first piece of the path, towards g, closes the position. *)
LEMMA FirstPieceCloses ==
    ASSUME NEW b \in Books, NEW g, Guards(b, g), NEW from \in Int, NEW to \in Int,
           IF g.side = 1 THEN from < g.stop /\ g.stop <= to ELSE to <= g.stop /\ g.stop < from,
           g.stop = to => \A o \in ToSet(b.stops) : o.stop = g.stop => o = g,
           NEW r, Guarded(r, b, g)
    PROVE  Flat(WalkSegment(r, from, to))
<1> DEFINE n == Rounds(r.b)
           N == Cardinality(ToSet(r.b.stops))
           U == [r : Runs, cur : Int]
           Left(x) == Cardinality(ToSet(x.r.b.stops))
           G == [k \in 0 .. n |-> {x \in U : \/ Flat(x.r)
                                             \/ /\ Guarded(x.r, b, g) /\ Before(g, to, x.cur)
                                                /\ Left(x) + k <= N}]
           z == [r |-> r, cur |-> from]
<1>1. r \in Runs /\ r.b \in Books /\ Len(r.b.stops) \in Nat /\ n = Len(r.b.stops) + 2 /\ n \in Nat
  <2>1. r \in Runs /\ r.b \in Books
    BY DEF Guarded, Calm, Sound
  <2>2. r.b.stops \in Seq(Orders)
    BY <2>1 DEF Books
  <2>3. Len(r.b.stops) \in Nat
    BY <2>2
  <2>4. n = Len(r.b.stops) + 2
    BY DEF Rounds
  <2> HIDE DEF n
  <2> QED BY <2>1, <2>3, <2>4
<1>2. N \in Nat /\ N < n
  <2>1. r.b.stops \in Seq(Orders)
    BY <1>1 DEF Books
  <2>2. IsFiniteSet(ToSet(r.b.stops)) /\ N <= Len(r.b.stops)
    BY <2>1, MembersCounted
  <2>3. N \in Nat
    BY <2>2, FS_CardinalityType
  <2> QED BY <1>1, <2>2, <2>3
<1>3. g.stop \in Nat /\ (to > from) = (g.side = 1)
  <2>1. ToSet(b.stops) \subseteq Orders
    BY IdsOfSet DEF Books
  <2>2. g.stop \in Nat
    BY <2>1 DEF Guards, Orders
  <2> QED BY <2>2
<1>4. ASSUME NEW x \in U, Guarded(x.r, b, g) PROVE Left(x) \in Nat /\ IsFiniteSet(ToSet(x.r.b.stops))
  <2>1. x.r.b.stops \in Seq(Orders)
    BY <1>4 DEF Guarded, Calm, Sound, Books
  <2>2. IsFiniteSet(ToSet(x.r.b.stops))
    BY <2>1, MembersCounted
  <2> QED BY <2>2, FS_CardinalityType
<1> HIDE DEF n, N
<1>5. z \in G[0]
  <2>1. z \in U /\ z.r = r /\ z.cur = from
    BY <1>1
  <2>2. Before(g, to, from)
    BY <1>3 DEF Before
  <2>3. Left(z) + 0 <= N /\ 0 \in 0 .. n
    BY <1>1, <1>2, <2>1 DEF N
  <2> HIDE DEF z, Left, U
  <2> QED BY <2>1, <2>2, <2>3
<1>6. ASSUME NEW k \in 1 .. n, NEW x \in G[k - 1] PROVE WalkStep(to > from, to, x) \in G[k]
  <2> DEFINE y == WalkStep(to > from, to, x)
  <2>1. k - 1 \in 0 .. n /\ k \in 0 .. n /\ k \in Nat
    BY <1>1
  <2>2. /\ x \in U
        /\ \/ Flat(x.r)
           \/ Guarded(x.r, b, g) /\ Before(g, to, x.cur) /\ Left(x) + (k - 1) <= N
    BY <2>1
  <2>3. CASE Flat(x.r)
    <3>1. y \in U /\ Flat(y.r)
      <4>1. (to > from) \in BOOLEAN /\ x \in [r : Runs, cur : Int]
        BY <2>2
      <4> HIDE DEF G
      <4>2. WalkStep(to > from, to, x) \in [r : Runs, cur : Int] /\ Flat(WalkStep(to > from, to, x).r)
        BY <2>3, <4>1, FlatStep, Zenon
      <4> QED BY <4>2
    <3> HIDE DEF y, U, Left
    <3> QED BY <2>1, <3>1 DEF y
  <2>4. CASE Guarded(x.r, b, g) /\ Before(g, to, x.cur) /\ Left(x) + (k - 1) <= N
    <3>1. /\ y \in U
          /\ \/ Flat(y.r)
             \/ /\ Guarded(y.r, b, g) /\ Before(g, to, y.cur)
                /\ \E o \in ToSet(x.r.b.stops) : ToSet(y.r.b.stops) = ToSet(x.r.b.stops) \ {o}
      <4>1. OnTheWay(b, g, to)
        BY DEF OnTheWay
      <4>2. Guarded(x.r, b, g) /\ Before(g, to, x.cur)
        BY <2>4
      <4> HIDE DEF G, U
      <4>3. Nearer(b, g, to, x, WalkStep(g.side = 1, to, x))
        BY <4>1, <4>2, RoundTowardStop, Zenon
      <4>4. (to > from) = (g.side = 1)
        BY <1>3
      <4>5. Nearer(b, g, to, x, y)
        BY <4>3, <4>4
      <4> HIDE DEF y
      <4> QED BY <4>5 DEF Nearer, U
    <3> HIDE DEF y
    <3>2. ASSUME NEW o \in ToSet(x.r.b.stops), ToSet(y.r.b.stops) = ToSet(x.r.b.stops) \ {o}
          PROVE  Left(y) + k <= N
      <4>1. Left(x) \in Nat /\ IsFiniteSet(ToSet(x.r.b.stops))
        BY <1>4, <2>2, <2>4
      <4>2. Cardinality(ToSet(x.r.b.stops) \ {o}) = Cardinality(ToSet(x.r.b.stops)) - 1
        BY <4>1, FS_RemoveElement
      <4>3. Left(y) = Left(x) - 1
        BY <3>2, <4>2
      <4> HIDE DEF Left
      <4> QED BY <1>2, <2>1, <2>4, <4>1, <4>3
    <3> HIDE DEF U, Left
    <3> QED BY <2>1, <3>1, <3>2 DEF y
  <2> QED BY <2>2, <2>3, <2>4
<1>7. \A k \in 0 .. n : G[k] \subseteq U
  OBVIOUS
<1> HIDE DEF G, U
<1>8. PICK x \in G[n] : WalkSegment(r, from, to) = x.r
  <2>1. [r |-> r, cur |-> from] \in G[0] /\ Rounds(r.b) = n /\ n \in Nat
    BY <1>1, <1>5 DEF n
  <2> HIDE DEF n
  <2> QED BY <1>6, <1>7, <2>1, WalkRounds
<1>9. \/ Flat(x.r)
      \/ x \in U /\ Guarded(x.r, b, g) /\ Left(x) + n <= N
  <2>1. n \in 0 .. n
    BY <1>1
  <2> QED BY <2>1 DEF G
<1>10. CASE x \in U /\ Guarded(x.r, b, g) /\ Left(x) + n <= N
  <2>1. Left(x) \in Nat
    BY <1>4, <1>10
  <2> HIDE DEF Left
  <2> QED BY <1>1, <1>2, <1>10, <2>1
<1> QED BY <1>8, <1>9, <1>10

(* The later pieces open nothing. *)
LEMMA FlatPiece ==
    ASSUME NEW r, Flat(r), NEW from \in Int, NEW to \in Int
    PROVE  Flat(WalkSegment(r, from, to))
<1> DEFINE I == {x \in Runs : Flat(x)}
           lo == IF from < to THEN from ELSE to
           hi == IF from < to THEN to ELSE from
<1>1. r \in I /\ lo \in Int /\ hi \in Int /\ from \in lo .. hi /\ to \in lo .. hi
  BY DEF Flat, Calm
<1>2. \A x \in I : x.b \in Books
  BY DEF Runs
<1>3. \A x \in I : \A tr \in Triggers(x.b) : \A p \in lo .. hi : Fire(x, tr, p) \in I
  <2> SUFFICES ASSUME NEW x \in I, NEW tr \in Triggers(x.b), NEW p \in lo .. hi
               PROVE  Fire(x, tr, p) \in I
    OBVIOUS
  <2>1. p \in Int
    BY <1>1
  <2>2. Flat(Fire(x, tr, p))
    BY <2>1, FlatStays
  <2> QED BY <2>2 DEF Flat, Calm
<1> HIDE DEF I, lo, hi
<1>4. WalkSegment(r, from, to) \in I
  BY <1>1, <1>2, <1>3, WalkStays
<1> QED BY <1>4 DEF I

(* The bar reaches g, gaps over neither level, and the take-profit is ahead. *)
Reached(b, g, ohlc) ==
    /\ Guards(b, g) /\ b.pos # 0 /\ (IF b.pos > 0 THEN ohlc.o < b.tp ELSE ohlc.o > b.tp)
    /\ \/ Crosses(ohlc, g)
       \/ Touches(ohlc, g) /\ \A x \in ToSet(b.stops) : x.stop = g.stop => x = g

LEMMA WalkSparesTakeProfit ==
    ASSUME NEW m, Calm(m), NEW ohlc, IsBar(ohlc), NEW g, Reached(m.b, g, ohlc)
    PROVE  NoTp(WalkTriggers(m, ohlc).fills)
<1> DEFINE b == m.b
           r == GapAtOpen(m, ohlc.o)
           p == Path(r.b, ohlc)
           s1 == WalkSegment(r, p[1], p[2])
           s2 == WalkSegment(s1, p[2], p[3])
           s3 == WalkSegment(s2, p[3], p[4])
<1>1. /\ b \in Books /\ b.pos \in Int /\ ohlc.o \in Int /\ ohlc.h \in Int /\ ohlc.l \in Int /\ ohlc.c \in Int
  BY DEF Calm, Sound, Books, IsBar
<1>2. Guarded(m, b, g) /\ Guards(b, g)
  <2>1. abs(b.pos) \in Nat
    BY <1>1, SignFacts
  <2>2. abs(b.pos) <= abs(b.pos)
    BY <2>1
  <2> QED BY <2>2 DEF Guarded, Reached, Guards
<1>3. Flat(r) \/ Guarded(r, b, g)
  BY <1>1, <1>2, GapLeavesIt DEF Reached
<1>4. InsideBar(r, ohlc) = s3
  BY DEF InsideBar, WalkPath
<1>5. p[1] \in Int /\ p[2] \in Int /\ p[3] \in Int /\ p[4] \in Int
  BY <1>1 DEF Path
<1>6. Flat(s1)
  <2>1. CASE Flat(r)
    <3> HIDE DEF r, p
    <3> QED BY <1>5, <2>1, FlatPiece
  <2>2. CASE Guarded(r, b, g)
    <3>1. r.b.pos \in Int /\ r.b.pos # 0 /\ sign(r.b.pos) = sign(b.pos) /\ g.side = -sign(b.pos) /\ g.stop \in Int
      <4>1. ToSet(b.stops) \subseteq Orders
        BY <1>1, IdsOfSet DEF Books
      <4>2. g.stop \in Nat
        BY <1>2, <4>1 DEF Guards, Orders
      <4> HIDE DEF r
      <4> QED BY <1>2, <2>2, <4>2 DEF Guarded, Calm, Sound, Books, Guards
    <3>2. r.b.pos > 0 <=> g.side # 1
      <4> HIDE DEF r
      <4>1. /\ sign(r.b.pos) \in {-1, 0, 1} /\ (r.b.pos > 0 <=> sign(r.b.pos) = 1)
            /\ (sign(r.b.pos) = 0 <=> r.b.pos = 0)
        BY <3>1, SignFacts
      <4> QED BY <3>1, <4>1
    <3>3. p[1] = ohlc.o /\ p[2] = IF g.side = 1 THEN ohlc.h ELSE ohlc.l
      <4> HIDE DEF r
      <4> QED BY <3>1, <3>2 DEF Path
    <3> HIDE DEF r, p
    <3>4. /\ IF g.side = 1 THEN p[1] < g.stop /\ g.stop <= p[2] ELSE p[2] <= g.stop /\ g.stop < p[1]
          /\ g.stop = p[2] => \A x \in ToSet(b.stops) : x.stop = g.stop => x = g
      <4>1. CASE Crosses(ohlc, g)
        BY <1>1, <3>1, <3>3, <4>1 DEF Crosses
      <4>2. CASE Touches(ohlc, g) /\ \A x \in ToSet(b.stops) : x.stop = g.stop => x = g
        BY <1>1, <3>1, <3>3, <4>2 DEF Touches
      <4> QED BY <4>1, <4>2 DEF Reached
    <3> QED BY <1>1, <1>2, <1>5, <2>2, <3>4, FirstPieceCloses
  <2> QED BY <1>3, <2>1, <2>2
<1> HIDE DEF s1, p, r
<1>7. Flat(s2)
  BY <1>5, <1>6, FlatPiece
<1> HIDE DEF s2
<1>8. Flat(s3)
  BY <1>5, <1>7, FlatPiece
<1> HIDE DEF s3
<1>9. WalkTriggers(m, ohlc) = s3 \/ WalkTriggers(m, ohlc) = m
  BY <1>4 DEF WalkTriggers, r
<1> QED BY <1>8, <1>9 DEF Flat, Calm

(* At the open only market orders execute. *)
LEMMA MarketNoTp ==
    ASSUME NEW r \in Runs, NEW ohlc, IsBar(ohlc), Sound(r.b, {}), NoTp(r.fills)
    PROVE  /\ FillMarketOrders(r, ohlc) \in Runs /\ Sound(FillMarketOrders(r, ohlc).b, {})
           /\ NoTp(FillMarketOrders(r, ohlc).fills)
<1> DEFINE due == Due(r.b)
           n == Len(due)
           G == [k \in 0 .. n |-> {x \in Runs : Sound(x.b, IdsFrom(due, k + 1)) /\ NoTp(x.fills)}]
<1>1. ohlc.o \in Int
  BY DEF IsBar
<1>2. /\ due \in Seq(Orders) /\ Uniq(due) /\ Opened(r) \in Runs /\ Opened(r).fills = r.fills
      /\ Sound(Opened(r).b, IdsOf(due))
  BY OpenedBook
<1> HIDE DEF due
<1>3. n \in Nat
  BY <1>2
<1>4. /\ IdsFrom(due, 1) = IdsOf(due) /\ IdsFrom(due, n + 1) = {}
      /\ \A k \in 1 .. n : /\ due[k] \in Orders /\ due[k].id \in IdsFrom(due, k)
                            /\ IdsFrom(due, k) \ {due[k].id} = IdsFrom(due, k + 1)
  BY <1>2, IdsFromFacts
<1> HIDE DEF n
<1>5. Opened(r) \in G[0]
  <2>1. 0 \in 0 .. n /\ 0 + 1 = 1
    BY <1>3
  <2> QED BY <1>2, <1>4, <2>1
<1>6. \A k \in 0 .. n : G[k] \subseteq Runs
  OBVIOUS
<1>7. ASSUME NEW k \in 1 .. n, NEW x \in G[k - 1]
      PROVE  Execute(x, due[k], ohlc.o, "MARKET") \in G[k]
  <2>1. k - 1 \in 0 .. n /\ (k - 1) + 1 = k /\ k \in 0 .. n
    BY <1>3
  <2> DEFINE X == IdsFrom(due, k)
             c == Execute(x, due[k], ohlc.o, "MARKET")
             f == FillMade(x.b, due[k], ohlc.o, "MARKET")
  <2>2. /\ x \in Runs /\ Sound(x.b, X) /\ NoTp(x.fills) /\ due[k].id \in X \cup {NoId} /\ due[k] \in Orders
        /\ x.b \in Books /\ x.fills \in Seq(Fills)
    BY <1>4, <2>1 DEF Runs
  <2>3. "MARKET" \in Reasons
    BY DEF Reasons
  <2> HIDE DEF X, c, f
  <2>4. ExecutionOf(x, X, due[k], ohlc.o, "MARKET", c)
    BY <1>1, <2>2, <2>3, ExecuteBook DEF c
  <2>5. /\ c \in Runs /\ Sound(c.b, X \ {due[k].id})
        /\ c.fills = x.fills \/ c.fills = Append(x.fills, f)
    BY <2>4 DEF ExecutionOf, f
  <2>6. f \in Fills /\ f.reason # "TP"
    BY <1>1, <2>2, <2>3, FillTyped DEF f
  <2>7. NoTp(c.fills)
    BY <2>2, <2>5, <2>6, ReasonsKept
  <2>8. X \ {due[k].id} = IdsFrom(due, k + 1)
    BY <1>4 DEF X
  <2> QED BY <2>1, <2>5, <2>7, <2>8 DEF c
<1> HIDE DEF G
<1>8. FillMarketOrders(r, ohlc) \in G[n]
  BY <1>3, <1>5, <1>6, <1>7, MarketStays DEF n, due
<1>9. n \in 0 .. n
  BY <1>3
<1> QED BY <1>4, <1>8, <1>9 DEF G

(* A bar that reaches both the protective stop and the take-profit of the  *)
(* position it opens with, and gaps over neither, executes the stop: no    *)
(* fill of that bar is a take-profit, whatever else the book holds and     *)
(* wherever the liquidation level is (paper_broker.py _walk_triggers).     *)
THEOREM StopComesFirst == BrokerSpec => StopBeforeTakeProfit
<1>1. ASSUME BrokerInv, BrokerNext, bar' # NoBar,
             NEW b, b = FillMarketOrders([b |-> book, fills |-> <<>>], bar').b,
             b.pos # 0, b.tp # 0,
             NEW g \in ToSet(b.stops), g.ro, g.wait = 0, g.side = -sign(b.pos), g.qty >= abs(b.pos),
             \/ Crosses(bar', g)
             \/ Touches(bar', g) /\ \A x \in ToSet(b.stops) : x.stop = g.stop => x = g,
             \A o \in ToSet(b.stops) : o.ro,
             IF b.pos > 0 THEN bar'.o < b.tp ELSE bar'.o > b.tp
      PROVE  \A k \in DOMAIN fills' : fills'[k].reason # "TP"
  <2>1. PICK x \in Bars(Prices) : OnBar(x)
    BY <1>1 DEF BrokerNext, Submit, Cancel, CancelAll, SetTakeProfit, SetLiquidationPrice, TakeFills, Called
  <2>2. IsBar(x) /\ x.c \in Nat
    BY BarsAreBars
  <2> DEFINE z == [b |-> book, fills |-> <<>>]
             m == FillMarketOrders(z, x)
             w == WalkTriggers(m, x)
             r == on_bar(book, x, FALSE)
  <2>3. bar' = x /\ fills' = r.fills
    BY <2>1 DEF OnBar
  <2>4. r.fills = w.fills
    BY DEF on_bar
  <2>5. z \in Runs /\ Sound(z.b, {}) /\ NoTp(z.fills)
    <3>1. book \in Books /\ Sound(book, {}) /\ <<>> \in Seq(Fills) /\ Len(<<>>) = 0
      BY <1>1 DEF BrokerInv, Sound
    <3>2. NoTp(<<>>)
      BY <3>1 DEF NoTp
    <3> QED BY <3>1, <3>2 DEF Runs
  <2> HIDE DEF z, w, r
  <2>6. m \in Runs /\ Sound(m.b, {}) /\ NoTp(m.fills)
    BY <2>2, <2>5, MarketNoTp
  <2>7. b = m.b
    BY <1>1, <2>3 DEF z
  <2> HIDE DEF m
  <2>8. Calm(m) /\ Reached(m.b, g, x)
    BY <1>1, <2>3, <2>6, <2>7 DEF Calm, Reached, Guards
  <2>9. NoTp(w.fills)
    BY <2>2, <2>8, WalkSparesTakeProfit DEF w
  <2>10. BrokerInv'
    BY <1>1, BrokerStep
  <2>11. DOMAIN fills' = 1 .. Len(fills')
    BY <2>10 DEF BrokerInv
  <2> QED BY <2>3, <2>4, <2>9, <2>11 DEF NoTp
<1>2. BrokerInv /\ [BrokerNext]_brVars =>
        [bar' # NoBar /\ book.tp # 0 =>
         LET b == FillMarketOrders([b |-> book, fills |-> <<>>], bar').b
             guards == {o \in ToSet(b.stops) : /\ o.ro /\ o.wait = 0
                                               /\ o.side = -sign(b.pos) /\ o.qty >= abs(b.pos)}
             alone(o) == \A x \in ToSet(b.stops) : x.stop = o.stop => x = o
             tpAhead == IF b.pos > 0 THEN bar'.o < b.tp ELSE bar'.o > b.tp
         IN  /\ b.pos # 0
             /\ \E o \in guards : Crosses(bar', o) \/ (Touches(bar', o) /\ alone(o))
             /\ \A o \in ToSet(b.stops) : o.ro
             /\ b.tp # 0 /\ tpAhead
             => \A k \in DOMAIN fills' : fills'[k].reason # "TP"]_brVars
  <2> DEFINE B == FillMarketOrders([b |-> book, fills |-> <<>>], bar').b
  <2> SUFFICES ASSUME BrokerInv, BrokerNext, bar' # NoBar, B.pos # 0,
                      NEW g \in ToSet(B.stops), g.ro /\ g.wait = 0 /\ g.side = -sign(B.pos) /\ g.qty >= abs(B.pos),
                      \/ Crosses(bar', g)
                      \/ Touches(bar', g) /\ \A x \in ToSet(B.stops) : x.stop = g.stop => x = g,
                      \A o \in ToSet(B.stops) : o.ro,
                      B.tp # 0, IF B.pos > 0 THEN bar'.o < B.tp ELSE bar'.o > B.tp
               PROVE  \A k \in DOMAIN fills' : fills'[k].reason # "TP"
    OBVIOUS
  <2> HIDE DEF B
  <2>1. B = FillMarketOrders([b |-> book, fills |-> <<>>], bar').b
    BY DEF B
  <2> QED BY <1>1, <2>1
<1> QED BY <1>2, BrokerHolds, PTL DEF BrokerSpec, StopBeforeTakeProfit
=============================================================================

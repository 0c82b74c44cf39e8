--------------------------- MODULE FuzzyDecision ---------------------------
(***************************************************************************)
(* The decision core: the outputs of the detectors are weighed into the    *)
(* inputs T, R and V of a Mamdani engine, its output is damped by the      *)
(* agreement of the detectors; and the validation of a rule base before    *)
(* the engine may use it.                                                  *)
(*                                                                         *)
(* Source: decision/aggregator.py, decision/agreement.py,                  *)
(* decision/core.py, fuzzy/membership.py, fuzzy/mamdani.py,                *)
(* fuzzy/defuzz.py, fuzzy/rules.py.                                        *)
(*                                                                         *)
(* Everything is exact: a strength is a number of twentieths, a degree of  *)
(* membership a number of 1/5544 (a common multiple of the slopes), a      *)
(* quotient a pair of numerator and denominator.  The break points are     *)
(* those of config/membership.yaml rounded to a twentieth, the Gaussian    *)
(* degrees of V a table.  The entropy of the votes is left open between    *)
(* unanimity and an even split.                                            *)
(***************************************************************************)
EXTENDS Integers, Sequences, FiniteSets, SequencesExt, FiniteSetsExt

CONSTANTS
    DetectorStrengths,  \* values of s, in twentieths
    Confidences,        \* values of c
    MaxRules            \* BOUND: rules of a drafted rule base

Unit == 20
Degree == 5544

VARIABLES
    decision,   \* the last decision, with what it was made from
    draft,      \* a rule base being written
    verdict     \* what validate_rulebase said of it

fdVars == <<decision, draft, verdict>>

-----------------------------------------------------------------------------
(* fuzzy/membership.py and the configuration. *)

(* Trapezoidal.scalar; a triangle has b = c. *)
Trap(x, p) ==
    IF x < p[1] \/ x > p[4] THEN 0
    ELSE IF x < p[2] THEN (Degree * (x - p[1])) \div (p[2] - p[1])
    ELSE IF x <= p[3] THEN Degree
    ELSE (Degree * (p[4] - x)) \div (p[4] - p[3])

TTerms == (-2 :> <<-20, -20, -18, -11>>) @@ (-1 :> <<-18, -11, -11, 0>>) @@ (0 :> <<-11, 0, 0, 11>>)
          @@ (1 :> <<0, 11, 11, 18>>) @@ (2 :> <<11, 18, 20, 20>>)
RTerms == (-1 :> <<-20, -20, -9, 0>>) @@ (0 :> <<-9, 0, 0, 9>>) @@ (1 :> <<0, 9, 20, 20>>)
UTerms == (-2 :> <<-20, -20, -16, -9>>) @@ (-1 :> <<-16, -8, -8, 0>>) @@ (0 :> <<-8, 0, 0, 8>>)
          @@ (1 :> <<0, 8, 8, 16>>) @@ (2 :> <<9, 16, 20, 20>>)

(* Degrees of the Gaussian terms LO, MID, HI at V = 0.2, 0.5, 0.8. *)
VDegrees == (2 :> <<5536, 653, 300>>) @@ (5 :> <<2182, 5337, 2913>>) @@ (8 :> <<115, 1756, 5485>>)
VDefault == 5

Signum(x) == IF x > 0 THEN 1 ELSE IF x < 0 THEN -1 ELSE 0
Between(lo, x, hi) == IF x < lo THEN lo ELSE IF x > hi THEN hi ELSE x
Half(t) == IF t = 2 THEN 1 ELSE IF t = -2 THEN -1 ELSE 0

(* The rule table of config/rules_mamdani.yaml, by its policies. *)
Consequent(t, r, v) ==
    CASE v = 1 -> Between(-2, 2 * r + Half(t), 2)
      [] v = 2 -> IF t = 0 THEN r ELSE IF r = Signum(t) /\ t \in {-1, 1} THEN t + r ELSE t
      [] v = 3 -> IF Signum(t) = Signum(r) THEN Signum(t) ELSE 0

RuleTable == (DOMAIN TTerms) \X (DOMAIN RTerms) \X (1..3)

-----------------------------------------------------------------------------
(* fuzzy/mamdani.py and fuzzy/defuzz.py. *)

(* _fuzzify_all: the input clipped to its range, the degree of every term. *)
Fuzzify(x, terms) == [k \in DOMAIN terms |-> Trap(Between(-Unit, x, Unit), terms[k])]

Lowest(a, b, c) == Min({a, b, c})

(* Fault: a group of rules is skipped unless its degree is a full one. *)
FaultyActive(mt) == {t \in DOMAIN mt : mt[t] = Degree}

(* _strengths skips a group of rules whose degree of T is zero. *)
Active(mt) == {t \in DOMAIN mt : mt[t] > 0}

(* infer_u: the strength of each consequent, over the active groups only. *)
FastStrengths(mt, mr, mv) ==
    [u \in DOMAIN UTerms |->
        Max({0} \cup {Lowest(mt[g[1]], mr[g[2]], mv[g[3]]) :
                         g \in {h \in Active(mt) \X (DOMAIN mr) \X (1..3) : Consequent(h[1], h[2], h[3]) = u}})]

(* infer: every rule of the base in turn. *)
FullStrengths(mt, mr, mv) ==
    [u \in DOMAIN UTerms |->
        Max({0} \cup {Lowest(mt[g[1]], mr[g[2]], mv[g[3]]) :
                         g \in {h \in RuleTable : Consequent(h[1], h[2], h[3]) = u}})]

Grid == {4 * k : k \in -5..5}

(* quadrature_weights, trapezoid: half a step at the ends (here 1 and 2). *)
Weight(u) == IF u \in {-Unit, Unit} THEN 1 ELSE 2

UDegrees == [u \in Grid |-> [k \in DOMAIN UTerms |-> Trap(u, UTerms[k])]]

(* aggregate: the highest of the consequents, each cut at its strength. *)
Aggregate(beta) == [u \in Grid |-> Max({Min({beta[k], UDegrees[u][k]}) : k \in DOMAIN UTerms})]

(* centroid_weighted: 0 when nothing is active. *)
Centroid(beta) ==
    LET mu  == Aggregate(beta)
        den == MapThenSumSet(LAMBDA u : Weight(u) * mu[u], Grid)
    IN  IF den = 0 THEN [num |-> 0, den |-> 1]
        ELSE [num |-> MapThenSumSet(LAMBDA u : Weight(u) * u * mu[u], Grid), den |-> den]

-----------------------------------------------------------------------------
(* decision/aggregator.py and decision/agreement.py.  An output has its group,
   strength s and effective weight e = weight * c. *)

GroupOf(outputs, g) == SelectSeq(outputs, LAMBDA o : o.group = g)

Mass(outs) == FoldLeft(LAMBDA a, o : a + o.e, 0, outs)
Moment(outs) == FoldLeft(LAMBDA a, o : a + o.e * o.s, 0, outs)

(* consensus of one group: its weighed mean, 0 without mass. *)
GroupValue(outs) == IF Mass(outs) = 0 THEN 0 ELSE Between(-Unit, Moment(outs) \div Mass(outs), Unit)

OnGrid(outs) == IF Mass(outs) = 0 THEN TRUE ELSE Moment(outs) % Mass(outs) = 0

(* _volatility: the V of the one context output, if it is warm. *)
Volatility(context) == IF context.c > 0 THEN context.v ELSE VDefault

(* agreement: the votes for, against and for nothing; an even split without
   evidence. *)
Votes(outs) ==
    LET Share(f(_)) == FoldLeft(LAMBDA a, o : a + o.e * f(o.s), 0, outs)
    IN  IF Mass(outs) = 0 THEN <<1, 1, 1>>
        ELSE <<Share(LAMBDA s : Max({s, 0})), Share(LAMBDA s : Max({-s, 0})),
               Share(LAMBDA s : Unit - Max({s, -s}))>>

(* kappa in percent: 100 for one vote, kappa_min for an even split. *)
KappaMin == 35
Kappa(votes) ==
    IF Cardinality({k \in 1..3 : votes[k] > 0}) = 1 THEN {100}
    ELSE IF votes[1] = votes[2] /\ votes[2] = votes[3] THEN {KappaMin}
    ELSE {40, 90}

-----------------------------------------------------------------------------
(* DecisionCore.intent and decide. *)

Raw(T, R, V) == Centroid(FastStrengths(Fuzzify(T, TTerms), Fuzzify(R, RTerms), VDegrees[V]))

Undecided == [outputs |-> <<>>, T |-> 0, R |-> 0, V |-> VDefault, raw |-> [num |-> 0, den |-> 1],
              kappa |-> KappaMin, final |-> [num |-> 0, den |-> 100]]

FuzzyInit == decision = Undecided /\ draft = <<>> /\ verdict = "none"

Output(group, s, c) == [group |-> group, s |-> s, e |-> c]

Decide ==
    /\ draft = <<>> /\ decision = Undecided   \* the core keeps no state between bars
    /\ \E s1, s2, s3 \in DetectorStrengths, c1, c2, c3 \in Confidences,
          context \in {[c |-> 0, v |-> VDefault]} \cup {[c |-> 1, v |-> v] : v \in DOMAIN VDegrees} :
          \E outs \in {<<Output("TREND", s1, c1), Output("TREND", s2, 3 * c2), Output("REVERSION", s3, c3)>>} :
             LET trend == GroupOf(outs, "TREND")
                 rev   == GroupOf(outs, "REVERSION")
             IN  /\ OnGrid(trend) /\ OnGrid(rev)
                 /\ \E T \in {GroupValue(trend)}, R \in {GroupValue(rev)}, V \in {Volatility(context)} :
                       \E raw \in {Raw(T, R, V)}, kappa \in Kappa(Votes(outs)) :
                          decision' = [outputs |-> outs, T |-> T, R |-> R, V |-> V, raw |-> raw, kappa |-> kappa,
                                       final |-> [num |-> kappa * raw.num, den |-> 100 * raw.den]]
    /\ UNCHANGED <<draft, verdict>>

-----------------------------------------------------------------------------
(* fuzzy/rules.py: validate_rulebase on two terms of T and two of R. *)

DraftTerms == <<{"down", "up"}, {"sell", "buy"}>>
AnyTerm == "any"

Expanded(rule) ==
    (IF rule.t = AnyTerm THEN DraftTerms[1] ELSE {rule.t} \cap DraftTerms[1])
    \X (IF rule.r = AnyTerm THEN DraftTerms[2] ELSE {rule.r} \cap DraftTerms[2])

Matches(rule, combo) == combo \in Expanded(rule)

Overlap(a, b) == Expanded(a) \cap Expanded(b) # {}

validate_rulebase(rules) ==
    IF \/ \E i, j \in DOMAIN rules : i < j /\ (rules[i].id = rules[j].id \/ Overlap(rules[i], rules[j]))
       \/ \E i \in DOMAIN rules : Expanded(rules[i]) = {}
       \/ Len(rules) # Cardinality(DraftTerms[1] \X DraftTerms[2])
    THEN "rejected" ELSE "accepted"

AddRule ==
    /\ decision = Undecided /\ Len(draft) < MaxRules
    /\ \E t \in DraftTerms[1] \cup {AnyTerm, "unknown"}, r \in DraftTerms[2] \cup {AnyTerm},
          id \in {Len(draft) + 1, 2} :
          draft' = Append(draft, [id |-> id, t |-> t, r |-> r])
    /\ verdict' = validate_rulebase(draft')
    /\ UNCHANGED decision

FuzzyNext == Decide \/ AddRule

-----------------------------------------------------------------------------
(* Properties. *)

Mirror(outs) == [k \in DOMAIN outs |-> [outs[k] EXCEPT !.s = -@]]

(* A market seen in a mirror gives the opposite intent: the whole chain, from
   the detectors' strengths to the raw output, is odd. *)
IntentIsOdd ==
    LET m == Mirror(decision.outputs)
        raw == Raw(GroupValue(GroupOf(m, "TREND")), GroupValue(GroupOf(m, "REVERSION")), decision.V)
    IN  decision # Undecided => raw = [num |-> -decision.raw.num, den |-> decision.raw.den]

(* The fast path of a backtest decides what the traced path decides, and no
   input falls between the rules. *)
FastPathIsFull ==
    LET mt == Fuzzify(decision.T, TTerms)
        mr == Fuzzify(decision.R, RTerms)
        mv == VDegrees[decision.V]
    IN  decision # Undecided =>
            /\ FastStrengths(mt, mr, mv) = FullStrengths(mt, mr, mv)
            /\ decision.raw.den > 1

(* Damping shrinks the intent and never turns it; without evidence there is no
   intent at all. *)
DampedNotTurned ==
    /\ Signum(decision.final.num) = Signum(decision.raw.num)
    /\ -Unit * decision.raw.den <= decision.raw.num /\ decision.raw.num <= Unit * decision.raw.den
    /\ decision.kappa \in KappaMin..100
    /\ Mass(decision.outputs) = 0 => decision.raw.num = 0

(* The consensus of a group lies between its weakest and strongest voice. *)
ConsensusIsBetween ==
    \A g \in {"TREND", "REVERSION"} :
        LET outs  == GroupOf(decision.outputs, g)
            value == IF g = "TREND" THEN decision.T ELSE decision.R
            heard == {outs[k].s : k \in {j \in DOMAIN outs : outs[j].e > 0}}
        IN  IF heard = {} THEN value = 0 ELSE Min(heard) <= value /\ value <= Max(heard)

(* An accepted rule base has exactly one rule for every combination of terms. *)
AcceptedCoversOnce ==
    verdict = "accepted" =>
        \A combo \in DraftTerms[1] \X DraftTerms[2] :
            Cardinality({k \in DOMAIN draft : Matches(draft[k], combo)}) = 1

(* The decision core is consistent: odd, damped, the same on both paths, and
   driven by a rule base that covers every case once. *)
DecisionIsConsistent ==
    /\ IntentIsOdd
    /\ FastPathIsFull
    /\ DampedNotTurned
    /\ ConsensusIsBetween
    /\ AcceptedCoversOnce

=============================================================================

----------------------------- MODULE MCExecution -----------------------------
(***************************************************************************)
(* From a closed bar to the books, side by side: features, the fuzzy       *)
(* decision, sizing, the order router, the paper broker and the portfolio. *)
(* The parts share no state; "part" says which of them runs, and the       *)
(* others stand still.                                                     *)
(***************************************************************************)
EXTENDS PaperBroker, Portfolio, OrderRouter, Sizing, Features, FuzzyDecision

VARIABLE part

(* Entries, exits and flips of one or two steps, protective stops of both  *)
(* sides, a stop entry, and orders that are late for the next bar.         *)
Shape(side, qty, stop, ro, wait) ==
    [side |-> side, qty |-> qty, stop |-> stop, ro |-> ro, wait |-> wait]

MCShapes ==
    {Shape(1, q, 0, FALSE, 0) : q \in {1, 2}}       \* entries
    \cup {Shape(-1, 2, 0, FALSE, 0),                \* a short entry, an exit or a flip
          Shape(1, 1, 0, TRUE, 1)}                  \* an exit, late for the bar
    \cup {Shape(-1, 1, p, TRUE, 0) : p \in {1, 2}}  \* stops of a long
    \cup {Shape(-1, 2, 1, TRUE, 0),                 \* a larger one at the same level
          Shape(1, 1, 3, TRUE, 1),                  \* a late stop of a short
          Shape(1, 1, 2, FALSE, 0)}                 \* a stop entry

(* A rate off its moment, one on it, and one that only a later bar knows.  *)
MCFundingSeries == <<[t |-> 3, r |-> 1], [t |-> 6, r |-> -1], [t |-> 10, r |-> 2]>>

MCIntents == {-10, -3, -1, 0, 2, 3, 10}

(* Rising, falling and wide bars on a grid of powers of two. *)
MCBars == {[h |-> 4, l |-> 2, c |-> 4, v |-> 1], [h |-> 2, l |-> 1, c |-> 1, v |-> 3],
           [h |-> 4, l |-> 1, c |-> 2, v |-> 2], [h |-> 8, l |-> 4, c |-> 4, v |-> 2]}

MCStrengths == {-20, -8, 0, 12}

(* A venue that cannot be asked matters to the router only. *)
ExecutionInit ==
    /\ part \in {"broker", "portfolio", "router", "sizing", "features", "fuzzy"}
    /\ BrokerInit /\ PortfolioInit /\ RouterInit /\ SizingInit /\ FeaturesInit /\ FuzzyInit
    /\ part # "router" => rtReconciles

ExecutionNext ==
    /\ UNCHANGED part
    /\ \/ part = "broker" /\ BrokerNext /\ UNCHANGED <<pfVars, rtVars, szVars, ftVars, fdVars>>
       \/ part = "portfolio" /\ PortfolioNext /\ UNCHANGED <<brVars, rtVars, szVars, ftVars, fdVars>>
       \/ part = "router" /\ RouterNext /\ UNCHANGED <<brVars, pfVars, szVars, ftVars, fdVars>>
       \/ part = "sizing" /\ SizingNext /\ UNCHANGED <<brVars, pfVars, rtVars, ftVars, fdVars>>
       \/ part = "features" /\ FeaturesNext /\ UNCHANGED <<brVars, pfVars, rtVars, szVars, fdVars>>
       \/ part = "fuzzy" /\ FuzzyNext /\ UNCHANGED <<brVars, pfVars, rtVars, szVars, ftVars>>

ExecutionSpec ==
    ExecutionInit /\ [][ExecutionNext]_<<part, brVars, pfVars, rtVars, szVars, ftVars, fdVars>>
=============================================================================

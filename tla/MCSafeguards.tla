---------------------------- MODULE MCSafeguards ----------------------------
(***************************************************************************)
(* What trading relies on, side by side: the risk state machine and the    *)
(* risk guard, and of the data the recorded session, the quality scores,   *)
(* the table of candles and the ingest session.  The parts share no state; *)
(* "part" says which of them runs, and the others stand still.             *)
(***************************************************************************)
EXTENDS RiskStateMachine, RiskGuard, SessionFile, DataQuality, CandleStore, IngestSession

VARIABLE part

(* Seven equity levels and two sets of thresholds: the per-mille defaults  *)
(* of StateMachineCfg with short dwells, and a tighter one an              *)
(* administrator may switch to.                                            *)
MCEquities == {0, 915, 945, 962, 979, 1000, 1030}

MCCfgs == {
    [warnEnter |-> 40, warnExit |-> 25, warnDwell |-> 1,
     coolEnter |-> 80, coolExit |-> 50, coolDwell |-> 2,
     haltEnter |-> 120, coolDaily |-> 20, haltDaily |-> 30],
    [warnEnter |-> 20, warnExit |-> 10, warnDwell |-> 2,
     coolEnter |-> 50, coolExit |-> 30, coolDwell |-> 2,
     haltEnter |-> 90, coolDaily |-> 35, haltDaily |-> 50]}

MCQuantities == -3..3
MCMarginFrac == <<1, 2>>
MCBufferFrac == <<4, 5>>
MCMmr == <<1, 10>>

(* An event of every kind, and two of books. *)
MCQualityEvents ==
    {<<"candle", 1>>, <<"trade", 1>>, <<"book", 1>>, <<"book", 2>>, <<"mark", 1>>}

(* Two gaps that overlap and reach into the second hour. *)
MCQualityGaps == {<<1, 5>>, <<3, 6>>}

(* Copies of a trade may differ in nothing but the way they are written. *)
MCDigests == [kind \in {"candle", "trade", "book", "mark"} |-> IF kind = "trade" THEN {1, 2} ELSE {1}]

(* A minute in three versions, one with a single version, a hole, and a    *)
(* minute whose better source is not closed.                               *)
Candle(t, closed, src, body) == [t |-> t, closed |-> closed, src |-> src, body |-> body]

MCCandles ==
    {Candle(0, FALSE, 1, 1), Candle(0, TRUE, 1, 2), Candle(0, TRUE, 2, 3),
     Candle(1, TRUE, 2, 1), Candle(3, TRUE, 1, 1), Candle(3, FALSE, 2, 2)}

MCSymbols == <<"btc", "eth">>

(* Thresholds that do not matter stand at one value. *)
SafeguardsInit ==
    /\ part \in {"machine", "guard", "file", "quality", "candles", "session"}
    /\ Init /\ GuardInit /\ FileInit /\ DataQualityInit /\ CandleStoreInit /\ IngestSessionInit
    /\ part # "machine" => cfg = CHOOSE c \in Cfgs : TRUE

SafeguardsNext ==
    /\ UNCHANGED part
    /\ \/ part = "machine" /\ Next /\ UNCHANGED <<rgVars, sfVars, dqVars, csVars, insVars>>
       \/ part = "guard" /\ GuardNext /\ UNCHANGED <<vars, sfVars, dqVars, csVars, insVars>>
       \/ part = "file" /\ FileNext /\ UNCHANGED <<vars, rgVars, dqVars, csVars, insVars>>
       \/ part = "quality" /\ DataQualityNext /\ UNCHANGED <<vars, rgVars, sfVars, csVars, insVars>>
       \/ part = "candles" /\ CandleStoreNext /\ UNCHANGED <<vars, rgVars, sfVars, dqVars, insVars>>
       \/ part = "session" /\ IngestSessionNext /\ UNCHANGED <<vars, rgVars, sfVars, dqVars, csVars>>

SafeguardsSpec ==
    SafeguardsInit /\ [][SafeguardsNext]_<<part, vars, rgVars, sfVars, dqVars, csVars, insVars>>
=============================================================================

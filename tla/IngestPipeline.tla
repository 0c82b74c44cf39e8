--------------------------- MODULE IngestPipeline ---------------------------
(***************************************************************************)
(* The ingest pipeline: market events that are lost, repeated and          *)
(* reordered on the way, the detection of gaps among them, their backfill  *)
(* over REST, and the series of candles and trades handed to the sinks.    *)
(*                                                                         *)
(* Source: ingest/pipeline.py (IngestPipeline), ingest/gap_detector.py,    *)
(* ingest/dedup.py, ingest/candles.py.                                     *)
(*                                                                         *)
(* Exchange time is a number of units, TF of them to a minute.  An update  *)
(* of a minute is the forming bar, a closed bar from REST or a closed bar  *)
(* from the stream, in the order of their precedence (1, 2, 3).  Any event *)
(* may be delivered at any moment, or never: this covers loss and every    *)
(* reordering.  A later forming bar of a minute only moves the time, as    *)
(* OnTime does.  An event that fails normalisation or an invariant is one  *)
(* that was lost, and the deduplicator's window (500,000 events) is taken  *)
(* to be wide enough.  Backfill runs inside the handler that found the     *)
(* gap, so no frame is accepted while gaps wait for it.                    *)
(***************************************************************************)
EXTENDS CandleAggregator

CONSTANTS
    Minutes,     \* minutes of the session, 0 .. n
    Trades,      \* aggTrade ids of the session, 1 .. n
    TF,          \* time units of a minute
    Grace,       \* grace_ms
    MaxTime,     \* BOUND: exchange time
    MaxReorder   \* max_reorder_ids

ASSUME PipelineAssumption ==
    /\ Minutes \subseteq Nat /\ Trades \subseteq Nat \ {0}
    /\ TF \in Nat \ {0} /\ Grace \in Nat /\ MaxTime \in Nat /\ MaxReorder \in Nat

VARIABLES
    hook,    \* a BackfillHook is attached
    ipStage,   \* "run", "drain" (finish called), "done"
    best,    \* Deduplicator: precedence of the version kept per minute (0: none)
    seen,    \* Deduplicator: trades seen, each handed to on_trade once
    det,     \* the GapDetector
    agg,     \* the CandleAggregator
    taken    \* gaps taken from _to_fill; the later ones are queued

vars == <<hook, ipStage, best, seen, det, agg, taken>>

Statuses == {"OPEN", "FILLING", "FILLED", "PARTIAL", "UNFILLABLE"}

EmptyDetector ==
    [latest |-> Unset, kLo |-> Unset, kClosed |-> {}, tLo |-> Unset, tMax |-> Unset,
     pending |-> <<>>, gaps |-> <<>>]

Queued == taken < Len(det.gaps)

-----------------------------------------------------------------------------
(* GapDetector. *)

Gap(stream, keys) ==
    [stream |-> stream, keys |-> keys, missing |-> keys, status |-> "OPEN", filled |-> 0]

Open(d, stream, keySets) ==
    [d EXCEPT !.gaps = @ \o [k \in DOMAIN keySets |-> Gap(stream, keySets[k])]]

Advance(d, ts) == [d EXCEPT !.latest = IF ts > @ THEN ts ELSE @]

(* resolve: the status that follows from what is missing. *)
Resolution(g) ==
    IF g.missing = {} THEN "FILLED" ELSE IF g.missing = g.keys THEN "UNFILLABLE" ELSE "PARTIAL"

Counted(g) == Cardinality(g.keys) - Cardinality(g.missing)

OwnerOf(d, stream, key) ==
    {k \in DOMAIN d.gaps : d.gaps[k].stream = stream /\ key \in d.gaps[k].missing}

(* _fill: a missing key arrived, from the stream or from REST. *)
Arrived(g, key) ==
    LET h == [g EXCEPT !.missing = @ \ {key}]
    IN  IF h.status = "FILLING" THEN [h EXCEPT !.filled = Counted(h)]
        ELSE IF h.missing = {} THEN [h EXCEPT !.status = "FILLED", !.filled = Counted(h)]
        ELSE h

Fill(d, stream, key) ==
    [d EXCEPT !.gaps = [k \in DOMAIN @ |-> IF k \in OwnerOf(d, stream, key)
                                           THEN Arrived(@[k], key) ELSE @[k]]]

Runs(S) ==
    LET starts == Ascending({m \in S : m - 1 \notin S})
    IN  [k \in DOMAIN starts |-> {m \in S : m >= starts[k] /\ starts[k]..m \subseteq S}]

(* Minutes closed at the exchange for at least the grace. *)
SettledUpTo(d) == LET n == (d.latest - Grace) \div TF IN IF n > d.kLo THEN n ELSE d.kLo

(* _sweep_klines: a settled minute without a closed candle is lost; neighbours
   make one gap. *)
Sweep(d) ==
    IF d.kLo = Unset \/ d.latest = Unset THEN d
    ELSE LET settled == d.kLo..(SettledUpTo(d) - 1)
         IN  [Open(d, "KLINES", Runs(settled \ d.kClosed))
                EXCEPT !.kLo = SettledUpTo(d), !.kClosed = @ \ settled]

Overdue(d, h) == Cardinality(h.missing) > MaxReorder \/ d.latest - h.created >= Grace

Sure(d, force) == {h \in ToSet(d.pending) : force \/ Overdue(d, h)}

(* Fault: a confirmed candidate is forgotten. *)
FaultyConfirm(d, force) ==
    [d EXCEPT !.pending = Kept(@, ToSet(@) \ Sure(d, force))]

(* _confirm_holes: a candidate too wide or too old for a reordering is a gap. *)
Confirm(d, force) ==
    LET sure == Kept(d.pending, Sure(d, force))
    IN  [Open(d, "TRADES", [k \in DOMAIN sure |-> sure[k].missing])
           EXCEPT !.pending = Kept(@, ToSet(@) \ Sure(d, force))]

on_time(d, ts) == Confirm(Sweep(Advance(d, ts)), FALSE)

on_kline(d, m, closed, ts) ==
    LET now   == Advance(d, ts)
        begun == [now EXCEPT !.kLo = IF @ = Unset THEN m ELSE @]
        noted == IF ~closed THEN begun
                 ELSE IF m < begun.kLo THEN Fill(begun, "KLINES", m)
                 ELSE [begun EXCEPT !.kClosed = @ \cup {m}]
    IN  Confirm(Sweep(noted), FALSE)

InHole(d, i) == \E k \in DOMAIN d.pending : i \in d.pending[k].missing

Heal(d, i) ==
    LET healed == [k \in DOMAIN d.pending |-> [d.pending[k] EXCEPT !.missing = @ \ {i}]]
    IN  [d EXCEPT !.pending = Kept(healed, {h \in ToSet(healed) : h.missing # {}})]

on_trade(d, i, ts) ==
    LET now  == Advance(d, ts)
        hole == [missing |-> (d.tMax + 1)..(i - 1), created |-> now.latest]
        noted ==
            IF d.tMax = Unset THEN [now EXCEPT !.tLo = i, !.tMax = i]
            ELSE IF i > d.tMax
            THEN [now EXCEPT !.tMax = i, !.pending = IF hole.missing = {} THEN @ ELSE Append(@, hole)]
            ELSE IF InHole(d, i) THEN Heal(now, i)
            ELSE Fill(now, "TRADES", i)
    IN  Sweep(Confirm(noted, FALSE))

-----------------------------------------------------------------------------
(* IngestPipeline._accept, on the state s = [best, seen, det, agg]. *)

State == [best |-> best, seen |-> seen, det |-> det, agg |-> agg]

Becomes(s) == best' = s.best /\ seen' = s.seen /\ det' = s.det /\ agg' = s.agg

(* A closed candle of a skipped minute can no longer be released, so it only
   moves the time and its gap stays as it is. *)
Observe(s, m, rank, ts) ==
    IF rank > 1 /\ is_skipped(s.agg, m) THEN on_time(s.det, ts)
    ELSE on_kline(s.det, m, rank > 1, ts)

AcceptCandle(s, m, rank, ts) ==
    IF rank <= s.best[m] THEN s
    ELSE [s EXCEPT !.best[m] = rank, !.det = Observe(s, m, rank, ts),
                   !.agg = offer(@, m, rank > 1)]

AcceptTrade(s, i) ==
    IF i \in s.seen THEN s
    ELSE [s EXCEPT !.seen = @ \cup {i}, !.det = on_trade(@, i, i)]

(* Frames. *)
EventTime(m, rank) == IF rank = 1 THEN m * TF ELSE (m + 1) * TF

Listening == ipStage = "run" /\ ~Queued

OnCandle(m, rank) ==
    /\ Listening
    /\ rank > best[m] /\ EventTime(m, rank) <= MaxTime
    /\ Becomes(AcceptCandle(State, m, rank, EventTime(m, rank)))
    /\ UNCHANGED <<hook, ipStage, taken>>

OnTrade(i) ==
    /\ Listening
    /\ i \notin seen
    /\ Becomes(AcceptTrade(State, i))
    /\ UNCHANGED <<hook, ipStage, taken>>

(* A mark price or a book: only its time matters. *)
OnTime(ts) ==
    /\ Listening
    /\ ts > det.latest
    /\ det' = on_time(det, ts)
    /\ UNCHANGED <<hook, ipStage, best, seen, agg, taken>>

(* _disconnect of the market connection: late frames will not come. *)
Disconnect ==
    /\ Listening
    /\ det.pending # <<>>
    /\ det' = Confirm(det, TRUE)
    /\ UNCHANGED <<hook, ipStage, best, seen, agg, taken>>

-----------------------------------------------------------------------------
(* _fill_loop, one gap. *)

SkipMissing(s, g) ==
    IF s.det.gaps[g].stream = "KLINES" THEN [s EXCEPT !.agg = skip(@, s.det.gaps[g].missing)]
    ELSE s

AcceptRest(s, stream, key) ==
    IF stream = "KLINES" THEN AcceptCandle(s, key, 2, EventTime(key, 2)) ELSE AcceptTrade(s, key)

Backfilled(s, g, got) ==
    LET keys == Ascending(got)
        after[k \in 0..Len(keys)] ==
            IF k = 0 THEN [s EXCEPT !.det.gaps[g].status = "FILLING"]
            ELSE AcceptRest(after[k - 1], s.det.gaps[g].stream, keys[k])
    IN  after[Len(keys)]

Resolved(s, g) ==
    [s EXCEPT !.det.gaps[g].status = Resolution(s.det.gaps[g]),
              !.det.gaps[g].filled = Counted(s.det.gaps[g])]

SkipUnfilled(s, g) == IF s.det.gaps[g].status = "FILLED" THEN s ELSE SkipMissing(s, g)

(* RestBackfiller: of the keys of the gap, the ones the exchange has.  A key that
   came meanwhile is a duplicate, and an error brings none. *)
Fetched(g) == SUBSET det.gaps[g].missing

(* One gap of the queue is filled, as far as the hook can. *)
FillGap ==
    LET g == taken + 1
    IN  /\ Queued
        /\ taken' = g
        /\ \/ /\ det.gaps[g].status = "FILLED"
              /\ UNCHANGED <<best, seen, det, agg>>
           \/ /\ det.gaps[g].status # "FILLED" /\ ~hook
              /\ Becomes(SkipUnfilled(State, g))
           \/ /\ det.gaps[g].status # "FILLED" /\ hook
              /\ \E got \in Fetched(g) :
                    Becomes(SkipUnfilled(Resolved(Backfilled(State, g, got), g), g))
        /\ UNCHANGED <<hook, ipStage>>

(* finish: confirm, fill what that found, release what is still held. *)
Finish ==
    /\ Listening
    /\ ipStage' = "drain" /\ det' = Confirm(det, TRUE)
    /\ UNCHANGED <<hook, best, seen, agg, taken>>

FinishFlush ==
    /\ ipStage = "drain" /\ ~Queued
    /\ ipStage' = "done" /\ agg' = flush(agg)
    /\ UNCHANGED <<hook, best, seen, det, taken>>

Init ==
    /\ hook \in BOOLEAN /\ ipStage = "run"
    /\ best = [m \in Minutes |-> 0] /\ seen = {}
    /\ det = EmptyDetector /\ agg = EmptyAggregator /\ taken = 0

Next ==
    \/ \E m \in Minutes, rank \in {1, 3} : OnCandle(m, rank)
    \/ \E i \in Trades : OnTrade(i)
    \/ \E ts \in 0..MaxTime : OnTime(ts)
    \/ Disconnect \/ FillGap \/ Finish \/ FinishFlush

Spec == Init /\ [][Next]_vars

(* The fill loop runs to its end, and the exchange's clock is heard: the other
   streams tick every second, and no frame leaves the clock behind for good. *)
FairSpec ==
    /\ Spec /\ WF_vars(FillGap) /\ WF_vars(FinishFlush)
    /\ WF_vars(OnTime(MaxTime))

-----------------------------------------------------------------------------
(* Properties. *)

(* on_candle sees every minute at most once and in ascending order, whatever the
   transport and the backfill do (candles.py, PipelineSinks.on_candle). *)
ReleasedInOrder ==
    \A k \in 2..Len(agg.released) : agg.released[k - 1] < agg.released[k]

Unfilled(m) == \E k \in DOMAIN det.gaps : /\ det.gaps[k].stream = "KLINES"
                                          /\ m \in det.gaps[k].missing
                                          /\ det.gaps[k].status # "FILLED"

(* The released series has no hole that is not on record: until finish flushes what
   is left, a minute passed over stays missing in a gap that is not FILLED, where the
   nightly backfill finds it (pipeline.py _accept, "silent loss"; candles.py, ordered release). *)
NoSilentHole ==
    ipStage # "done" => \A m \in Minutes :
        (agg.released # <<>> /\ agg.released[1] <= m /\ m < agg.next)
            => m \in ToSet(agg.released) \/ Unfilled(m)

(* A gap recorded as FILLED was delivered and counted in full: each of its candles
   is released or waits for an earlier minute, each of its trades was emitted
   (pipeline.py _accept and _fill_loop, gap_detector.py _fill and resolve). *)
FilledIsDelivered ==
    \A k \in DOMAIN det.gaps : det.gaps[k].status = "FILLED" =>
        /\ det.gaps[k].filled = Cardinality(det.gaps[k].keys)
        /\ det.gaps[k].keys \subseteq IF det.gaps[k].stream = "KLINES"
                                      THEN ToSet(agg.released) \cup agg.held ELSE seen

(* The series handed to the strategy is ordered, its holes are on record, and what
   is recorded as filled was delivered. *)
SeriesIsAccounted == ReleasedInOrder /\ NoSilentHole /\ FilledIsDelivered

(* Every trade id between the first and the newest was seen, or is a candidate, or
   is missing in a gap; never two of these at once (gap_detector.py on_trade). *)
TradesAccounted ==
    det.tMax # Unset => \A i \in det.tLo..det.tMax :
        Cardinality({x \in {"seen", "hole", "gap"} :
                        CASE x = "seen" -> i \in seen
                          [] x = "hole" -> InHole(det, i)
                          [] x = "gap"  -> OwnerOf(det, "TRADES", i) # {}}) = 1

(* Closed candles do not wait for ever: what _drain holds back is released once the
   earlier minutes have come, were filled, or were given up (candles.py _drain,
   pipeline.py _skip_missing). *)
HeldIsReleased == agg.held # {} ~> agg.held = {}
=============================================================================

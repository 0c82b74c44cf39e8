---------------------------- MODULE DataQuality ----------------------------
(***************************************************************************)
(* What the ingest pipeline counts while it works: the checks an event     *)
(* passes before it is accepted, the deduplicator's bounded window, the    *)
(* order of books and mark prices, the watchdogs of the connections, and   *)
(* the hourly accumulators from which the quality score Q is made.         *)
(*                                                                         *)
(* Source: ingest/pipeline.py (process, _accept, _invalid, _on_gaps,       *)
(* dq_scores), quality/dq_score.py, quality/health.py,                     *)
(* quality/invariants.py, ingest/dedup.py, ingest/reconnect.py.            *)
(*                                                                         *)
(* Which gap the detector opens and whether the aggregator releases a      *)
(* candle is decided in module IngestPipeline; here the handler may get    *)
(* any such answer.  Lags, percentiles, weights and the exponential of     *)
(* timeliness are left out.                                                *)
(***************************************************************************)
EXTENDS Integers, Sequences, FiniteSets, SequencesExt

CONSTANTS
    Minute,        \* _tf_ns, in time units
    HourLength,    \* HOUR_NS, a number of minutes
    LastHour,      \* BOUND: hours 0 .. LastHour
    Silence,       \* heartbeat_timeout_s
    DedupWindow,   \* max_size of the deduplicator
    QualityEvents,        \* pairs of a kind and an id: minute, agg id, update id
    Digests,       \* by kind, how hex_digest may order copies that are equal otherwise
    Steps,         \* time between two records of the session
    MaxFrames,     \* BOUND: events judged
    QualityGaps,   \* gaps that may be found: pairs of a beginning and an end
    MaxLosses,     \* BOUND: recorded losses, not counting silences a watchdog reports
    MaxSession     \* BOUND: ingest time

ASSUME QualityAssumption ==
    /\ Minute \in Nat \ {0} /\ HourLength \in Nat \ {0} /\ HourLength % Minute = 0
    /\ DedupWindow \in Nat \ {0} /\ Silence \in Nat \ {0} /\ \A kind \in DOMAIN Digests : Digests[kind] \subseteq Nat
    /\ \A g \in QualityGaps : 0 <= g[1] /\ g[1] <= g[2] /\ g[2] <= (LastHour + 1) * HourLength
    /\ QualityEvents \subseteq {"candle", "trade", "book", "mark"} \X Nat

VARIABLES
    clock,      \* ts_ingest_ns of the last record
    watchdog,   \* HeartbeatWatchdog per connection: last_ns and _armed
    memory,     \* Deduplicator._events, oldest first: the version kept of an event;
                \* offered is every version seen since the event is remembered
    lastBook,   \* _last_book_u
    lastMark,   \* _last_mark_ns
    health,     \* PipelineHealth: the counters
    hours,      \* _dq: a DqAccumulator per hour
    openGaps,   \* every gap opened so far
    passed,     \* books and mark prices handed on
    silence     \* what was reported of a connection since its last sign of life

dqVars == <<clock, watchdog, memory, lastBook, lastMark, health, hours, openGaps, passed, silence>>

Never == -1
Hours == {h * HourLength : h \in 0..LastHour}
End == (LastHour + 1) * HourLength
HourOf(t) == t - (t % HourLength)

-----------------------------------------------------------------------------
(* quality/invariants.py: the violated invariants of an event. *)

TickSize == 2  \* tick_size
StepQty == 1   \* step_size

OffTick(price) == price > 0 /\ price % TickSize # 0

QuoteVolumeOk(c) == c.volume * c.l <= c.qv /\ c.qv <= c.volume * c.h

check_candle(c) ==
    {code \in {"NONPOSITIVE_PRICE", "HIGH_BELOW_LOW", "HIGH_BELOW_MAX_OC", "LOW_ABOVE_MIN_OC",
               "NEGATIVE_VOLUME", "QUOTE_VOLUME", "NEGATIVE_TRADES_COUNT", "VWAP_OUT_OF_RANGE",
               "OPEN_TIME_UNALIGNED", "CLOSE_TIME_MISMATCH", "PRICE_OFF_TICK", "QTY_OFF_STEP"} :
        CASE code = "NONPOSITIVE_PRICE"   -> \E p \in {c.o, c.h, c.l, c.c} : p <= 0
          [] code = "HIGH_BELOW_LOW"      -> c.h < c.l
          [] code = "HIGH_BELOW_MAX_OC"   -> c.h < c.o \/ c.h < c.c
          [] code = "LOW_ABOVE_MIN_OC"    -> c.l > c.o \/ c.l > c.c
          [] code = "NEGATIVE_VOLUME"     -> c.volume < 0
          [] code = "QUOTE_VOLUME"        -> c.qv < 0 \/ (c.qv > 0 /\ c.volume >= 0 /\ ~QuoteVolumeOk(c))
          [] code = "NEGATIVE_TRADES_COUNT" -> c.n < 0
          [] code = "VWAP_OUT_OF_RANGE"   -> c.vwap # Never /\ ~(c.l <= c.vwap /\ c.vwap <= c.h)
          [] code = "OPEN_TIME_UNALIGNED" -> c.open % Minute # 0
          [] code = "CLOSE_TIME_MISMATCH" -> c.close # c.open + Minute - 1
          [] code = "PRICE_OFF_TICK"      -> \E p \in {c.o, c.h, c.l, c.c} : OffTick(p)
          [] code = "QTY_OFF_STEP"        -> c.volume >= 0 /\ c.volume % StepQty # 0}

check_trade(t) ==
    {code \in {"NONPOSITIVE_PRICE", "NONPOSITIVE_QTY", "PRICE_OFF_TICK", "QTY_OFF_STEP"} :
        CASE code = "NONPOSITIVE_PRICE" -> t.price <= 0
          [] code = "NONPOSITIVE_QTY"   -> t.qty <= 0
          [] code = "PRICE_OFF_TICK"    -> OffTick(t.price)
          [] code = "QTY_OFF_STEP"      -> t.qty > 0 /\ t.qty % StepQty # 0}

check_book(b) ==
    {code \in {"BOOK_UNSORTED", "BOOK_CROSSED", "PRICE_OFF_TICK"} :
        CASE code = "BOOK_UNSORTED"  -> \/ \E k \in 1..(Len(b.bids) - 1) : b.bids[k] <= b.bids[k + 1]
                                        \/ \E k \in 1..(Len(b.asks) - 1) : b.asks[k] >= b.asks[k + 1]
          [] code = "BOOK_CROSSED"   -> b.bids # <<>> /\ b.asks # <<>> /\ b.bids[1] >= b.asks[1]
          [] code = "PRICE_OFF_TICK" -> \E p \in ToSet(b.bids) \cup ToSet(b.asks) : p % TickSize # 0}

(* The candle the exchange makes of a non-empty sequence of trades. *)
CandleOf(minute, trades) ==
    LET prices == {trades[k].price : k \in DOMAIN trades}
        Sum(f(_)) == FoldLeft(LAMBDA s, t : s + f(t), 0, trades)
    IN  [open |-> minute * Minute, close |-> (minute + 1) * Minute - 1,
         o |-> trades[1].price, c |-> trades[Len(trades)].price,
         h |-> CHOOSE p \in prices : \A q \in prices : p >= q,
         l |-> CHOOSE p \in prices : \A q \in prices : p <= q, closed |-> TRUE,
         volume |-> Sum(LAMBDA t : t.qty), qv |-> Sum(LAMBDA t : t.price * t.qty),
         n |-> Len(trades), vwap |-> Never]

Trade(price, qty) == [price |-> price, qty |-> qty]

(* What an event may say and still be a Candle, a Trade, a BookSnapshot or a
   MarkPrice; some of it violates an invariant. *)
EventContents(kind, id) ==
    CASE kind = "candle" -> {CandleOf(id, <<Trade(4, 1), Trade(2, 2)>>),
                             [CandleOf(id, <<Trade(4, 1)>>) EXCEPT !.closed = FALSE],
                             [CandleOf(id, <<Trade(4, 1)>>) EXCEPT !.qv = 9]}
      [] kind = "trade"  -> {Trade(2, 1), Trade(3, 1)}
      [] kind = "book"   -> {[bids |-> <<2>>, asks |-> <<4, 6>>], [bids |-> <<4>>, asks |-> <<4>>],
                             [bids |-> <<2, 4>>, asks |-> <<6>>]}
      [] kind = "mark"   -> {"price"}

Violations(kind, content) ==
    CASE kind = "candle" -> check_candle(content)
      [] kind = "trade"  -> check_trade(content)
      [] kind = "book"   -> check_book(content)
      [] kind = "mark"   -> {}

ConnOf(kind) == IF kind = "book" THEN "public" ELSE "market"

Conns == {"market", "public"}

-----------------------------------------------------------------------------
(* DqAccumulator and the gaps of an hour. *)

EmptyHour == [total |-> 0, invalid |-> 0, buckets |-> {}, gaps |-> {}]

Checked(hs, t, invalid) ==
    [hs EXCEPT ![HourOf(t)].total = @ + 1,
               ![HourOf(t)].invalid = @ + (IF invalid THEN 1 ELSE 0)]

Larger(a, b) == IF a > b THEN a ELSE b
Smaller(a, b) == IF a < b THEN a ELSE b

(* The part of a gap inside the hour h, if any. *)
Clipped(h, lo, hi) ==
    LET from == Larger(lo, h)
        to   == Smaller(hi, h + HourLength)
    IN  IF to > from THEN {<<from, to>>} ELSE {}

(* _on_gaps: range(hour(lo), max(lo, hi - 1) + 1, HOUR_NS). *)
TouchedHours(lo, hi) == {h \in Hours : HourOf(lo) <= h /\ h <= Larger(lo, hi - 1)}

WithGaps(hs, gaps) ==
    [h \in Hours |->
        [hs[h] EXCEPT !.gaps = @ \cup UNION {Clipped(h, g[1], g[2]) :
                                                g \in {x \in gaps : h \in TouchedHours(x[1], x[2])}}]]

(* merged_length_ns: the intervals in order, the current one widened while the
   next begins inside it. *)
MergedLength(gaps) ==
    LET sorted == SetToSortSeq(gaps, LAMBDA a, b : a[1] < b[1] \/ (a[1] = b[1] /\ a[2] < b[2]))
        Widen(s, g) == IF s.lo = Never \/ g[1] > s.hi
                       THEN [total |-> s.total + (s.hi - s.lo), lo |-> g[1], hi |-> g[2]]
                       ELSE [s EXCEPT !.hi = Larger(@, g[2])]
        last == FoldLeft(Widen, [total |-> 0, lo |-> Never, hi |-> Never], sorted)
    IN  last.total + (last.hi - last.lo)

(* dq_scores: N_exp of the hour h, given the first minute seen and the latest
   exchange time. *)
Expected(h, first, latest) ==
    LET lo == Larger(h, first)
        hi == Smaller(h + HourLength, latest - Minute + 1)
    IN  IF hi > lo THEN (hi - lo + Minute - 1) \div Minute ELSE 0

(* completeness, validity and continuity, each clipped to 0 .. 100 percent. *)
ClipPercent(x) == IF x < 0 THEN 0 ELSE IF x > 100 THEN 100 ELSE x
Completeness(observed, expected) == IF expected <= 0 THEN 100 ELSE ClipPercent((100 * observed) \div expected)
Validity(invalid, total) == IF total <= 0 THEN 100 ELSE ClipPercent(100 - (100 * invalid) \div total)
Continuity(gap) == ClipPercent(100 - (100 * gap) \div HourLength)

-----------------------------------------------------------------------------
(* Deduplicator.offer and _stale.  An event e has its kind and id, what it says,  *)
(* the time of the exchange ts, the time of its arrival ingest, its src, and     *)
(* digest, the order of hex_digest among copies that are equal in the rest.      *)

WS == 1
REST == 2

(* event_uid: a mark price has no id but its time. *)
Uid(e) == <<e.kind, IF e.kind = "mark" THEN e.ts ELSE e.id>>

(* What decides between two versions of one event; only a candle has the first
   two. *)
Version(e) ==
    LET candle == e.kind = "candle"
    IN  [closed |-> candle => e.content.closed, src |-> IF candle THEN e.src ELSE 0,
         ts |-> e.ts, ingest |-> e.ingest, digest |-> e.digest]

precedence(v) == <<IF v.closed THEN 1 ELSE 0, -v.src, v.ts, -v.ingest>>

_outranks(new, old) ==
    LET kn == precedence(new)
        ko == precedence(old)
    IN  \/ \E k \in 1..4 : kn[k] > ko[k] /\ \A j \in 1..(k - 1) : kn[j] = ko[j]
        \/ kn = ko /\ new.digest > old.digest

KnownUid(uid) == {k \in DOMAIN memory : memory[k].uid = uid}

Outcome(e) ==
    IF KnownUid(Uid(e)) = {} THEN "NEW"
    ELSE IF \E k \in KnownUid(Uid(e)) : _outranks(Version(e), memory[k].kept)
    THEN "REPLACED" ELSE "DUPLICATE"

(* offer: a known event keeps its place, a new one pushes the oldest out. *)
Remembered(e) ==
    LET v == Version(e)
        grown == Append(memory, [uid |-> Uid(e), kept |-> v, offered |-> {v}])
    IN  IF KnownUid(Uid(e)) # {}
        THEN [k \in DOMAIN memory |->
                IF k \notin KnownUid(Uid(e)) THEN memory[k]
                ELSE [memory[k] EXCEPT !.kept = IF _outranks(v, @) THEN v ELSE @,
                                       !.offered = @ \cup {v}]]
        ELSE IF Len(grown) > DedupWindow THEN Tail(grown) ELSE grown

(* Fault: the order of books is left to the deduplicator. *)
FaultyStale(kind, id, ts) == kind = "mark" /\ ts < lastMark

Stale(kind, id, ts) ==
    \/ kind = "book" /\ id < lastBook
    \/ kind = "mark" /\ ts < lastMark

-----------------------------------------------------------------------------
(* IngestPipeline. *)

DataQualityInit ==
    /\ clock = 0
    /\ watchdog = [c \in Conns |-> [last |-> Never, armed |-> TRUE]]
    /\ memory = <<>> /\ lastBook = Never /\ lastMark = Never
    /\ health = [frames |-> 0, backfilled |-> 0, invalid |-> 0, duplicates |-> 0, stale |-> 0,
                 disconnects |-> 0]
    /\ hours = [h \in Hours |-> EmptyHour]
    /\ openGaps = {} /\ passed = <<>>
    /\ silence = [c \in Conns |-> <<>>]

Judged == health.frames + health.backfilled

(* What the detector may open by the time t, any number of gaps at once. *)
NewGaps(t) == SUBSET {g \in QualityGaps : g[2] <= t}

(* _on_gaps. *)
Charge(hs, gaps) ==
    /\ hours' = WithGaps(hs, gaps)
    /\ openGaps' = openGaps \cup gaps

(* _disconnect confirms the candidates for a gap between trades, which only the
   connection of the market carries. *)
Flushed(conns, t) == IF "market" \in conns THEN NewGaps(t) ELSE {{}}

(* _accept: the handler of one event, from the stream or from REST; fired are the
   connections whose watchdog has just reported a loss. *)
Accept(e, counted, fired) ==
    \/ /\ Violations(e.kind, e.content) # {}
       /\ health' = [counted EXCEPT !.invalid = @ + 1]
       /\ \E gaps \in Flushed(fired, clock') : Charge(Checked(hours, e.ts, TRUE), gaps)
       /\ UNCHANGED <<memory, lastBook, lastMark, passed>>
    \/ /\ Violations(e.kind, e.content) = {}
       /\ memory' = Remembered(e)
       /\ \/ /\ Outcome(e) = "DUPLICATE" \/ Stale(e.kind, e.id, e.ts)
             /\ health' = IF Outcome(e) = "DUPLICATE" THEN [counted EXCEPT !.duplicates = @ + 1]
                          ELSE [counted EXCEPT !.stale = @ + 1]
             /\ \E gaps \in Flushed(fired, clock') : Charge(hours, gaps)
             /\ UNCHANGED <<lastBook, lastMark, passed>>
          \/ /\ Outcome(e) # "DUPLICATE" /\ ~Stale(e.kind, e.id, e.ts)
             /\ health' = counted
             /\ lastBook' = IF e.kind = "book" THEN e.id ELSE lastBook
             /\ lastMark' = IF e.kind = "mark" THEN e.ts ELSE lastMark
             /\ passed' = IF e.kind \in {"book", "mark"}
                          THEN Append(passed, [kind |-> e.kind, key |-> IF e.kind = "book" THEN e.id ELSE e.ts])
                          ELSE passed
             /\ \E gaps \in NewGaps(clock'), released \in BOOLEAN :
                   LET judged == Checked(hours, e.ts, FALSE)
                   IN  /\ released => e.kind = "candle" /\ e.content.closed
                       /\ Charge(IF ~released THEN judged
                                 ELSE [judged EXCEPT ![HourOf(e.content.open)].buckets = @ \cup {e.content.open}],
                                 gaps)

Fires(c, t) == watchdog[c].last # Never /\ watchdog[c].armed /\ t >= watchdog[c].last + Silence

(* _poll_watchdogs at the time of any record, then the record's own effect. *)
Polled(t) ==
    [dogs   |-> [c \in Conns |-> [watchdog[c] EXCEPT !.armed = @ /\ ~Fires(c, t)]],
     fired  |-> {c \in Conns : Fires(c, t)},
     silent |-> [c \in Conns |-> IF Fires(c, t) THEN Append(silence[c], "watchdog") ELSE silence[c]]]

CountFires(n) == [health EXCEPT !.disconnects = @ + n]

(* process with a frame of the connection c: polled, counted, a beat. *)
Beat(c, t) ==
    LET p == Polled(t)
    IN  /\ clock' = t
        /\ watchdog' = [p.dogs EXCEPT ![c] = [last |-> t, armed |-> TRUE]]
        /\ silence' = [p.silent EXCEPT ![c] = <<>>]

Event(e, content, ts, ingest, src, digest) ==
    [kind |-> e[1], id |-> e[2], content |-> content, ts |-> ts, ingest |-> ingest, src |-> src,
     digest |-> digest]

Frame ==
    \E e \in QualityEvents, t \in {clock + d : d \in Steps}, late \in {0, Minute} :
        /\ Judged < MaxFrames /\ t <= MaxSession /\ late <= t
        /\ Beat(ConnOf(e[1]), t)
        /\ \E content \in EventContents(e[1], e[2]), digest \in Digests[e[1]] :
              Accept(Event(e, content, t - late, t, WS, digest),
                     [CountFires(Cardinality(Polled(t).fired)) EXCEPT !.frames = @ + 1], Polled(t).fired)

(* A frame that does not normalise has no exchange time: the ingest hour counts. *)
BadFrame ==
    \E c \in Conns, t \in {clock + d : d \in Steps} :
        /\ Judged < MaxFrames /\ t <= MaxSession
        /\ Beat(c, t)
        /\ health' = [CountFires(Cardinality(Polled(t).fired)) EXCEPT !.frames = @ + 1, !.invalid = @ + 1]
        /\ \E gaps \in Flushed(Polled(t).fired, t) : Charge(Checked(hours, t, TRUE), gaps)
        /\ UNCHANGED <<memory, lastBook, lastMark, passed>>

(* An event of a REST answer: no frame, no beat, the same checks. *)
BackfillEvent ==
    \E e \in {x \in QualityEvents : x[1] \in {"candle", "trade"}}, ts \in {clock - Minute} :
        /\ Judged < MaxFrames /\ ts >= 0
        /\ UNCHANGED <<clock, watchdog, silence>>
        /\ \E content \in EventContents(e[1], e[2]), digest \in Digests[e[1]] :
              /\ e[1] = "candle" => content.closed
              /\ Accept(Event(e, content, ts, clock, REST, digest), [health EXCEPT !.backfilled = @ + 1], {})

Reported(c) == silence[c] # <<>> /\ Head(silence[c]) = "watchdog"

(* _on_control: "disconnected" disarms the watchdog and is itself a disconnect;
   "connected", which follows a loss, is a beat if the connection has a watchdog. *)
Disconnected ==
    \E c \in Conns, t \in {clock + d : d \in Steps} :
        LET p == Polled(t)
        IN  /\ t <= MaxSession /\ health.disconnects < MaxLosses + Cardinality({d \in Conns : Reported(d)})
            /\ clock' = t
            /\ watchdog' = [p.dogs EXCEPT ![c].armed = IF watchdog[c].last = Never THEN @ ELSE FALSE]
            /\ silence' = [p.silent EXCEPT ![c] = Append(@, "record")]
            /\ health' = CountFires(Cardinality(p.fired) + 1)
            /\ \E gaps \in Flushed(p.fired \cup {c}, t) : Charge(hours, gaps)
            /\ UNCHANGED <<memory, lastBook, lastMark, passed>>

Connected ==
    \E c \in Conns, t \in {clock + d : d \in Steps} :
        LET p == Polled(t)
        IN  /\ t <= MaxSession /\ silence[c] # <<>> /\ Last(silence[c]) = "record"
            /\ clock' = t
            /\ watchdog' = [p.dogs EXCEPT ![c] = IF watchdog[c].last = Never THEN @
                                                 ELSE [last |-> t, armed |-> TRUE]]
            /\ silence' = [p.silent EXCEPT ![c] = <<>>]
            /\ health' = CountFires(Cardinality(p.fired))
            /\ \E gaps \in Flushed(p.fired, t) : Charge(hours, gaps)
            /\ UNCHANGED <<memory, lastBook, lastMark, passed>>

DataQualityNext == Frame \/ BadFrame \/ BackfillEvent \/ Disconnected \/ Connected

-----------------------------------------------------------------------------
(* Properties. *)

Total(field) == MapThenSumSet(LAMBDA h : hours[h][field], Hours)

(* Every event that was judged is in exactly one of: an hour's total (valid or
   not), the duplicates, the stale ones; and no hour knows more invalid events
   than the health counters do. *)
EveryEventCountedOnce ==
    /\ Judged = Total("total") + health.duplicates + health.stale
    /\ health.invalid = Total("invalid")

(* The time without data that the hours are charged with is, hour by hour, the
   time that some gap covers: a gap over several hours is split and overlapping
   gaps of two streams are charged once. *)
GapTimeIsCovered ==
    \A h \in Hours :
        /\ MergedLength(hours[h].gaps) =
              Cardinality({t \in h..(h + HourLength - 1) : \E g \in openGaps : g[1] <= t /\ t < g[2]})
        /\ Continuity(MergedLength(hours[h].gaps)) \in 0..100

(* Books and mark prices are handed on in the order of their ids and times,
   even when a repeated one has left the deduplicator's window. *)
HandedOnInOrder ==
    \A i, j \in DOMAIN passed : i < j /\ passed[i].kind = passed[j].kind => passed[i].key <= passed[j].key

(* Of the versions vs, the closed ones if there are any, of these the ones of the
   better source, then the latest at the exchange, then the first to arrive. *)
BestOf(vs) ==
    LET closed  == IF \E v \in vs : v.closed THEN {v \in vs : v.closed} ELSE vs
        sourced == {v \in closed : \A w \in closed : v.src <= w.src}
        latest  == {v \in sourced : \A w \in sourced : v.ts >= w.ts}
    IN  {v \in latest : \A w \in latest : v.ingest <= w.ingest}

(* Whatever the order in which the versions of an event arrive, the deduplicator
   keeps the best of those it has seen since it remembers the event, and of equal
   ones the one with the greatest digest. *)
BestVersionKept ==
    \A k \in DOMAIN memory :
        /\ memory[k].kept \in BestOf(memory[k].offered)
        /\ \A v \in BestOf(memory[k].offered) : v.digest <= memory[k].kept.digest

(* One silence makes a watchdog report at most once, and never after the
   connection's own record of the loss. *)
OneReportPerSilence ==
    \A c \in Conns : \A k \in DOMAIN silence[c] : silence[c][k] = "watchdog" => k = 1

(* A candle made of valid trades violates nothing, and the expected number of
   minutes is the number of minutes on the grid that are closed. *)
HonestIsClean ==
    /\ \A p1, p2, p3 \in {2, 4, 6}, q \in {1, 2} :
          check_candle(CandleOf(1, <<Trade(p1, 1), Trade(p2, q), Trade(p3, 1)>>)) = {}
    /\ \A h \in Hours, first \in {m * Minute : m \in 0..(End \div Minute)}, latest \in 0..End :
          Expected(h, first, latest) =
              Cardinality({m \in h..(h + HourLength - 1) :
                              m % Minute = 0 /\ m >= first /\ m + Minute <= latest})

(* The counters and the hourly scores account for what happened: every event
   once, every silence once, every uncovered moment once, in exchange order. *)
QualityIsAccounted ==
    /\ EveryEventCountedOnce
    /\ GapTimeIsCovered
    /\ HandedOnInOrder
    /\ BestVersionKept
    /\ OneReportPerSilence
    /\ HonestIsClean

=============================================================================

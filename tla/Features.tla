------------------------------ MODULE Features ------------------------------
(***************************************************************************)
(* The incremental indicators of features/indicators.py, the pipeline that *)
(* feeds one closed bar to all of them (features/pipeline.py), and the     *)
(* windows the detectors and the back-test read (features/window.py).      *)
(*                                                                         *)
(* Every indicator keeps a few numbers and a ring, never the history; the  *)
(* model keeps the history too (bars), and the property compares what the  *)
(* indicators say with what a computation from the history gives.  The     *)
(* arithmetic is exact: an average is kept multiplied by a scale that its  *)
(* denominators divide, a ratio is a pair of numerator and denominator,    *)
(* a standard deviation is its square, and a price is a power of two, so   *)
(* that ln(h / l) is a whole number of ln 2.  A value that is not there    *)
(* yet (None) is the empty sequence, a value x is <<x>>.                   *)
(***************************************************************************)
EXTENDS Integers, Sequences
LOCAL INSTANCE SequencesExt
LOCAL INSTANCE FiniteSetsExt

CONSTANTS
    ClosedBars,           \* closed bars [h, l, c, v]; h, l and c are powers of two
    MaxClosedBars,        \* bound: bars fed to the pipeline
    NEma, EmaHorizon, R2Points, NAtr, NRsi, DivLookback, BbN, BwRankWindow,
    DonchianN, ParkWindow, VolRankWindow, VolumeWindow, ResyncEvery,
    Capacity        \* of the BarWindow

VARIABLES
    bars,           \* ghost: every bar since the start, oldest first
    indicators,     \* the state of every indicator of FeaturePipeline
    feats,          \* what the last update returned
    window          \* the BarWindow after the last append

ftVars == <<bars, indicators, feats, window>>

None == <<>>
Some(x) == <<x>>
Known(v) == v # None

\* The last n elements of s, oldest first.
Last_n(s, n) == SubSeq(s, Len(s) - n + 1, Len(s))
\* deque(maxlen = n).append(x)
Pushed(s, x, n) == IF Len(s) = n THEN Append(Tail(s), x) ELSE Append(s, x)
Least(x, y) == IF x < y THEN x ELSE y
Log2(x) == CHOOSE e \in 0..16 : 2 ^ e = x
Abs(x) == IF x < 0 THEN -x ELSE x

-----------------------------------------------------------------------------
\* Recursive averages: the mean of the first n values, then
\* v + (num / den) (x - v), times scale.

NoAverage == [count |-> 0, sum |-> 0, value |-> None]

Smooth(a, x, n, num, den, scale) ==
    IF Known(a.value)
    THEN [a EXCEPT !.value = Some(@[1] + ((scale * x - @[1]) * num) \div den)]
    ELSE [count |-> a.count + 1,
          sum   |-> a.sum + x,
          value |-> IF a.count + 1 = n
                    THEN Some((scale * (a.sum + x)) \div n) ELSE None]

EmaScale == NEma * (NEma + 1) ^ (MaxClosedBars - NEma)
AtrScale == NAtr ^ MaxClosedBars
RsiScale == NRsi ^ MaxClosedBars

EmaUpdate(a, x) == Smooth(a, x, NEma, 2, NEma + 1, EmaScale)

\* WilderATR.update: the first true range needs a previous close.
TrueRange(b, prev) == Max({b.h - b.l, Abs(b.h - prev), Abs(b.l - prev)})

AtrUpdate(a, b) ==
    [prev |-> Some(b.c),
     avg  |-> IF Known(a.prev)
              THEN Smooth(a.avg, TrueRange(b, a.prev[1]), NAtr, 1, NAtr, AtrScale)
              ELSE a.avg]

\* WilderRSI.update: gains and losses are averaged apart; the index is
\* their ratio, and one half when the price has not moved at all.
RsiUpdate(r, c) ==
    IF ~Known(r.prev) THEN [r EXCEPT !.prev = Some(c)]
    ELSE LET d == c - r.prev[1]
             Wilder(a, x) == Smooth(a, x, NRsi, 1, NRsi, RsiScale)
         IN [prev |-> Some(c),
             gain |-> Wilder(r.gain, IF d > 0 THEN d ELSE 0),
             loss |-> Wilder(r.loss, IF d < 0 THEN -d ELSE 0)]

RsiValue(r) ==
    IF ~Known(r.gain.value) THEN None
    ELSE LET g == r.gain.value[1]
             total == g + r.loss.value[1]
         IN Some(IF total > 0 THEN <<g, total>> ELSE <<1, 2>>)

-----------------------------------------------------------------------------
\* Rings: the newest value replaces the oldest, and every ResyncEvery
\* updates of a full ring the state is computed again from the ring.

EmptyRing(n) == [buf |-> [i \in 0..n - 1 |-> 0], idx |-> 0, count |-> 0,
                 since |-> 0, sum |-> 0]

NextIdx(i, n) == IF i + 1 < n THEN i + 1 ELSE 0
SumOf(s) == FoldLeft(LAMBDA acc, x : acc + x, 0, s)
\* RollingOLS._ordered: the ring from its oldest value.
Ordered(ring, n) ==
    [k \in 1..n |-> ring.buf[(ring.idx + k - 1) % n]]

RingUpdate(r, x, n) ==
    LET full  == r.count = n
        buf   == [r.buf EXCEPT ![r.idx] = x]
        count == IF full THEN n ELSE r.count + 1
        since == IF count = n THEN r.since + 1 ELSE r.since
        resync == since >= ResyncEvery
    IN [buf   |-> buf,
        idx   |-> NextIdx(r.idx, n),
        count |-> count,
        since |-> IF resync THEN 0 ELSE since,
        sum   |-> IF resync THEN SumOf([k \in 1..n |-> buf[k - 1]])
                  ELSE r.sum + x - (IF full THEN r.buf[r.idx] ELSE 0)]

\* log_range_sq and Parkinson.update: the sum of ln^2(h / l), in ln^2 2.
log_range_sq(h, l) == (Log2(h) - Log2(l)) ^ 2
ParkinsonUpdate(r, b) == RingUpdate(r, log_range_sq(b.h, b.l), ParkWindow)

\* RollingWelford: the mean times scale, the sum of squared deviations
\* times scale^2; 1..n divide the scale.
WelfordScale(n) == FoldLeft(LAMBDA acc, k : acc * k, 1, [k \in 1..n |-> k])

EmptyWelford(n) == [EmptyRing(n) EXCEPT !.sum = [mean |-> 0, m2 |-> 0]]

WelfordResync(buf, n) ==
    LET sc   == WelfordScale(n)
        mean == (sc * SumOf([k \in 1..n |-> buf[k - 1]])) \div n
    IN [mean |-> mean, m2 |-> SumOf([k \in 1..n |-> (sc * buf[k - 1] - mean) ^ 2])]

WelfordAdd(s, x, k, sc) ==
    LET d    == sc * x - s.mean
        mean == s.mean + d \div k
    IN [mean |-> mean, m2 |-> s.m2 + d * (sc * x - mean)]

WelfordSwap(s, x, y, n, sc) ==
    LET mean == s.mean + (sc * (x - y)) \div n
        m2   == s.m2 + sc * (x - y) * (sc * x - mean + sc * y - s.mean)
    IN [mean |-> mean, m2 |-> IF m2 > 0 THEN m2 ELSE 0]

WelfordUpdate(r, x, n) ==
    LET sc    == WelfordScale(n)
        full  == r.count = n
        buf   == [r.buf EXCEPT ![r.idx] = x]
        count == IF full THEN n ELSE r.count + 1
        since == IF count = n THEN r.since + 1 ELSE r.since
        resync == since >= ResyncEvery
    IN [buf   |-> buf,
        idx   |-> NextIdx(r.idx, n),
        count |-> count,
        since |-> IF resync THEN 0 ELSE since,
        sum   |-> IF resync THEN WelfordResync(buf, n)
                  ELSE IF full THEN WelfordSwap(r.sum, x, r.buf[r.idx], n, sc)
                  ELSE WelfordAdd(r.sum, x, count, sc)]

-----------------------------------------------------------------------------
\* RollingOLS over the last R2Points averages, against x = 0 .. n - 1:
\* the mean times n, S_yy times n^2 and S_xy times 2 n.

OlsResync(ys, n) ==
    LET mean == SumOf(ys)
    IN [mean |-> mean,
        syy  |-> SumOf([k \in 1..n |-> (n * ys[k] - mean) ^ 2]),
        sxy  |-> SumOf([k \in 1..n |-> (2 * (k - 1) - (n - 1)) * (n * ys[k] - mean)])]

\* The window moves: every x falls by one, y0 leaves, y enters at n - 1.
OlsSlide(s, y, y0, n) ==
    LET mean == s.mean + y - y0
        syy  == s.syy + n * (y - y0) * (n * y - mean + n * y0 - s.mean)
    IN [mean |-> mean,
        syy  |-> IF syy > 0 THEN syy ELSE 0,
        sxy  |-> s.sxy + (n + 1) * (n * y0 - s.mean) + (n - 1) * (n * y - s.mean)]

OlsUpdate(r, y) ==
    LET n     == R2Points
        full  == r.count = n
        moved == [r EXCEPT !.buf[r.idx] = y, !.idx = NextIdx(@, n),
                           !.count = IF full THEN n ELSE @ + 1]
        since == IF full THEN r.since + 1 ELSE 0
    IN IF moved.count < n THEN moved
       ELSE IF ~full \/ since >= ResyncEvery
            THEN [moved EXCEPT !.since = 0, !.sum = OlsResync(Ordered(moved, n), n)]
            ELSE [moved EXCEPT !.since = since,
                               !.sum = OlsSlide(r.sum, y, r.buf[r.idx], n)]

\* RollingOLS.r2 as numerator and denominator: nothing to explain when the
\* averages do not differ.
OlsR2(r) ==
    IF r.count # R2Points THEN None
    ELSE Some(IF r.sum.syy = 0 THEN <<0, 1>> ELSE <<r.sum.sxy, r.sum.syy>>)

-----------------------------------------------------------------------------
\* _MonotonicDeque with sign 1 (maximum) or -1 (minimum): values that the
\* new one dominates leave at the back, values that are too old in front.

EmptyDeque == [items |-> <<>>, i |-> 0]

(* Fault: the oldest bar of the window stays one bar too long. *)
FaultyDequeUpdate(q, x, n, sgn) ==
    LET stay  == SelectSeq(q.items, LAMBDA e : sgn * e.val > sgn * x)
        items == Append(stay, [idx |-> q.i, val |-> x])
        cutoff == q.i - n
    IN [items |-> SelectSeq(items, LAMBDA e : e.idx >= cutoff), i |-> q.i + 1]

DequeUpdate(q, x, n, sgn) ==
    LET stay  == SelectSeq(q.items, LAMBDA e : sgn * e.val > sgn * x)
        items == Append(stay, [idx |-> q.i, val |-> x])
        cutoff == q.i + 1 - n
    IN [items |-> SelectSeq(items, LAMBDA e : e.idx >= cutoff), i |-> q.i + 1]

DequeValue(q, n) == IF q.i >= n THEN Some(q.items[1].val) ELSE None

\* PercentileRank over ratios <<numerator, denominator>>: the window in
\* order of arrival and the same values sorted.
AtMost(a, b) == a[1] * b[2] <= b[1] * a[2]
LessThan(a, b) == a[1] * b[2] < b[1] * a[2]
bisect_left(srt, x) == Len(SelectSeq(srt, LAMBDA e : LessThan(e, x)))
bisect_right(srt, x) == Len(SelectSeq(srt, LAMBDA e : AtMost(e, x)))

EmptyRank == [fifo |-> <<>>, sorted |-> <<>>, value |-> None]

RankUpdate(r, x, n) ==
    LET full == Len(r.fifo) = n
        srt  == IF full THEN RemoveAt(r.sorted, bisect_left(r.sorted, r.fifo[1]) + 1)
                ELSE r.sorted
        fifo == Append(IF full THEN Tail(r.fifo) ELSE r.fifo, x)
        sorted == InsertAt(srt, bisect_right(srt, x) + 1, x)
    IN [fifo |-> fifo, sorted |-> sorted,
        value |-> IF Len(fifo) < n THEN None ELSE Some(bisect_right(sorted, x))]

-----------------------------------------------------------------------------
\* FeaturePipeline

NoBreakout == [ref |-> None, dir |-> None, age |-> None]

FreshIndicators ==
    [ema |-> NoAverage, emaHist |-> <<>>,
     ols |-> [EmptyRing(R2Points) EXCEPT !.sum = [mean |-> 0, syy |-> 0, sxy |-> 0]],
     atr |-> [prev |-> None, avg |-> NoAverage],
     rsi |-> [prev |-> None, gain |-> NoAverage, loss |-> NoAverage], rsiHist |-> <<>>,
     closes |-> <<>>,
     bb |-> EmptyWelford(BbN), bwRank |-> EmptyRank,
     dmax |-> EmptyDeque, dmin |-> EmptyDeque, brk |-> NoBreakout,
     park |-> EmptyRing(ParkWindow), volRank |-> EmptyRank,
     volume |-> EmptyWelford(VolumeWindow)]

\* A close outside the channel of the previous bars is a breakout; the
\* level it broke stays the reference until the next one.
Breakout(brk, c, u, d) ==
    IF ~Known(u) \/ ~Known(d) THEN brk
    ELSE IF c > u[1] THEN [ref |-> u, dir |-> Some(1), age |-> Some(0)]
    ELSE IF c < d[1] THEN [ref |-> d, dir |-> Some(-1), age |-> Some(0)]
    ELSE IF Known(brk.age) THEN [brk EXCEPT !.age = Some(@[1] + 1)]
    ELSE brk

\* bandwidth squared, without its constant factor
Bandwidth(bb) ==
    IF bb.sum.mean = 0 THEN <<0, 1>> ELSE <<bb.sum.m2, bb.sum.mean ^ 2>>

\* The indicators after a bar.
Advanced(ind, b) ==
    LET ema  == EmaUpdate(ind.ema, b.c)
        rsi  == RsiUpdate(ind.rsi, b.c)
        bb   == WelfordUpdate(ind.bb, b.c, BbN)
        park == ParkinsonUpdate(ind.park, b)
    IN [ema     |-> ema,
        emaHist |-> IF Known(ema.value)
                    THEN Pushed(ind.emaHist, ema.value[1], EmaHorizon + 1) ELSE ind.emaHist,
        ols     |-> IF Known(ema.value) THEN OlsUpdate(ind.ols, ema.value[1]) ELSE ind.ols,
        atr     |-> AtrUpdate(ind.atr, b),
        rsi     |-> rsi,
        rsiHist |-> IF Known(RsiValue(rsi))
                    THEN Pushed(ind.rsiHist, RsiValue(rsi)[1], DivLookback + 1)
                    ELSE ind.rsiHist,
        closes  |-> Pushed(ind.closes, b.c, DivLookback + 1),
        bb      |-> bb,
        bwRank  |-> IF bb.count = BbN
                    THEN RankUpdate(ind.bwRank, Bandwidth(bb), BwRankWindow) ELSE ind.bwRank,
        dmax    |-> DequeUpdate(ind.dmax, b.h, DonchianN, 1),
        dmin    |-> DequeUpdate(ind.dmin, b.l, DonchianN, -1),
        brk     |-> Breakout(ind.brk, b.c, DequeValue(ind.dmax, DonchianN),
                             DequeValue(ind.dmin, DonchianN)),
        park    |-> park,
        volRank |-> IF park.count = ParkWindow
                    THEN RankUpdate(ind.volRank, <<park.sum, 1>>, VolRankWindow)
                    ELSE ind.volRank,
        volume  |-> WelfordUpdate(ind.volume, b.v, VolumeWindow)]

\* What update returns: the channel is the one the bar found, everything
\* else is the indicators after it.
Returned(old, ind, b) ==
    LET Full(r, n, v) == IF r.count = n THEN Some(v) ELSE None
        rsi == RsiValue(ind.rsi)
    IN [ema         |-> ind.ema.value,
        ema_lag     |-> IF Len(ind.emaHist) = EmaHorizon + 1 THEN Some(ind.emaHist[1]) ELSE None,
        ema_r2      |-> OlsR2(ind.ols),
        atr         |-> ind.atr.avg.value,
        rsi         |-> rsi,
        rsi_delta   |-> IF Len(ind.rsiHist) = DivLookback + 1
                        THEN Some(<<rsi[1], ind.rsiHist[1]>>) ELSE None,
        close_delta |-> IF Len(ind.closes) = DivLookback + 1
                        THEN Some(b.c - ind.closes[1]) ELSE None,
        sma         |-> Full(ind.bb, BbN, ind.bb.sum.mean),
        sigma       |-> Full(ind.bb, BbN, ind.bb.sum.m2),
        bb_bw_rank  |-> ind.bwRank.value,
        donch_hi    |-> DequeValue(old.dmax, DonchianN),
        donch_lo    |-> DequeValue(old.dmin, DonchianN),
        donch_ref   |-> ind.brk.ref,
        donch_dir   |-> ind.brk.dir,
        bars_since_breakout |-> ind.brk.age,
        park_sigma  |-> Full(ind.park, ParkWindow, ind.park.sum),
        vol_rank    |-> ind.volRank.value,
        vol_mean    |-> Full(ind.volume, VolumeWindow, ind.volume.sum.mean),
        vol_z       |-> Full(ind.volume, VolumeWindow,
                             IF ind.volume.sum.m2 = 0 THEN <<0, 1>>
                             ELSE <<WelfordScale(VolumeWindow) * b.v - ind.volume.sum.mean,
                                    ind.volume.sum.m2>>)]

\* FeatureParams.warmup: the bar from which a field is there.
warmup ==
    [ema |-> NEma, ema_lag |-> NEma + EmaHorizon, ema_r2 |-> NEma + R2Points - 1,
     atr |-> NAtr + 1, rsi |-> NRsi + 1, rsi_delta |-> NRsi + 1 + DivLookback,
     close_delta |-> DivLookback + 1, sma |-> BbN, sigma |-> BbN,
     bb_bw_rank |-> BbN + BwRankWindow - 1,
     donch_hi |-> DonchianN + 1, donch_lo |-> DonchianN + 1,
     park_sigma |-> ParkWindow, vol_rank |-> ParkWindow + VolRankWindow - 1,
     vol_mean |-> VolumeWindow, vol_z |-> VolumeWindow]

-----------------------------------------------------------------------------
\* BarWindow: a ring of the last Capacity bars, read by lag.

EmptyWindow == [slots |-> [p \in 0..Capacity - 1 |-> 0], head |-> -1, count |-> 0, t |-> -1]

Appended(w, b) ==
    LET h == IF w.head + 1 = Capacity THEN 0 ELSE w.head + 1
    IN [slots |-> [w.slots EXCEPT ![h] = b], head |-> h,
        count |-> Least(w.count + 1, Capacity), t |-> w.t + 1]

\* _pos: a negative lag is the future, a deep one is missing history.
Readable(w, lag) == lag >= 0 /\ lag < w.count
Pos(w, lag) == LET p == w.head - lag IN IF p < 0 THEN p + Capacity ELSE p

\* GuardedArray: the whole array is there, the cursor is the last index
\* that may be read.  A slice is admitted by its largest index; the indices
\* of start:stop:step are those range() gives (external).
SliceIndices(start, stop, step) ==
    IF step > 0
    THEN [k \in 1..(IF stop > start THEN (stop - start + step - 1) \div step ELSE 0)
              |-> start + (k - 1) * step]
    ELSE [k \in 1..(IF start > stop THEN (start - stop - step - 1) \div (-step) ELSE 0)
              |-> start + (k - 1) * step]
AdmitsSlice(rng, cursor) ==
    (IF rng = <<>> THEN -1 ELSE Max({rng[1], rng[Len(rng)]})) <= cursor

-----------------------------------------------------------------------------
FeaturesInit ==
    /\ bars = <<>>
    /\ indicators = FreshIndicators
    /\ feats = <<>>
    /\ window = EmptyWindow

\* FeaturePipeline.update and the append of the bar to the BarWindow.
FeatureUpdate(b) ==
    /\ Len(bars) < MaxClosedBars
    /\ bars' = Append(bars, b)
    /\ indicators' = Advanced(indicators, b)
    /\ feats' = Some(Returned(indicators, indicators', b))
    /\ window' = Appended(window, b)

FeaturesNext == \E b \in ClosedBars : FeatureUpdate(b)

-----------------------------------------------------------------------------
\* Reference: every feature from the whole history.

\* A recursive average in closed form over the values xs.
AverageOf(xs, n, num, den, scale) ==
    IF Len(xs) < n THEN None
    ELSE LET k == Len(xs) - n
             unit == scale \div (n * den ^ k)
             seed == SumOf(SubSeq(xs, 1, n))
         IN Some(unit * (seed * (den - num) ^ k
                 + n * num * SumOf([j \in 1..k |->
                       xs[n + j] * (den - num) ^ (k - j) * den ^ (j - 1)])))

ClosesTo(t) == [i \in 1..t |-> bars[i].c]
Ema(t) == AverageOf(ClosesTo(t), NEma, 2, NEma + 1, EmaScale)
Moves(t, sgn) ==
    [i \in 1..t - 1 |-> LET d == sgn * (bars[i + 1].c - bars[i].c) IN IF d > 0 THEN d ELSE 0]
Rsi(t) ==
    LET g == AverageOf(Moves(t, 1), NRsi, 1, NRsi, RsiScale)
        l == AverageOf(Moves(t, -1), NRsi, 1, NRsi, RsiScale)
    IN IF g = None THEN None
       ELSE Some(IF g[1] + l[1] = 0 THEN <<1, 2>> ELSE <<g[1], g[1] + l[1]>>)
TrueRanges(t) ==
    [i \in 1..t - 1 |->
        Max({bars[i + 1].h, bars[i].c}) - Min({bars[i + 1].l, bars[i].c})]

\* Mean and sum of squared deviations of xs, scaled as RollingWelford is.
Moments(xs) ==
    LET n == Len(xs)  sc == WelfordScale(n)
    IN [mean |-> (sc * SumOf(xs)) \div n,
        m2 |-> (sc ^ 2 * (n * SumOf([i \in 1..n |-> xs[i] ^ 2]) - SumOf(xs) ^ 2)) \div n]
Variation(t) == Moments(Last_n(ClosesTo(t), BbN))
BandwidthAt(t) == <<Variation(t).m2, Variation(t).mean ^ 2>>
ParkAt(t) ==
    SumOf([i \in 1..ParkWindow |->
        log_range_sq(bars[t - ParkWindow + i].h, bars[t - ParkWindow + i].l)])
\* How many of the last n values v(t - n + 1) .. v(t) are at most v(t).
RankAt(v(_), t, n) == Cardinality({i \in t - n + 1..t : AtMost(v(i), v(t))})

Before(t) == t - DonchianN..t - 1
HighBefore(t) == Max({bars[i].h : i \in Before(t)})
LowBefore(t) == Min({bars[i].l : i \in Before(t)})
Breakouts(t) ==
    {i \in DonchianN + 1..t : bars[i].c > HighBefore(i) \/ bars[i].c < LowBefore(i)}

WarmedUp(f, t) == DOMAIN warmup \subseteq DOMAIN f
    /\ \A x \in DOMAIN warmup : Known(f[x]) <=> t >= warmup[x]

\* Each field of f against the history of t bars.
AveragesMatch(f, t) ==
    /\ f.ema = Ema(t)
    /\ Known(f.ema_lag) => f.ema_lag = Ema(t - EmaHorizon)
    /\ f.atr = AverageOf(TrueRanges(t), NAtr, 1, NAtr, AtrScale)
    /\ f.rsi = Rsi(t)
    /\ Known(f.rsi_delta) => f.rsi_delta[1] = <<Rsi(t)[1], Rsi(t - DivLookback)[1]>>
    /\ Known(f.close_delta) => f.close_delta[1] = bars[t].c - bars[t - DivLookback].c
    /\ Known(f.ema_r2) =>
         LET ys == [k \in 1..R2Points |-> Ema(t - R2Points + k)[1]]
             fit == OlsResync(ys, R2Points)
         IN f.ema_r2[1] = IF fit.syy = 0 THEN <<0, 1>> ELSE <<fit.sxy, fit.syy>>

WindowsMatch(f, t) ==
    /\ Known(f.sma) => f.sma[1] = Variation(t).mean /\ f.sigma[1] = Variation(t).m2
    /\ Known(f.bb_bw_rank) => f.bb_bw_rank[1] = RankAt(BandwidthAt, t, BwRankWindow)
    /\ Known(f.park_sigma) => f.park_sigma[1] = ParkAt(t)
    /\ Known(f.vol_rank) =>
         f.vol_rank[1] = RankAt(LAMBDA i : <<ParkAt(i), 1>>, t, VolRankWindow)
    /\ Known(f.vol_mean) =>
         LET m == Moments(Last_n([i \in 1..t |-> bars[i].v], VolumeWindow))
         IN /\ f.vol_mean[1] = m.mean
            /\ f.vol_z[1] = IF m.m2 = 0 THEN <<0, 1>>
                            ELSE <<WelfordScale(VolumeWindow) * bars[t].v - m.mean, m.m2>>

BreakoutMatches(f, t) ==
    /\ Known(f.donch_hi) => f.donch_hi[1] = HighBefore(t) /\ f.donch_lo[1] = LowBefore(t)
    /\ IF Breakouts(t) = {}
       THEN f.donch_ref = None /\ f.donch_dir = None /\ f.bars_since_breakout = None
       ELSE LET i == Max(Breakouts(t))
                up == bars[i].c > HighBefore(i)
            IN /\ f.donch_ref = Some(IF up THEN HighBefore(i) ELSE LowBefore(i))
               /\ f.donch_dir = Some(IF up THEN 1 ELSE -1)
               /\ f.bars_since_breakout = Some(t - i)

\* BarWindow gives the bar of that lag and never one of the future or one
\* it has overwritten; GuardedArray admits no read past its cursor.
OnlyThePastIsRead(t) ==
    /\ window.t = t - 1 /\ window.count = Least(t, Capacity)
    /\ \A lag \in -1..Capacity :
         Readable(window, lag) => window.slots[Pos(window, lag)] = bars[t - lag]
    /\ LET n == MaxClosedBars  cursor == window.t IN
       \A start \in 0..n - 1, stop \in -1..n, step \in {-2, -1, 1, 2} :
           LET rng == SliceIndices(start, stop, step)
           IN AdmitsSlice(rng, cursor) => \A k \in DOMAIN rng : rng[k] <= cursor

\* FeaturePipeline.update against the history: after every bar each field
\* is there exactly from its warm-up bar on (FeatureParams.warmup), equals
\* what the formula gives over the last n bars or over the whole series
\* (the rings with their periodic resync, the recursive averages, the
\* monotonic deques, the sorted window of the ranks), the Donchian channel
\* leaves the current bar out, the breakout is the last one there was, and
\* the windows give only bars that have closed.
FeaturesMatchHistory ==
    LET t == Len(bars) IN
    t > 0 => LET f == feats[1] IN
        /\ WarmedUp(f, t)
        /\ AveragesMatch(f, t)
        /\ WindowsMatch(f, t)
        /\ BreakoutMatches(f, t)
        /\ OnlyThePastIsRead(t)
=============================================================================

# FuzzHelm: a TLA+ verification project

FuzzHelm is a paper-trading service: it collects market data, takes a decision
per closed one-minute bar with a fuzzy inference core, sizes the position,
passes it through a risk contour that may allow, shrink or veto it, executes on
a simulated venue, and serves an HTTP API and a web panel.  This directory holds
TLA+ models of the parts that carry its safety argument, TLC configurations that
check them on small instances, and TLAPS proofs of the central invariants.

Paths below are relative to `src/src/fuzzhelm/` unless they start with `src/`.

## 1. Inventory

| Component | State it keeps | Operations | Hard behaviour |
|---|---|---|---|
| Risk state machine, kill-switch (`risk/state.py`, `risk/killswitch.py`, tracker in `risk/context.py`) | mode, dwell, latch, peak, day open, thresholds | `update` per bar, `trip`, `release`, swap of thresholds | two objects that must agree; an operator acts between bars; re-latching after a release; dwell carried over |
| Risk guard (`risk/guard.py`, `verdict.py`, `rules/*`, `margin.py`) | the shared switch; otherwise a function | `evaluate` | composed shrinks, flooring, flips, zero and negative equity, halt during an evaluation |
| Paper broker (`execution/paper_broker.py`) | orders, market queue, stops, take-profit, liquidation level, position | `submit`, `cancel`, `cancel_all`, `set_take_profit`, `set_liquidation_price`, `on_bar` | several triggers in one bar, gaps, levels that outlive their position |
| Portfolio and costs (`execution/portfolio.py`, `cost_model.py`) | cash, position, fees, funding, trades, marks | `apply_fill`, `apply_funding`, `mark`, funding schedule | flips, partial closes, several funding moments between two bars, rates known late |
| Order router (`execution/router.py`) | sent orders and their answers | `submit`, reconciliation | a call that fails after the venue took the order; a repeated id with another content |
| Features and windows (`features/*`) | rings, running sums, deques, cursor | `update` per bar, reads by lag and slice | rings that wrap, ties, periodic recomputation, reading ahead |
| Decision core (`decision/*`, `fuzzy/*`) | none between bars | consensus, inference, damping, validation of a rule base | the skipping path against the full one, break points, symmetry |
| Sizing, hysteresis (`sizing/*`) | side of the gate, volatility scale | `size`, `update` | the gate's side against the real position; three budgets and rounding |
| Trading loop (`backtest/engine.py`) | portfolio position, open position record, supervised orders, planned entries | `step`, `release_halt`, `apply_risk_limits` | a second copy of the venue's state; orders decided on one bar execute on the next; the latch may close in between |
| Risk limits (`api/limits.py`, `PUT /risk/limits`, reload in `workers/trading_worker.py`) | one file, its digest in two processes | GET, PUT, compensation, load, reload | lost updates, a commit that fails after the file changed, a crash, several looks at a changing file |
| Control channel (`POST /risk/killswitch/release`, `ControlChannel`) | `audit_log` rows, high-water mark, command queue | request, commit, start, poll, apply | commits out of id order, restarts, a bounded page |
| Trading session (`workers/trading_worker.py`, `workers/persist.py`) | loop, journal buffer, last bar, pending commands | `on_candle`, `_fill_discontinuity`, `finish`, sinks | gaps and overlaps in the feed, failing database |
| Journal (`core/journal.py`) | hash chain | `append` | a prefix that was handed out and not written |
| Ingest pipeline (`ingest/pipeline.py`, `gap_detector.py`, `dedup.py`, `candles.py`) | best version per event, settled minutes, hole candidates, gaps and their missing keys, held and skipped candles | frames, disconnect, backfill of a gap, finish | loss, duplication, reordering, late frames against backfill, failing or partial REST answers |
| Ingest worker (`workers/ingest_worker.py`, `storage/repositories/gap.py`) | journal buffer, gap ids, written hours, the transaction under way | `pump`, `handle`, the sinks, `flush_journal` | a stop or a deadline inside an item, a transaction that fails, a kill |
| Data quality (`quality/*`) | hourly accumulators, health counters, watchdogs | checks of events, `dq_scores` | a gap over an hour boundary, one silence reported by several, versions of one event in any order from two transports, a bounded deduplication window |
| Web-socket client (`ingest/ws_client.py`, `reconnect.py`) | connection tasks, back-off, watchdogs, a shared queue | connect, receive, put, back off, close | two clocks of silence, a full queue at the end, a fatal close |
| REST client (`ingest/rest_client.py`, `ratelimit.py`, `retry.py`) | token bucket, attempts | acquire, send, observe, retry | concurrent callers and retries over one budget, weights reported by the exchange |
| Pagination (`ingest/backfill.py`, `funding.py`, `fetch_agg_trades`) | cursor, previous page | next page, gaps of the result | overlap, revision between two pages, a repeated or short page |
| Recording and replay (`ingest/recorder.py`, `replay.py`) | a temporary file, the final one; source and clock of a replay | write, close, abort; iterate | a crash before the rename, a clock that jumps back |
| Candle storage (`storage/repositories/candle.py`, `common.py`) | the table | `upsert`, `iter_range`, `find_gaps` | duplicates within a batch, better and worse sources, writes between two pages |
| Backtest jobs (`api/backtests.py`, `backtest_runner.py`, `routers/backtests.py`, `storage/repositories/run.py`) | table of jobs, tasks, semaphore, run rows | submit, execute, persist, shutdown | a task that starts before its request commits, cancellation, a failing database, a second process |
| Live stream (`api/live.py`, `routers/stream.py`) | ring, subscriptions with queues, listener | publish, subscribe, replay, send, close | reconnect with `Last-Event-ID`, a slow client, shutdown |
| Authentication and access (`api/auth.py`, `deps.py`, `routers/auth.py`) | tokens at the clients, failures per key, roles | login, request | a role that is taken away while a token lives, attempts in flight |
| User administration (`cli.py`, `storage/repositories/user.py`) | `app_user` rows and their locks | `user add`, `user set-role` | two demotions at once, a role read without a lock |
| Strategy versions (`storage/repositories/strategy.py`, `routers/strategies.py`) | `strategy` rows, advisory locks | create, update, activate | two versions of a name at once, activation against insertion |
| Normalisation (`ingest/normalize.py`) | none | parsing of frames | decimal and time conversion |
| Datasets, read-only routes, schemas, explanations, panel, migrations, scripts | none of the trading system's | presentation, schema, tooling | none |

How they interact.  A feed (exchange or replay) gives closed candles to the
trading session; the session calls `TradingLoop.step` once per bar, between bars
it polls commands and reloads limits.  `step` withdraws what the latch forbids,
lets the venue execute, books the fills in the portfolio, moves the risk mode,
computes features, decides, sizes and submits through the router.  The risk guard
is called inside the decision and shares the kill-switch object with the state
machine.  The ingest worker runs a pipeline per instrument over one web-socket
client, records what it receives, fills gaps over the REST client, and writes
candles, journal, gaps and quality in separate transactions.  API and workers are
separate processes: they share the limits file, the tables and the channel
`fuzzhelm_live`; `NOTIFY` wakes the worker earlier and feeds the live stream.

## 2. Modules

| Module | Models | State and actions against the code |
|---|---|---|
| `RiskMode` | the contract of the risk mode | `level` is SEVERITY of the mode, `latched` the switch. Escalate, Recover (one level, never out of the halt), Trip, Open, Release |
| `RiskStateMachine` | `risk/state.py`, `risk/killswitch.py`, `EquityTracker` | `state`, `dwell`, `cfg`, `snap`, `tripped`; `Update`/`UpdateSync` are the two branches of `update`, `Trip` and `KillSwitchRelease` the switch used directly, `ReleaseEarly`/`Release` the two branches of `release`, `ApplyRiskLimits` the swap of thresholds. `trips`, `releases`, `exits` count the audit rows; `sinceHalt` is a history variable |
| `RiskGuard` | the chain of seven rules | `evaluate` is a pure operator over exact rationals; the actions give it every request, settle or drop the order, and open the switch |
| `BrokerBook` | the venue as operators on a book record | one operator per method of `PaperBroker`, private ones included |
| `PaperBroker` | the venue driven by an arbitrary client | one action per public method that changes state |
| `Portfolio` | `execution/portfolio.py`, funding of `cost_model.py` and of the engine | `AccountBar` is the accounting of one `step`: the rate, the funding of every moment since the last bar, the fill, the mark. `pf*` are the portfolio's fields; `trade` is the trade in progress |
| `OrderRouter` | `execution/router.py` over a venue that may fail before or after it takes an order | `rtKnown` is what the router stored, `rtVenue` what the venue has, `rtUnsure` the failed calls nobody could explain |
| `Features` | `features/indicators.py`, `pipeline.py`, `window.py` | one step per closed bar feeds every indicator; `bars` is the history the property computes from |
| `FuzzyDecision` | `decision/*`, `fuzzy/*` | one action decides on any outputs of the detectors, the others draft a rule base rule by rule and validate it |
| `Sizing` | `sizing/*` and its use in `_decide` | the gate, the scale and the position, bar by bar; stops and rejections turn the position behind the gate's back |
| `TradingLoop` | `TradingLoop.step` over `BrokerBook` | `Step` is the whole of `step`: withdraw, execute, account, mode, decide, submit. `Trip` and `ReleaseHalt` happen between bars |
| `RiskLimits` | the limits file, two or more PUTs, hand edits, a crash, a worker | `pc[r]` is where a PUT stands between its awaits; `wpc` where the worker stands between two reads of the file |
| `ControlChannel` | release commands from request to application | a row is open, committed or rolled back; ids are drawn at insertion, visible at commit |
| `CandleAggregator` | `ingest/candles.py` as operators on a record | one operator per method |
| `IngestPipeline` | `ingest/pipeline.py` over the detector, the deduplicator and the aggregator | `OnCandle`, `OnTrade`, `OnTime` are `_accept` for a frame of each kind, `Disconnect` and `Finish` confirm the candidates, `FillGap` is one round of `_fill_loop`. `det` is the `GapDetector`, `agg` the `CandleAggregator`, `taken` the head of `_to_fill` |
| `IngestSession` | `run_ingest`, `pump`, `InstrumentSink`, `GapRepo` | `turn` holds the pipelines the item under way still has to pass, `sinkTxn` the transaction under way; `CommitSink` writes it, `BreakOff` is a failing one, `HaltPump` a stop or a deadline; `heard` is the minute of the newest event, which decides whether an hour is over |
| `DataQuality` | the counting half of `ingest/pipeline.py`, `quality/*`, the deduplicator's window, the watchdogs | an action per kind of frame, backfilled event and control record, each with the gaps it makes the detector report; `memory` is the deduplicator with the version it keeps of each event, `hours` are the `DqAccumulator`s |
| `WsClient` | `ingest/ws_client.py`, `ingest/reconnect.py` | `wsTask[c]` is where the task of a connection stands between its awaits, `wsQueue` the shared queue, `wsConsumer` the `items()` loop |
| `RestClient` | `ratelimit.py`, `retry.py`, `_get` | `rcCall[c]` is a caller's call, `rcSent[k]` the weight sent in the current tick and the `k` before it |
| `Pagination` | `backfill_klines`, `fetch_funding_history`, `fetch_agg_trades` | `Page` is one request and what the loop does with its answer, `pgMismatches` its `overlap_mismatches`; the exchange may revise a row between two |
| `SessionFile` | `recorder.py`, `replay.py` | `sfFinal` is the file under the final name; a replay takes its items from it |
| `CandleStore` | `CandleRepo` | `Upsert` is a transaction over the rounds of its batch; `ReadPage` one page with its own snapshot |
| `BacktestJobs` | submission, queue, row, engine, persistence | `bjReq` is the request's transaction, `bjTask` where the job's task stands (`committed` and `persisted`: a COMMIT has taken effect, the task has not heard of it), `bjRow` the run's row |
| `LiveStream` | `LiveHub`, `PgLiveSource`, the SSE generator | `lsHub` is the hub, `lsSub[c]` the subscription and stream of a client, `due` and `from` what it asked for |
| `Access` | login, limiter, tokens, `require` | a login is three steps (check, password, record), a call two (principal, transaction) |
| `UserRoles` | `user add`, `user set-role` | each command is one transaction: read, lock, write, commit or abort |
| `StrategyVersions` | `create_version`, `activate` | each request is one transaction; `UpdateBegins` takes the snapshot of the UPDATE, `UpdateRuns` applies it once the rows it found are free |
| `TradingSession` | one run of the worker: `TradingSession`, `DbSink`, `LivePersister`, `EventJournal`, the end of `run_worker` | `pc` is where the run stands between two awaits, `log` every entry appended, `handed` how many of them left the buffer, `mem` what the loop did, `db` what is committed. `OnCandle`, `Poll`, `Apply`, `Proceed` are `on_candle` up to the step, `Fetch`, `StepFetched`, `Filled` are `_fill_discontinuity`, `StepCandle` the step; `Finish` and `FinishFailed` the two ends |
| `Lists` | lists filtered and sorted as the code does it | no state: `Kept` is `[x for x in q if x in K]`, `Ascending` is `sorted` of distinct numbers |
| `Safeguards_proofs`, `Execution_proofs`, `BrokerBook_proofs`, `TradingLoop_proofs`, `TradingSession_proofs`, `Ingest_proofs`, `ApiServices_proofs`, `SequenceFacts` | theorems, and in the last one the facts about sequences, ranks and recursion they share | see section 5 |
| `MCSafeguards`, `MCExecution`, `MCApiServices`, `MCExchangeClients` | instances for TLC | independent components side by side: `part` says which of them a behaviour is of, and the others stand still, so that one run searches the sum of their state spaces and never the product |

`TradingLoop` composes `BrokerBook` with two contracts instead of the detailed
modules: the mode moves as `RiskMode` allows, which `RiskStateMachine` implements
(checked and proved), and the guard approves any part of the request or
flattens, which is `BetweenKeptAndTarget` of `RiskGuard` (a conjunct of
`GuardIsSafe`) for the changes of side that are the only requests `_decide` makes.
`IngestSession` and `DataQuality` take any answer of a pipeline, which includes
those of `IngestPipeline`; `TradingSession` takes candles in the order
`SeriesIsAccounted` promises.

Operators named `Faulty...` are deliberate faults.  Each stands before the
definition it imitates and is used by no specification; putting it in that
definition's place makes one property fail, which shows that the property
depends on that code.

### Abstractions

- Money and quantities are integers (ticks, steps); thresholds are integers over
  a common scale and shrink factors exact rationals, as in the code, which uses
  `Decimal` and `Fraction`. Nothing is rounded but the final floor to the step.
  What the code computes in floating point (features, fuzzy core, sizing) is exact
  here: a quotient is a pair of numerator and denominator, an average is kept
  multiplied by a scale its denominators divide, a standard deviation is its
  square. Rounding errors are therefore outside these models; what they check is
  which values enter a formula, when, and how the paths agree.
- One instrument. The broker keeps one `_InstState` per instrument with nothing
  shared between them; `IngestSession` has two, because they share one journal.
- In `BrokerBook` costs change amounts, not control: the price of a fill is the
  reference price the trigger logic chose. `Portfolio` books costs and funding; its
  prices are multiples of a scale by which every division is exact for the bars
  allowed.
- In `TradingLoop` the fuzzy core and the sizer are arbitrary: any side, any size
  of the grid. The liquidation price lies a fixed number of ticks from the entry,
  and a funding charge recomputes the level it already has.
- In `FuzzyDecision` the break points are those of `src/config/membership.yaml` on a
  grid of twentieths, the Gaussian terms of V a table, and the entropy of the votes
  any value between unanimity and an even split.
- In `IngestPipeline` any event may come at any moment or never, which covers loss
  and every reordering; a repeated event is refused by the deduplicator before it
  changes anything. The hook answers with any part of what is missing, so REST
  pagination and retries need no state here. A disconnect may happen at any time.
- In `DataQuality` which gap is opened and whether a candle is released is any
  outcome, also when a lost connection flushes the detector. An event comes in versions
  that differ in what `dedup.py` ranks them by: closed or not, transport, exchange time,
  arrival and digest. Lags, percentiles, weights and the exponential of timeliness are left out.
- In `IngestSession` what a pipeline makes of an item is any sequence of calls of the
  sinks, while items are processed and again while the session finishes; a transaction is
  taken and committed in two steps, so that a stop can come between them. Exchange time
  is counted in minutes: a candle closes a millisecond before the next minute, so that its
  hour is over only when a later event was heard.
- In `TradingSession` a bar is its distance from the warm-up and the loop may do
  anything to its one position. A transaction happens in one step and commits,
  rolls back, or commits while the worker gets an exception. The hash chain is the
  sequence of its entries, so it verifies exactly when it is a prefix of what was
  appended. That candles come in ascending order is `ReleasedInOrder`, a conjunct
  of `SeriesIsAccounted` of `IngestPipeline`.
- In `WsClient` time is the silence of a connection in steps; the length of a pause is
  the ceiling of the back-off, of which equal jitter keeps at least half. In
  `RestClient` time is the ticks in which the bucket gains `Rate` tokens.
- A text of the limits file stands for its SHA-256 and for the parsed tree; the same
  holds for a pair of YAML documents of a strategy, for a run's identity, and for a
  token and its claims.
- Transactions run at READ COMMITTED: a statement sees what was committed when it
  began and what its own transaction wrote; an UPDATE and a SELECT FOR UPDATE wait
  for the rows they found, then keep those that still qualify; rows inserted
  meanwhile are not among them.

## 3. Runs

| Run | Question | Result |
|---|---|---|
| `safeguards` | Do mode, switch, audit and recovery rules survive every equity path, day boundary, operator action and change of thresholds, and does the machine implement `RiskMode`? Does an approved increase meet every limit, lie between what is kept and what was asked, and respect the mode? Is a recording whole and its replay the recording? Does every event, silence and uncovered moment count once, in its hour? Is the candle table what one-by-one upserts make of it, and is a paged read whole? Is what an ingest session stored consistent wherever it is stopped, fails or dies? | holds |
| `execution` | Do the features equal their definitions on the history? Is the decision odd, damped, and the same on both paths? Does a size stay within its budgets, and the gate not chatter? Is an order placed once and its answer true? Is the book sound inside one bar, the stop taken before the take-profit, and nothing left over from a closed position? Do the accounts balance, and is funding charged once, at the rate that was known? | holds |
| `api_services` | Do releases reach the session they were made for, in order and once? Does the table of runs tell the truth, is work bounded, does every job end? Does a resumed stream have no hole and no repetition, and does every stream end at shutdown? Does a demotion that saw an administrator leave one? Are versions numbered without a hole? Does a role that was taken away stop writes, and does the limiter hold? | holds |
| `exchange_clients` | Does the budget hold in every window, does every call end? Do the page loops lose and repeat nothing and report exactly what is missing? Does a connection back off, lose nothing, bracket its sessions, drop silence, and does the consumer learn of every end? | holds |
| `trading_loop` | Do the engine's records agree with the venue, does exposure never grow under the latch, and does a latched engine become flat? | holds |
| `risk_limits` | Is optimistic locking sound under failures and crashes, does the worker trade on valid limits only, does it catch up? | holds |
| `ingest_pipeline` | Whatever transport and backfill do: is the candle series ordered, without a hole that is not on record, and never stuck? Is every trade id seen, awaited or on record as missing? | holds |
| `trading_session` | Whatever the feed leaves out and wherever the database fails: does the stored journal verify, is every minute journalled once, is the database level with the loop while the session waits, is the run closed? | holds |
| `limits_stale_worker` | Does every change reach a running worker? | violated |
| `control_lost_command` | Is no command lost? | violated |
| `last_admin_demoted` | Is there always an administrator? | violated |
| `two_active_versions` | Is at most one version of a name active? | violated |

Several properties are conjunctions of named parts, each with its comment in the
module: `GuardIsSafe` (`LimitsHonoured`, `BetweenKeptAndTarget`, `ModeRespected`),
`ReleasesAreSound` (`EveryExitAudited`, `ReleasedIsClean`), `BookIsSound`
(`StatusMatchesBook`, `ReduceOnlyReduces`, `FillsInsideBar`),
`NothingOutlivesPosition` (`NoOrphanAfterBar`, `NoStaleLiquidation`),
`AccountsAreExact` (`BooksBalance`, `FundingIsExact`), `SizingIsSteady`
(`SizeWithinBudgets`, `GateDoesNotChatter`), `FeaturesMatchHistory`,
`DecisionIsConsistent`, `EngineAgreesWithVenue`, `SeriesIsAccounted`
(`ReleasedInOrder`, `NoSilentHole`, `FilledIsDelivered`), `RunIsRecorded`
(`EveryBarAccounted`, `NothingUnsaved`, `EndedIsClosed`), `SessionIsRecorded`,
`QualityIsAccounted`, `CandlesAreKept`, `RecordingIsFaithful`, `JobsAreSound`
(`RowTellsTheTruth`, `JobsAreBounded`), `AccessIsCurrent`, `AppliedIsFresh`,
`PagesAreRight`, `ConnectionsAreSound`, `ApiMakesProgress` (`JobEnds`, `StreamsEnd`,
`InOrderCommandIsApplied`) and
`ClientsMakeProgress` (`CallEnds`, `PagingEnds`, `SilentIsDropped`,
`FailureReachesConsumer`).

### What the violated runs show

- `limits_stale_worker`: `run_worker` loads the limits, then warms up, and only
  `TradingSession.__init__` records the file's digest. A PUT in that window is
  recorded as the version in force and never loaded. The same happens when the
  file changes between the hash and the read of one reload and then changes back.
- `control_lost_command`: audit ids are drawn before the commit. When the larger
  id commits first and is polled, the smaller is below the mark for ever.
- `last_admin_demoted`: `user set-role` reads the user without a lock and locks the
  administrators only if the role it read was `admin`. One command reads bob as an
  operator and is about to make him an analyst; a second makes bob an
  administrator; a third demotes ann, rightly, since bob is one; then the first
  writes what it had decided. No administrator is left.
- `two_active_versions`: `activate` takes no lock on the name, and no unique index
  covers `is_active`. Its UPDATE has taken its snapshot and waits for a row; a
  version that is inserted and activated meanwhile is not among its rows. Both
  transactions commit, and two versions are active.

`risk_limits` and `api_services` state what does hold next to these: the worker
catches up unless the file changed inside one of its windows (`raced`); a command
that is not overtaken or crowded out is applied; a command that read an
administrator and takes the role away leaves another one; versions are numbered
without a hole and no rule set is stored twice.

### Bounds and why they are enough

- `safeguards`. The machine: seven equity levels around every threshold (exactly
  zero included), two threshold sets, dwells of one and two bars, two releases; the
  dwell counter stops at the largest dwell, since the code asks only whether a
  dwell has been reached. The guard: positions of at most three steps, two prices,
  four equities and three ATRs (zero included), another position or none, so that
  each rule binds alone and together with others. The recording: two streams,
  three time stamps, three items and a second recording of the same path. Quality:
  an event of every kind and two books, an hour of two minutes, two hours, a window of
  one event, two overlapping gaps which both cross the hour, one lost connection, six
  ticks of time, trades with two digests.
  The table: a minute in three versions, a hole, a minute whose better source is
  still open; batches of three with repetitions; a page of one row. The ingest
  session: two instruments on one journal, batches of two entries, four entries and two
  candles each, hours of one minute, one item of the stream.
- `execution`. The venue: three orders, three ticks, every bar of that grid (with
  gaps), orders late for the bar, a flip, a stop entry, a take-profit and a
  liquidation. The portfolio: four bars, gaps of one to three bar lengths with none,
  one or two funding moments in them, fills of one and two steps that open, add,
  reduce, close and flip up to three steps, a rate known only to a later bar. The
  router: two ids, two contents and one the router refuses, four submissions, a
  venue that can and one that cannot be asked. Sizing: intents on both sides of
  each threshold, zero equity, ATR, factor and volatility, budgets that bind in turn.
  Features: six bars of four shapes over rings of two and three, so that each ring
  wraps and is recomputed. The decision core: four strengths around the break points,
  confidences of zero and one; drafts of up to four rules over a small grid.
- `api_services`. Three release requests, two sessions and a page of two, so that
  the page can be too small (the violated run keeps the page of 50). Three jobs of two
  identities, two unfinished at most, one running, a table of two. One client, two
  streams of it, three events of two kinds, a queue of one and a ring of two, so that
  queue and ring both overflow. Two users, three roles, three commands. Two names,
  two rule sets and one that does not validate, three requests. Two attempts of
  login, a limit and a window of two ticks, two ticks of time: a failure leaves the
  window and a token expires.
- `exchange_clients`. Two connections over a queue of one, two handshakes and a frame
  each, a timeout of one step. Two callers, weights of one to three, a window of two
  ticks, two attempts, pauses of two ticks. Ranges of five keys in pages of two.
- `trading_loop`: three ids suffice because at most a market order, its stop and
  the stop of the position before it are alive at once; ids are reused once final.
  Steps where no stop distance can be computed are included (`StopDists` has 0).
- `risk_limits`: two changes, one failed commit, one crash, one unparsable edit.
- `ingest_pipeline`: three minutes make two gaps around a candle, one of which can be
  found while the other is filled; time runs past the grace of the last minute, so
  each minute can be settled. Four trade ids and a reordering width of one: a
  candidate can be too wide, too old, healed in part and confirmed for the rest.
  Candles and trades move each other's clock.
- `trading_session`: four minutes and one of the warm-up allow a hole, a candle and
  another hole, and holes the history fills in part; two commands allow a reload
  that is still in the buffer when a release is written, and a release after a halt.

Deadlock is checked in `trading_loop`, whose steps never stop. Everywhere else
requests, frames, items and sessions are finitely many and may all have ended; that
nobody waits on everybody is then stated by the liveness properties `JobEnds`,
`StreamsEnd`, `CallEnds`, `PagingEnds`, `FailureReachesConsumer` and `HeldIsReleased`.

### Fairness

- `TradingLoop!FairSpec` says that steps of the loop recur: a backtest iterates
  over its data and a live session gets a closed candle per minute. `index`
  distinguishes the loop's steps from the operator's actions.
- `RiskLimits!FairSpec` is weak fairness of the reload, which runs on every bar.
- `ChannelFairness` is weak fairness of polling and of applying what was
  polled, both of which happen between any two bars and while lingering.
- `JobsFairness` is weak fairness of each job's task: the event loop runs what is
  ready, the engine is a finite computation in a thread.
- `LiveFairness` is weak fairness of each stream's generator: a client that neither
  reads nor leaves is cut by the server's own send.
- `WsFairness` is weak fairness of the consumer, of time, and of what a connection's
  task does by itself. Putting into the shared queue is strongly fair, because the
  queue may be full again and again, and asyncio wakes the waiting putters in the
  order of their arrival. No frame, close or crash need ever come.
- `RestFairness` is weak fairness of the bucket, of a caller's turn at its lock (which
  asyncio hands on in order), of an answer or a timeout, and of a retry after its
  pause. `PageFairness` is weak fairness of the next page.
- `IngestPipeline!FairSpec` is weak fairness of the fill loop and of the flush,
  which run to their end inside one handler, and of hearing the exchange's clock
  beyond the last minute: mark prices and books tick every second.

Nothing else is fair: requests, commits, releases, edits, reconnects of clients and
restarts may or may not happen.

## 4. Findings

The four violated runs are the findings; `PROJECT.json` quotes for each the line
of the repository that says otherwise.  The following was noticed while modelling
and has no run.

Trading and limits:
- The header of `api/routers/risk.py` says that a starting worker reads the commands it
  missed; `ControlChannel.start` begins after the newest row, as its own docstring
  says, and `AppliedIsFresh` states what it does.
- `run_worker` calls `begin` and the warm-up before its `try`, so a failure or a kill
  there leaves the run RUNNING, and nothing closes it later.
- A release names a run and not the halt it was written for: one that is polled
  late opens a later latch.
- The compensation of PUT `/risk/limits` writes without comparing digests
  (`api/limits.py:179`): a change accepted on top of the failed one is removed, and two
  stacked PUTs that both fail may leave the text of the first, which no audit row covers.
- Funding: in a gap with several moments the rate of the last is used for all, which
  `FundingIsExact` states as it is.
- Router: after a failed call that could not be explained although the venue had taken
  the order, a retry is refused by the venue as a duplicate and this refusal is stored as
  final. `RouterIsTruthful` excludes these ids (`rtUnsure`).

Ingest:
- `GapDetector._fill` takes a trade that comes late for a PARTIAL or UNFILLABLE gap off
  the missing ids but does not add it to `filled_rows`; the number is right again
  once the last trade has come, and this is what `FilledIsDelivered` states.
- A put that waits for the full queue as long as the heartbeat timeout makes the
  watchdog drop a connection that is alive.
- `Retry-After` above the limit on the last attempt is reported as exhausted retries.
- Replaying a session with a `disconnected` record of `HEARTBEAT_TIMEOUT` at or after the
  timeout of the last frame counts the silence twice, once by the watchdog and
  once by the record; `reconnect.py:108-109` speaks of once. `OneReportPerSilence`
  states the order the other way round, which holds.
- The quality row of an hour is not written again when a later backfill completes the
  hour (`_dq_written`), and `health.py` clips a negative lag that the hour gets raw.
- An item taken from the stream just as `pump` cancels is dropped unprocessed; nothing
  of it was stored.

API:
- Two concurrent POSTs of one strategy name both succeed, the second as version 2.
- Two COMMITs of a job take effect before its task hears of them. A task that is
  cancelled, or loses its connection, between the COMMIT of its passport and the `try`
  of the runner leaves the row RUNNING for ever, although the header of
  `api/backtest_runner.py` says that every error becomes `finish(FAILED)`. One that is
  cancelled between the COMMIT of its results and the end of the `try` overwrites DONE
  with FAILED over complete results, because `finish` does not ask for the status. A task
  that is cancelled while it writes its failure may not write it, since only the
  cancellation branch is shielded. `RowTellsTheTruth` says that nothing else leaves such rows
  (`bjLost`, `bjLate`).
- A job's task is created before the COMMIT of its request; a task cancelled while it
  is queued leaves its job PENDING, which keeps its place; an engine running in its
  thread goes on after a cancellation. A FAILED or orphaned run keeps its identity, so
  that the same backtest cannot be asked for again; a job that was evicted answers 404.
- `Retry-After` of the login limiter understates the wait when several failures must
  expire. Ids of the live stream restart with the process.

## 5. Proofs

Each theorem holds for every value of the constants that its component's `ASSUME`s allow.

### The risk contour: `Safeguards_proofs`

For any equities, thresholds that pass the schema's ordering checks, scale and bounds:

- `TypeCorrect`: every variable keeps its type.
- `LatchAgrees`: after a bar the mode is HALTED exactly when the switch is closed.
  The two branches of `update` are compared with the table; `UpdateHalts` is the
  lemma that a bar halts exactly on a breach or a closed switch.
- `ReleasesSound`, in two parts. `ExitsAudited` by `AuditInv`: closures exceed
  releases by one exactly while the switch is closed, and exits plus the exit still
  owed (HALTED with an open switch) never exceed releases. The second part is needed
  because a switch that is opened directly is followed only by the next bar.
  `ReleaseClean` by `CleanInv`: right after a release, peak and day open equal
  the equity, and HALTED implies that a bar was seen, so a rebase did something.
- `RecoveryDwells` by `DwellInv`: a lower bound on the bars since the halt for
  every mode on the way down. Thresholds may change on the way, so the bound
  quantifies over the threshold sets.
- `BreachStated`: the mode after a bar is at least as severe as the breach on it.
- `RefinesRiskMode`: initial states map to initial states and each step to a step
  or a stutter of `RiskMode`.

For any limits, positions, prices, equities and ATRs:

- `GuardSafe`: `GuardIsSafe`. Nearly all of it is a fact about the pure operator
  `evaluate` (`EvaluationIsSafe`), and that rests on one lemma per rule: the quantity a
  rule's factor leaves, rounded down, meets the rule's own limit (`CapRight`,
  `NotionalRight`, `LeverageRight`, `LiquidationRight`, `GateRight`), every smaller
  quantity meets it too (`SmallerIsSafer`, `KeptPart`), and the composed verdict of two is
  no larger than either (`FitsBoth`), so the chain of seven meets all (`ChainFits`).
  `GuardInv` carries the result of the last request to the next state.

### Execution: `BrokerBook_proofs`, `Execution_proofs`, `TradingLoop_proofs`

`BrokerBook_proofs` holds what each method of the broker keeps, for whichever caller. An
order that is being executed has left its list and is still NEW, so "NEW means listed" is
false inside a method; `Sound(b, X)` says that the NEW orders are the listed ones and those
of `X`, each in one place, and each method takes `X` to a smaller or a larger set. The loops
(the market queue, the walk along a segment of the bar) are recursive functions, and a lemma
per loop says that it keeps whatever one execution keeps. Over it:

- `BrokerBookSound`: status and book agree, reduce-only orders only reduce, and every
  fill lies in the range of its bar.
- `PositionTakesAll`: after a bar every reduce-only stop protects the position held or one
  that a waiting entry may open, and a position that is closed or turned takes its
  liquidation price with it in the same step.
- `StopComesFirst`: a bar that reaches a full protective stop and the take-profit of the position
  it opens with, and gaps over neither, takes no profit. At the open only levels behind it
  fire, so the take-profit does not; along the first piece of the path, which runs against the
  position, every round before the stop either closes the position or removes another stop
  (`RoundTowardStop`), so within as many rounds as there are stops the position is closed
  (`FirstPieceCloses`); without a position no take-profit is a trigger (`FlatStays`), and
  with reduce-only stops nothing opens one. `WalkRounds` takes a set of states per round, which
  is what lets that count of stops go down with the rounds.
  The theorem names a boundary: `_walk_segment` ends when the price has reached the end of the
  segment (`paper_broker.py:475`), so that of two stops at the very extreme of a bar the second
  may have to wait for the next bar while the take-profit is taken. The engine never
  places two stops for one position.
- `LoopAgrees` and `LatchHolds`: engine and venue agree after every step, and a latched
  bar adds no exposure. `EngineAgreesWithVenue` is far from inductive: `Agree` distinguishes a
  settled book (at most one stop, which covers the position; `Settled`), a waiting exit
  (`Exits`) and a waiting opening, whose own stop stands next to the stop of the position
  it replaces (`Opens`). A bar executes the waiting order and then at most one trigger,
  because that one closes everything.

For any orders, contents, thresholds, budgets, prices on the grid, fills, schedule of funding
and series of rates in the order of their times:

- `RouterTruthful` by `RouterInv`: besides types, an order without a status is no order,
  and a call that arrived and was explained left an order at the venue (`ArrivalsMatch`).
- `SizingSteady`: an action property. `SizingInv` adds `TurnReachedEntry`, that a turn of
  the gate was made by an intent which had reached the entry threshold; the distance
  between two turns follows from that and from the exit threshold of the second.
- `AccountsExact`: `AccountsAreExact`. `BooksBalance` reads the books in several ways;
  `BooksInOrder` reduces them to one equation each for cash, realised result, fees and
  funding, and states that the worst loss of the trade in progress counts the last mark,
  without which the next mark could lower it by too little. Increase, decrease, close
  and flip each keep the equations (`IncreaseKeeps`, `DecreaseKeeps`). `FundingIsExact`
  needs that the moments the code walks, day by day, are exactly the due ones
  (`FundingTimesAreDue`, `NextIsFirst`), and that the pointer it moves through the
  series stands at the newest known rate (`ConsumedIsPrefix`, `RateIsNewest`).

### The trading session: `TradingSession_proofs`

For any length of the session and number of commands:

- `ChainVerified` and `RunRecorded`, by the common invariant `SessionInv`. `ChainInv`:
  until an exception what is stored is as long as what was handed out, afterwards it is
  a prefix still, though an ambiguous commit may have stored more than was handed
  out. `MinutesInv`: minutes are counted once in the journal up to the point the
  candle under way has reached, and the holes still to fill are the minutes before it.
  `SavedInv`: between transactions the tables are level with the loop. `EndInv`: only a
  session at work is free of errors.

### From the exchange to the database: `Ingest_proofs`

For any callers, weights, windows, connections, records, instruments, batches, candles,
minutes and trade ids:

- `BudgetIsHeld` by `TokensShared`: for every `k`, the tokens left and the weight sent in
  the current tick and the `k` before it are at most the capacity and `k` refills. The
  budget is the case of the whole window; for one window length alone the statement
  is not inductive, since a tick shifts every window by one.
- `ConnectionsSound` by `WsInv`: between a connection and the consumer its records are
  consecutive numbers, in the queue (`QueueInOrder`) and then in the put under way
  (`PutsInOrder`), and what a task waits for says what kind of record came last.
- `RecordingFaithful` by `FileInv`: an open recording is a beginning of a file, from the
  footer on it is a whole one, and only then can it get the final name. For the replay
  in sorted order the rank of a record is an injection into a finite interval, hence a
  permutation; the pace is carried by `FeedOk`.
- `SessionRecorded`: `SessionIsRecorded`. The property speaks of moments without an open
  transaction; `IngestInv` says of every moment what the transaction holds. `JournalInv`:
  stored entries, carried entries and buffer are three consecutive runs of numbers.
  Each pipeline has heard of the minutes it released, and no hour is written before
  one after it was heard of. `CandleInv`, `GapInv` and `HourInv` say of each candle, gap and hour that it is in the table or in
  the transaction; `AfterCommit` is the lemma that a commit makes it the table for
  each of the five kinds, and it serves both a commit that is reported and one
  that applies before the session breaks off.
- `CandlesKept` by `CandleTableInv`. A batch is taken minute by minute: the `r`-th candle of a
  minute is in the `r`-th round and in no other, so the rounds do to each minute what
  the candles do one by one. `ReaderOk` says of a paged read that what it has is in order up to
  the cursor, and that what stood in the table at the start is read or lies ahead of the cursor.
- `SeriesAccounted` and `TradesCounted` by `PipeInv`. There is a minute `from` at which the
  series began: every minute from there to the next one to be released was released or
  declared missing, what is held comes later (`AggOk`); no gap misses a minute before it, and a
  FILLED gap misses nothing and counts all its keys (`DetOk`); a key a gap no longer misses was
  delivered (`Delivered`); a minute passed over stays missing in some gap (`OnRecord`); a trade
  id up to the newest is in exactly one of seen, candidates and gaps, and two candidates
  share none (`TradesOk`). Every handler is a `DetStep`: at most the key that arrived leaves a gap, and
  new gaps miss all their keys. A round of the fill loop is such a step per key it brings.
  When `finish` has flushed, `Closing` remains of it.

### The API: `ApiServices_proofs`

For any set of concurrent changes of the limits, hand edits and numbers of failures and crashes:

- `TypeCorrect`.
- `BasesDistinct` by `LimitsInv`: besides the types, every text on disk or read by
  a request was written by somebody (`KnownInv`), what an accepted change was
  based on was valid (`BaseValid`), and no change that is or may have been in
  force has the text on disk as its base, nor shares its base with another
  (`LiveInv`). `DistinctBases` alone is not inductive: a compensation
  brings an old text back, and that its own change is then no longer in force
  has to be carried along.
- `ValidLimits`: a tree that failed validation never reaches the trading loop.

For any numbers of users, commands, names, rule sets, requests, sessions, jobs, clients and attempts:

- `DemotionSafe`, an action property, by `RolesInv`: from the locking read to its end a
  demotion holds the row of another administrator, and a command that commits holds
  the row it changes. `LastAdminStays` is not proved because it does not hold.
- `VersionsNumbered` by `VersionsInv`: one request at a time holds a name (`OneHolder`), and a
  row that is not committed is the one row of the holder and carries the number after
  the committed ones (`PendingIsNext`).
- `ReleasesAreFresh` by `ChannelInv`: polled commands wait in ascending order, committed
  for the session that holds them and younger than all applied ones (`QueueIsFresh`), and
  what a session has not seen was committed after it began to listen (`UnseenIsMine`).
- `JobsSound` by `JobsInv`: each run's request, job, task and row agree (`RunOk`), rows
  differ in their identity, and both bounds hold. `RunOk` has to say where a task
  without a row and one with a row may stand, and that only a failed request
  cancels, since each of these is what another task's step must find. Between a COMMIT
  and the task that hears of it stand two places of their own (`committed`, `persisted`); what a
  cancellation there leaves behind is remembered (`bjLost`, `bjLate`), and `RunOk` says that a row may
  disagree with its task only then.
- `AccessCurrent` by `AccessInv`: a call under way is allowed by a role its user has had since
  it came (`AllowedSinceItCame`), and the failures of a key and the attempts on it that may
  still fail are together fewer than the limit and the attempts there can be
  (`FailuresStillPossible`), which is what a check makes true and every other step keeps.
- `StreamExact` by `StreamInv`: the numbers a client has seen rise; what it has seen comes before
  its backlog and that before its queue; all three are owed to it; and they and the
  dropped ones add up to what it is owed.

### How the proofs deal with loops and sorts

The installed provers cannot instantiate the library's induction theorems, whose
parameter is an operator. `SequenceFacts` replaces them by facts about sets: a set of
naturals that is not empty has a least member (`LeastNat`), and a set that holds 0 and with
each number the next holds all up to a bound (`InductionUpTo`); an induction is then the
set of numbers for which the claim holds. `RecursionExists` gives the recursive functions of
`Lists`, the book, the aggregator and the backfill their equations, and the facts about ranks
(a strict total order puts each member of a finite set at its own place) give those
of the sorts.

### Assumptions

Assumptions are the named `ASSUME`s of the component modules, which TLC evaluates in the
runs. They say of the constants what the code's schemas and types say: divisors, scales,
steps and windows are positive, limits are fractions, thresholds are ordered, bounds are
natural numbers, recorded rates are in the order of their times, the table of users is
finite, ids and minutes are natural numbers, and the model's marks for "no identity" and
"no item" are none. A price in `Portfolio` is a
multiple of the fee divisor (`MoneyAssumption`), which stands for the exactness of `Decimal`.
Bounds of the models (`MaxReleased`, `MaxBar`, `MaxCommands` and the like) are constants
too, and the theorems hold for every value of them.

### Only model-checked, and why

- Every liveness property (`WorkerCatchesUp`, `HeldIsReleased`, `LatchFlattens`,
  `ApiMakesProgress`, `ClientsMakeProgress`): fairness and ENABLED are outside the prover's reach.
- `FeaturesMatchHistory` and `DecisionIsConsistent`: sums, averages and centroids over folds,
  with products and quotients of sums; the induction would be possible as above, the
  non-linear arithmetic under it is not what the provers find.
- `PagesAreRight` and `QualityIsAccounted`: filters and folds of the exchange's answers and of
  hourly counters. Within reach of the same method, and not attempted.

## 6. Plan

Done: the risk contour, the venue and the accounts, features, decision and sizing,
the loop over them, the protocols between API and worker, the services of the
API and of the command line, the exchange clients, recording and replay, the ingest
pipeline with its gaps, backfill, quality and session, the candle table, and the
trading session with its journal and transactions.  Next, in this order:

1. Proofs of `PagesAreRight` and `QualityIsAccounted`.
2. Compositions: `RestClient` under `Pagination` under the fill loop of
   `IngestPipeline`; `CandleStore` under `IngestSession`; the portfolio's amounts
   and the sizer's bounds inside `TradingLoop` in place of arbitrary sizes.
3. The remaining commands of `cli.py` that write (`backfill`, `fetch-funding`,
   `replay-gap`) and the two hazards without a property named in section 4: a
   late release, and a run that stays RUNNING.

## 7. Not modelled

Parsing and decimal conversion of frames (`ingest/normalize.py`) is a pure function
of its input; only its rule for two rows with one id is used (`Pagination`).  The
loading of datasets and the statistics of a backtest, explanations, schemas and
read-only routes compute from rows and keep no state.  SQL types, COPY and the
driver are below the level of a transaction.  Password hashing, JWT signatures,
gzip and JSON are taken to do what they promise.  The panel, migrations and scripts
are presentation, schema and tooling.  What is planned and not yet modelled is in
section 6 and, per hazard, in `PROJECT.json`.

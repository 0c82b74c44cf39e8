---------------------------- MODULE IngestSession ---------------------------
(***************************************************************************)
(* A session of the ingest worker (workers/ingest_worker.py): pump feeds   *)
(* the items of the stream to the pipelines of the instruments, whose      *)
(* sinks write candles, journal batches, gaps and hourly quality to the    *)
(* database in short transactions; a stop or a deadline may come at any    *)
(* moment, a transaction may fail, and the process may die.                *)
(*                                                                         *)
(* What a pipeline makes of an item (module IngestPipeline) is any sequence*)
(* of calls of the sinks.  A journal entry is its number; entry 1 is       *)
(* ingest.start.  A transaction is two steps, what the sink takes with it  *)
(* and the commit, so that a stop can come between them.                   *)
(*                                                                         *)
(* Exchange time is counted in minutes.  The candle number k is that of    *)
(* minute k - 1 and closes a millisecond before minute k begins.  Minutes  *)
(* without an event or a candle are left out: every hour that has begun    *)
(* has its accumulator.                                                    *)
(***************************************************************************)
EXTENDS Integers, SequencesExt

CONSTANTS
    Symbols,        \* instruments of the session, in order
    JournalFlush,   \* JOURNAL_FLUSH
    HourCandles,    \* minutes of an hour
    MaxEntries,     \* bound: journal entries from events
    MaxReleased,    \* bound: candles released by a pipeline
    MaxStreamItems        \* bound: items of the stream

ASSUME IngestAssumption ==
    /\ Symbols \in Seq(Range(Symbols)) /\ \A i, j \in DOMAIN Symbols : Symbols[i] = Symbols[j] => i = j
    /\ JournalFlush \in Nat \ {0} /\ HourCandles \in Nat \ {0}
    /\ MaxEntries \in Nat /\ MaxReleased \in Nat /\ MaxStreamItems \in Nat

VARIABLES
    stage,          \* open, running, finishing, ended, failed
    consumer,       \* the task of pump: waiting, handling, done, cancelled
    turn,           \* pipelines that have not finished with this item
    stopAsked,      \* the stop event is set or the deadline has passed
    halt,           \* pump's halt event
    items,          \* items taken from the stream
    made,           \* entries of the in-memory journal, ingest.end included
    journalBuffer,  \* entries not yet taken by a transaction
    sinkTxn,        \* the open transaction, or <<>>
    gapIds,         \* _gap_ids of each sink: row of each gap
    reports,        \* ghost: what each pipeline last said of its gap
    heard,          \* detector.latest_event_ns of each pipeline, its minute
    released,       \* candles each pipeline has released
    dqWritten,      \* _dq_written of each sink
    ingestDb        \* the tables: journal, candles, gaps, hours

insVars == <<stage, consumer, turn, stopAsked, halt, items, made, journalBuffer,
             sinkTxn, gapIds, reports, heard, released, dqWritten, ingestDb>>

NoReport == [status |-> "none", attempts |-> 0]
Terminal == {"FILLED", "PARTIAL", "UNFILLABLE"}
\* What a pipeline may say next of a gap (gap_detector, _fill_loop).
NextStatus(s) ==
    CASE s = "none" -> {"OPEN"}
      [] s = "OPEN" -> {"FILLING", "FILLED"}
      [] s = "FILLING" -> Terminal
      [] s \in {"PARTIAL", "UNFILLABLE"} -> {"FILLED"}
      [] OTHER -> {}

IngestSessionInit ==
    /\ stage = "open"
    /\ consumer = "waiting"
    /\ turn = <<>>
    /\ stopAsked = FALSE
    /\ halt = FALSE
    /\ items = 0
    /\ made = 0
    /\ journalBuffer = <<>>
    /\ sinkTxn = <<>>
    /\ gapIds = [s \in Range(Symbols) |-> 0]
    /\ reports = [s \in Range(Symbols) |-> NoReport]
    /\ heard = [s \in Range(Symbols) |-> -1]
    /\ released = [s \in Range(Symbols) |-> 0]
    /\ dqWritten = [s \in Range(Symbols) |-> {}]
    /\ ingestDb = [journal |-> <<>>, candles |-> {}, gaps |-> <<>>, hours |-> <<>>]

-----------------------------------------------------------------------------
\* run_ingest up to the pump: an instrument that is not in the database
\* refuses the session before anything is journalled.
StartIngest(known) ==
    /\ stage = "open"
    /\ stage' = IF known THEN "running" ELSE "failed"
    /\ made' = IF known THEN 1 ELSE 0
    /\ journalBuffer' = IF known THEN <<1>> ELSE <<>>
    /\ UNCHANGED <<consumer, turn, stopAsked, halt, items, sinkTxn, gapIds, reports,
                   released, heard, dqWritten, ingestDb>>

\* route: a frame goes to its instrument's pipeline (or to none), a control
\* record to every pipeline.
Routes == {<<>>, Symbols} \cup {<<s>> : s \in Range(Symbols)}

\* consume: the next item, then handle with busy set.
TakeItem(route) ==
    /\ stage = "running" /\ consumer = "waiting" /\ ~halt /\ items < MaxStreamItems
    /\ consumer' = "handling"
    /\ turn' = route
    /\ items' = items + 1
    /\ UNCHANGED <<stage, stopAsked, halt, made, journalBuffer, sinkTxn, gapIds, reports,
                   released, heard, dqWritten, ingestDb>>

StreamEnds ==
    /\ stage = "running" /\ consumer = "waiting" /\ ~halt
    /\ consumer' = "done"
    /\ UNCHANGED <<stage, turn, stopAsked, halt, items, made, journalBuffer, sinkTxn, gapIds,
                   reports, released, heard, dqWritten, ingestDb>>

\* handle is with the first pipeline of turn, or finish is.
Processing ==
    /\ sinkTxn = <<>> /\ turn # <<>>
    /\ \/ stage = "running" /\ consumer = "handling"
       \/ stage = "finishing"
Now == Head(turn)

\* InstrumentSink.on_event: journal the event, flush a full buffer.  An event
\* of the stream may be of the next minute; one that finish gets by REST to
\* fill a gap is not newer than the gap's end.
OnEvent ==
    /\ Processing /\ made < MaxEntries
    /\ \E minute \in {heard[Now], heard[Now] + 1} \cap Nat :
         /\ stage = "finishing" => minute = heard[Now]
         /\ heard' = [heard EXCEPT ![Now] = minute]
    /\ made' = made + 1
    /\ LET buf == Append(journalBuffer, made + 1) IN
       IF Len(buf) >= JournalFlush
       THEN journalBuffer' = <<>> /\ sinkTxn' = <<[kind |-> "flush", entries |-> buf]>>
       ELSE journalBuffer' = buf /\ UNCHANGED sinkTxn
    /\ UNCHANGED <<stage, consumer, turn, stopAsked, halt, items, gapIds, reports, released,
                   dqWritten, ingestDb>>

\* InstrumentSink.on_candle: the candle, whose event was heard, and the
\* journal entries before it.
OnReleased ==
    /\ Processing /\ released[Now] < MaxReleased /\ released[Now] <= heard[Now]
    /\ released' = [released EXCEPT ![Now] = @ + 1]
    /\ sinkTxn' = <<[kind |-> "candle", entries |-> journalBuffer,
                     candle |-> <<Now, released[Now] + 1, made>>]>>
    /\ journalBuffer' = <<>>
    /\ UNCHANGED <<stage, consumer, turn, stopAsked, halt, items, made, gapIds, reports,
                   heard, dqWritten, ingestDb>>

\* InstrumentSink.on_gap: a gap seen first gets a row, OPEN; any other
\* status is then an update, and FILLING counts an attempt.
OnGap(status) ==
    /\ Processing /\ status \in NextStatus(reports[Now].status)
    /\ reports' = [reports EXCEPT ![Now] =
                    [status |-> status,
                     attempts |-> @.attempts + (IF status = "FILLING" THEN 1 ELSE 0)]]
    /\ sinkTxn' = <<[kind |-> "gap", entries |-> <<>>, status |-> status, new |-> gapIds[Now] = 0]>>
    /\ gapIds' = [gapIds EXCEPT ![Now] = IF @ = 0 THEN Len(ingestDb.gaps) + 1 ELSE @]
    /\ UNCHANGED <<stage, consumer, turn, stopAsked, halt, items, made, journalBuffer, released,
                   heard, dqWritten, ingestDb>>

\* write_complete_hours: hours that ended by latest and have no row yet.
DueHours(s, latest) ==
    {h \in 0..latest : (h + 1) * HourCandles <= latest /\ h \notin dqWritten[s]}

\* close_time_ns of the last candle released, its minute.
CloseMinute(s) == released[s] - 1

\* on_gap, a row that exists: the status, and one more attempt when filling.
Updated(row, status) ==
    [row EXCEPT !.status = status, !.attempts = @ + (IF status = "FILLING" THEN 1 ELSE 0)]

\* What the commit of a transaction does to the tables.
Committed(db, txn) ==
    LET d == [db EXCEPT !.journal = @ \o txn.entries] IN
    CASE txn.kind \in {"flush", "end"} -> d
      [] txn.kind = "candle" -> [d EXCEPT !.candles = @ \cup {txn.candle}]
      [] txn.kind = "hours" -> [d EXCEPT !.hours = @ \o SetToSeq({<<Now, h>> : h \in txn.hours})]
      [] txn.kind = "gap" ->
           IF txn.new
           THEN [d EXCEPT !.gaps = Append(@, [symbol |-> Now, status |-> txn.status, attempts |-> 0])]
           ELSE [d EXCEPT !.gaps[gapIds[Now]] = Updated(@, txn.status)]

\* The commit, and what the sink does after it: a candle is followed by
\* write_complete_hours, the end entry by the end of the session.
CommitSink ==
    /\ stage \in {"running", "finishing"} /\ sinkTxn # <<>>
    /\ ingestDb' = Committed(ingestDb, sinkTxn[1])
    /\ LET txn == sinkTxn[1]
           due == IF txn.kind = "candle" THEN DueHours(Now, CloseMinute(Now)) ELSE {}
       IN /\ sinkTxn' = IF due = {} THEN <<>>
                        ELSE <<[kind |-> "hours", entries |-> <<>>, hours |-> due, last |-> FALSE]>>
          /\ dqWritten' = IF txn.kind = "hours"
                          THEN [dqWritten EXCEPT ![Now] = @ \cup txn.hours] ELSE dqWritten
          /\ stage' = IF txn.kind = "end" THEN "ended" ELSE stage
          /\ turn' = IF txn.kind = "hours" /\ txn.last THEN Tail(turn) ELSE turn
    /\ UNCHANGED <<consumer, stopAsked, halt, items, made, journalBuffer, gapIds, reports,
                   heard, released>>

\* What the process knew is gone with it.
MemoryLost ==
    /\ consumer' = "done" /\ turn' = <<>> /\ halt' = TRUE /\ stopAsked' = TRUE
    /\ items' = MaxStreamItems /\ made' = 0 /\ journalBuffer' = <<>> /\ sinkTxn' = <<>>
    /\ gapIds' = [s \in Range(Symbols) |-> 0]
    /\ reports' = [s \in Range(Symbols) |-> NoReport]
    /\ heard' = [s \in Range(Symbols) |-> -1]
    /\ released' = [s \in Range(Symbols) |-> 0]
    /\ dqWritten' = [s \in Range(Symbols) |-> {}]

\* A transaction that fails, or whose outcome is not known, raises through
\* handle, the consumer, pump and run_ingest; the process may also die.
BreakOff(applied) ==
    /\ stage \in {"running", "finishing"}
    /\ applied => sinkTxn # <<>>
    /\ stage' = "failed"
    /\ ingestDb' = IF applied THEN Committed(ingestDb, sinkTxn[1]) ELSE ingestDb
    /\ MemoryLost

\* process returns for one pipeline; after the last one consume looks at
\* halt before it waits again.
HandleReturns ==
    /\ stage = "running" /\ consumer = "handling" /\ sinkTxn = <<>>
    /\ IF Len(turn) > 1 THEN turn' = Tail(turn) /\ UNCHANGED consumer
       ELSE turn' = <<>> /\ consumer' = IF halt THEN "done" ELSE "waiting"
    /\ UNCHANGED <<stage, stopAsked, halt, items, made, journalBuffer, sinkTxn, gapIds, reports,
                   released, heard, dqWritten, ingestDb>>

AskStop ==
    /\ stage = "running" /\ ~stopAsked
    /\ stopAsked' = TRUE
    /\ UNCHANGED <<stage, consumer, turn, halt, items, made, journalBuffer, sinkTxn, gapIds,
                   reports, released, heard, dqWritten, ingestDb>>

\* pump wakes: it sets halt, and cancels the consumer only while that waits
\* for an item; a consumer that is busy goes on to the end of handle.
(* Fault: the consumer is cancelled in the middle of an item too. *)
FaultyHaltPump ==
    /\ stage = "running" /\ ~halt
    /\ stopAsked \/ consumer = "done"
    /\ halt' = TRUE
    /\ consumer' = IF consumer # "done" THEN "cancelled" ELSE consumer
    /\ sinkTxn' = <<>>
    /\ UNCHANGED <<stage, turn, stopAsked, items, made, journalBuffer, gapIds, reports,
                   released, heard, dqWritten, ingestDb>>

HaltPump ==
    /\ stage = "running" /\ ~halt
    /\ stopAsked \/ consumer = "done"
    /\ halt' = TRUE
    /\ consumer' = IF consumer = "waiting" THEN "cancelled" ELSE consumer
    /\ UNCHANGED <<stage, turn, stopAsked, items, made, journalBuffer, sinkTxn, gapIds, reports,
                   released, heard, dqWritten, ingestDb>>

\* pump returns and the pipelines are finished one after the other.
PumpReturns ==
    /\ stage = "running" /\ halt /\ consumer \in {"done", "cancelled"}
    /\ stage' = "finishing"
    /\ turn' = Symbols
    /\ UNCHANGED <<consumer, stopAsked, halt, items, made, journalBuffer, sinkTxn, gapIds,
                   reports, released, heard, dqWritten, ingestDb>>

\* finish has returned: the hours complete by the newest event are written.
PipelineFinished ==
    /\ stage = "finishing" /\ turn # <<>> /\ sinkTxn = <<>>
    /\ LET due == DueHours(Now, heard[Now]) IN
       IF due = {} THEN turn' = Tail(turn) /\ UNCHANGED sinkTxn
       ELSE /\ sinkTxn' = <<[kind |-> "hours", entries |-> <<>>, hours |-> due, last |-> TRUE]>>
            /\ UNCHANGED turn
    /\ UNCHANGED <<stage, consumer, stopAsked, halt, items, made, journalBuffer, gapIds, reports,
                   released, heard, dqWritten, ingestDb>>

\* ingest.end is appended and flushed with whatever the buffer holds.
EndIngest ==
    /\ stage = "finishing" /\ turn = <<>> /\ sinkTxn = <<>>
    /\ made' = made + 1
    /\ sinkTxn' = <<[kind |-> "end", entries |-> Append(journalBuffer, made + 1)]>>
    /\ journalBuffer' = <<>>
    /\ UNCHANGED <<stage, consumer, turn, stopAsked, halt, items, gapIds, reports, released,
                   heard, dqWritten, ingestDb>>

IngestSessionNext ==
    \/ \E known \in BOOLEAN : StartIngest(known)
    \/ \E route \in Routes : TakeItem(route)
    \/ StreamEnds
    \/ OnEvent
    \/ OnReleased
    \/ \E status \in {"OPEN", "FILLING"} \cup Terminal : OnGap(status)
    \/ CommitSink
    \/ \E applied \in BOOLEAN : BreakOff(applied)
    \/ HandleReturns
    \/ AskStop
    \/ HaltPump
    \/ PumpReturns
    \/ PipelineFinished
    \/ EndIngest

IngestSessionSpec == IngestSessionInit /\ [][IngestSessionNext]_insVars

-----------------------------------------------------------------------------
Carried == IF sinkTxn = <<>> THEN <<>> ELSE sinkTxn[1].entries
Numbers(n) == [i \in 1..n |-> i]

\* The stored journal is a prefix of the journal, and while the session
\* lives no entry is anywhere but in the table, the transaction or the
\* buffer.
JournalIsWhole ==
    /\ ingestDb.journal = Numbers(Len(ingestDb.journal))
    /\ stage # "failed" => ingestDb.journal \o Carried \o journalBuffer = Numbers(made)
    /\ stage = "ended" => Len(ingestDb.journal) = made

\* A candle is never stored without the entries that led to it, and a
\* session that lives or has ended has stored every candle it released.
CandlesFollowJournal ==
    /\ \A c \in ingestDb.candles : c[3] <= Len(ingestDb.journal)
    /\ stage \notin {"failed", "open"} =>
         \A s \in Range(Symbols) : \A k \in 1..released[s] :
             \/ \E c \in ingestDb.candles : c[1] = s /\ c[2] = k
             \/ sinkTxn # <<>> /\ sinkTxn[1].kind = "candle" /\ s = Now /\ k = released[s]

\* A gap has one row, which says what the pipeline said last.
GapsFollowReports ==
    /\ \A i, j \in DOMAIN ingestDb.gaps :
         ingestDb.gaps[i].symbol = ingestDb.gaps[j].symbol => i = j
    /\ stage # "failed" /\ sinkTxn = <<>> =>
         \A s \in Range(Symbols) : reports[s] # NoReport =>
             ingestDb.gaps[gapIds[s]] =
                 [symbol |-> s, status |-> reports[s].status, attempts |-> reports[s].attempts]

\* An hour has one quality row, and only once it is over.  It has it as soon
\* as a candle from after the hour is stored, and every hour that is over has
\* it when its pipeline has finished.
HoursAreScored ==
    /\ \A i, j \in DOMAIN ingestDb.hours : ingestDb.hours[i] = ingestDb.hours[j] => i = j
    /\ stage # "failed" =>
         \A s \in Range(Symbols), h \in 0..MaxEntries :
             /\ <<s, h>> \in Range(ingestDb.hours) => (h + 1) * HourCandles <= heard[s]
             /\ sinkTxn = <<>> /\ (h + 1) * HourCandles < released[s] => <<s, h>> \in Range(ingestDb.hours)
             /\ stage \in {"finishing", "ended"} /\ s \notin Range(turn) /\ (h + 1) * HourCandles <= heard[s] =>
                   <<s, h>> \in Range(ingestDb.hours)

\* run_ingest: whenever it is stopped, fails or dies, the stored journal is
\* a gapless prefix whose ingest.end comes after everything, candles and
\* the entries before them are stored together, every gap has one true row
\* and every hour that is over one quality row.
SessionIsRecorded ==
    JournalIsWhole /\ CandlesFollowJournal /\ GapsFollowReports /\ HoursAreScored
=============================================================================

--------------------------- MODULE TradingSession ---------------------------
(***************************************************************************)
(* One run of the trading worker: closed candles in, steps of the trading  *)
(* loop, commands between bars, and everything written to the database in  *)
(* one transaction per step.                                               *)
(*                                                                         *)
(* Source: workers/trading_worker.py (TradingSession, DbSink, run_worker), *)
(* workers/persist.py (LivePersister), core/journal.py,                    *)
(* storage/repositories/journal.py, run.py, position.py.                   *)
(*                                                                         *)
(* A bar is its distance in minutes from the end of the warm-up.  Candles  *)
(* arrive in ascending order, each once, which IngestPipeline shows.  The  *)
(* hash chain is the sequence of its entries: a chain verifies exactly     *)
(* when it is a prefix of what was appended.  The trading loop is          *)
(* arbitrary: a step may open, close or turn the position and may halt.    *)
(* Rows other than the journal, the run, positions, bars and releases are  *)
(* written in the same transactions.                                       *)
(***************************************************************************)
EXTENDS Integers, FiniteSets, SequencesExt

CONSTANTS
    MaxBar,       \* BOUND: last minute of the feed
    MaxCommands   \* BOUND: commands of one run

ASSUME SessionAssumption == MaxBar \in Nat /\ MaxCommands \in Nat

VARIABLES
    pc,        \* "new", "idle", "poll", "commands", "gap", "fill", "step", "failing", "ended"
    cur,       \* candle being handled
    seen,      \* last candle the pipeline delivered
    todo,      \* fetched bars still to be stepped
    nextOpen,  \* _next_open
    queue,     \* commands polled and not yet applied
    issued,    \* commands issued so far
    log,       \* EventJournal: every entry appended
    handed,    \* entries given to the sink; the rest is _jbuf
    mem,       \* what the loop did: bars, releases, held position, halted
    rows,      \* LivePersister._positions
    db,        \* committed: journal, run, head, bars, releases, open positions
    error,     \* an exception ended the run
    lost       \* nobody closed the run: the process was killed, or its first or last write failed

vars == <<pc, cur, seen, todo, nextOpen, queue, issued, log, handed, mem, rows, db, error, lost>>

None == -2   \* before every bar
(* A release by an administrator of this run, one by another role, one for another
   run, and the notice of changed limits. *)
Commands == {"release", "denied", "foreign", "limits"}

Entry(kind, lo, hi) == [kind |-> kind, lo |-> lo, hi |-> hi]

-----------------------------------------------------------------------------
(* session_scope commits all of a transaction or none of it; when the connection
   breaks during the COMMIT the worker gets an exception either way.  new is the
   database as it would be. *)
Transaction(new, next) ==
    \/ db' = new /\ pc' = next /\ error' = error
    \/ db' \in {db, new} /\ pc' = "failing" /\ error' = TRUE

(* _take_journal: what was appended to l since the last call. *)
Buffered(l) == SubSeq(l, handed + 1, Len(l))

(* on_start of the sink: the run and the first entry, in one transaction. *)
Started(l) == [db EXCEPT !.run = "RUNNING", !.journal = l]

(* begin, then warm_up, which sets _next_open.  Neither is inside the try of
   run_worker: a failure leaves the run as the database has it. *)
Begin ==
    /\ pc = "new"
    /\ log' = <<Entry("start", 0, 0)>> /\ handed' = 1
    /\ \E new \in {Started(log')} :
          \/ db' = new /\ pc' = "idle" /\ UNCHANGED <<error, lost>>
          \/ db' \in {db, new} /\ pc' = "ended" /\ error' = TRUE /\ lost' = TRUE
    /\ UNCHANGED <<cur, seen, todo, nextOpen, queue, issued, mem, rows>>

(* run hands the candles to on_candle. *)
OnCandle(c) ==
    /\ pc = "idle" /\ c > seen
    /\ cur' = c /\ seen' = c /\ pc' = "poll"
    /\ UNCHANGED <<todo, nextOpen, queue, issued, log, handed, mem, rows, db, error, lost>>

(* _linger: the feed is over and commands are still polled. *)
Linger ==
    /\ pc = "idle"
    /\ cur' = None /\ seen' = MaxBar /\ pc' = "poll"
    /\ UNCHANGED <<todo, nextOpen, queue, issued, log, handed, mem, rows, db, error, lost>>

(* process_commands: one poll of the control channel. *)
Poll(cmds) ==
    /\ pc = "poll" /\ pc' = "commands"
    /\ queue' = queue \o cmds /\ issued' = issued + Len(cmds)
    /\ UNCHANGED <<cur, seen, todo, nextOpen, log, handed, mem, rows, db, error, lost>>

(* apply, apply_release: the journal gets the attempt, the loop opens the latch for
   an administrator, and on_out_of_band writes both. *)
ApplyRelease(kind) ==
    LET opened == kind = "release" /\ mem.halted
        done   == IF opened THEN [mem EXCEPT !.halted = FALSE, !.releases = @ + 1] ELSE mem
    IN  /\ log' = Append(log, Entry(kind, 0, 0)) /\ handed' = Len(log')
        /\ mem' = done
        /\ Transaction([db EXCEPT !.journal = @ \o Buffered(log'), !.releases = done.releases],
                       "commands")

(* reload_limits_if_changed: a file that changed since the last look is journalled,
   adopted or rejected, and the entry stays in the buffer. *)
Reloaded(changed) == IF changed THEN Append(log, Entry("limits", 0, 0)) ELSE log

ReloadLimits(changed) ==
    /\ log' = Reloaded(changed)
    /\ UNCHANGED <<handed, mem, db, pc, error>>

Apply(changed) ==
    /\ pc = "commands" /\ queue # <<>>
    /\ queue' = Tail(queue)
    /\ \/ Head(queue) \in {"release", "denied"} /\ ApplyRelease(Head(queue))
       \/ Head(queue) = "limits" /\ ReloadLimits(changed)
       \/ Head(queue) = "foreign" /\ UNCHANGED <<log, handed, mem, db, pc, error>>
    /\ UNCHANGED <<cur, seen, todo, nextOpen, issued, rows, lost>>

AfterCommands ==
    IF cur = None \/ cur < nextOpen THEN "idle" ELSE IF cur > nextOpen THEN "gap" ELSE "step"

Proceed ==
    /\ pc = "commands" /\ queue = <<>>
    /\ pc' = AfterCommands
    /\ UNCHANGED <<cur, seen, todo, nextOpen, queue, issued, log, handed, mem, rows, db, error, lost>>

-----------------------------------------------------------------------------
(* _fill_discontinuity. *)

(* What the history may return of the missing bars: the recorded rows or REST. *)
Histories == SUBSET (nextOpen..(cur - 1))

(* The fetched bars that follow on each other from _next_open, in their order. *)
Usable(got) ==
    [k \in 1..Cardinality({b \in got : nextOpen..b \subseteq got}) |-> nextOpen + k - 1]

Fetch(got) ==
    /\ pc = "gap"
    /\ todo' = Usable(got) /\ pc' = "fill"
    /\ UNCHANGED <<cur, seen, nextOpen, queue, issued, log, handed, mem, rows, db, error, lost>>

Hole == IF nextOpen < cur THEN Append(log, Entry("gap", nextOpen, cur - 1)) ELSE log

Filled ==
    /\ pc = "fill" /\ todo = <<>>
    /\ log' = Hole /\ pc' = "step"
    /\ UNCHANGED <<cur, seen, todo, nextOpen, queue, issued, handed, mem, rows, db, error, lost>>

(* What a step does to the position: opened and closed list its records, named by
   the bar that opened them. *)
Effects(b) ==
    LET held == {mem.held} \ {None}
    IN  {[opened |-> {}, closed |-> {}], [opened |-> {}, closed |-> held],
         [opened |-> {b}, closed |-> held], [opened |-> {b}, closed |-> held \cup {b}]}

HeldAfter(e) ==
    LET left == ({mem.held} \cup e.opened) \ (e.closed \cup {None})
    IN  IF left = {} THEN None ELSE CHOOSE p \in left : TRUE

(* Fault: positions are closed before the new ones are written. *)
FaultyPersist(d, e) == [d EXCEPT !.open = (@ \ (e.closed \cap rows)) \cup e.opened]

(* write_step: opened positions get a row, then those known to the persister and
   closed in this step lose theirs. *)
Persist(d, e) == [d EXCEPT !.open = (@ \cup e.opened) \ (e.closed \cap (rows \cup e.opened))]

(* _step: limits, journal, the loop, _next_open, and on_step. *)
StepBar(b, next, e, halts, changed) ==
    /\ log' = Append(Reloaded(changed), Entry("candle", b, b)) /\ handed' = Len(log')
    /\ mem' = [mem EXCEPT !.bars = Append(@, b), !.held = HeldAfter(e), !.halted = @ \/ halts]
    /\ nextOpen' = b + 1
    /\ rows' = (rows \cup e.opened) \ e.closed
    /\ Transaction(Persist([db EXCEPT !.journal = @ \o Buffered(log'), !.bars = Append(@, b)], e),
                   next)

StepFetched(e, halts, changed) ==
    /\ pc = "fill" /\ todo # <<>>
    /\ StepBar(Head(todo), "fill", e, halts, changed)
    /\ todo' = Tail(todo)
    /\ UNCHANGED <<cur, seen, queue, issued, lost>>

StepCandle(e, halts, changed) ==
    /\ pc = "step"
    /\ StepBar(cur, "idle", e, halts, changed)
    /\ UNCHANGED <<cur, seen, todo, queue, issued, lost>>

(* The feed, the command poll, the fetch or the loop raises. *)
Raise ==
    /\ pc \in {"idle", "poll", "commands", "gap", "fill", "step"}
    /\ pc' = "failing" /\ error' = TRUE
    /\ UNCHANGED <<cur, seen, todo, nextOpen, queue, issued, log, handed, mem, rows, db, lost>>

-----------------------------------------------------------------------------
(* finish. *)

Ended == Append(log, Entry("end", 0, 0))

(* RunRepo.finish: the status and, where one is given, the head of the journal. *)
RunFinished(status, head) == [db EXCEPT !.run = status, !.head = head]

(* on_finish, in one transaction: the entries not yet written and the run. *)
DoneRun(l) == [RunFinished("DONE", Len(l)) EXCEPT !.journal = @ \o Buffered(l)]

(* Fault: the end of a failed run is appended to the stored journal. *)
FaultyFailedRun(l) == [db EXCEPT !.run = "FAILED", !.journal = @ \o Buffered(l)]

(* A failed run gets neither its journal nor its head. *)
FailedRun(l) == RunFinished("FAILED", db.head)

Finish ==
    /\ pc = "idle"
    /\ log' = Ended /\ handed' = Len(log')
    /\ Transaction(DoneRun(log'), "ended")
    /\ UNCHANGED <<cur, seen, todo, nextOpen, queue, issued, mem, rows, lost>>

FinishFailed ==
    /\ pc = "failing"
    /\ log' = Ended /\ handed' = Len(log') /\ pc' = "ended"
    /\ \/ db' = FailedRun(log') /\ UNCHANGED lost
       \/ UNCHANGED db /\ lost' = TRUE
    /\ UNCHANGED <<cur, seen, todo, nextOpen, queue, issued, mem, rows, error>>

Crash ==
    /\ pc \notin {"new", "ended"}
    /\ pc' = "ended" /\ lost' = TRUE
    /\ UNCHANGED <<cur, seen, todo, nextOpen, queue, issued, log, handed, mem, rows, db, error>>

Init ==
    /\ pc = "new" /\ cur = None /\ seen = None /\ todo = <<>> /\ nextOpen = 0
    /\ queue = <<>> /\ issued = 0 /\ log = <<>> /\ handed = 0
    /\ mem = [bars |-> <<>>, releases |-> 0, held |-> None, halted |-> FALSE]
    /\ rows = {} /\ error = FALSE /\ lost = FALSE
    /\ db = [journal |-> <<>>, run |-> "none", head |-> 0, bars |-> <<>>, releases |-> 0,
             open |-> {}]

Next ==
    \/ Begin \/ Linger \/ Proceed \/ Filled \/ Raise \/ Finish \/ FinishFailed \/ Crash
    \/ \E c \in -1..MaxBar : OnCandle(c)
    \/ \E cmds \in BoundedSeq(Commands, MaxCommands - issued) : Poll(cmds)
    \/ \E changed \in BOOLEAN : Apply(changed)
    \/ \E got \in Histories : Fetch(got)
    \/ todo # <<>> /\ \E halts, changed \in BOOLEAN, e \in Effects(Head(todo)) :
                          StepFetched(e, halts, changed)
    \/ \E halts, changed \in BOOLEAN, e \in Effects(cur) : StepCandle(e, halts, changed)

Spec == Init /\ [][Next]_vars

-----------------------------------------------------------------------------
(* The stored journal is always a chain that verifies: a prefix of what was
   appended, without a hole, whichever transaction failed, committed unnoticed or
   was rolled back, and whatever a failed run wrote afterwards (JournalRepo.verify);
   a finished run's head is the hash of the last entry stored (DbSink.on_finish). *)
ChainVerifies ==
    /\ IsPrefix(db.journal, log)
    /\ db.run = "DONE" => db.head = Len(db.journal)

(* Every minute since the warm-up is in the journal exactly once, as a candle that
   was stepped or inside one recorded discontinuity, and no minute of the warm-up is
   stepped again, whatever the overlap of the feed and whichever part of a hole the
   fetch returned (on_candle, _fill_discontinuity). *)
EveryBarAccounted ==
    \A b \in -1..(nextOpen - 1) :
        Cardinality({i \in DOMAIN log : /\ log[i].kind \in {"candle", "gap"}
                                        /\ b \in log[i].lo..log[i].hi})
          = (IF b < 0 THEN 0 ELSE 1)

(* Whenever the session waits for the next candle the database holds all it did:
   the bars it stepped, the releases it granted, and one open position exactly when
   the loop holds one (DbSink.on_step, on_out_of_band, LivePersister.write_step). *)
NothingUnsaved ==
    pc = "idle" => /\ db.bars = mem.bars
                   /\ db.releases = mem.releases
                   /\ db.open = {mem.held} \ {None}

(* A run that was started and whose process was not killed does not stay RUNNING:
   it is FAILED after an exception, also one of its own last write, and DONE
   otherwise (run_worker). *)
EndedIsClosed ==
    pc = "ended" /\ ~lost => db.run = (IF error THEN "FAILED" ELSE "DONE")

(* The database tells what the session did: every minute, every effect, and how
   the run ended. *)
RunIsRecorded == EveryBarAccounted /\ NothingUnsaved /\ EndedIsClosed
=============================================================================

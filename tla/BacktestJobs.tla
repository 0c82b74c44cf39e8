---------------------------- MODULE BacktestJobs ----------------------------
(***************************************************************************)
(* Backtests submitted over HTTP: the request's transaction, the bounded   *)
(* registry of jobs in the process, the tasks behind a semaphore, and the  *)
(* passport of each run in the database.                                   *)
(*                                                                         *)
(* Source: api/routers/backtests.py (submit_backtest), api/backtests.py    *)
(* (EngineBacktestService), api/backtest_runner.py (DbBacktestRunner),     *)
(* storage/repositories/run.py, workers/persist.py (persist_backtest).     *)
(*                                                                         *)
(* A run's identity stands for (config_hash, dataset_hash, seed, engine,   *)
(* git_sha), with git_sha known, so that the unique index applies.         *)
(* Another process may store a run of the same identity at any time.  Any  *)
(* database step may fail, the request may be refused or its COMMIT fail   *)
(* after the job was accepted, and the process may shut down or die.  A    *)
(* COMMIT takes effect in the database before the task hears of it: in     *)
(* between, the task may be cancelled or lose its connection.              *)
(***************************************************************************)
EXTENDS Integers, FiniteSets

CONSTANTS
    MaxBacktests,         \* BOUND: requests
    Identities,      \* identities of runs
    MaxPending,      \* max_pending
    MaxConcurrent,   \* max_concurrent
    MaxJobs          \* max_jobs

ASSUME JobsAssumption ==
    /\ MaxBacktests \in Nat /\ "none" \notin Identities /\ MaxPending \in Nat \ {0}
    /\ MaxConcurrent \in Nat \ {0} /\ MaxJobs \in Nat \ {0}

VARIABLES
    bjUp,       \* the API process runs
    bjReq,      \* per run: the request, from "none" to its outcome
    bjTask,     \* per run: what its task is at
    bjStatus,   \* per run: BacktestJob.status
    bjJobs,     \* _jobs: the registered runs, the oldest the one with the least number
    bjRow,      \* per run: the row of table run: its identity and status
    bjStored,   \* runs whose results are in the database
    bjLost,     \* history: runs whose row nobody is left to finish
    bjLate      \* history: runs that failed or were cancelled after the COMMIT of their results

bjVars == <<bjUp, bjReq, bjTask, bjStatus, bjJobs, bjRow, bjStored, bjLost, bjLate>>

Backtests == 1..MaxBacktests
NoRow == [identity |-> "none", status |-> "none"]
Unfinished == {"PENDING", "RUNNING"}
InTry == {"engine", "persist", "persisted", "fail", "failCancelled"}
InRunner == {"prepare", "passport", "committed"} \cup InTry

JobsInit ==
    /\ bjUp = TRUE
    /\ bjReq = [r \in Backtests |-> [pc |-> "none", identity |-> "none"]]
    /\ bjTask = [r \in Backtests |-> "none"]
    /\ bjStatus = [r \in Backtests |-> "none"]
    /\ bjJobs = {}
    /\ bjRow = [r \in Backtests |-> NoRow]
    /\ bjStored = {} /\ bjLost = {} /\ bjLate = {}

UnfinishedJobs == {r \in bjJobs : bjStatus[r] \in Unfinished}

(* _evict: the oldest finished jobs go until the registry fits; with none  *)
(* to evict it stays too long.                                             *)
Evicted(jobs) ==
    LET over == Cardinality(jobs) - MaxJobs
        finished == {r \in jobs : bjStatus[r] \in {"DONE", "FAILED"}}
    IN jobs \ {r \in finished : Cardinality({q \in finished : q < r}) < over}

(* submit_backtest up to the end of its transaction: a full queue refuses  *)
(* the request and rolls back, otherwise the job is registered and its     *)
(* task created while the COMMIT of the audit row is still to come.        *)
SubmitJob(r) ==
    /\ bjUp /\ bjReq[r].pc = "none" /\ \A q \in Backtests : q < r => bjReq[q].pc # "none"
    /\ \E id \in Identities :
         IF Cardinality(UnfinishedJobs) >= MaxPending
           THEN /\ bjReq' = [bjReq EXCEPT ![r] = [pc |-> "refused", identity |-> id]]
                /\ UNCHANGED <<bjTask, bjStatus, bjJobs>>
           ELSE /\ bjReq' = [bjReq EXCEPT ![r] = [pc |-> "open", identity |-> id]]
                /\ bjStatus' = [bjStatus EXCEPT ![r] = "PENDING"]
                /\ bjTask' = [bjTask EXCEPT ![r] = "queued"]
                /\ bjJobs' = Evicted(bjJobs \cup {r})
    /\ UNCHANGED <<bjUp, bjRow, bjStored, bjLost, bjLate>>

CommitJob(r) ==
    /\ bjUp /\ bjReq[r].pc = "open"
    /\ bjReq' = [bjReq EXCEPT ![r].pc = "accepted"]
    /\ UNCHANGED <<bjUp, bjTask, bjStatus, bjJobs, bjRow, bjStored, bjLost, bjLate>>

(* Fault: a cancelled run is not written as FAILED. *)
FaultyCancelledTask(pc) == "over"

(* What cancel() makes of a task.  One that still waits for the semaphore  *)
(* ends outside the try of _execute and keeps its status; one inside the   *)
(* try of the runner first writes the failure, shielded; any other, one    *)
(* that is already writing its failure among them, ends at once.           *)
CancelledTask(pc) ==
    IF pc \in {"engine", "persist", "persisted"} THEN "failCancelled" ELSE "over"

CancelledStatus(pc, status) ==
    IF pc \in {"prepare", "passport", "committed", "fail"} THEN "FAILED" ELSE status

(* The COMMIT fails: the task is cancelled if it still runs. *)
CommitJobFails(r) ==
    /\ bjUp /\ bjReq[r].pc = "open"
    /\ bjReq' = [bjReq EXCEPT ![r].pc = "failed"]
    /\ bjTask' = [bjTask EXCEPT ![r] = CancelledTask(@)]
    /\ bjStatus' = [bjStatus EXCEPT ![r] = CancelledStatus(bjTask[r], @)]
    /\ bjLost' = bjLost \cup {q \in {r} : bjTask[q] \in {"committed", "fail"} /\ bjRow[q].status = "RUNNING"}
    /\ bjLate' = bjLate \cup {q \in {r} : bjTask[q] = "persisted"}
    /\ UNCHANGED <<bjUp, bjJobs, bjRow, bjStored>>

Running == {r \in Backtests : bjTask[r] \in InRunner}

(* _execute: the semaphore is free for the first that waits; the tasks     *)
(* were created, and wait, in the order of their numbers.                  *)
StartJob(r) ==
    /\ bjUp /\ bjTask[r] = "queued" /\ \A q \in Backtests : q < r => bjTask[q] # "queued"
    /\ Cardinality(Running) < MaxConcurrent
    /\ bjTask' = [bjTask EXCEPT ![r] = "prepare"]
    /\ bjStatus' = [bjStatus EXCEPT ![r] = "RUNNING"]
    /\ UNCHANGED <<bjUp, bjReq, bjJobs, bjRow, bjStored, bjLost, bjLate>>

Ends(r, status) ==
    /\ bjTask' = [bjTask EXCEPT ![r] = "over"]
    /\ bjStatus' = [bjStatus EXCEPT ![r] = status]

(* prepare_backtest: the reads, and the hash; no instrument, no strategy   *)
(* or no closed candle ends the job.                                       *)
Prepare(r) ==
    /\ bjUp /\ bjTask[r] = "prepare"
    /\ \/ bjTask' = [bjTask EXCEPT ![r] = "passport"] /\ UNCHANGED bjStatus
       \/ Ends(r, "FAILED")
    /\ UNCHANGED <<bjUp, bjReq, bjJobs, bjRow, bjStored, bjLost, bjLate>>

Identical(id) == {r \in Backtests : bjRow[r].identity = id}

(* RunRepo.create_from_manifest. *)
RunningRow(id) == [identity |-> id, status |-> "RUNNING"]

(* The passport, status RUNNING, is committed.  An identical run, of       *)
(* whatever status, or the unique index, or the database, ends the job     *)
(* before it has a row.                                                    *)
Passport(r) ==
    /\ bjUp /\ bjTask[r] = "passport"
    /\ \/ /\ Identical(bjReq[r].identity) = {}
          /\ bjRow' = [bjRow EXCEPT ![r] = RunningRow(bjReq[r].identity)]
          /\ bjTask' = [bjTask EXCEPT ![r] = "committed"]
          /\ UNCHANGED bjStatus
       \/ Ends(r, "FAILED") /\ UNCHANGED bjRow
    /\ UNCHANGED <<bjUp, bjReq, bjJobs, bjStored, bjLost, bjLate>>

(* The runner hears of the COMMIT and enters its try, or does not: then    *)
(* the job fails outside of it, and nobody will finish the row.            *)
EnterTry(r) ==
    /\ bjUp /\ bjTask[r] = "committed"
    /\ \/ bjTask' = [bjTask EXCEPT ![r] = "engine"] /\ UNCHANGED <<bjStatus, bjLost>>
       \/ Ends(r, "FAILED") /\ bjLost' = bjLost \cup {r}
    /\ UNCHANGED <<bjUp, bjReq, bjJobs, bjRow, bjStored, bjLate>>

(* The engine, in a thread. *)
RunEngine(r) ==
    /\ bjUp /\ bjTask[r] = "engine"
    /\ \E pc \in {"persist", "fail"} : bjTask' = [bjTask EXCEPT ![r] = pc]
    /\ UNCHANGED <<bjUp, bjReq, bjStatus, bjJobs, bjRow, bjStored, bjLost, bjLate>>

(* persist_backtest and finish in one transaction, up to its COMMIT. *)
Persist(r) ==
    /\ bjUp /\ bjTask[r] = "persist"
    /\ \/ /\ bjStored' = bjStored \cup {r}
          /\ bjRow' = [bjRow EXCEPT ![r].status = "DONE"]
          /\ bjTask' = [bjTask EXCEPT ![r] = "persisted"]
       \/ /\ bjTask' = [bjTask EXCEPT ![r] = "fail"]
          /\ UNCHANGED <<bjRow, bjStored>>
    /\ UNCHANGED <<bjUp, bjReq, bjStatus, bjJobs, bjLost, bjLate>>

(* The runner hears of the COMMIT and leaves its try, or fails in it. *)
LeaveTry(r) ==
    /\ bjUp /\ bjTask[r] = "persisted"
    /\ \/ Ends(r, "DONE") /\ UNCHANGED bjLate
       \/ /\ bjTask' = [bjTask EXCEPT ![r] = "fail"] /\ bjLate' = bjLate \cup {r}
          /\ UNCHANGED bjStatus
    /\ UNCHANGED <<bjUp, bjReq, bjJobs, bjRow, bjStored, bjLost>>

(* _fail, whose own error is suppressed, and the end of the job.  finish   *)
(* does not ask for the status the row has.                                *)
WriteFailure(r) ==
    /\ bjUp /\ bjTask[r] \in {"fail", "failCancelled"}
    /\ \/ bjRow' = [bjRow EXCEPT ![r].status = "FAILED"] /\ UNCHANGED bjLost
       \/ /\ bjLost' = bjLost \cup {q \in {r} : bjRow[q].status = "RUNNING"}
          /\ UNCHANGED bjRow
    /\ Ends(r, "FAILED")
    /\ UNCHANGED <<bjUp, bjReq, bjJobs, bjStored, bjLate>>

(* aclose cancels every task and waits for it.  A task inside the try      *)
(* writes its failure, unless the database refuses or it was already       *)
(* writing one, which the cancel ends.  Then the process is gone.          *)
Shutdown ==
    /\ bjUp
    /\ bjUp' = FALSE
    /\ bjTask' = [r \in Backtests |-> IF bjTask[r] = "none" THEN "none" ELSE "over"]
    /\ \E written \in SUBSET {r \in Backtests : bjTask[r] \in InTry} :
          /\ bjRow' = [r \in Backtests |-> IF r \in written THEN [bjRow[r] EXCEPT !.status = "FAILED"] ELSE bjRow[r]]
          /\ bjLost' = bjLost \cup {r \in Backtests \ written :
                                      bjTask[r] \in InTry \cup {"committed"} /\ bjRow[r].status = "RUNNING"}
    /\ bjLate' = bjLate \cup {r \in Backtests : bjTask[r] = "persisted"}
    /\ bjReq' = [r \in Backtests |-> IF bjReq[r].pc = "open" THEN [bjReq[r] EXCEPT !.pc = "failed"] ELSE bjReq[r]]
    /\ bjStatus' = [r \in Backtests |-> "none"] /\ bjJobs' = {}
    /\ UNCHANGED bjStored

(* The process dies: a row that was RUNNING stays so. *)
ProcessDies ==
    /\ bjUp
    /\ bjUp' = FALSE
    /\ bjTask' = [r \in Backtests |-> IF bjTask[r] = "none" THEN "none" ELSE "over"]
    /\ bjLost' = bjLost \cup {r \in Backtests : bjRow[r].status = "RUNNING"}
    /\ bjReq' = [r \in Backtests |-> IF bjReq[r].pc = "open" THEN [bjReq[r] EXCEPT !.pc = "failed"] ELSE bjReq[r]]
    /\ bjStatus' = [r \in Backtests |-> "none"] /\ bjJobs' = {}
    /\ UNCHANGED <<bjRow, bjStored, bjLate>>

RestartProcess ==
    /\ ~bjUp /\ bjUp' = TRUE
    /\ UNCHANGED <<bjReq, bjTask, bjStatus, bjJobs, bjRow, bjStored, bjLost, bjLate>>

(* Another process stores a run under an id the API has not given out. *)
StoredElsewhere ==
    \E r \in Backtests, id \in Identities :
        /\ bjReq[r].pc = "none" /\ r = MaxBacktests /\ Identical(id) = {}
        /\ bjReq' = [bjReq EXCEPT ![r].pc = "elsewhere"]
        /\ bjRow' = [bjRow EXCEPT ![r] = [identity |-> id, status |-> "DONE"]]
        /\ bjStored' = bjStored \cup {r}
        /\ UNCHANGED <<bjUp, bjTask, bjStatus, bjJobs, bjLost, bjLate>>

RunnerStep(r) ==
    \/ StartJob(r) \/ Prepare(r) \/ Passport(r) \/ EnterTry(r) \/ RunEngine(r) \/ Persist(r)
    \/ LeaveTry(r) \/ WriteFailure(r)

JobsNext ==
    \/ Shutdown \/ ProcessDies \/ RestartProcess \/ StoredElsewhere
    \/ \E r \in Backtests : SubmitJob(r) \/ CommitJob(r) \/ CommitJobFails(r) \/ RunnerStep(r)

JobsSpec == JobsInit /\ [][JobsNext]_bjVars

(* The loop runs ready tasks, the thread of the engine ends, and the       *)
(* database answers one way or the other.                                  *)
JobsFairness == \A r \in Backtests : WF_bjVars(RunnerStep(r))

-----------------------------------------------------------------------------
(* The table tells the truth about a run.  A row is DONE only with all its *)
(* results, and a job that reports DONE has such a row; results under a    *)
(* row that is not DONE belong to a job that was cancelled or failed after *)
(* their COMMIT.  A row that says RUNNING has a task behind it, unless the *)
(* process died, the task ended between the COMMIT of the row and the try, *)
(* or the failure could not be written: a request that is cancelled during *)
(* the engine or the writing of the results leaves no row that runs for    *)
(* ever.                                                                   *)
RowTellsTheTruth ==
    \A r \in Backtests :
        /\ bjRow[r].status = "DONE" => r \in bjStored
        /\ r \in bjStored => bjRow[r].status = "DONE" \/ r \in bjLate
        /\ bjStatus[r] = "DONE" => bjRow[r].status = "DONE" /\ r \notin bjLate
        /\ r \in bjLate => r \in bjStored /\ bjRow[r].status \in {"DONE", "FAILED"}
        /\ bjRow[r].status = "RUNNING" => bjTask[r] \in InRunner \/ r \in bjLost

(* No two runs of one identity are stored, and at most max_concurrent      *)
(* backtests run at a time, with no more than max_pending unfinished.      *)
JobsAreBounded ==
    /\ \A r, q \in Backtests : r # q /\ bjRow[r] # NoRow => bjRow[r].identity # bjRow[q].identity
    /\ Cardinality(Running) <= MaxConcurrent
    /\ Cardinality({r \in Backtests : bjTask[r] \notin {"none", "over"}}) <= MaxPending

(* A job that was accepted ends, DONE or FAILED, or the process does. *)
JobEnds ==
    \A r \in Backtests :
        bjReq[r].pc = "accepted" /\ bjStatus[r] \in Unfinished
            ~> bjStatus[r] \in {"DONE", "FAILED"} \/ ~bjUp

(* The table and the queue of jobs are right: true rows, bounded work. *)
JobsAreSound == RowTellsTheTruth /\ JobsAreBounded

=============================================================================

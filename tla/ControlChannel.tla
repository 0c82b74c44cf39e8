--------------------------- MODULE ControlChannel ---------------------------
(***************************************************************************)
(* Release commands from the API to the trading worker.  A request is a row *)
(* of audit_log, inserted in a transaction of the API; the worker polls the *)
(* newest rows between bars and applies those with an id above the last one *)
(* it has seen.  Ids are drawn at insertion, rows appear at COMMIT.         *)
(*                                                                         *)
(* Source: workers/trading_worker.py (ControlChannel, process_commands,    *)
(* apply, run_worker), api/routers/risk.py (release_killswitch),           *)
(* api/services.py (resolve_live_run), storage/repositories/audit.py.      *)
(*                                                                         *)
(* NOTIFY only wakes the worker earlier; a poll may come at any time here. *)
(***************************************************************************)
EXTENDS Naturals, Sequences, FiniteSets

CONSTANTS
    MaxRequests,  \* release requests made
    MaxRuns,      \* worker sessions started
    PollLimit     \* rows one poll reads (50 in the code)

ASSUME ChannelAssumption ==
    MaxRequests \in Nat /\ MaxRuns \in Nat /\ PollLimit \in Nat \ {0}

VARIABLES
    ccRows,     \* audit_log: id -> the run addressed (0: any), the transaction, the run
                \* that was starting or running at COMMIT (0: none)
    ccLog,      \* ids in the order of their COMMIT
    ccAdmin,    \* the requester's role in app_user now
    ccWorker,   \* "off", "listening" (ControlChannel.start done), "running" (run row exists)
    ccRun,      \* number of the current or last session
    ccCreated,  \* number of the newest session with a run row
    ccLast,     \* last_audit_id
    ccQueue,    \* commands polled and not yet applied: [id, admin]
    ccApplied   \* commands that reached apply_release: [id, run, outcome]

ccVars == <<ccRows, ccLog, ccAdmin, ccWorker, ccRun, ccCreated, ccLast, ccQueue, ccApplied>>

RequestIds == DOMAIN ccRows
CommittedRequests == {i \in RequestIds : ccRows[i].tx = "committed"}

MaxOf(S) == IF S = {} THEN 0 ELSE CHOOSE x \in S : \A y \in S : y <= x

-----------------------------------------------------------------------------
(* The API. *)

(* release_killswitch up to the insertion: an explicit run, or the newest live run,
   or none when there has never been one. *)
RequestRelease ==
    /\ Len(ccRows) < MaxRequests
    /\ \E target \in IF ccCreated = 0 THEN {0} ELSE 1..ccCreated :
          ccRows' = Append(ccRows, [run |-> target, tx |-> "open", at |-> 0])
    /\ UNCHANGED <<ccLog, ccAdmin, ccWorker, ccRun, ccCreated, ccLast, ccQueue, ccApplied>>

CommitRequest(i) ==
    /\ ccRows[i].tx = "open"
    /\ ccRows' = [ccRows EXCEPT ![i].tx = "committed", ![i].at = IF ccWorker = "off" THEN 0 ELSE ccRun]
    /\ ccLog' = Append(ccLog, i)
    /\ UNCHANGED <<ccAdmin, ccWorker, ccRun, ccCreated, ccLast, ccQueue, ccApplied>>

RollbackRequest(i) ==
    /\ ccRows[i].tx = "open"
    /\ ccRows' = [ccRows EXCEPT ![i].tx = "aborted"]
    /\ UNCHANGED <<ccLog, ccAdmin, ccWorker, ccRun, ccCreated, ccLast, ccQueue, ccApplied>>

(* The requester loses the admin role. *)
DemoteRequester ==
    /\ ccAdmin /\ ccAdmin' = FALSE
    /\ UNCHANGED <<ccRows, ccLog, ccWorker, ccRun, ccCreated, ccLast, ccQueue, ccApplied>>

-----------------------------------------------------------------------------
(* The worker. *)

(* Fault: nothing counts as seen. *)
FaultyStartChannel ==
    /\ ccWorker = "off" /\ ccRun < MaxRuns
    /\ ccWorker' = "listening" /\ ccRun' = ccRun + 1 /\ ccLast' = 0
    /\ UNCHANGED <<ccRows, ccLog, ccAdmin, ccCreated, ccQueue, ccApplied>>

(* ControlChannel.start: everything recorded so far counts as seen. *)
StartChannel ==
    /\ ccWorker = "off" /\ ccRun < MaxRuns
    /\ ccWorker' = "listening" /\ ccRun' = ccRun + 1
    /\ ccLast' = MaxOf(CommittedRequests)
    /\ UNCHANGED <<ccRows, ccLog, ccAdmin, ccCreated, ccQueue, ccApplied>>

(* TradingSession.begin creates the run row. *)
BeginSession ==
    /\ ccWorker = "listening"
    /\ ccWorker' = "running" /\ ccCreated' = ccRun
    /\ UNCHANGED <<ccRows, ccLog, ccAdmin, ccRun, ccLast, ccQueue, ccApplied>>

(* Fault: the limit cuts one row too many. *)
FaultyNewest(S) == {i \in S : Cardinality({j \in S : j >= i}) < PollLimit}

(* The newest rows of a set, at most PollLimit of them. *)
Newest(S) == {i \in S : Cardinality({j \in S : j > i}) < PollLimit}

(* poll: new rows among the newest ones, oldest first, with the role their author
   has now. *)
PollCommands ==
    /\ ccWorker = "running" /\ ccQueue = <<>>
    /\ LET new == {i \in Newest(CommittedRequests) : i > ccLast}
       IN  /\ new # {}
           /\ \E ids \in [1..Cardinality(new) -> new] :
                 /\ \A k, l \in DOMAIN ids : k < l => ids[k] < ids[l]
                 /\ ccQueue' = [k \in DOMAIN ids |-> [id |-> ids[k], admin |-> ccAdmin]]
           /\ ccLast' = MaxOf(new)
    /\ UNCHANGED <<ccRows, ccLog, ccAdmin, ccWorker, ccRun, ccCreated, ccApplied>>

(* apply: a command for another run is dropped, one by a non-admin is denied. *)
ApplyCommand ==
    /\ ccWorker = "running" /\ ccQueue # <<>>
    /\ LET c == Head(ccQueue)
       IN  ccApplied' = IF ccRows[c.id].run \in {0, ccRun}
                        THEN Append(ccApplied, [id |-> c.id, run |-> ccRun,
                                                outcome |-> IF c.admin THEN "released" ELSE "denied"])
                        ELSE ccApplied
    /\ ccQueue' = Tail(ccQueue)
    /\ UNCHANGED <<ccRows, ccLog, ccAdmin, ccWorker, ccRun, ccCreated, ccLast>>

(* The session ends, or fails at any point; what it had polled is gone with it. *)
StopSession ==
    /\ ccWorker # "off"
    /\ ccWorker' = "off" /\ ccQueue' = <<>>
    /\ UNCHANGED <<ccRows, ccLog, ccAdmin, ccRun, ccCreated, ccLast, ccApplied>>

ChannelInit ==
    /\ ccRows = <<>> /\ ccLog = <<>> /\ ccAdmin = TRUE
    /\ ccWorker = "off" /\ ccRun = 0 /\ ccCreated = 0 /\ ccLast = 0
    /\ ccQueue = <<>> /\ ccApplied = <<>>

ChannelNext ==
    \/ RequestRelease \/ DemoteRequester \/ (\E i \in RequestIds : CommitRequest(i) \/ RollbackRequest(i))
    \/ StartChannel \/ BeginSession \/ PollCommands \/ ApplyCommand \/ StopSession

ChannelSpec == ChannelInit /\ [][ChannelNext]_ccVars

(* A running session polls at every bar, and while it lingers after the feed. *)
ChannelFairness == WF_ccVars(PollCommands) /\ WF_ccVars(ApplyCommand)

-----------------------------------------------------------------------------
(* Properties. *)

(* Commands are applied in the order of their ids and none twice, also by the
   sessions together (trading_worker.py ControlChannel.poll, start). *)
AppliedInOrder == \A k \in 2..Len(ccApplied) : ccApplied[k - 1].id < ccApplied[k].id

(* A session applies only what was committed, was recorded after it began to listen
   and is addressed to it: a release made for an earlier run never opens the latch of
   a later one (ControlChannel.start, TradingSession.apply); and commands are
   applied in order. *)
AppliedIsFresh ==
    /\ AppliedInOrder
    /\ \A k \in DOMAIN ccApplied :
         LET r == ccRows[ccApplied[k].id]
         IN  /\ ccApplied[k].id \in CommittedRequests
             /\ r.at = ccApplied[k].run /\ r.run \in {0, ccApplied[k].run}

MeantFor(i, s) == ccRows[i].run \in {0, s} /\ ccRows[i].at = s

Overtaken(i) == \E m, n \in DOMAIN ccLog : ccLog[n] = i /\ m < n /\ ccLog[m] > i
Crowded(i) == Cardinality({j \in CommittedRequests : j > i}) >= PollLimit
WasApplied(i) == \E k \in DOMAIN ccApplied : ccApplied[k].id = i

(* A command recorded for the running session is applied, unless a later id was
   committed before it or PollLimit younger commands crowded it out. *)
InOrderCommandIsApplied ==
    \A i \in 1..MaxRequests :
        (i \in CommittedRequests /\ ccWorker = "running" /\ MeantFor(i, ccRun) /\ ~Overtaken(i))
            ~> (WasApplied(i) \/ ccWorker # "running" \/ Crowded(i))

-----------------------------------------------------------------------------
(* A claim of the repository that the code does not keep. *)

Forgotten(i) ==
    i <= ccLast /\ ~WasApplied(i) /\ \A k \in DOMAIN ccQueue : ccQueue[k].id # i

(* trading_worker.py, ControlChannel: polling audit_log is the source of truth, "a
   command is not lost". *)
CommandNotLost ==
    ccWorker = "running" => \A i \in CommittedRequests : MeantFor(i, ccRun) => ~Forgotten(i)
=============================================================================

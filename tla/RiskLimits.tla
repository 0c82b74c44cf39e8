----------------------------- MODULE RiskLimits -----------------------------
(***************************************************************************)
(* The risk limits as shared data: config/risk_limits.yaml is replaced by  *)
(* concurrent PUT /risk/limits requests of the API, edited by hand, and    *)
(* followed by a trading worker in another process.                        *)
(*                                                                         *)
(* Source: api/routers/risk.py (get_limits, put_limits), api/limits.py     *)
(* (FileLimitsStore), workers/trading_worker.py (run_worker,               *)
(* TradingSession.reload_limits_if_changed).                               *)
(*                                                                         *)
(* A text stands for itself, for its SHA-256 and for the tree parsed from  *)
(* it.  Every request carries a document of its own, so a text is named by *)
(* the request that wrote it.  The file is replaced atomically (os.replace)*)
(* under a lock, so one read sees one text; what a process does between    *)
(* two reads or writes of the file may interleave with everything else.    *)
(***************************************************************************)
EXTENDS Naturals, FiniteSets

CONSTANTS
    Requests,     \* PUT requests, each with its own valid document
    Orig,         \* the text the file starts with
    Edits,        \* texts an editor writes by hand, unparsable
    None,         \* no If-Match given; no tree loaded
    MaxFailures,  \* COMMITs that fail
    MaxCrashes    \* crashes of the API process

ASSUME LimitsAssumption ==
    /\ Orig \notin Requests \cup Edits /\ Requests \cap Edits = {}
    /\ None \notin Requests \cup Edits \cup {Orig}
    /\ MaxFailures \in Nat /\ MaxCrashes \in Nat

VARIABLES
    file,      \* the text on disk
    stamp,     \* its (mtime, size): a new one for every write
    edited,    \* hand edits made
    pc,        \* per request: where put_limits stands
    seen,      \* per request: expected_sha256 from an earlier GET, or None
    old,       \* per request: the snapshot put_limits read
    failures, crashes,
    wpc,       \* where the worker stands
    tree,      \* the limits the worker trades with
    limStat, limSha,   \* _limits_stat, _limits_sha
    gotSha,    \* the local sha of a reload under way
    notified,  \* _limits_changed of the control channel
    raced      \* the file changed inside a window in which the worker reads it twice

api    == <<pc, seen, old, failures, crashes>>
worker == <<wpc, tree, limStat, limSha, gotSha>>
vars   == <<file, stamp, edited, api, worker, notified, raced>>

Valid == Requests \cup {Orig}
Texts == Valid \cup Edits

InTransaction == {"tx", "written"}

TypeOK ==
    /\ file \in Texts /\ stamp \in Nat /\ edited \subseteq Edits
    /\ pc \in [Requests -> {"idle", "tx", "written", "undo", "done", "conflict", "failed", "dead"}]
    /\ seen \in [Requests -> Texts \cup {None}] /\ old \in [Requests -> Texts]
    /\ failures \in 0..MaxFailures /\ crashes \in 0..MaxCrashes
    /\ wpc \in {"off", "loaded", "stat", "idle", "sha", "read"}
    /\ tree \in Valid \cup {None} /\ limStat \in Nat /\ limSha \in Texts /\ gotSha \in Texts
    /\ notified \in BOOLEAN /\ raced \in BOOLEAN

-----------------------------------------------------------------------------
(* The worker reads the file once to load its configuration and again to record
   its SHA, and in a reload once for the SHA and again for the tree. *)
Windows == {"loaded", "stat", "read"}

(* _atomic_write. *)
Write(text) ==
    /\ file' = text /\ stamp' = stamp + 1
    /\ raced' = (raced \/ wpc \in Windows)

(* GET /risk/limits by a client that will send If-Match; an unparsable file
   gives no answer. *)
Get(r) ==
    /\ pc[r] = "idle" /\ seen[r] = None /\ file \in Valid
    /\ seen' = [seen EXCEPT ![r] = file]
    /\ UNCHANGED <<file, stamp, edited, pc, old, failures, crashes, worker, notified, raced>>

(* put_limits up to the insertion into audit_log: the snapshot, the check of
   If-Match, the transaction opened. *)
Put(r) ==
    /\ pc[r] = "idle"
    /\ old' = [old EXCEPT ![r] = file]
    /\ pc' = [pc EXCEPT ![r] = IF file \notin Valid THEN "failed"
                               ELSE IF seen[r] \in {None, file} THEN "tx" ELSE "conflict"]
    /\ UNCHANGED <<file, stamp, edited, seen, failures, crashes, worker, notified, raced>>

(* Fault: the comparison under the lock is missing. *)
FaultyReplace(r) ==
    /\ pc[r] = "tx"
    /\ Write(r)
    /\ pc' = [pc EXCEPT ![r] = "written"]
    /\ UNCHANGED <<edited, seen, old, failures, crashes, worker, notified>>

(* FileLimitsStore.replace: compare under the lock, then write; a conflict leaves
   the transaction by an exception, which rolls it back. *)
Replace(r) ==
    /\ pc[r] = "tx"
    /\ \/ /\ file = old[r]
          /\ Write(r)
          /\ pc' = [pc EXCEPT ![r] = "written"]
       \/ /\ file # old[r]
          /\ pc' = [pc EXCEPT ![r] = "conflict"]
          /\ UNCHANGED <<file, stamp, raced>>
    /\ UNCHANGED <<edited, seen, old, failures, crashes, worker, notified>>

(* COMMIT of the audit record; the NOTIFY of the transaction reaches the worker
   unless its LISTEN connection is down. *)
Commit(r) ==
    /\ pc[r] = "written"
    /\ pc' = [pc EXCEPT ![r] = "done"]
    /\ notified' \in {notified, wpc # "off"}
    /\ UNCHANGED <<file, stamp, edited, seen, old, failures, crashes, worker, raced>>

CommitFails(r) ==
    /\ pc[r] = "written" /\ failures < MaxFailures
    /\ pc' = [pc EXCEPT ![r] = "undo"]
    /\ failures' = failures + 1
    /\ UNCHANGED <<file, stamp, edited, seen, old, crashes, worker, notified, raced>>

(* The compensation: FileLimitsStore.restore writes the old text back. *)
Restore(r) ==
    /\ pc[r] = "undo"
    /\ Write(old[r])
    /\ pc' = [pc EXCEPT ![r] = "failed"]
    /\ UNCHANGED <<edited, seen, old, failures, crashes, worker, notified>>

(* The API process dies: every request under way is gone, its transaction rolled
   back by the database, the file as it is. *)
Crash ==
    /\ crashes < MaxCrashes
    /\ crashes' = crashes + 1
    /\ pc' = [r \in Requests |-> IF pc[r] \in InTransaction \cup {"undo"} THEN "dead" ELSE pc[r]]
    /\ UNCHANGED <<file, stamp, edited, seen, old, failures, worker, notified, raced>>

Edit(t) ==
    /\ t \notin edited
    /\ edited' = edited \cup {t}
    /\ Write(t)
    /\ UNCHANGED <<api, worker, notified>>

-----------------------------------------------------------------------------
(* The worker. *)

(* run_worker: the configuration is read before warm-up. *)
Load ==
    /\ wpc = "off" /\ file \in Valid
    /\ wpc' = "loaded" /\ tree' = file
    /\ raced' = FALSE /\ notified' = FALSE
    /\ UNCHANGED <<file, stamp, edited, api, limStat, limSha, gotSha>>

(* TradingSession.__init__, after warm-up data has been fetched. *)
AttachStat ==
    /\ wpc = "loaded"
    /\ wpc' = "stat" /\ limStat' = stamp
    /\ UNCHANGED <<file, stamp, edited, api, tree, limSha, gotSha, notified, raced>>

AttachSha ==
    /\ wpc = "stat"
    /\ wpc' = "idle" /\ limSha' = file
    /\ UNCHANGED <<file, stamp, edited, api, tree, limStat, gotSha, notified, raced>>

(* Fault: the file is looked at only after a notification. *)
FaultyReloadStat ==
    /\ wpc = "idle" /\ notified
    /\ wpc' = "sha" /\ limStat' = stamp /\ notified' = FALSE
    /\ UNCHANGED <<file, stamp, edited, api, tree, limSha, gotSha, raced>>

(* reload_limits_if_changed, at every bar, and forced by the notification. *)
ReloadStat ==
    /\ wpc = "idle" /\ (stamp # limStat \/ notified)
    /\ wpc' = "sha" /\ limStat' = stamp /\ notified' = FALSE
    /\ UNCHANGED <<file, stamp, edited, api, tree, limSha, gotSha, raced>>

ReloadSha ==
    /\ wpc = "sha"
    /\ gotSha' = file
    /\ wpc' = IF file = limSha THEN "idle" ELSE "read"
    /\ UNCHANGED <<file, stamp, edited, api, tree, limStat, limSha, notified, raced>>

(* Fault: applied before it is validated. *)
FaultyReloadRead ==
    /\ wpc = "read"
    /\ wpc' = "idle" /\ tree' = file /\ limSha' = gotSha
    /\ UNCHANGED <<file, stamp, edited, api, limStat, gotSha, notified, raced>>

(* An unparsable file is rejected and the limits in force stay. *)
ReloadRead ==
    /\ wpc = "read"
    /\ wpc' = "idle"
    /\ IF file \in Valid THEN tree' = file /\ limSha' = gotSha ELSE UNCHANGED <<tree, limSha>>
    /\ UNCHANGED <<file, stamp, edited, api, limStat, gotSha, notified, raced>>

Stop ==
    /\ wpc = "idle"
    /\ wpc' = "off" /\ tree' = None
    /\ UNCHANGED <<file, stamp, edited, api, limStat, limSha, gotSha, notified, raced>>

Init ==
    /\ file = Orig /\ stamp = 0 /\ edited = {}
    /\ pc = [r \in Requests |-> "idle"]
    /\ seen = [r \in Requests |-> None] /\ old = [r \in Requests |-> Orig]
    /\ failures = 0 /\ crashes = 0
    /\ wpc = "off" /\ tree = None /\ limStat = 0 /\ limSha = Orig /\ gotSha = Orig
    /\ notified = FALSE /\ raced = FALSE

Reload == ReloadStat \/ ReloadSha \/ ReloadRead

Next ==
    \/ \E r \in Requests :
          Get(r) \/ Put(r) \/ Replace(r) \/ Commit(r) \/ CommitFails(r) \/ Restore(r)
    \/ Crash
    \/ \E t \in Edits : Edit(t)
    \/ Load \/ AttachStat \/ AttachSha \/ Reload \/ Stop

Spec == Init /\ [][Next]_vars

(* Bars keep arriving, and the reload of a bar runs to its end. *)
FairSpec == Spec /\ WF_vars(Reload)

-----------------------------------------------------------------------------
(* Properties. *)

(* Requests whose document is, or may yet turn out to have been, in force. *)
Live == {r \in Requests : pc[r] \in {"written", "undo", "done"}}

(* Optimistic locking: no two accepted changes were made to the same version of the
   limits, whichever way requests, failed COMMITs, compensations and crashes
   interleave (api/limits.py FileLimitsStore.replace). *)
DistinctBases == \A r, s \in {x \in Requests : pc[x] = "done"} : old[r] = old[s] => r = s

(* A text the worker cannot parse never reaches the trading loop, and a running
   worker always has limits (trading_worker.py reload_limits_if_changed). *)
TradesOnValidLimits == wpc # "off" => tree \in Valid

(* A worker picks up whatever stays in the file, unless the file changed between
   two reads of it by the worker (reload_limits_if_changed, run_worker). *)
WorkerCatchesUp ==
    \A t \in Requests : (wpc = "idle" /\ file = t) ~> (tree = t \/ file # t \/ wpc = "off" \/ raced)

-----------------------------------------------------------------------------
(* A claim of the repository that the code does not keep. *)

(* engine.py, apply_risk_limits: after PUT /risk/limits the new thresholds hold
   "from the next bar"; reload_limits_if_changed: the file is read again "if it
   changed". *)
ChangedLimitsReachWorker ==
    \A t \in Requests : (wpc = "idle" /\ file = t) ~> (tree = t \/ file # t \/ wpc = "off")
=============================================================================

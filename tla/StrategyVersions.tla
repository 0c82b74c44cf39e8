-------------------------- MODULE StrategyVersions --------------------------
(***************************************************************************)
(* Strategies as data: requests that store a new version of a rule set or  *)
(* activate a version, each in one transaction at READ COMMITTED.          *)
(*                                                                         *)
(* Source: api/routers/strategies.py (_store_version, activate_version),   *)
(* storage/repositories/strategy.py, api/validation.py.                    *)
(*                                                                         *)
(* A statement sees the rows that were committed when it began, and those  *)
(* of its own transaction.  An UPDATE waits for the rows it found that     *)
(* another transaction has changed; rows inserted meanwhile are not among  *)
(* them.  A text is the hash of its pair of YAML documents; the ones that  *)
(* do not validate never reach the database.                               *)
(***************************************************************************)
EXTENDS Integers, Sequences, FiniteSets, FiniteSetsExt

CONSTANTS
    StrategyNames,       \* names of strategies
    RuleSets,       \* rules_hash of the texts sent
    BadRuleSets,     \* those of them that do not validate
    MaxVersionRequests  \* BOUND: requests

ASSUME StrategyAssumption == BadRuleSets \subseteq RuleSets /\ MaxVersionRequests \in Nat

VARIABLES
    svRows,   \* table strategy by id: name, version, hash, active, and the request
              \* that inserted the row and has not committed (0: committed, -1: undone)
    svReq,    \* per request: where it is, its arguments, what it has read
    svClash   \* history: an INSERT met the unique index on (name, version)

svVars == <<svRows, svReq, svClash>>

StrategyRequests == 1..MaxVersionRequests
VersionIds == DOMAIN svRows
SeenRows(q) == {i \in VersionIds : svRows[i].by \in {0, q}}
OfName(q, n) == {i \in SeenRows(q) : svRows[i].name = n}

NewRequest == [pc |-> "new", kind |-> "create", name |-> CHOOSE n \in StrategyNames : TRUE,
         hash |-> CHOOSE h \in RuleSets : TRUE, activate |-> FALSE, id |-> 0, found |-> {}]
Answered == [NewRequest EXCEPT !.pc = "over"]

VersionsInit ==
    /\ svRows = <<>> /\ svClash = FALSE
    /\ svReq = [q \in StrategyRequests |-> NewRequest]

(* _store_version up to get_by_hash: invalid texts, a name that must or    *)
(* must not exist, and an identical rule set end the request.              *)
CheckVersion(q, kind, n, h, activate) ==
    /\ svReq[q].pc = "new" /\ \A p \in StrategyRequests : p < q => svReq[p].pc # "new"
    /\ LET refuse == \/ h \in BadRuleSets
                     \/ (kind = "update") # (OfName(q, n) # {})
                     \/ \E i \in SeenRows(q) : svRows[i].hash = h
       IN  svReq' = [svReq EXCEPT ![q] = IF refuse THEN Answered ELSE
                        [NewRequest EXCEPT !.pc = "insert", !.kind = kind, !.name = n, !.hash = h,
                                     !.activate = activate]]
    /\ UNCHANGED <<svRows, svClash>>

(* Fault: no advisory lock is taken. *)
FaultyNameIsFree(q, n) == TRUE

(* pg_advisory_xact_lock: held until the transaction ends. *)
NameIsFree(q, n) ==
    \A p \in StrategyRequests \ {q} :
        ~(svReq[p].name = n /\ svReq[p].kind # "activate" /\ svReq[p].pc \in {"update", "wait", "commit"})

NextVersion(q, n) == Max({svRows[i].version : i \in OfName(q, n)} \cup {0}) + 1

(* The lock, max + 1 and the INSERT, which waits for an uncommitted row    *)
(* with its hash and then fails on the unique index.                       *)
InsertVersion(q) ==
    LET r == svReq[q]
        v == NextVersion(q, r.name)
        sameHash == {i \in VersionIds : svRows[i].hash = r.hash /\ svRows[i].by # -1}
        clash == \E i \in VersionIds : svRows[i].name = r.name /\ svRows[i].version = v /\ svRows[i].by # -1
    IN  /\ r.pc = "insert" /\ NameIsFree(q, r.name)
        /\ \A i \in sameHash : svRows[i].by = 0
        /\ svClash' = (svClash \/ clash)
        /\ IF sameHash # {} \/ clash
             THEN svReq' = [svReq EXCEPT ![q] = Answered] /\ UNCHANGED svRows
             ELSE /\ svRows' = Append(svRows, [name |-> r.name, version |-> v, hash |-> r.hash,
                                               active |-> FALSE, by |-> q])
                  /\ svReq' = [svReq EXCEPT ![q].pc = IF r.activate THEN "update" ELSE "commit",
                                            ![q].id = Len(svRows) + 1]

(* activate_version up to its UPDATE. *)
FindVersion(q, i) ==
    /\ svReq[q].pc = "new" /\ \A p \in StrategyRequests : p < q => svReq[p].pc # "new"
    /\ i \in SeenRows(q)
    /\ svReq' = [svReq EXCEPT ![q] = [NewRequest EXCEPT !.pc = "update", !.kind = "activate", !.id = i,
                                                   !.name = svRows[i].name]]
    /\ UNCHANGED <<svRows, svClash>>

(* StrategyRepo.activate: the UPDATE over the versions of the name begins. *)
UpdateBegins(q) ==
    /\ svReq[q].pc = "update"
    /\ svReq' = [svReq EXCEPT ![q].pc = "wait", ![q].found = OfName(q, svReq[q].name)]
    /\ UNCHANGED <<svRows, svClash>>

(* It has all its rows, and holds them until the transaction ends. *)
UpdateRuns(q) ==
    /\ svReq[q].pc = "wait"
    /\ \A p \in StrategyRequests \ {q} : svReq[p].pc = "commit" => svReq[p].found \cap svReq[q].found = {}
    /\ svReq' = [svReq EXCEPT ![q].pc = "commit"]
    /\ UNCHANGED <<svRows, svClash>>

CommitVersion(q) ==
    /\ svReq[q].pc = "commit"
    /\ svRows' = [i \in VersionIds |-> [svRows[i] EXCEPT
                      !.by = IF @ = q THEN 0 ELSE @,
                      !.active = IF i \in svReq[q].found THEN i = svReq[q].id ELSE @]]
    /\ svReq' = [svReq EXCEPT ![q] = Answered]
    /\ UNCHANGED svClash

AbortVersion(q) ==
    /\ svReq[q].pc \in {"insert", "update", "wait", "commit"}
    /\ svRows' = [i \in VersionIds |-> IF svRows[i].by = q THEN [svRows[i] EXCEPT !.by = -1] ELSE svRows[i]]
    /\ svReq' = [svReq EXCEPT ![q] = Answered]
    /\ UNCHANGED svClash

VersionsNext ==
    \E q \in StrategyRequests :
        \/ \E kind \in {"create", "update"}, n \in StrategyNames, h \in RuleSets, a \in BOOLEAN :
              CheckVersion(q, kind, n, h, a)
        \/ \E i \in VersionIds : FindVersion(q, i)
        \/ InsertVersion(q) \/ UpdateBegins(q) \/ UpdateRuns(q) \/ CommitVersion(q) \/ AbortVersion(q)

VersionsSpec == VersionsInit /\ [][VersionsNext]_svVars

-----------------------------------------------------------------------------
CommittedOf(n) == {i \in VersionIds : svRows[i].by = 0 /\ svRows[i].name = n}

(* The versions of a name are 1, 2, ... without a hole, no rule set is     *)
(* stored twice, and the lock on the name sees to it that no INSERT loses  *)
(* the race for a number (strategy.py create_version).                     *)
VersionsAreNumbered ==
    /\ ~svClash
    /\ \A n \in StrategyNames :
         {svRows[i].version : i \in CommittedOf(n)} = 1..Cardinality(CommittedOf(n))
    /\ \A i, j \in VersionIds : i # j /\ svRows[i].by # -1 /\ svRows[j].by # -1 => svRows[i].hash # svRows[j].hash

(* "Makes version the active one (other versions of the same name become   *)
(* inactive)": a name has at most one active version.                      *)
OneActiveVersion ==
    \A n \in StrategyNames : Cardinality({i \in CommittedOf(n) : svRows[i].active}) <= 1

=============================================================================

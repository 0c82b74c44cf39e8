------------------------- MODULE ApiServices_proofs -------------------------
(***************************************************************************)
(* Proofs about the services behind the API and the command line: roles of *)
(* users, versions of strategies, the control channel, the backtest jobs,  *)
(* the live stream, access and the store of risk limits.  They share no    *)
(* state; each has its own inductive invariant.                            *)
(***************************************************************************)
EXTENDS UserRoles, StrategyVersions, ControlChannel, BacktestJobs, LiveStream, Access, RiskLimits,
        FiniteSetTheorems, SequenceFacts, TLAPS

-----------------------------------------------------------------------------
(* UserRoles.                                                              *)

RoleCommands ==
    [pc : {"new", "select", "lock", "write", "commit", "over"}, kind : {"add", "set"},
     user : Users, role : UserRoleNames, old : UserRoleNames \cup {"absent"}, found : SUBSET Users]

RolesTypeOK ==
    /\ Users # {}
    /\ urRole \in [Users -> UserRoleNames \cup {"absent"}]
    /\ urLock \in [Users -> 0 .. MaxCommands]
    /\ urCmd \in [Commands -> RoleCommands]

(* A command that is about to commit holds the row it changes. *)
CommitHoldsRow == \A k \in Commands : urCmd[k].pc = "commit" => urLock[urCmd[k].user] = k

(* From admins_for_update to its end, a demotion holds the row of another  *)
(* admin.                                                                  *)
DemotionHoldsAnother ==
    \A k \in Commands :
        urCmd[k].pc \in {"write", "commit"} /\ urCmd[k].old = "admin" =>
            \E v \in Users : v # urCmd[k].user /\ urLock[v] = k /\ urRole[v] = "admin"

RolesInv == RolesTypeOK /\ CommitHoldsRow /\ DemotionHoldsAnother

LEMMA FreshTyped ==
    ASSUME Users # {}
    PROVE  Fresh \in RoleCommands /\ Over \in RoleCommands /\ Fresh.pc = "new" /\ Over.pc = "over"
<1>1. (CHOOSE u \in Users : TRUE) \in Users
  OBVIOUS
<1> QED BY <1>1, RolesAssumption DEF Fresh, Over, RoleCommands

(* What a command does with its own lock and its own record keeps both     *)
(* facts of every other one, as long as it takes no lock another holds and *)
(* changes no row it has not locked.                                       *)
LEMMA OthersKept ==
    ASSUME RolesInv, NEW k \in Commands, NEW j \in Commands, j # k,
           urCmd'[j] = urCmd[j],
           \A u \in Users : urLock[u] = j => urLock'[u] = j /\ urRole'[u] = urRole[u]
    PROVE  /\ urCmd'[j].pc = "commit" => urLock'[urCmd'[j].user] = j
           /\ urCmd'[j].pc \in {"write", "commit"} /\ urCmd'[j].old = "admin" =>
                  \E v \in Users : v # urCmd'[j].user /\ urLock'[v] = j /\ urRole'[v] = "admin"
<1>1. urCmd[j].user \in Users
  BY DEF RolesInv, RolesTypeOK, RoleCommands
<1> QED BY <1>1 DEF RolesInv, CommitHoldsRow, DemotionHoldsAnother

LEMMA RolesInitInv == UsersInit => RolesInv
<1> SUFFICES ASSUME UsersInit PROVE RolesInv
  OBVIOUS
<1>1. Users # {}
  BY DEF UsersInit
<1>2. Fresh \in RoleCommands /\ Fresh.pc = "new"
  BY <1>1, FreshTyped
<1>3. 0 \in 0 .. MaxCommands
  BY RolesAssumption
<1>4. RolesTypeOK
  BY <1>1, <1>2, <1>3 DEF UsersInit, RolesTypeOK
<1> QED BY <1>2, <1>4 DEF RolesInv, CommitHoldsRow, DemotionHoldsAnother, UsersInit

LEMMA RolesStep == RolesInv /\ [UsersNext]_urVars => RolesInv'
<1> SUFFICES ASSUME RolesInv, [UsersNext]_urVars PROVE RolesInv'
  OBVIOUS
<1> USE DEF RolesInv
<1>1. CASE UNCHANGED urVars
  BY <1>1 DEF RolesTypeOK, CommitHoldsRow, DemotionHoldsAnother, urVars
<1>2. CASE UsersNext
  <2>1. PICK k \in Commands :
            \/ \E kind \in {"add", "set"}, u \in Users, role \in UserRoleNames : ReadUser(k, kind, u, role)
            \/ SelectAdmins(k) \/ LockAdmins(k) \/ WriteUser(k) \/ CommitUser(k) \/ AbortUser(k)
    BY <1>2 DEF UsersNext, CommandStep
  <2>2. k \in 1 .. MaxCommands /\ k # 0 /\ urCmd[k] \in RoleCommands /\ urCmd[k].user \in Users
        /\ urCmd[k].found \in SUBSET Users /\ urCmd[k].role \in UserRoleNames
    BY RolesAssumption DEF Commands, RolesTypeOK, RoleCommands
  <2>3. Fresh \in RoleCommands /\ Over \in RoleCommands /\ Over.pc = "over" /\ Users # {}
    BY FreshTyped DEF RolesTypeOK
  <2>4. Released(k) \in [Users -> 0 .. MaxCommands]
        /\ \A u \in Users : urLock[u] # k => Released(k)[u] = urLock[u]
    BY RolesAssumption DEF Released, RolesTypeOK
  (* Every disjunct meets the obligations of OthersKept; what is left is the command's own part. *)
  <2>5. ASSUME RolesTypeOK',
               \A j \in Commands : j # k => urCmd'[j] = urCmd[j],
               \A u \in Users : urLock[u] \notin {0, k} => urLock'[u] = urLock[u] /\ urRole'[u] = urRole[u],
               urCmd'[k].pc = "commit" => urLock'[urCmd'[k].user] = k,
               urCmd'[k].pc \in {"write", "commit"} /\ urCmd'[k].old = "admin" =>
                  \E v \in Users : v # urCmd'[k].user /\ urLock'[v] = k /\ urRole'[v] = "admin"
        PROVE  RolesInv'
    <3>1. ASSUME NEW j \in Commands, j # k
          PROVE  /\ urCmd'[j].pc = "commit" => urLock'[urCmd'[j].user] = j
                 /\ urCmd'[j].pc \in {"write", "commit"} /\ urCmd'[j].old = "admin" =>
                        \E v \in Users : v # urCmd'[j].user /\ urLock'[v] = j /\ urRole'[v] = "admin"
      <4>1. \A u \in Users : urLock[u] = j => urLock'[u] = j /\ urRole'[u] = urRole[u]
        BY <2>5, <3>1 DEF Commands
      <4> QED BY <2>5, <3>1, <4>1, OthersKept
    <3> QED BY <2>5, <3>1 DEF CommitHoldsRow, DemotionHoldsAnother
  <2>6. CASE \E kind \in {"add", "set"}, u \in Users, role \in UserRoleNames : ReadUser(k, kind, u, role)
    <3>1. PICK kind \in {"add", "set"}, u \in Users, role \in UserRoleNames : ReadUser(k, kind, u, role)
      BY <2>6
    <3>2. urRole[u] \in UserRoleNames \cup {"absent"}
      BY DEF RolesTypeOK
    <3> DEFINE r(w) == [Fresh EXCEPT !.pc = w, !.kind = kind, !.user = u, !.role = role, !.old = urRole[u]]
    <3>3. \A w \in {"select", "write"} : r(w) \in RoleCommands /\ r(w).pc = w /\ r(w).old = urRole[u]
      BY <2>3, <3>1, <3>2 DEF RoleCommands
    <3>4. urCmd'[k] = Over \/ (urRole[u] = "admin" /\ urCmd'[k] = r("select"))
                           \/ (urRole[u] # "admin" /\ urCmd'[k] = r("write"))
      BY <3>1 DEF ReadUser, RolesTypeOK
    <3>5. urCmd'[k] \in RoleCommands /\ urCmd'[k].pc # "commit"
          /\ (urCmd'[k].pc = "write" => urCmd'[k].old # "admin")
      BY <2>3, <3>3, <3>4
    <3>6. /\ UNCHANGED <<urRole, urLock>>
          /\ urCmd' = [urCmd EXCEPT ![k] = urCmd'[k]]
      BY <3>1 DEF ReadUser, RolesTypeOK
    <3>7. RolesTypeOK' /\ \A j \in Commands : j # k => urCmd'[j] = urCmd[j]
      BY <3>5, <3>6 DEF RolesTypeOK
    <3> QED BY <2>5, <3>5, <3>6, <3>7
  <2>7. CASE SelectAdmins(k)
    <3>1. urCmd' = [urCmd EXCEPT ![k].pc = "lock", ![k].found = Admins] /\ UNCHANGED <<urRole, urLock>>
      BY <2>7 DEF SelectAdmins
    <3>2. Admins \in SUBSET Users
      BY DEF Admins
    <3>3. urCmd'[k] \in RoleCommands /\ urCmd'[k].pc = "lock" /\ \A j \in Commands : j # k => urCmd'[j] = urCmd[j]
      BY <2>2, <3>1, <3>2 DEF RolesTypeOK, RoleCommands
    <3>4. RolesTypeOK'
      BY <3>1, <3>3 DEF RolesTypeOK
    <3> QED BY <2>5, <3>1, <3>3, <3>4
  <2>8. CASE LockAdmins(k)
    <3> DEFINE admins == urCmd[k].found \cap Admins
    <3>1. UNCHANGED urRole /\ \A u \in admins : urLock[u] \in {0, k}
      BY <2>8 DEF LockAdmins, Obtained
    <3>2. CASE urCmd[k].user \notin admins \/ Cardinality(admins) <= 1
      <4>1. urLock' = Released(k) /\ urCmd' = [urCmd EXCEPT ![k] = Over]
        BY <2>8, <3>2 DEF LockAdmins
      <4>2. RolesTypeOK' /\ urCmd'[k].pc = "over" /\ \A j \in Commands : j # k => urCmd'[j] = urCmd[j]
        BY <2>3, <2>4, <3>1, <4>1 DEF RolesTypeOK
      <4> QED BY <2>4, <2>5, <3>1, <4>1, <4>2
    <3>3. CASE ~(urCmd[k].user \notin admins \/ Cardinality(admins) <= 1)
      <4>1. /\ urLock' = [u \in Users |-> IF u \in admins THEN k ELSE urLock[u]]
            /\ urCmd' = [urCmd EXCEPT ![k] = [@ EXCEPT !.pc = "write"]]
        BY <2>8, <3>3 DEF LockAdmins
      <4>2. PICK v \in admins : v # urCmd[k].user
        <5>1. SUFFICES ASSUME \A v \in admins : v = urCmd[k].user PROVE FALSE
          OBVIOUS
        <5>2. admins = {urCmd[k].user}
          BY <3>3, <5>1
        <5>3. Cardinality({urCmd[k].user}) = 1
          BY FS_Singleton, Zenon
        <5>4. Cardinality(admins) = 1
          BY <5>2, <5>3, Zenon
        <5> HIDE DEF admins
        <5> QED BY <3>3, <5>2, <5>4
      <4>3. urLock' \in [Users -> 0 .. MaxCommands]
        BY <2>2, <4>1 DEF RolesTypeOK
      <4>4. urCmd'[k] \in RoleCommands /\ urCmd'[k].pc = "write" /\ urCmd'[k].user = urCmd[k].user
            /\ \A j \in Commands : j # k => urCmd'[j] = urCmd[j]
        BY <2>2, <4>1 DEF RolesTypeOK, RoleCommands
      <4>5. RolesTypeOK'
        BY <3>1, <4>1, <4>3, <4>4 DEF RolesTypeOK
      <4>6. v \in Users /\ urLock'[v] = k /\ urRole'[v] = "admin"
        BY <3>1, <4>1, <4>2 DEF Admins
      <4>7. \A u \in Users : urLock[u] \notin {0, k} => urLock'[u] = urLock[u] /\ urRole'[u] = urRole[u]
        BY <3>1, <4>1
      <4> QED BY <2>5, <4>2, <4>4, <4>5, <4>6, <4>7
    <3> QED BY <3>2, <3>3
  <2>9. CASE WriteUser(k)
    <3> DEFINE u == urCmd[k].user
    <3>1. UNCHANGED urRole /\ urLock[u] \in {0, k} /\ urCmd[k].pc = "write"
      BY <2>9 DEF WriteUser
    <3>2. CASE urCmd[k].kind = "add" /\ urRole[u] # "absent"
      <4>1. urLock' = Released(k) /\ urCmd' = [urCmd EXCEPT ![k] = Over]
        BY <2>9, <3>2 DEF WriteUser
      <4>2. RolesTypeOK' /\ urCmd'[k].pc = "over" /\ \A j \in Commands : j # k => urCmd'[j] = urCmd[j]
        BY <2>3, <2>4, <3>1, <4>1 DEF RolesTypeOK
      <4> QED BY <2>4, <2>5, <3>1, <4>1, <4>2
    <3>3. CASE ~(urCmd[k].kind = "add" /\ urRole[u] # "absent")
      <4>1. urLock' = [urLock EXCEPT ![u] = k] /\ urCmd' = [urCmd EXCEPT ![k] = [@ EXCEPT !.pc = "commit"]]
        BY <2>9, <3>3 DEF WriteUser
      <4>2. urCmd'[k] \in RoleCommands /\ urCmd'[k].user = u /\ urCmd'[k].old = urCmd[k].old
            /\ \A j \in Commands : j # k => urCmd'[j] = urCmd[j]
        BY <2>2, <4>1 DEF RolesTypeOK, RoleCommands
      <4>3. urLock' \in [Users -> 0 .. MaxCommands] /\ urLock'[u] = k
            /\ \A v \in Users : v # u => urLock'[v] = urLock[v]
        BY <2>2, <4>1 DEF RolesTypeOK
      <4>4. RolesTypeOK'
        BY <3>1, <4>1, <4>2, <4>3 DEF RolesTypeOK
      <4>5. urCmd'[k].old = "admin" => \E v \in Users : v # u /\ urLock'[v] = k /\ urRole'[v] = "admin"
        <5>1. SUFFICES ASSUME urCmd[k].old = "admin"
                       PROVE  \E v \in Users : v # u /\ urLock'[v] = k /\ urRole'[v] = "admin"
          BY <4>2
        <5>2. PICK v \in Users : v # u /\ urLock[v] = k /\ urRole[v] = "admin"
          BY <3>1, <5>1 DEF DemotionHoldsAnother
        <5> QED BY <3>1, <4>3, <5>2
      <4> QED BY <2>5, <3>1, <4>2, <4>3, <4>4, <4>5
    <3> QED BY <3>2, <3>3
  <2>10. CASE CommitUser(k)
    <3> DEFINE u == urCmd[k].user
    <3>1. /\ urRole' = [urRole EXCEPT ![u] = urCmd[k].role] /\ urLock' = Released(k)
          /\ urCmd' = [urCmd EXCEPT ![k] = Over] /\ urLock[u] = k
      BY <2>10 DEF CommitUser, CommitHoldsRow
    <3>2. RolesTypeOK' /\ urCmd'[k].pc = "over" /\ \A j \in Commands : j # k => urCmd'[j] = urCmd[j]
      BY <2>2, <2>3, <2>4, <3>1 DEF RolesTypeOK
    <3>3. \A v \in Users : v # u => urRole'[v] = urRole[v]
      BY <3>1 DEF RolesTypeOK
    <3> QED BY <2>4, <2>5, <3>1, <3>2, <3>3
  <2>11. CASE AbortUser(k)
    <3>1. UNCHANGED urRole /\ urLock' = Released(k) /\ urCmd' = [urCmd EXCEPT ![k] = Over]
      BY <2>11 DEF AbortUser
    <3>2. RolesTypeOK' /\ urCmd'[k].pc = "over" /\ \A j \in Commands : j # k => urCmd'[j] = urCmd[j]
      BY <2>3, <2>4, <3>1 DEF RolesTypeOK
    <3> QED BY <2>4, <2>5, <3>1, <3>2
  <2> QED BY <2>1, <2>6, <2>7, <2>8, <2>9, <2>10, <2>11
<1> QED BY <1>1, <1>2

(* A command that found an admin and takes the role away leaves another    *)
(* admin behind, for any users, roles and number of commands side by side  *)
(* (cli.py user_set_role, user.py admins_for_update).                      *)
THEOREM DemotionSafe == RolesSpec => DemotionLeavesAdmin
<1>1. RolesInv => \A k \in Commands : CommitUser(k) /\ urCmd[k].old = "admin" => Admins' # {}
  <2> SUFFICES ASSUME RolesInv, NEW k \in Commands, CommitUser(k), urCmd[k].old = "admin"
               PROVE  Admins' # {}
    OBVIOUS
  <2>1. PICK v \in Users : v # urCmd[k].user /\ urRole[v] = "admin"
    BY DEF RolesInv, DemotionHoldsAnother, CommitUser
  <2>2. urRole'[v] = "admin"
    BY <2>1 DEF RolesInv, RolesTypeOK, CommitUser
  <2> QED BY <2>2 DEF Admins
<1> QED BY <1>1, RolesInitInv, RolesStep, PTL DEF RolesSpec, DemotionLeavesAdmin

-----------------------------------------------------------------------------
(* StrategyVersions.                                                       *)

SomeNames == StrategyNames \cup {NewRequest.name}
SomeHashes == RuleSets \cup {NewRequest.hash}

VersionRows ==
    [name : SomeNames, version : Nat \ {0}, hash : SomeHashes, active : BOOLEAN,
     by : -1 .. MaxVersionRequests]

VersionRequests ==
    [pc : {"new", "insert", "update", "wait", "commit", "over"}, kind : {"create", "update", "activate"},
     name : SomeNames, hash : SomeHashes, activate : BOOLEAN, id : Nat, found : SUBSET Nat]

VersionsTypeOK ==
    /\ svRows \in Seq(VersionRows)
    /\ svReq \in [StrategyRequests -> VersionRequests]

(* A request that stores a version holds the lock on its name. *)
HoldsName(q) == svReq[q].kind # "activate" /\ svReq[q].pc \in {"update", "wait", "commit"}

InsertersStore == \A q \in StrategyRequests : svReq[q].pc = "insert" => svReq[q].kind # "activate"

OneHolder ==
    \A p, q \in StrategyRequests : HoldsName(p) /\ HoldsName(q) /\ svReq[p].name = svReq[q].name => p = q

(* A row that is not committed is the one row of a request that holds the  *)
(* name, and carries the number after the committed ones.                  *)
PendingIsNext ==
    \A i \in VersionIds, q \in StrategyRequests : svRows[i].by = q =>
        /\ HoldsName(q) /\ svReq[q].id = i /\ svReq[q].name = svRows[i].name
        /\ svRows[i].version = Cardinality(CommittedOf(svRows[i].name)) + 1

CommittedAreNumbered ==
    \A n \in SomeNames : {svRows[i].version : i \in CommittedOf(n)} = 1 .. Cardinality(CommittedOf(n))

HashesDiffer ==
    \A i, j \in VersionIds : i # j /\ svRows[i].by # -1 /\ svRows[j].by # -1 => svRows[i].hash # svRows[j].hash

VersionsInv ==
    /\ VersionsTypeOK /\ InsertersStore /\ OneHolder /\ PendingIsNext
    /\ CommittedAreNumbered /\ HashesDiffer /\ ~svClash

LEMMA RequestTyped ==
    /\ NewRequest \in VersionRequests /\ Answered \in VersionRequests
    /\ NewRequest.pc = "new" /\ Answered.pc = "over"
<1>1. NewRequest.name \in SomeNames /\ NewRequest.hash \in SomeHashes
  BY DEF SomeNames, SomeHashes
<1> QED BY <1>1 DEF NewRequest, Answered, VersionRequests

LEMMA RowTyped ==
    ASSUME VersionsTypeOK
    PROVE  /\ Len(svRows) \in Nat /\ VersionIds = 1 .. Len(svRows)
           /\ \A i \in VersionIds :
                  svRows[i] \in VersionRows /\ svRows[i].by \in Int /\ svRows[i].by >= -1
                  /\ (svRows[i].by > 0 => svRows[i].by \in StrategyRequests)
<1>1. Len(svRows) \in Nat /\ VersionIds = 1 .. Len(svRows)
  BY DEF VersionsTypeOK, VersionIds
<1>2. ASSUME NEW i \in VersionIds PROVE svRows[i] \in VersionRows
  <2> HIDE DEF VersionRows
  <2> QED BY <1>1 DEF VersionsTypeOK
<1>3. ASSUME NEW r \in VersionRows
      PROVE  r.by \in Int /\ r.by >= -1 /\ (r.by > 0 => r.by \in StrategyRequests)
  BY StrategyAssumption DEF VersionRows, StrategyRequests
<1> QED BY <1>1, <1>2, <1>3

LEMMA CommittedFinite ==
    ASSUME VersionsTypeOK, NEW n
    PROVE  IsFiniteSet(CommittedOf(n)) /\ Cardinality(CommittedOf(n)) \in Nat
<1>1. Len(svRows) \in Nat /\ VersionIds = 1 .. Len(svRows)
  BY DEF VersionsTypeOK, VersionIds
<1>2. IsFiniteSet(1 .. Len(svRows))
  BY <1>1, FS_Interval
<1>3. CommittedOf(n) \in SUBSET (1 .. Len(svRows))
  BY <1>1 DEF CommittedOf
<1> QED BY <1>2, <1>3, FS_Subset, FS_CardinalityType

(* Under the lock of the name, max + 1 is the number after the committed   *)
(* versions, and no row has it.                                            *)
LEMMA NextIsFree ==
    ASSUME VersionsInv, NEW q \in StrategyRequests, svReq[q].pc = "insert", NameIsFree(q, svReq[q].name)
    PROVE  /\ NextVersion(q, svReq[q].name) = Cardinality(CommittedOf(svReq[q].name)) + 1
           /\ \A i \in VersionIds : svRows[i].name = svReq[q].name /\ svRows[i].by # -1 =>
                  svRows[i].by = 0 /\ svRows[i].version # Cardinality(CommittedOf(svReq[q].name)) + 1
<1> DEFINE n == svReq[q].name
           c == Cardinality(CommittedOf(n))
           V == {svRows[i].version : i \in OfName(q, n)} \cup {0}
<1>1. n \in SomeNames /\ c \in Nat /\ q \in 1 .. MaxVersionRequests
  BY CommittedFinite DEF VersionsInv, VersionsTypeOK, VersionRequests, StrategyRequests
<1>2. \A i \in VersionIds : svRows[i] \in VersionRows /\ svRows[i].by \in -1 .. MaxVersionRequests
  BY RowTyped, StrategyAssumption DEF VersionsInv, VersionRows
<1>3. ASSUME NEW i \in VersionIds, svRows[i].name = n, svRows[i].by # -1
      PROVE  svRows[i].by = 0
  <2>1. SUFFICES ASSUME svRows[i].by \in StrategyRequests, svRows[i].by > 0 PROVE FALSE
    BY <1>2, <1>3, StrategyAssumption DEF StrategyRequests
  <2>2. HoldsName(svRows[i].by) /\ svReq[svRows[i].by].name = n
    BY <1>3, <2>1 DEF VersionsInv, PendingIsNext
  <2>3. svRows[i].by # q
    BY <2>2 DEF HoldsName
  <2> QED BY <2>1, <2>2, <2>3 DEF NameIsFree, HoldsName
<1>4. OfName(q, n) = CommittedOf(n)
  BY <1>1, <1>2, <1>3, StrategyAssumption DEF OfName, CommittedOf, SeenRows
<1>5. {svRows[i].version : i \in CommittedOf(n)} = 1 .. c
  BY <1>1 DEF VersionsInv, CommittedAreNumbered
<1>6. V = (1 .. c) \cup {0}
  BY <1>4, <1>5, Zenon
<1>7. Max(V) = c
  <2>1. c \in V /\ \A y \in V : y \in Int /\ c >= y
    BY <1>1, <1>6
  <2> HIDE DEF V, c
  <2>2. Max(V) \in V /\ \A y \in V : Max(V) >= y
    BY <2>1 DEF Max
  <2> QED BY <2>1, <2>2
<1>8. NextVersion(q, n) = c + 1
  BY <1>7 DEF NextVersion
<1>9. ASSUME NEW i \in VersionIds, svRows[i].name = n, svRows[i].by # -1
      PROVE  svRows[i].version # c + 1
  <2>1. i \in CommittedOf(n)
    BY <1>3, <1>9 DEF CommittedOf
  <2>2. svRows[i].version \in 1 .. c
    BY <1>5, <2>1
  <2> QED BY <1>1, <2>2
<1> QED BY <1>3, <1>8, <1>9

(* A step that leaves the rows alone and takes no lock. *)
LEMMA NoLockTaken ==
    ASSUME VersionsInv, NEW q \in StrategyRequests, UNCHANGED svRows, ~svClash',
           VersionsTypeOK', \A p \in StrategyRequests : p # q => svReq'[p] = svReq[p],
           HoldsName(q)' => HoldsName(q) /\ svReq'[q].name = svReq[q].name,
           HoldsName(q) => HoldsName(q)' /\ svReq'[q].id = svReq[q].id,
           svReq'[q].pc = "insert" => svReq'[q].kind # "activate"
    PROVE  VersionsInv'
<1>1. \A p \in StrategyRequests : p # q => (HoldsName(p)' <=> HoldsName(p))
  BY DEF HoldsName
<1>2. OneHolder'
  BY <1>1 DEF VersionsInv, OneHolder
<1>3. \A i \in VersionIds : svRows[i].by > 0 => svRows[i].by \in StrategyRequests
  BY RowTyped DEF VersionsInv
<1>4. PendingIsNext'
  <2> SUFFICES ASSUME NEW i \in VersionIds, NEW p \in StrategyRequests, svRows[i].by = p
               PROVE  /\ HoldsName(p)' /\ svReq'[p].id = i /\ svReq'[p].name = svRows[i].name
                      /\ svRows[i].version = Cardinality(CommittedOf(svRows[i].name)) + 1
    BY SMTT(20) DEF PendingIsNext, VersionIds, CommittedOf
  <2>1. /\ HoldsName(p) /\ svReq[p].id = i /\ svReq[p].name = svRows[i].name
        /\ svRows[i].version = Cardinality(CommittedOf(svRows[i].name)) + 1
    BY DEF VersionsInv, PendingIsNext
  <2> QED BY <1>1, <2>1
<1>5. CommittedAreNumbered'
  <2>1. \A n : CommittedOf(n)' = CommittedOf(n)
    BY DEF CommittedOf, VersionIds
  <2> QED BY <2>1 DEF VersionsInv, CommittedAreNumbered
<1>6. HashesDiffer' /\ ~svClash'
  BY DEF VersionsInv, HashesDiffer, VersionIds
<1>7. InsertersStore'
  BY DEF VersionsInv, InsertersStore
<1> QED BY <1>2, <1>4, <1>5, <1>6, <1>7 DEF VersionsInv

(* The row of a new version goes to the end of the table. *)
LEMMA InsertKeeps ==
    ASSUME VersionsInv, NEW q \in StrategyRequests, InsertVersion(q)
    PROVE  VersionsInv'
<1> DEFINE r == svReq[q]
           n == r.name
           c == Cardinality(CommittedOf(n))
           last == Len(svRows) + 1
           sameHash == {i \in VersionIds : svRows[i].hash = r.hash /\ svRows[i].by # -1}
           clash == \E i \in VersionIds : svRows[i].name = n /\ svRows[i].version = NextVersion(q, n) /\ svRows[i].by # -1
           row == [name |-> n, version |-> NextVersion(q, n), hash |-> r.hash, active |-> FALSE, by |-> q]
<1>1. /\ r.pc = "insert" /\ NameIsFree(q, n) /\ svClash' = (svClash \/ clash)
      /\ IF sameHash # {} \/ clash
           THEN svReq' = [svReq EXCEPT ![q] = Answered] /\ UNCHANGED svRows
           ELSE /\ svRows' = Append(svRows, row)
                /\ svReq' = [svReq EXCEPT ![q].pc = IF r.activate THEN "update" ELSE "commit", ![q].id = last]
  BY DEF InsertVersion
<1>2. /\ NextVersion(q, n) = c + 1
      /\ \A i \in VersionIds : svRows[i].name = n /\ svRows[i].by # -1 => svRows[i].by = 0 /\ svRows[i].version # c + 1
  BY <1>1, NextIsFree
<1>3. /\ VersionsTypeOK /\ r \in VersionRequests /\ n \in SomeNames /\ r.hash \in SomeHashes /\ c \in Nat
      /\ ~HoldsName(q) /\ q \in Int /\ q > 0 /\ q \in -1 .. MaxVersionRequests
  BY <1>1, CommittedFinite, StrategyAssumption DEF VersionsInv, VersionsTypeOK, VersionRequests, HoldsName, StrategyRequests
<1>4. ~clash /\ ~svClash'
  BY <1>1, <1>2 DEF VersionsInv
<1>5. Len(svRows) \in Nat /\ VersionIds = 1 .. Len(svRows) /\ last \in Nat /\ last \notin VersionIds
      /\ \A i \in VersionIds : svRows[i].by > 0 => svRows[i].by \in StrategyRequests
  BY <1>3, RowTyped
<1>6. CASE sameHash # {}
  <2>1. svReq' = [svReq EXCEPT ![q] = Answered] /\ UNCHANGED svRows
    BY <1>1, <1>6
  <2>2. VersionsTypeOK' /\ ~HoldsName(q)' /\ svReq'[q].pc = "over"
        /\ \A p \in StrategyRequests : p # q => svReq'[p] = svReq[p]
    BY <1>3, <2>1, RequestTyped DEF VersionsTypeOK, HoldsName
  <2> QED BY <1>3, <1>4, <2>1, <2>2, NoLockTaken
<1>7. CASE sameHash = {}
  <2>1. /\ svRows' = Append(svRows, row)
        /\ svReq' = [svReq EXCEPT ![q].pc = IF r.activate THEN "update" ELSE "commit", ![q].id = last]
    BY <1>1, <1>4, <1>7
  <2>2. row \in VersionRows /\ row.name = n /\ row.version = c + 1 /\ row.hash = r.hash /\ row.by = q
    BY <1>2, <1>3 DEF VersionRows
  <2>3. /\ svReq'[q] \in VersionRequests /\ svReq'[q].id = last /\ svReq'[q].name = n
        /\ svReq'[q].pc \in {"update", "commit"} /\ svReq'[q].kind = r.kind
        /\ \A p \in StrategyRequests : p # q => svReq'[p] = svReq[p]
    BY <1>3, <1>5, <2>1 DEF VersionsTypeOK, VersionRequests
  <2>4. svReq' \in [StrategyRequests -> VersionRequests]
    BY <2>1, <2>3 DEF VersionsInv, VersionsTypeOK
  <2> HIDE DEF row, sameHash, clash
  <2>5. /\ svRows' \in Seq(VersionRows) /\ VersionIds' = VersionIds \cup {last} /\ svRows'[last] = row
        /\ \A i \in VersionIds : svRows'[i] = svRows[i]
    <3> HIDE DEF VersionRows
    <3>1. svRows' \in Seq(VersionRows) /\ Len(svRows') = last
      BY <2>1, <2>2 DEF VersionsInv, VersionsTypeOK
    <3>2. VersionIds' = 1 .. last
      BY <3>1 DEF VersionIds
    <3> QED BY <1>5, <2>1, <2>2, <3>1, <3>2 DEF VersionsInv, VersionsTypeOK
  <2>6. VersionsTypeOK'
    BY <2>4, <2>5 DEF VersionsTypeOK
  <2>7. \A m : CommittedOf(m)' = CommittedOf(m)
    BY <1>3, <2>2, <2>5 DEF CommittedOf
  <2>8. CommittedAreNumbered'
    <3>1. ASSUME NEW m \in SomeNames
          PROVE  {svRows'[i].version : i \in CommittedOf(m)} = {svRows[i].version : i \in CommittedOf(m)}
      BY <2>5 DEF CommittedOf
    <3> QED BY <2>7, <3>1 DEF VersionsInv, CommittedAreNumbered
  <2>9. HashesDiffer'
    <3>1. \A i \in VersionIds : svRows[i].by # -1 => svRows[i].hash # row.hash
      BY <1>7, <2>2 DEF sameHash
    <3> QED BY <2>5, <3>1 DEF VersionsInv, HashesDiffer
  <2>10. \A p \in StrategyRequests : p # q => (HoldsName(p)' <=> HoldsName(p))
    BY <2>3 DEF HoldsName
  <2>11. OneHolder'
    <3>1. \A p \in StrategyRequests : p # q /\ HoldsName(p) => svReq[p].name # n
      BY <1>1 DEF NameIsFree, HoldsName
    <3> QED BY <2>3, <2>10, <3>1 DEF VersionsInv, OneHolder
  <2>12. r.kind # "activate"
    BY <1>1 DEF VersionsInv, InsertersStore
  <2>13. HoldsName(q)' /\ InsertersStore'
    BY <2>3, <2>12 DEF HoldsName, VersionsInv, InsertersStore
  <2>14. PendingIsNext'
    <3>1. SUFFICES ASSUME NEW i \in VersionIds', NEW p \in StrategyRequests, svRows'[i].by = p
                   PROVE  /\ HoldsName(p)' /\ svReq'[p].id = i /\ svReq'[p].name = svRows'[i].name
                          /\ svRows'[i].version = Cardinality(CommittedOf(svRows'[i].name)) + 1
      BY <2>7 DEF PendingIsNext
    <3>2. CASE i = last
      BY <2>2, <2>3, <2>5, <2>13, <3>1, <3>2
    <3>3. CASE i # last
      <4>1. i \in VersionIds /\ svRows'[i] = svRows[i]
        BY <2>5, <3>3
      <4>2. /\ HoldsName(p) /\ svReq[p].id = i /\ svReq[p].name = svRows[i].name
            /\ svRows[i].version = Cardinality(CommittedOf(svRows[i].name)) + 1
        BY <3>1, <4>1 DEF VersionsInv, PendingIsNext
      <4> QED BY <1>3, <2>3, <2>10, <4>1, <4>2
    <3> QED BY <3>2, <3>3
  <2> QED BY <1>4, <2>6, <2>8, <2>9, <2>11, <2>13, <2>14 DEF VersionsInv
<1> QED BY <1>6, <1>7

(* A transaction ends: its row, if it has one, is committed or undone. *)
LEMMA EndKeeps ==
    ASSUME VersionsInv, NEW q \in StrategyRequests, NEW by \in {0, -1},
           by = 0 => svReq[q].pc = "commit",
           VersionsTypeOK', VersionIds' = VersionIds, ~svClash',
           svReq' = [svReq EXCEPT ![q] = Answered],
           \A i \in VersionIds :
               /\ svRows'[i].by = IF svRows[i].by = q THEN by ELSE svRows[i].by
               /\ svRows'[i].name = svRows[i].name /\ svRows'[i].version = svRows[i].version
               /\ svRows'[i].hash = svRows[i].hash
    PROVE  VersionsInv'
<1>1. /\ svReq'[q].pc = "over" /\ ~HoldsName(q)' /\ q \in Int /\ q > 0
      /\ \A p \in StrategyRequests : p # q => svReq'[p] = svReq[p] /\ (HoldsName(p)' <=> HoldsName(p))
  BY RequestTyped, StrategyAssumption DEF VersionsInv, VersionsTypeOK, HoldsName, StrategyRequests
<1>2. VersionsTypeOK /\ \A i \in VersionIds : svRows[i].by \in Int /\ svRows[i].by >= -1
                        /\ (svRows[i].by > 0 => svRows[i].by \in StrategyRequests)
  BY RowTyped DEF VersionsInv
<1>3. OneHolder' /\ InsertersStore'
  BY <1>1 DEF VersionsInv, OneHolder, InsertersStore
<1>4. HashesDiffer'
  <2>1. \A i \in VersionIds : svRows'[i].by # -1 => svRows[i].by # -1
    BY <1>1, <1>2
  <2> QED BY <2>1 DEF VersionsInv, HashesDiffer
<1> DEFINE Mine == {i \in VersionIds : svRows[i].by = q}
(* Names other than the one this request holds keep their committed versions. *)
<1>5. ASSUME NEW m, by = 0 => \A i \in Mine : svRows[i].name # m
      PROVE  CommittedOf(m)' = CommittedOf(m)
  BY <1>1, <1>2, <1>5 DEF CommittedOf
<1>6. ASSUME NEW i \in Mine
      PROVE  /\ HoldsName(q) /\ Mine = {i} /\ svReq[q].name = svRows[i].name
             /\ svRows[i].version = Cardinality(CommittedOf(svRows[i].name)) + 1
  BY <1>1, <1>6 DEF VersionsInv, PendingIsNext
<1>7. CommittedAreNumbered'
  <2> SUFFICES ASSUME NEW m \in SomeNames
               PROVE  {svRows'[i].version : i \in CommittedOf(m)'} = 1 .. Cardinality(CommittedOf(m)')
    BY DEF CommittedAreNumbered
  <2>1. {svRows[i].version : i \in CommittedOf(m)} = 1 .. Cardinality(CommittedOf(m))
    BY DEF VersionsInv, CommittedAreNumbered
  <2>2. CASE by = 0 => \A i \in Mine : svRows[i].name # m
    <3>1. {svRows'[i].version : i \in CommittedOf(m)} = {svRows[i].version : i \in CommittedOf(m)}
      BY DEF CommittedOf
    <3> QED BY <1>5, <2>1, <2>2, <3>1
  <2>3. ASSUME by = 0, NEW i \in Mine, svRows[i].name = m
        PROVE  {svRows'[j].version : j \in CommittedOf(m)'} = 1 .. Cardinality(CommittedOf(m)')
    <3> DEFINE c == Cardinality(CommittedOf(m))
    <3>0. i \in VersionIds /\ \A j \in VersionIds : svRows[j].by = q <=> j = i
      BY <1>6, <2>3
    <3>1. CommittedOf(m)' = CommittedOf(m) \cup {i} /\ i \notin CommittedOf(m)
      BY <1>1, <1>2, <2>3, <3>0 DEF CommittedOf
    <3>2. c \in Nat /\ Cardinality(CommittedOf(m)') = c + 1
      BY <1>2, <3>1, CommittedFinite, FS_AddElement
    <3>3. svRows'[i].version = c + 1
      BY <1>6, <2>3
    <3>4. {svRows'[j].version : j \in CommittedOf(m)'} = {svRows[j].version : j \in CommittedOf(m)} \cup {c + 1}
      <4>1. \A j \in CommittedOf(m) : svRows'[j].version = svRows[j].version
        BY DEF CommittedOf
      <4>2. \A j \in CommittedOf(m)' : j \in CommittedOf(m) \/ j = i
        BY <3>1
      <4>3. \A j \in CommittedOf(m) : j \in CommittedOf(m)'
        BY <3>1
      <4>4. i \in CommittedOf(m)'
        BY <3>1
      <4> HIDE DEF c
      <4> QED BY <3>3, <4>1, <4>2, <4>3, <4>4
    <3> HIDE DEF c
    <3>5. {svRows'[j].version : j \in CommittedOf(m)'} = (1 .. c) \cup {c + 1}
      BY <2>1, <3>4 DEF c
    <3> QED BY <3>2, <3>5
  <2> QED BY <2>2, <2>3
<1>8. PendingIsNext'
  <2>1. \A i \in VersionIds, p \in StrategyRequests : svRows'[i].by = p => svRows[i].by = p /\ p # q
    BY <1>1, <1>2, StrategyAssumption DEF StrategyRequests
  <2>2. ASSUME NEW i \in VersionIds, NEW p \in StrategyRequests, svRows'[i].by = p
        PROVE  /\ HoldsName(p)' /\ svReq'[p].id = i /\ svReq'[p].name = svRows[i].name
               /\ svRows[i].version = Cardinality(CommittedOf(svRows[i].name)') + 1
    <3>1. svRows[i].by = p /\ p # q
      BY <2>1, <2>2
    <3>2. /\ HoldsName(p) /\ svReq[p].id = i /\ svReq[p].name = svRows[i].name
          /\ svRows[i].version = Cardinality(CommittedOf(svRows[i].name)) + 1
      BY <3>1 DEF VersionsInv, PendingIsNext
    <3>3. \A j \in Mine : svRows[j].name # svRows[i].name
      BY <1>6, <3>1, <3>2 DEF VersionsInv, OneHolder
    <3>4. CommittedOf(svRows[i].name)' = CommittedOf(svRows[i].name)
      BY <1>5, <3>3
    <3> QED BY <1>1, <3>1, <3>2, <3>4
  <2>3. \A i \in VersionIds : CommittedOf(svRows'[i].name) = CommittedOf(svRows[i].name)
    OBVIOUS
  <2>4. \A i \in VersionIds : Cardinality(CommittedOf(svRows[i].name))' = Cardinality(CommittedOf(svRows[i].name)')
    OBVIOUS
  <2> QED BY <2>2, <2>3, <2>4 DEF PendingIsNext
<1> QED BY <1>3, <1>4, <1>7, <1>8 DEF VersionsInv

LEMMA VersionsStep == VersionsInv /\ [VersionsNext]_svVars => VersionsInv'
<1> SUFFICES ASSUME VersionsInv, [VersionsNext]_svVars PROVE VersionsInv'
  OBVIOUS
<1>1. CASE UNCHANGED svVars
  <2>1. UNCHANGED <<svRows, svReq, svClash>> /\ VersionIds' = VersionIds /\ \A n : CommittedOf(n)' = CommittedOf(n)
    BY <1>1 DEF svVars, CommittedOf, VersionIds
  <2>2. \A q \in StrategyRequests : HoldsName(q)' <=> HoldsName(q)
    BY <2>1 DEF HoldsName
  <2>3. VersionsTypeOK' /\ InsertersStore' /\ OneHolder' /\ HashesDiffer' /\ ~svClash'
    BY <2>1, <2>2 DEF VersionsInv, VersionsTypeOK, InsertersStore, OneHolder, HashesDiffer
  <2>4. PendingIsNext' /\ CommittedAreNumbered'
    BY <2>1, <2>2 DEF VersionsInv, PendingIsNext, CommittedAreNumbered
  <2> QED BY <2>3, <2>4 DEF VersionsInv
<1>2. CASE VersionsNext
  <2>1. PICK q \in StrategyRequests :
            \/ \E kind \in {"create", "update"}, n \in StrategyNames, h \in RuleSets, a \in BOOLEAN :
                  CheckVersion(q, kind, n, h, a)
            \/ \E i \in VersionIds : FindVersion(q, i)
            \/ InsertVersion(q) \/ UpdateBegins(q) \/ UpdateRuns(q) \/ CommitVersion(q) \/ AbortVersion(q)
    BY <1>2 DEF VersionsNext
  <2>2. /\ VersionsTypeOK /\ svReq[q] \in VersionRequests /\ svReq \in [StrategyRequests -> VersionRequests]
        /\ ~svClash
    BY DEF VersionsInv, VersionsTypeOK
  <2>3. CASE \E kind \in {"create", "update"}, n \in StrategyNames, h \in RuleSets, a \in BOOLEAN :
                 CheckVersion(q, kind, n, h, a)
    <3>1. PICK kind \in {"create", "update"}, n \in StrategyNames, h \in RuleSets, a \in BOOLEAN :
              CheckVersion(q, kind, n, h, a)
      BY <2>3
    <3> DEFINE new == [NewRequest EXCEPT !.pc = "insert", !.kind = kind, !.name = n, !.hash = h, !.activate = a]
    <3>2. /\ svReq[q].pc = "new" /\ UNCHANGED <<svRows, svClash>>
          /\ svReq' = [svReq EXCEPT ![q] = Answered] \/ svReq' = [svReq EXCEPT ![q] = new]
      BY <3>1 DEF CheckVersion
    <3>3. new \in VersionRequests /\ new.pc = "insert" /\ new.kind = kind
      BY RequestTyped DEF VersionRequests, SomeNames, SomeHashes
    <3> HIDE DEF new
    <3>4. /\ svReq'[q] \in VersionRequests /\ svReq'[q].pc \in {"insert", "over"}
          /\ (svReq'[q].pc = "insert" => svReq'[q].kind # "activate")
          /\ svReq' \in [StrategyRequests -> VersionRequests]
          /\ \A p \in StrategyRequests : p # q => svReq'[p] = svReq[p]
      BY <2>2, <3>2, <3>3, RequestTyped
    <3>5. ~HoldsName(q) /\ ~HoldsName(q)' /\ VersionsTypeOK'
      BY <2>2, <3>2, <3>4 DEF HoldsName, VersionsTypeOK
    <3> QED BY <2>2, <3>2, <3>4, <3>5, NoLockTaken
  <2>4. CASE \E i \in VersionIds : FindVersion(q, i)
    <3>1. PICK i \in VersionIds : FindVersion(q, i)
      BY <2>4
    <3> DEFINE new == [NewRequest EXCEPT !.pc = "update", !.kind = "activate", !.id = i, !.name = svRows[i].name]
    <3>2. svReq[q].pc = "new" /\ UNCHANGED <<svRows, svClash>> /\ svReq' = [svReq EXCEPT ![q] = new]
      BY <3>1 DEF FindVersion
    <3>3. i \in Nat /\ svRows[i].name \in SomeNames
      BY <2>2, RowTyped DEF VersionRows
    <3>4. new \in VersionRequests /\ new.pc = "update" /\ new.kind = "activate"
      BY <3>3, RequestTyped DEF VersionRequests
    <3> HIDE DEF new
    <3>5. /\ svReq'[q] = new /\ svReq' \in [StrategyRequests -> VersionRequests]
          /\ \A p \in StrategyRequests : p # q => svReq'[p] = svReq[p]
      BY <2>2, <3>2, <3>4
    <3>6. ~HoldsName(q) /\ ~HoldsName(q)' /\ VersionsTypeOK'
      BY <2>2, <3>2, <3>4, <3>5 DEF HoldsName, VersionsTypeOK
    <3> QED BY <2>2, <3>2, <3>4, <3>5, <3>6, NoLockTaken
  <2>5. CASE InsertVersion(q)
    BY <2>5, InsertKeeps
  <2>6. CASE UpdateBegins(q)
    <3>1. /\ svReq[q].pc = "update" /\ UNCHANGED <<svRows, svClash>>
          /\ svReq' = [svReq EXCEPT ![q].pc = "wait", ![q].found = OfName(q, svReq[q].name)]
      BY <2>6 DEF UpdateBegins
    <3>2. OfName(q, svReq[q].name) \in SUBSET Nat
      BY <2>2, RowTyped DEF OfName, SeenRows
    <3>3. /\ svReq'[q] \in VersionRequests /\ svReq'[q].pc = "wait" /\ svReq'[q].kind = svReq[q].kind
          /\ svReq'[q].name = svReq[q].name /\ svReq'[q].id = svReq[q].id
          /\ \A p \in StrategyRequests : p # q => svReq'[p] = svReq[p]
      BY <2>2, <3>1, <3>2 DEF VersionRequests
    <3>4. (HoldsName(q)' <=> HoldsName(q)) /\ VersionsTypeOK'
      BY <2>2, <3>1, <3>3 DEF HoldsName, VersionsTypeOK
    <3> QED BY <2>2, <3>1, <3>3, <3>4, NoLockTaken
  <2>7. CASE UpdateRuns(q)
    <3>1. svReq[q].pc = "wait" /\ UNCHANGED <<svRows, svClash>> /\ svReq' = [svReq EXCEPT ![q].pc = "commit"]
      BY <2>7 DEF UpdateRuns
    <3>2. /\ svReq'[q] \in VersionRequests /\ svReq'[q].pc = "commit" /\ svReq'[q].kind = svReq[q].kind
          /\ svReq'[q].name = svReq[q].name /\ svReq'[q].id = svReq[q].id
          /\ \A p \in StrategyRequests : p # q => svReq'[p] = svReq[p]
      BY <2>2, <3>1 DEF VersionRequests
    <3>3. (HoldsName(q)' <=> HoldsName(q)) /\ VersionsTypeOK'
      BY <2>2, <3>1, <3>2 DEF HoldsName, VersionsTypeOK
    <3> QED BY <2>2, <3>1, <3>2, <3>3, NoLockTaken
  <2>8. CASE CommitVersion(q) \/ AbortVersion(q)
    <3>1. PICK by \in {0, -1} :
              /\ by = 0 => svReq[q].pc = "commit"
              /\ svReq' = [svReq EXCEPT ![q] = Answered] /\ ~svClash'
              /\ \/ svRows' = [i \in VersionIds |-> [svRows[i] EXCEPT
                                   !.by = IF @ = q THEN by ELSE @,
                                   !.active = IF i \in svReq[q].found THEN i = svReq[q].id ELSE @]]
                 \/ svRows' = [i \in VersionIds |-> IF svRows[i].by = q THEN [svRows[i] EXCEPT !.by = by] ELSE svRows[i]]
      <4>1. CASE CommitVersion(q)
        <5>1. /\ svReq[q].pc = "commit"
              /\ svRows' = [i \in VersionIds |-> [svRows[i] EXCEPT
                                 !.by = IF @ = q THEN 0 ELSE @,
                                 !.active = IF i \in svReq[q].found THEN i = svReq[q].id ELSE @]]
              /\ svReq' = [svReq EXCEPT ![q] = Answered] /\ ~svClash'
          BY <2>2, <4>1 DEF CommitVersion
        <5> WITNESS 0 \in {0, -1}
        <5> QED BY <5>1
      <4>2. CASE AbortVersion(q)
        <5>1. /\ svRows' = [i \in VersionIds |-> IF svRows[i].by = q THEN [svRows[i] EXCEPT !.by = -1] ELSE svRows[i]]
              /\ svReq' = [svReq EXCEPT ![q] = Answered] /\ ~svClash'
          BY <2>2, <4>2 DEF AbortVersion
        <5> WITNESS -1 \in {0, -1}
        <5> QED BY <5>1
      <4> QED BY <2>8, <4>1, <4>2
    <3>2. by \in -1 .. MaxVersionRequests
      BY StrategyAssumption
    <3>3. ASSUME NEW i \in VersionIds
          PROVE  /\ svRows'[i] \in VersionRows
                 /\ svRows'[i].by = IF svRows[i].by = q THEN by ELSE svRows[i].by
                 /\ svRows'[i].name = svRows[i].name /\ svRows'[i].version = svRows[i].version
                 /\ svRows'[i].hash = svRows[i].hash
      <4>1. svRows[i] \in VersionRows
        BY <2>2, RowTyped
      <4>2. /\ svRows'[i] \in VersionRows
            /\ svRows'[i] = [svRows[i] EXCEPT !.by = IF @ = q THEN by ELSE @, !.active = svRows'[i].active]
        <5>1. CASE svRows' = [j \in VersionIds |-> [svRows[j] EXCEPT
                                  !.by = IF @ = q THEN by ELSE @,
                                  !.active = IF j \in svReq[q].found THEN j = svReq[q].id ELSE @]]
          BY <3>2, <4>1, <5>1 DEF VersionRows
        <5>2. CASE svRows' = [j \in VersionIds |-> IF svRows[j].by = q THEN [svRows[j] EXCEPT !.by = by] ELSE svRows[j]]
          BY <3>2, <4>1, <5>2 DEF VersionRows
        <5> QED BY <3>1, <5>1, <5>2
      <4> QED BY <4>1, <4>2 DEF VersionRows
    <3>4. svRows' \in [1 .. Len(svRows) -> VersionRows] /\ VersionIds' = VersionIds /\ Len(svRows) \in Nat
      <4>1. Len(svRows) \in Nat /\ VersionIds = 1 .. Len(svRows) /\ DOMAIN svRows' = VersionIds
        BY <2>2, <3>1, RowTyped
      <4> HIDE DEF VersionRows
      <4> QED BY <3>1, <3>3, <4>1 DEF VersionIds
    <3>5. VersionsTypeOK'
      <4>1. svRows' \in Seq(VersionRows)
        <5> HIDE DEF VersionRows
        <5> QED BY <3>4
      <4> QED BY <2>2, <3>1, <4>1, RequestTyped DEF VersionsTypeOK
    <3>6. /\ by = 0 => svReq[q].pc = "commit"
          /\ ~svClash' /\ svReq' = [svReq EXCEPT ![q] = Answered] /\ VersionIds' = VersionIds
      BY <3>1, <3>4
    <3>7. \A i \in VersionIds :
              /\ svRows'[i].by = IF svRows[i].by = q THEN by ELSE svRows[i].by
              /\ svRows'[i].name = svRows[i].name /\ svRows'[i].version = svRows[i].version
              /\ svRows'[i].hash = svRows[i].hash
      BY <3>3
    <3> QED BY <3>5, <3>6, <3>7, EndKeeps, Zenon
  <2> QED BY <2>1, <2>3, <2>4, <2>5, <2>6, <2>7, <2>8
<1> QED BY <1>1, <1>2

LEMMA VersionsInitInv == VersionsInit => VersionsInv
<1> SUFFICES ASSUME VersionsInit PROVE VersionsInv
  OBVIOUS
<1>1. svRows = <<>> /\ VersionIds = {} /\ \A n : CommittedOf(n) = {}
  BY DEF VersionsInit, VersionIds, CommittedOf
<1>2. VersionsTypeOK /\ \A q \in StrategyRequests : svReq[q].pc = "new"
  BY RequestTyped DEF VersionsInit, VersionsTypeOK
<1>3. CommittedAreNumbered
  <2>1. Cardinality({}) = 0
    BY FS_EmptySet
  <2> QED BY <1>1, <2>1 DEF CommittedAreNumbered
<1> QED BY <1>1, <1>2, <1>3 DEF VersionsInv, VersionsInit, InsertersStore, OneHolder, HoldsName, PendingIsNext, HashesDiffer

(* The versions of every name are 1, 2, ... without a hole, no rule set is *)
(* stored twice and no INSERT loses the race for a number, for any names,  *)
(* texts and number of requests side by side (strategy.py create_version). *)
THEOREM VersionsNumbered == VersionsSpec => []VersionsAreNumbered
<1>1. VersionsInv => VersionsAreNumbered
  BY DEF VersionsInv, VersionsAreNumbered, CommittedAreNumbered, HashesDiffer, SomeNames
<1> QED BY <1>1, VersionsInitInv, VersionsStep, PTL DEF VersionsSpec

-----------------------------------------------------------------------------
(* ControlChannel.                                                         *)

RequestRows == [run : Nat, tx : {"open", "committed", "aborted"}, at : Nat]
QueuedCommands == [id : Nat, admin : BOOLEAN]
AppliedCommands == [id : Nat, run : Nat, outcome : {"released", "denied"}]

ChannelTypeOK ==
    /\ ccRows \in Seq(RequestRows)
    /\ ccAdmin \in BOOLEAN /\ ccWorker \in {"off", "listening", "running"}
    /\ ccRun \in Nat /\ ccCreated \in Nat /\ ccLast \in Nat
    /\ ccQueue \in Seq(QueuedCommands)
    /\ ccApplied \in Seq(AppliedCommands)

(* A polled command was committed for the session that holds it, is seen,  *)
(* and is younger than all that was applied.                               *)
Waits(i) ==
    /\ i \in CommittedRequests /\ ccRows[i].at = ccRun /\ i <= ccLast
    /\ \A a \in DOMAIN ccApplied : ccApplied[a].id < i

QueueIsFresh ==
    /\ ccWorker = "off" => ccQueue = <<>>
    /\ \A k \in DOMAIN ccQueue : Waits(ccQueue[k].id)
    /\ \A k, l \in DOMAIN ccQueue : k < l => ccQueue[k].id < ccQueue[l].id

(* What a session has not seen was committed after it began to listen. *)
UnseenIsMine == ccWorker # "off" => \A i \in CommittedRequests : i > ccLast => ccRows[i].at = ccRun

AppliedIsSeen == \A a \in DOMAIN ccApplied : ccApplied[a].id <= ccLast

ChannelInv == ChannelTypeOK /\ QueueIsFresh /\ UnseenIsMine /\ AppliedIsSeen /\ AppliedIsFresh

LEMMA GreatestExists ==
    ASSUME NEW n \in Nat, NEW S, S \subseteq 1 .. n, S # {}
    PROVE  MaxOf(S) \in S /\ \A y \in S : y <= MaxOf(S)
<1> DEFINE T == {n - x : x \in S}
<1>1. T \subseteq Nat /\ T # {}
  <2>1. ASSUME NEW x \in S PROVE n - x \in Nat
    <3>1. x \in 1 .. n
      OBVIOUS
    <3> QED BY <3>1
  <2> QED BY <2>1
<1>2. PICK z \in T : \A y \in T : <<y, z>> \notin OpToRel(<, Nat)
  BY <1>1, NatLessThanWellFounded, WFMin
<1>3. PICK x \in S : z = n - x
  BY <1>2
<1>4. \A y \in S : y <= x
  <2> SUFFICES ASSUME NEW y \in S PROVE y <= x
    OBVIOUS
  <2>1. x \in 1 .. n /\ y \in 1 .. n
    OBVIOUS
  <2>2. n - y \in T /\ n - y \in Nat /\ z \in Nat
    BY <1>3, <2>1
  <2>3. ~(n - y < z)
    BY <1>2, <2>2 DEF OpToRel
  <2> QED BY <1>3, <2>1, <2>3
<1> HIDE DEF T
<1> QED BY <1>3, <1>4 DEF MaxOf

LEMMA RequestsTyped ==
    ASSUME ChannelTypeOK
    PROVE  /\ Len(ccRows) \in Nat /\ RequestIds = 1 .. Len(ccRows)
           /\ \A i \in RequestIds : ccRows[i] \in RequestRows
           /\ CommittedRequests \subseteq 1 .. Len(ccRows)
<1> HIDE DEF RequestRows
<1>1. Len(ccRows) \in Nat /\ RequestIds = 1 .. Len(ccRows)
  BY DEF ChannelTypeOK, RequestIds
<1> QED BY <1>1 DEF ChannelTypeOK, CommittedRequests

LEMMA SeenOfAll ==
    ASSUME ChannelTypeOK, NEW S, S \subseteq CommittedRequests
    PROVE  /\ MaxOf(S) \in Nat /\ \A i \in S : i <= MaxOf(S)
           /\ S # {} => MaxOf(S) \in S
<1>1. Len(ccRows) \in Nat /\ S \subseteq 1 .. Len(ccRows)
  BY RequestsTyped
<1>2. CASE S = {}
  BY <1>2 DEF MaxOf
<1>3. CASE S # {}
  <2>1. MaxOf(S) \in S /\ \A y \in S : y <= MaxOf(S)
    BY <1>1, <1>3, GreatestExists, Zenon
  <2>2. MaxOf(S) \in 1 .. Len(ccRows)
    BY <1>1, <2>1, Zenon
  <2>3. MaxOf(S) \in Nat
    BY <1>1, <2>2
  <2> QED BY <2>1, <2>3, Zenon
<1> QED BY <1>2, <1>3

(* The API only adds rows; what is committed stays as it is, and what is   *)
(* committed now is stamped with the session that listens.                 *)
LEMMA RowsGrow ==
    ASSUME ChannelInv, UNCHANGED <<ccWorker, ccRun, ccCreated, ccLast, ccQueue, ccApplied>>,
           ccRows' \in Seq(RequestRows), ccAdmin' \in BOOLEAN,
           \A i \in CommittedRequests : i \in CommittedRequests' /\ ccRows'[i] = ccRows[i],
           \A i \in CommittedRequests' : i \notin CommittedRequests /\ ccWorker # "off" => ccRows'[i].at = ccRun
    PROVE  ChannelInv'
<1>1. ChannelTypeOK' /\ AppliedIsSeen'
  BY DEF ChannelInv, ChannelTypeOK, AppliedIsSeen
<1>2. \A i : Waits(i) => Waits(i)'
  BY DEF Waits
<1>3. QueueIsFresh'
  BY <1>2 DEF ChannelInv, QueueIsFresh
<1>4. UnseenIsMine'
  BY DEF ChannelInv, UnseenIsMine
<1>5. AppliedIsFresh'
  <2>1. \A k \in DOMAIN ccApplied : ccApplied[k].id \in CommittedRequests
    BY DEF ChannelInv, AppliedIsFresh
  <2>2. AppliedInOrder'
    BY DEF ChannelInv, AppliedIsFresh, AppliedInOrder
  <2> QED BY <2>1, <2>2 DEF ChannelInv, AppliedIsFresh
<1> QED BY <1>1, <1>3, <1>4, <1>5 DEF ChannelInv

(* The worker leaves the rows alone. *)
LEMMA CommittedStays ==
    ASSUME UNCHANGED ccRows
    PROVE  CommittedRequests' = CommittedRequests
BY DEF CommittedRequests, RequestIds

LEMMA ChannelStep == ChannelInv /\ [ChannelNext]_ccVars => ChannelInv'
<1> SUFFICES ASSUME ChannelInv, [ChannelNext]_ccVars PROVE ChannelInv'
  OBVIOUS
<1>0. /\ ChannelTypeOK /\ Len(ccRows) \in Nat /\ RequestIds = 1 .. Len(ccRows)
      /\ \A i \in RequestIds : ccRows[i] \in RequestRows
      /\ CommittedRequests \subseteq 1 .. Len(ccRows)
      /\ CommittedRequests = {i \in RequestIds : ccRows[i].tx = "committed"}
  BY RequestsTyped DEF ChannelInv, CommittedRequests
<1>1. CASE UNCHANGED ccVars
  <2>1. UNCHANGED <<ccRows, ccAdmin, ccWorker, ccRun, ccCreated, ccLast, ccQueue, ccApplied>>
    BY <1>1 DEF ccVars
  <2>2. ccRows' \in Seq(RequestRows) /\ ccAdmin' \in BOOLEAN /\ CommittedRequests' = CommittedRequests
    BY <1>0, <2>1, CommittedStays DEF ChannelTypeOK
  <2> QED BY <2>1, <2>2, RowsGrow
<1>2. CASE RequestRelease
  <2>1. PICK target \in (IF ccCreated = 0 THEN {0} ELSE 1..ccCreated) :
            ccRows' = Append(ccRows, [run |-> target, tx |-> "open", at |-> 0])
    BY <1>2 DEF RequestRelease
  <2> DEFINE row == [run |-> target, tx |-> "open", at |-> 0]
  <2>2. row \in RequestRows /\ row.tx = "open"
    BY <1>0 DEF ChannelTypeOK, RequestRows
  <2> HIDE DEF row
  <2>3. /\ ccRows' \in Seq(RequestRows) /\ RequestIds' = 1 .. (Len(ccRows) + 1)
        /\ ccRows'[Len(ccRows) + 1] = row /\ \A i \in RequestIds : ccRows'[i] = ccRows[i]
    <3> HIDE DEF RequestRows
    <3>1. ccRows' = Append(ccRows, row)
      BY <2>1 DEF row
    <3> QED BY <1>0, <2>2, <3>1 DEF ChannelTypeOK, RequestIds
  <2>4. CommittedRequests' = CommittedRequests
    BY <1>0, <2>2, <2>3 DEF CommittedRequests
  <2>5. UNCHANGED <<ccAdmin, ccWorker, ccRun, ccCreated, ccLast, ccQueue, ccApplied>>
    BY <1>2 DEF RequestRelease
  <2>6. \A i \in CommittedRequests : ccRows'[i] = ccRows[i]
    BY <1>0, <2>3
  <2> QED BY <1>0, <2>3, <2>4, <2>5, <2>6, RowsGrow DEF ChannelTypeOK
<1>3. CASE DemoteRequester
  <2>1. UNCHANGED <<ccRows, ccWorker, ccRun, ccCreated, ccLast, ccQueue, ccApplied>> /\ ccAdmin' = FALSE
    BY <1>3 DEF DemoteRequester
  <2>2. ccRows' \in Seq(RequestRows) /\ CommittedRequests' = CommittedRequests
    BY <1>0, <2>1, CommittedStays DEF ChannelTypeOK
  <2> QED BY <2>1, <2>2, RowsGrow
<1>4. ASSUME NEW i \in RequestIds, CommitRequest(i) \/ RollbackRequest(i)
      PROVE  ChannelInv'
  <2>1. /\ ccRows[i].tx = "open" /\ UNCHANGED <<ccAdmin, ccWorker, ccRun, ccCreated, ccLast, ccQueue, ccApplied>>
        /\ \/ ccRows' = [ccRows EXCEPT ![i].tx = "committed", ![i].at = IF ccWorker = "off" THEN 0 ELSE ccRun]
           \/ ccRows' = [ccRows EXCEPT ![i].tx = "aborted"]
    BY <1>4 DEF CommitRequest, RollbackRequest
  <2> DEFINE row == ccRows'[i]
  <2>2. row \in RequestRows /\ (row.tx = "committed" /\ ccWorker # "off" => row.at = ccRun)
    <3>1. ccRun \in Nat /\ ccRows[i] \in RequestRows /\ i \in DOMAIN ccRows
      BY <1>0 DEF ChannelTypeOK, RequestIds
    <3>2. CASE ccRows' = [ccRows EXCEPT ![i].tx = "committed", ![i].at = IF ccWorker = "off" THEN 0 ELSE ccRun]
      BY <3>1, <3>2 DEF RequestRows
    <3>3. CASE ccRows' = [ccRows EXCEPT ![i].tx = "aborted"]
      BY <3>1, <3>3 DEF RequestRows
    <3> QED BY <2>1, <3>2, <3>3
  <2>3. RequestIds' = RequestIds /\ \A j \in RequestIds : j # i => ccRows'[j] = ccRows[j]
    BY <1>0, <2>1 DEF RequestIds
  <2> HIDE DEF row
  <2>4. ccRows' = [ccRows EXCEPT ![i] = row]
    BY <2>1 DEF row
  <2>5. ccRows' \in Seq(RequestRows)
    <3> HIDE DEF RequestRows
    <3> QED BY <1>0, <2>2, <2>4 DEF ChannelTypeOK
  <2>6. \A j \in CommittedRequests : j # i /\ j \in CommittedRequests' /\ ccRows'[j] = ccRows[j]
    BY <1>0, <2>1, <2>3 DEF CommittedRequests
  <2>7. \A j \in CommittedRequests' : j \notin CommittedRequests /\ ccWorker # "off" => ccRows'[j].at = ccRun
    <3>1. \A j \in CommittedRequests' : j \in RequestIds /\ ccRows'[j].tx = "committed"
      BY <2>3 DEF CommittedRequests
    <3> QED BY <1>0, <2>2, <2>3, <3>1 DEF row
  <2> QED BY <1>0, <2>1, <2>5, <2>6, <2>7, RowsGrow DEF ChannelTypeOK
<1>5. CASE StartChannel
  <2>1. /\ ccWorker = "off" /\ ccWorker' = "listening" /\ ccRun' = ccRun + 1 /\ ccLast' = MaxOf(CommittedRequests)
        /\ UNCHANGED <<ccRows, ccAdmin, ccCreated, ccQueue, ccApplied>>
    BY <1>5 DEF StartChannel
  <2>2. ccLast' \in Nat /\ \A i \in CommittedRequests : i <= ccLast'
    BY <1>0, <2>1, SeenOfAll
  <2>3. ccQueue = <<>> /\ CommittedRequests' = CommittedRequests
    BY <2>1, CommittedStays DEF ChannelInv, QueueIsFresh
  <2>4. ChannelTypeOK'
    BY <1>0, <2>1, <2>2 DEF ChannelTypeOK
  <2>5. QueueIsFresh'
    BY <2>1, <2>3 DEF QueueIsFresh
  <2>6. UnseenIsMine'
    <3>1. \A i \in CommittedRequests : i \in Int /\ ~(i > ccLast')
      BY <1>0, <2>2
    <3> QED BY <2>3, <3>1 DEF UnseenIsMine
  <2>7. AppliedIsSeen'
    BY <2>1, <2>2 DEF ChannelInv, AppliedIsFresh, AppliedIsSeen
  <2>8. AppliedIsFresh'
    BY <2>1, <2>3 DEF ChannelInv, AppliedIsFresh, AppliedInOrder
  <2> QED BY <2>4, <2>5, <2>6, <2>7, <2>8 DEF ChannelInv
<1>6. CASE BeginSession
  <2>1. /\ ccWorker = "listening" /\ ccWorker' = "running" /\ ccCreated' = ccRun
        /\ UNCHANGED <<ccRows, ccAdmin, ccRun, ccLast, ccQueue, ccApplied>>
    BY <1>6 DEF BeginSession
  <2>2. CommittedRequests' = CommittedRequests
    BY <2>1, CommittedStays
  <2>3. ChannelTypeOK' /\ AppliedIsSeen' /\ UnseenIsMine'
    BY <2>1, <2>2 DEF ChannelInv, ChannelTypeOK, AppliedIsSeen, UnseenIsMine
  <2>4. QueueIsFresh' /\ AppliedIsFresh'
    BY <2>1, <2>2 DEF ChannelInv, QueueIsFresh, Waits, AppliedIsFresh, AppliedInOrder
  <2> QED BY <2>3, <2>4 DEF ChannelInv
<1>7. CASE PollCommands
  <2> DEFINE new == {i \in Newest(CommittedRequests) : i > ccLast}
  <2>1. PICK ids \in [1..Cardinality(new) -> new] :
            /\ \A k, l \in DOMAIN ids : k < l => ids[k] < ids[l]
            /\ ccQueue' = [k \in DOMAIN ids |-> [id |-> ids[k], admin |-> ccAdmin]]
    BY <1>7 DEF PollCommands
  <2>2. /\ ccWorker = "running" /\ new # {} /\ ccLast' = MaxOf(new)
        /\ UNCHANGED <<ccRows, ccAdmin, ccWorker, ccRun, ccCreated, ccApplied>>
    BY <1>7 DEF PollCommands
  <2>3. /\ new \subseteq CommittedRequests
        /\ \A i \in new : i \in Nat /\ ccLast < i /\ i \in CommittedRequests
    BY <1>0 DEF Newest
  <2>4. CommittedRequests' = CommittedRequests
    BY <2>2, CommittedStays
  <2>5. Cardinality(new) \in Nat
    <3>1. IsFiniteSet(1 .. Len(ccRows)) /\ new \in SUBSET (1 .. Len(ccRows))
      BY <1>0, <2>3, FS_Interval
    <3> QED BY <3>1, FS_Subset, FS_CardinalityType
  <2> HIDE DEF new
  <2>6. ccLast' \in new /\ \A i \in new : i <= ccLast'
    BY <1>0, <2>2, <2>3, SeenOfAll
  <2>7. ccLast \in Nat /\ ccLast' \in Nat /\ ccLast < ccLast'
    BY <1>0, <2>3, <2>6 DEF ChannelTypeOK
  <2>8. /\ DOMAIN ccQueue' = 1 .. Cardinality(new)
        /\ \A k \in DOMAIN ccQueue' : ccQueue'[k] \in QueuedCommands /\ ccQueue'[k].id = ids[k] /\ ids[k] \in new
    BY <1>0, <2>1, <2>3 DEF ChannelTypeOK, QueuedCommands
  <2>9. ccQueue' \in Seq(QueuedCommands)
    <3> HIDE DEF QueuedCommands
    <3>1. ccQueue' \in [1 .. Cardinality(new) -> QueuedCommands]
      BY <2>1, <2>8
    <3> QED BY <2>5, <3>1
  <2>10. ChannelTypeOK'
    BY <1>0, <2>2, <2>7, <2>9 DEF ChannelTypeOK
  <2>11. \A a \in DOMAIN ccApplied : ccApplied[a].id \in Nat /\ ccApplied[a].id <= ccLast
    <3>1. \A a \in DOMAIN ccApplied : ccApplied[a].id \in CommittedRequests
      BY DEF ChannelInv, AppliedIsFresh
    <3> QED BY <1>0, <3>1 DEF ChannelInv, AppliedIsSeen
  <2>12. ASSUME NEW i \in new PROVE Waits(i)'
    <3>1. i \in CommittedRequests /\ i > ccLast /\ i \in Nat
      BY <2>3
    <3>2. ccRows[i].at = ccRun
      BY <2>2, <3>1 DEF ChannelInv, UnseenIsMine
    <3>3. \A a \in DOMAIN ccApplied : ccApplied[a].id < i
      BY <2>7, <2>11, <3>1
    <3> QED BY <2>2, <2>4, <2>6, <3>1, <3>2, <3>3 DEF Waits
  <2>13. QueueIsFresh'
    <3>1. \A k \in DOMAIN ccQueue' : Waits(ids[k])'
      BY <2>8, <2>12
    <3>2. \A k, l \in DOMAIN ccQueue' : k < l => ids[k] < ids[l]
      BY <2>1, <2>8
    <3> QED BY <2>2, <2>8, <3>1, <3>2 DEF QueueIsFresh, Waits
  <2>14. AppliedIsSeen'
    BY <2>2, <2>7, <2>11 DEF AppliedIsSeen
  <2>15. UnseenIsMine'
    <3>1. \A i \in CommittedRequests : i > ccLast' => i > ccLast
      BY <1>0, <2>7
    <3> QED BY <2>2, <2>4, <3>1 DEF ChannelInv, UnseenIsMine
  <2>16. AppliedIsFresh'
    BY <2>2, <2>4 DEF ChannelInv, AppliedIsFresh, AppliedInOrder
  <2> QED BY <2>10, <2>13, <2>14, <2>15, <2>16 DEF ChannelInv
<1>8. CASE ApplyCommand
  <2> DEFINE c == Head(ccQueue)
             done == [id |-> c.id, run |-> ccRun, outcome |-> IF c.admin THEN "released" ELSE "denied"]
             n == Len(ccApplied)
  <2>1. /\ ccWorker = "running" /\ ccQueue # <<>> /\ ccQueue' = Tail(ccQueue)
        /\ ccApplied' = IF ccRows[c.id].run \in {0, ccRun} THEN Append(ccApplied, done) ELSE ccApplied
        /\ UNCHANGED <<ccRows, ccAdmin, ccWorker, ccRun, ccCreated, ccLast>>
    BY <1>8 DEF ApplyCommand
  <2>2. CommittedRequests' = CommittedRequests
    BY <2>1, CommittedStays
  <2>3. /\ c = ccQueue[1] /\ 1 \in DOMAIN ccQueue /\ c \in QueuedCommands
        /\ ccQueue' \in Seq(QueuedCommands)
        /\ \A k \in DOMAIN ccQueue' : k \in Nat /\ k + 1 \in DOMAIN ccQueue /\ ccQueue'[k] = ccQueue[k + 1] /\ k + 1 > 1
    <3> HIDE DEF QueuedCommands
    <3> QED BY <1>0, <2>1 DEF ChannelTypeOK
  <2>4. Waits(c.id) /\ \A k \in DOMAIN ccQueue' : Waits(ccQueue'[k].id) /\ c.id < ccQueue'[k].id
    BY <2>3 DEF ChannelInv, QueueIsFresh
  <2>5. \A k, l \in DOMAIN ccQueue' : k < l => ccQueue'[k].id < ccQueue'[l].id
    <3>1. \A k, l \in DOMAIN ccQueue' : k < l => k + 1 < l + 1
      BY <2>3
    <3> QED BY <2>3, <3>1 DEF ChannelInv, QueueIsFresh
  <2>6. UnseenIsMine'
    BY <2>1, <2>2 DEF ChannelInv, UnseenIsMine
  <2>7. CASE ccRows[c.id].run \notin {0, ccRun}
    <3>1. UNCHANGED ccApplied
      BY <2>1, <2>7
    <3>2. ChannelTypeOK' /\ AppliedIsSeen' /\ AppliedIsFresh'
      BY <2>1, <2>2, <2>3, <3>1 DEF ChannelInv, ChannelTypeOK, AppliedIsSeen, AppliedIsFresh, AppliedInOrder
    <3>3. QueueIsFresh'
      <4>1. \A k \in DOMAIN ccQueue' : Waits(ccQueue[k].id)'
        BY <2>1, <2>2, <2>4, <3>1 DEF Waits
      <4> QED BY <2>1, <2>5, <4>1 DEF QueueIsFresh, Waits
    <3> QED BY <2>6, <3>2, <3>3 DEF ChannelInv
  <2>8. CASE ccRows[c.id].run \in {0, ccRun}
    <3>1. done \in AppliedCommands /\ done.id = c.id /\ done.run = ccRun
      BY <1>0, <2>3 DEF ChannelTypeOK, QueuedCommands, AppliedCommands
    <3>2. n \in Nat /\ DOMAIN ccApplied = 1 .. n
      BY <1>0 DEF ChannelTypeOK
    <3> HIDE DEF done, c
    <3>3. /\ ccApplied' \in Seq(AppliedCommands) /\ DOMAIN ccApplied' = 1 .. (n + 1) /\ Len(ccApplied') = n + 1
          /\ ccApplied'[n + 1] = done /\ \A k \in 1 .. n : ccApplied'[k] = ccApplied[k]
      <4> HIDE DEF AppliedCommands
      <4> QED BY <1>0, <2>1, <2>8, <3>1, <3>2 DEF ChannelTypeOK
    <3> HIDE DEF n
    <3>4. ChannelTypeOK'
      BY <1>0, <2>1, <2>3, <3>3 DEF ChannelTypeOK
    <3>5. QueueIsFresh'
      <4>1. ASSUME NEW k \in DOMAIN ccQueue' PROVE Waits(ccQueue[k].id)'
        <5>1. \A a \in DOMAIN ccApplied' : ccApplied'[a].id < ccQueue'[k].id
          BY <2>4, <3>1, <3>2, <3>3 DEF Waits
        <5>2. ccQueue'[k].id \in CommittedRequests' /\ ccRows'[ccQueue'[k].id].at = ccRun' /\ ccQueue'[k].id <= ccLast'
          BY <2>1, <2>2, <2>4 DEF Waits
        <5> QED BY <5>1, <5>2 DEF Waits
      <4> QED BY <2>1, <2>5, <4>1 DEF QueueIsFresh, Waits
    <3>6. AppliedIsSeen'
      BY <2>1, <2>4, <3>1, <3>2, <3>3 DEF ChannelInv, AppliedIsSeen, Waits
    <3>7. AppliedInOrder'
      <4>1. ASSUME NEW k \in 2 .. (n + 1) PROVE ccApplied'[k - 1].id < ccApplied'[k].id
        <5>1. k - 1 \in 1 .. n
          BY <3>2
        <5>2. CASE k = n + 1
          BY <2>4, <3>1, <3>2, <3>3, <5>1, <5>2 DEF Waits
        <5>3. CASE k \in 2 .. n
          BY <3>2, <3>3, <5>1, <5>3 DEF ChannelInv, AppliedIsFresh, AppliedInOrder, n
        <5> QED BY <3>2, <5>2, <5>3
      <4> QED BY <3>3, <4>1 DEF AppliedInOrder
    <3>8. AppliedIsFresh'
      <4>1. ASSUME NEW k \in 1 .. (n + 1)
            PROVE  /\ ccApplied'[k].id \in CommittedRequests /\ ccRows[ccApplied'[k].id].at = ccApplied'[k].run
                   /\ ccRows[ccApplied'[k].id].run \in {0, ccApplied'[k].run}
        <5>1. CASE k = n + 1
          BY <2>4, <2>8, <3>1, <3>3, <5>1 DEF Waits
        <5>2. CASE k \in 1 .. n
          BY <3>2, <3>3, <5>2 DEF ChannelInv, AppliedIsFresh
        <5> QED BY <3>2, <5>1, <5>2
      <4> QED BY <2>1, <2>2, <3>3, <3>7, <4>1 DEF AppliedIsFresh
    <3> QED BY <2>6, <3>4, <3>5, <3>6, <3>8 DEF ChannelInv
  <2> QED BY <2>7, <2>8
<1>9. CASE StopSession
  <2>1. /\ ccWorker' = "off" /\ ccQueue' = <<>>
        /\ UNCHANGED <<ccRows, ccAdmin, ccRun, ccCreated, ccLast, ccApplied>>
    BY <1>9 DEF StopSession
  <2>2. CommittedRequests' = CommittedRequests
    BY <2>1, CommittedStays
  <2>3. ChannelTypeOK' /\ AppliedIsSeen' /\ UnseenIsMine' /\ QueueIsFresh'
    BY <2>1, <2>2 DEF ChannelInv, ChannelTypeOK, AppliedIsSeen, UnseenIsMine, QueueIsFresh
  <2>4. AppliedIsFresh'
    BY <2>1, <2>2 DEF ChannelInv, AppliedIsFresh, AppliedInOrder
  <2> QED BY <2>3, <2>4 DEF ChannelInv
<1> QED BY <1>1, <1>2, <1>3, <1>4, <1>5, <1>6, <1>7, <1>8, <1>9 DEF ChannelNext

(* Releases are applied in the order of their ids, once, and only by the   *)
(* session that listened when they were committed, for any number of       *)
(* requests and sessions and any poll limit (trading_worker.py             *)
(* ControlChannel, TradingSession.apply).                                  *)
THEOREM ReleasesAreFresh == ChannelSpec => []AppliedIsFresh
<1>1. ChannelInit => ChannelInv
  BY DEF ChannelInit, ChannelInv, ChannelTypeOK, QueueIsFresh, UnseenIsMine, AppliedIsSeen, AppliedIsFresh,
         AppliedInOrder, CommittedRequests, RequestIds
<1>2. ChannelInv => AppliedIsFresh
  BY DEF ChannelInv
<1> QED BY <1>1, <1>2, ChannelStep, PTL DEF ChannelSpec

-----------------------------------------------------------------------------
(* BacktestJobs.                                                           *)

JobRequests ==
    [pc : {"none", "refused", "open", "accepted", "failed", "elsewhere"}, identity : Identities \cup {"none"}]
JobTasks == {"none", "queued", "over"} \cup InRunner
JobStatuses == {"none", "PENDING", "RUNNING", "DONE", "FAILED"}
RunRows == [identity : Identities \cup {"none"}, status : {"none", "RUNNING", "DONE", "FAILED"}]

JobsTypeOK ==
    /\ bjUp \in BOOLEAN
    /\ bjReq \in [Backtests -> JobRequests]
    /\ bjTask \in [Backtests -> JobTasks]
    /\ bjStatus \in [Backtests -> JobStatuses]
    /\ bjRow \in [Backtests -> RunRows]
    /\ bjJobs \subseteq Backtests /\ bjStored \subseteq Backtests /\ bjLost \subseteq Backtests
    /\ bjLate \subseteq Backtests

ActiveTask(r) == bjTask[r] \notin {"none", "over"}
HasRow(r) == bjRow[r] # NoRow

(* A run that was not asked for has left no trace; an active task has its  *)
(* unfinished job in the registry; it has a row exactly from its passport  *)
(* on, RUNNING until its results are committed; only a task that heard of  *)
(* their COMMIT too late writes a failure over DONE; and only a request    *)
(* that failed has cancelled its run.                                      *)
RunOk(r) ==
    /\ bjReq[r].pc = "none" => bjTask[r] = "none" /\ bjStatus[r] = "none" /\ ~HasRow(r) /\ r \notin bjJobs
    /\ ActiveTask(r) => r \in bjJobs /\ bjStatus[r] \in Unfinished /\ bjReq[r].identity \in Identities
    /\ bjTask[r] \in {"queued", "prepare", "passport"} => ~HasRow(r)
    /\ bjTask[r] \in {"committed", "engine", "persist"} => bjRow[r].status = "RUNNING"
    /\ bjTask[r] = "persisted" => bjRow[r].status = "DONE" /\ r \notin bjLate
    /\ bjTask[r] \in {"fail", "failCancelled"} =>
          bjRow[r].status = "RUNNING" \/ (bjRow[r].status = "DONE" /\ r \in bjLate)
    /\ bjTask[r] = "failCancelled" => bjReq[r].pc = "failed"
    /\ HasRow(r) => bjRow[r].identity \in Identities
    /\ bjRow[r].status = "DONE" => r \in bjStored
    /\ r \in bjStored => bjRow[r].status = "DONE" \/ r \in bjLate
    /\ bjStatus[r] = "DONE" => bjRow[r].status = "DONE" /\ r \notin bjLate
    /\ r \in bjLate => r \in bjStored /\ bjRow[r].status \in {"DONE", "FAILED"}
    /\ bjRow[r].status = "RUNNING" => bjTask[r] \in InRunner \/ r \in bjLost

RowsDiffer ==
    \A r, q \in Backtests : r # q /\ HasRow(r) /\ HasRow(q) => bjRow[r].identity # bjRow[q].identity

WorkIsBounded == Cardinality(Running) <= MaxConcurrent /\ Cardinality(UnfinishedJobs) <= MaxPending

JobsInv == JobsTypeOK /\ (\A r \in Backtests : RunOk(r)) /\ RowsDiffer /\ WorkIsBounded

LEMMA BacktestsFinite ==
    ASSUME NEW S, S \subseteq Backtests
    PROVE  IsFiniteSet(S) /\ Cardinality(S) \in Nat
<1>1. IsFiniteSet(1 .. MaxBacktests)
  BY FS_Interval, JobsAssumption
<1> QED BY <1>1, FS_Subset, FS_CardinalityType DEF Backtests

LEMMA FewerThan ==
    ASSUME NEW S, S \subseteq Backtests, NEW T, T \subseteq S
    PROVE  Cardinality(T) <= Cardinality(S)
BY BacktestsFinite, FS_Subset

LEMMA OneMore ==
    ASSUME NEW S, S \subseteq Backtests, NEW r \in Backtests, NEW T, T \subseteq S \cup {r},
           NEW m \in Nat, Cardinality(S) < m
    PROVE  Cardinality(T) <= m
<1>1. IsFiniteSet(S) /\ Cardinality(S) \in Nat
  BY BacktestsFinite
<1>2. Cardinality(S \cup {r}) <= Cardinality(S) + 1
  <2>1. Cardinality(S \cup {r}) = IF r \in S THEN Cardinality(S) ELSE Cardinality(S) + 1
    BY <1>1, FS_AddElement, Zenon
  <2> QED BY <1>1, <2>1
<1>3. S \cup {r} \subseteq Backtests
  OBVIOUS
<1>4. Cardinality(T) <= Cardinality(S \cup {r}) /\ Cardinality(T) \in Nat /\ Cardinality(S \cup {r}) \in Nat
  BY <1>3, FewerThan, BacktestsFinite
<1> QED BY <1>1, <1>2, <1>4

LEMMA NoRowHasNone == NoRow \in RunRows /\ NoRow.identity = "none" /\ NoRow.status = "none"
BY DEF NoRow, RunRows

(* A step of one run leaves the others as they were; eviction takes only   *)
(* finished jobs.                                                          *)
OthersStay(r) ==
    \A q \in Backtests : q # r =>
        /\ bjReq'[q] = bjReq[q] /\ bjTask'[q] = bjTask[q] /\ bjStatus'[q] = bjStatus[q] /\ bjRow'[q] = bjRow[q]
        /\ (q \in bjStored' <=> q \in bjStored) /\ (q \in bjLost => q \in bjLost') /\ (q \in bjLate' <=> q \in bjLate)
        /\ (q \in bjJobs' => q \in bjJobs)
        /\ (q \in bjJobs /\ bjStatus[q] \in Unfinished => q \in bjJobs')

LEMMA OthersOk ==
    ASSUME JobsInv, NEW r \in Backtests, OthersStay(r), NEW q \in Backtests, q # r
    PROVE  RunOk(q)' /\ (HasRow(q)' <=> HasRow(q)) /\ bjRow'[q] = bjRow[q]
           /\ (q \in Running' => q \in Running) /\ (q \in UnfinishedJobs' => q \in UnfinishedJobs)
<1>1. /\ bjReq'[q] = bjReq[q] /\ bjTask'[q] = bjTask[q] /\ bjStatus'[q] = bjStatus[q] /\ bjRow'[q] = bjRow[q]
      /\ (q \in bjStored' <=> q \in bjStored) /\ (q \in bjLost => q \in bjLost') /\ (q \in bjLate' <=> q \in bjLate)
      /\ (q \in bjJobs' => q \in bjJobs)
      /\ (q \in bjJobs /\ bjStatus[q] \in Unfinished => q \in bjJobs')
  BY DEF OthersStay
<1>2. RunOk(q)
  BY DEF JobsInv
<1>3. (HasRow(q)' <=> HasRow(q)) /\ (ActiveTask(q)' <=> ActiveTask(q))
  BY <1>1 DEF HasRow, ActiveTask
<1>4. RunOk(q)'
  BY <1>1, <1>2, <1>3 DEF RunOk
<1>5. (q \in Running' => q \in Running) /\ (q \in UnfinishedJobs' => q \in UnfinishedJobs)
  BY <1>1 DEF Running, UnfinishedJobs
<1> QED BY <1>1, <1>3, <1>4, <1>5

(* A step of one run that starts no task, adds no unfinished job and keeps *)
(* the identity of its row.                                                *)
LEMMA RunStepKeeps ==
    ASSUME JobsInv, NEW r \in Backtests, OthersStay(r), JobsTypeOK', RunOk(r)',
           r \in Running' => r \in Running, r \in UnfinishedJobs' => r \in UnfinishedJobs,
           HasRow(r)' => HasRow(r) /\ bjRow'[r].identity = bjRow[r].identity
    PROVE  JobsInv'
<1>1. \A q \in Backtests : RunOk(q)'
  BY OthersOk
<1>2. RowsDiffer'
  <2>1. \A q \in Backtests : HasRow(q)' => HasRow(q) /\ bjRow'[q].identity = bjRow[q].identity
    BY OthersOk
  <2> QED BY <2>1 DEF JobsInv, RowsDiffer
<1>3. Running' \subseteq Running /\ UnfinishedJobs' \subseteq UnfinishedJobs
  <2>1. \A q \in Backtests : (q \in Running' => q \in Running) /\ (q \in UnfinishedJobs' => q \in UnfinishedJobs)
    BY OthersOk
  <2>2. Running' \subseteq Backtests /\ UnfinishedJobs' \subseteq Backtests
    BY DEF Running, UnfinishedJobs, JobsTypeOK
  <2> QED BY <2>1, <2>2
<1>4. Running \subseteq Backtests /\ UnfinishedJobs \subseteq Backtests
  BY DEF Running, UnfinishedJobs, JobsInv, JobsTypeOK
<1>5. WorkIsBounded'
  <2>1. Cardinality(Running') <= Cardinality(Running) /\ Cardinality(UnfinishedJobs') <= Cardinality(UnfinishedJobs)
    BY <1>3, <1>4, FewerThan
  <2>2. /\ Cardinality(Running') \in Nat /\ Cardinality(Running) \in Nat
        /\ Cardinality(UnfinishedJobs') \in Nat /\ Cardinality(UnfinishedJobs) \in Nat
    BY <1>3, <1>4, BacktestsFinite
  <2> QED BY <2>1, <2>2, JobsAssumption DEF JobsInv, WorkIsBounded
<1> QED BY <1>1, <1>2, <1>5 DEF JobsInv

LEMMA SubmitKeeps ==
    ASSUME JobsInv, NEW r \in Backtests, SubmitJob(r)
    PROVE  JobsInv'
<1>1. PICK id \in Identities :
         IF Cardinality(UnfinishedJobs) >= MaxPending
           THEN /\ bjReq' = [bjReq EXCEPT ![r] = [pc |-> "refused", identity |-> id]]
                /\ UNCHANGED <<bjTask, bjStatus, bjJobs>>
           ELSE /\ bjReq' = [bjReq EXCEPT ![r] = [pc |-> "open", identity |-> id]]
                /\ bjStatus' = [bjStatus EXCEPT ![r] = "PENDING"]
                /\ bjTask' = [bjTask EXCEPT ![r] = "queued"]
                /\ bjJobs' = Evicted(bjJobs \cup {r})
  BY DEF SubmitJob
<1>2. bjReq[r].pc = "none" /\ UNCHANGED <<bjUp, bjRow, bjStored, bjLost, bjLate>>
  BY DEF SubmitJob
<1>3. JobsTypeOK /\ RunOk(r) /\ bjTask[r] = "none" /\ bjStatus[r] = "none" /\ ~HasRow(r) /\ r \notin bjJobs
  BY <1>2 DEF JobsInv, RunOk
<1>4. bjRow[r].status = "none" /\ r \notin bjStored /\ r \notin bjLate
  BY <1>3, NoRowHasNone DEF HasRow, RunOk
<1>5. CASE Cardinality(UnfinishedJobs) >= MaxPending
  <2>1. bjReq' = [bjReq EXCEPT ![r] = [pc |-> "refused", identity |-> id]] /\ UNCHANGED <<bjTask, bjStatus, bjJobs>>
    BY <1>1, <1>5
  <2>2. JobsTypeOK' /\ bjReq'[r].pc = "refused" /\ OthersStay(r)
    BY <1>2, <1>3, <2>1 DEF JobsTypeOK, JobRequests, OthersStay
  <2>3. RunOk(r)' /\ ~HasRow(r)'
    BY <1>2, <1>3, <1>4, <2>1, <2>2 DEF RunOk, HasRow, ActiveTask
  <2>4. r \notin Running' /\ r \notin UnfinishedJobs'
    BY <1>3, <2>1 DEF Running, UnfinishedJobs, InRunner, InTry
  <2> QED BY <2>2, <2>3, <2>4, RunStepKeeps
<1>6. CASE ~(Cardinality(UnfinishedJobs) >= MaxPending)
  <2>1. /\ bjReq' = [bjReq EXCEPT ![r] = [pc |-> "open", identity |-> id]]
        /\ bjStatus' = [bjStatus EXCEPT ![r] = "PENDING"]
        /\ bjTask' = [bjTask EXCEPT ![r] = "queued"]
        /\ bjJobs' = Evicted(bjJobs \cup {r})
    BY <1>1, <1>6
  <2>2. /\ bjJobs' \subseteq bjJobs \cup {r} /\ r \in bjJobs'
        /\ \A q \in bjJobs : bjStatus[q] \in Unfinished => q \in bjJobs'
    BY <1>3, <2>1 DEF Evicted, Unfinished
  <2>3. JobsTypeOK'
    BY <1>2, <1>3, <2>1, <2>2 DEF JobsTypeOK, JobRequests, JobTasks, JobStatuses
  <2>4. /\ bjReq'[r].pc = "open" /\ bjReq'[r].identity = id /\ bjStatus'[r] = "PENDING" /\ bjTask'[r] = "queued"
        /\ OthersStay(r)
    BY <1>2, <1>3, <2>1, <2>2 DEF JobsTypeOK, OthersStay
  <2>5. RunOk(r)' /\ ~HasRow(r)'
    BY <1>2, <1>3, <1>4, <2>2, <2>4 DEF RunOk, HasRow, Unfinished, ActiveTask
  <2>6. \A q \in Backtests : RunOk(q)'
    BY <2>4, <2>5, OthersOk
  <2>7. RowsDiffer'
    BY <1>2 DEF JobsInv, RowsDiffer, HasRow
  <2>8. Running \subseteq Backtests /\ UnfinishedJobs \subseteq Backtests
        /\ Running' \subseteq Running /\ UnfinishedJobs' \subseteq UnfinishedJobs \cup {r}
    <3>1. \A q \in Backtests : q # r => (q \in Running' => q \in Running) /\ (q \in UnfinishedJobs' => q \in UnfinishedJobs)
      BY <2>4, OthersOk
    <3>2. r \notin Running' /\ Running' \subseteq Backtests /\ UnfinishedJobs' \subseteq Backtests
      BY <2>3, <2>4 DEF Running, InRunner, InTry, UnfinishedJobs, JobsTypeOK
    <3>3. Running \subseteq Backtests /\ UnfinishedJobs \subseteq Backtests
      BY <1>3 DEF Running, UnfinishedJobs, JobsTypeOK
    <3> QED BY <3>1, <3>2, <3>3
  <2>9. Cardinality(UnfinishedJobs) < MaxPending /\ MaxPending \in Nat /\ MaxConcurrent \in Nat
    BY <1>6, <2>8, BacktestsFinite, JobsAssumption
  <2>10. Cardinality(UnfinishedJobs') <= MaxPending
    BY <2>8, <2>9, OneMore
  <2>11. Cardinality(Running') <= Cardinality(Running) /\ Cardinality(Running') \in Nat /\ Cardinality(Running) \in Nat
    BY <2>8, FewerThan, BacktestsFinite
  <2>12. WorkIsBounded'
    BY <2>9, <2>10, <2>11 DEF JobsInv, WorkIsBounded
  <2> QED BY <2>3, <2>6, <2>7, <2>12 DEF JobsInv
<1> QED BY <1>5, <1>6

LEMMA StartKeeps ==
    ASSUME JobsInv, NEW r \in Backtests, StartJob(r)
    PROVE  JobsInv'
<1>1. /\ bjTask[r] = "queued" /\ Cardinality(Running) < MaxConcurrent
      /\ bjTask' = [bjTask EXCEPT ![r] = "prepare"] /\ bjStatus' = [bjStatus EXCEPT ![r] = "RUNNING"]
      /\ UNCHANGED <<bjUp, bjReq, bjJobs, bjRow, bjStored, bjLost, bjLate>>
  BY DEF StartJob
<1>2. JobsTypeOK /\ RunOk(r) /\ ActiveTask(r) /\ ~HasRow(r) /\ r \in bjJobs /\ bjStatus[r] \in Unfinished
  BY <1>1 DEF JobsInv, RunOk, ActiveTask
<1>3. JobsTypeOK' /\ OthersStay(r) /\ bjTask'[r] = "prepare" /\ bjStatus'[r] = "RUNNING"
  BY <1>1, <1>2 DEF JobsTypeOK, OthersStay, JobTasks, JobStatuses, InRunner, InTry
<1>4. bjRow[r].status = "none"
  BY <1>2, NoRowHasNone DEF HasRow
<1>5. RunOk(r)'
  BY <1>1, <1>2, <1>3, <1>4 DEF RunOk, HasRow, ActiveTask, Unfinished, InRunner, InTry
<1>6. \A q \in Backtests : RunOk(q)'
  BY <1>3, <1>5, OthersOk
<1>7. RowsDiffer'
  BY <1>1 DEF JobsInv, RowsDiffer, HasRow
<1>8. Running \subseteq Backtests /\ UnfinishedJobs \subseteq Backtests
      /\ Running' \subseteq Running \cup {r} /\ UnfinishedJobs' \subseteq UnfinishedJobs
  <2>1. \A q \in Backtests : q # r => (q \in Running' => q \in Running) /\ (q \in UnfinishedJobs' => q \in UnfinishedJobs)
    BY <1>3, OthersOk
  <2>2. r \in UnfinishedJobs /\ Running' \subseteq Backtests /\ UnfinishedJobs' \subseteq Backtests
    BY <1>2, <1>3 DEF Running, UnfinishedJobs, JobsTypeOK
  <2>3. Running \subseteq Backtests /\ UnfinishedJobs \subseteq Backtests
    BY <1>2 DEF Running, UnfinishedJobs, JobsTypeOK
  <2> QED BY <2>1, <2>2, <2>3
<1>9. Cardinality(Running') <= MaxConcurrent
  BY <1>1, <1>8, OneMore, JobsAssumption
<1>10. /\ Cardinality(UnfinishedJobs') <= Cardinality(UnfinishedJobs)
       /\ Cardinality(UnfinishedJobs') \in Nat /\ Cardinality(UnfinishedJobs) \in Nat
  BY <1>8, FewerThan, BacktestsFinite
<1>11. WorkIsBounded'
  BY <1>9, <1>10, JobsAssumption DEF JobsInv, WorkIsBounded
<1> QED BY <1>3, <1>6, <1>7, <1>11 DEF JobsInv

(* The process ends, with or without the last writes: no task and no job   *)
(* is left, and the rows still tell the truth.                             *)
LEMMA ProcessEndKeeps ==
    ASSUME JobsInv, Shutdown \/ ProcessDies
    PROVE  JobsInv'
<1>1. /\ bjUp' = FALSE /\ bjStored' = bjStored
      /\ bjTask' = [r \in Backtests |-> IF bjTask[r] = "none" THEN "none" ELSE "over"]
      /\ bjReq' = [r \in Backtests |-> IF bjReq[r].pc = "open" THEN [bjReq[r] EXCEPT !.pc = "failed"] ELSE bjReq[r]]
      /\ bjStatus' = [r \in Backtests |-> "none"] /\ bjJobs' = {}
  BY DEF Shutdown, ProcessDies
<1>2. PICK written \in SUBSET {r \in Backtests : bjTask[r] \in InTry} :
         /\ bjRow' = [r \in Backtests |-> IF r \in written THEN [bjRow[r] EXCEPT !.status = "FAILED"] ELSE bjRow[r]]
         /\ bjLost' \subseteq Backtests /\ bjLate' \subseteq Backtests
         /\ \A r \in Backtests :
               /\ r \in bjLost => r \in bjLost'
               /\ r \notin written /\ bjRow[r].status = "RUNNING" /\ bjTask[r] \in InTry \cup {"committed"} => r \in bjLost'
               /\ r \in bjLate => r \in bjLate'
               /\ r \in bjLate' => r \in bjLate \/ bjTask[r] = "persisted"
               /\ r \in written /\ bjTask[r] = "persisted" => r \in bjLate'
  <2>1. CASE Shutdown
    <3>1. PICK written \in SUBSET {r \in Backtests : bjTask[r] \in InTry} :
            /\ bjRow' = [r \in Backtests |-> IF r \in written THEN [bjRow[r] EXCEPT !.status = "FAILED"] ELSE bjRow[r]]
            /\ bjLost' = bjLost \cup {r \in Backtests \ written :
                                        bjTask[r] \in InTry \cup {"committed"} /\ bjRow[r].status = "RUNNING"}
      BY <2>1 DEF Shutdown
    <3>2. bjLate' = bjLate \cup {r \in Backtests : bjTask[r] = "persisted"}
      BY <2>1 DEF Shutdown
    <3> QED BY <3>1, <3>2 DEF JobsInv, JobsTypeOK
  <2>2. CASE ProcessDies
    <3>1. /\ bjLost' = bjLost \cup {r \in Backtests : bjRow[r].status = "RUNNING"}
          /\ bjRow' = bjRow /\ bjLate' = bjLate
      BY <2>2 DEF ProcessDies
    <3>2. bjRow' = [r \in Backtests |-> IF r \in {} THEN [bjRow[r] EXCEPT !.status = "FAILED"] ELSE bjRow[r]]
      BY <3>1 DEF JobsInv, JobsTypeOK
    <3> WITNESS {} \in SUBSET {r \in Backtests : bjTask[r] \in InTry}
    <3> QED BY <3>1, <3>2 DEF JobsInv, JobsTypeOK
  <2> QED BY <2>1, <2>2
<1>3. JobsTypeOK
  BY DEF JobsInv
<1>4. ASSUME NEW r \in Backtests
      PROVE  /\ bjReq'[r] \in JobRequests /\ (bjReq'[r].pc = "none" <=> bjReq[r].pc = "none")
             /\ bjRow'[r] \in RunRows /\ bjRow'[r].identity = bjRow[r].identity
             /\ (HasRow(r)' => HasRow(r)) /\ (~HasRow(r) => ~HasRow(r)')
             /\ RunOk(r)'
  <2>1. RunOk(r) /\ bjReq[r] \in JobRequests /\ bjRow[r] \in RunRows
    BY <1>3 DEF JobsInv, JobsTypeOK
  <2>2. /\ bjTask'[r] \in {"none", "over"} /\ (bjTask[r] = "none" => bjTask'[r] = "none")
        /\ bjStatus'[r] = "none" /\ r \notin bjJobs'
    BY <1>1
  <2>3. bjReq'[r] \in JobRequests /\ (bjReq'[r].pc = "none" <=> bjReq[r].pc = "none")
    BY <1>1, <2>1 DEF JobRequests
  <2>4. /\ bjRow'[r] \in RunRows /\ bjRow'[r].identity = bjRow[r].identity
        /\ \/ bjRow'[r] = bjRow[r] /\ r \notin written
           \/ bjRow[r].status \in {"RUNNING", "DONE"} /\ bjRow'[r].status = "FAILED" /\ r \in written
        /\ bjRow'[r].status = "RUNNING" => r \in bjLost'
    <3>1. CASE r \in written
      <4>1. bjRow[r].status \in {"RUNNING", "DONE"}
        BY <2>1, <3>1 DEF RunOk, InTry
      <4>2. bjRow'[r] = [bjRow[r] EXCEPT !.status = "FAILED"]
        BY <1>2, <3>1
      <4> QED BY <2>1, <3>1, <4>1, <4>2 DEF RunRows
    <3>2. CASE r \notin written
      <4>1. bjRow'[r] = bjRow[r]
        BY <1>2, <3>2
      <4>2. bjRow[r].status = "RUNNING" => HasRow(r)
        BY NoRowHasNone DEF HasRow
      <4>3. bjRow[r].status = "RUNNING" => r \in bjLost'
        BY <1>2, <2>1, <3>2, <4>2 DEF RunOk, InRunner, InTry
      <4> QED BY <2>1, <3>2, <4>1, <4>3
    <3> QED BY <3>1, <3>2
  <2>5. (HasRow(r)' => HasRow(r)) /\ (~HasRow(r) => ~HasRow(r)')
    BY <2>4, NoRowHasNone DEF HasRow
  <2>6. RunOk(r)'
    <3>1. ~ActiveTask(r)'
      BY <2>2 DEF ActiveTask
    <3>2. bjTask'[r] \notin {"queued", "prepare", "passport", "committed", "engine", "persist", "persisted",
                              "fail", "failCancelled"}
      BY <2>2
    <3>3. /\ bjRow'[r].status = "DONE" => r \in bjStored'
          /\ r \in bjLate' => r \in bjStored' /\ bjRow'[r].status \in {"DONE", "FAILED"}
          /\ r \in bjStored' => bjRow'[r].status = "DONE" \/ r \in bjLate'
      <4>1. (r \in bjStored' <=> r \in bjStored) /\ (r \in bjLate => r \in bjLate')
            /\ (r \in bjLate' => r \in bjLate \/ bjTask[r] = "persisted")
        BY <1>1, <1>2
      <4>2. CASE r \notin written
        <5>1. bjRow'[r] = bjRow[r]
          BY <1>2, <4>2
        <5> QED BY <2>1, <4>1, <5>1 DEF RunOk
      <4>3. CASE r \in written
        <5>1. bjTask[r] \in InTry /\ bjRow'[r].status = "FAILED" /\ (bjTask[r] = "persisted" => r \in bjLate')
          BY <1>2, <2>4, <4>3
        <5>2. r \in bjStored => r \in bjLate'
          BY <2>1, <4>1, <5>1 DEF RunOk, InTry
        <5> QED BY <2>1, <4>1, <5>1, <5>2 DEF RunOk
      <4> QED BY <4>2, <4>3
    <3> QED BY <2>1, <2>2, <2>3, <2>4, <2>5, <3>1, <3>2, <3>3 DEF RunOk
  <2> QED BY <2>3, <2>4, <2>5, <2>6
<1>5. JobsTypeOK'
  <2>1. bjLost' \subseteq Backtests /\ bjLate' \subseteq Backtests
    BY <1>2
  <2>2. bjReq' \in [Backtests -> JobRequests] /\ bjRow' \in [Backtests -> RunRows]
    <3>1. bjReq' = [r \in Backtests |-> bjReq'[r]]
      BY <1>1
    <3>2. bjRow' = [r \in Backtests |-> bjRow'[r]]
      BY <1>2
    <3> QED BY <1>4, <3>1, <3>2
  <2> QED BY <1>1, <1>3, <2>1, <2>2 DEF JobsTypeOK, JobTasks, JobStatuses
<1>6. RowsDiffer'
  BY <1>4 DEF JobsInv, RowsDiffer
<1>7. WorkIsBounded'
  <2>1. Running' = {} /\ UnfinishedJobs' = {}
    BY <1>1 DEF Running, UnfinishedJobs, InRunner, InTry
  <2> QED BY <2>1, FS_EmptySet, JobsAssumption DEF WorkIsBounded
<1> QED BY <1>4, <1>5, <1>6, <1>7 DEF JobsInv

(* The passport: no run of the table has this identity yet. *)
LEMMA PassportKeeps ==
    ASSUME JobsInv, NEW r \in Backtests, NEW id \in Identities, Identical(id) = {},
           OthersStay(r), JobsTypeOK', RunOk(r)', bjRow'[r].identity = id,
           r \in Running' => r \in Running, r \in UnfinishedJobs' => r \in UnfinishedJobs
    PROVE  JobsInv'
<1>1. \A q \in Backtests : RunOk(q)'
  BY OthersOk
<1>2. \A q \in Backtests : bjRow[q].identity # id
  BY DEF Identical
<1>3. RowsDiffer'
  <2>1. \A q \in Backtests : q # r => (HasRow(q)' <=> HasRow(q)) /\ bjRow'[q] = bjRow[q]
    BY OthersOk
  <2> QED BY <1>2, <2>1 DEF JobsInv, RowsDiffer
<1>4. Running' \subseteq Running /\ UnfinishedJobs' \subseteq UnfinishedJobs
  <2>1. \A q \in Backtests : (q \in Running' => q \in Running) /\ (q \in UnfinishedJobs' => q \in UnfinishedJobs)
    BY OthersOk
  <2>2. Running' \subseteq Backtests /\ UnfinishedJobs' \subseteq Backtests
    BY DEF Running, UnfinishedJobs, JobsTypeOK
  <2> QED BY <2>1, <2>2
<1>5. Running \subseteq Backtests /\ UnfinishedJobs \subseteq Backtests
  BY DEF Running, UnfinishedJobs, JobsInv, JobsTypeOK
<1>6. WorkIsBounded'
  <2>1. Cardinality(Running') <= Cardinality(Running) /\ Cardinality(UnfinishedJobs') <= Cardinality(UnfinishedJobs)
    BY <1>4, <1>5, FewerThan
  <2>2. /\ Cardinality(Running') \in Nat /\ Cardinality(Running) \in Nat
        /\ Cardinality(UnfinishedJobs') \in Nat /\ Cardinality(UnfinishedJobs) \in Nat
    BY <1>4, <1>5, BacktestsFinite
  <2> QED BY <2>1, <2>2, JobsAssumption DEF JobsInv, WorkIsBounded
<1> QED BY <1>1, <1>3, <1>6 DEF JobsInv

LEMMA JobsStep == JobsInv /\ [JobsNext]_bjVars => JobsInv'
<1> SUFFICES ASSUME JobsInv, [JobsNext]_bjVars PROVE JobsInv'
  OBVIOUS
<1>0. JobsTypeOK
  BY DEF JobsInv
<1>1. ASSUME UNCHANGED <<bjReq, bjTask, bjStatus, bjJobs, bjRow, bjStored, bjLost, bjLate>>, bjUp' \in BOOLEAN
      PROVE  JobsInv'
  <2>1. JobsTypeOK' /\ RowsDiffer' /\ \A r \in Backtests : RunOk(r)'
    BY <1>1 DEF JobsInv, JobsTypeOK, RowsDiffer, RunOk, HasRow, ActiveTask
  <2>2. WorkIsBounded'
    <3>1. Running' = Running /\ UnfinishedJobs' = UnfinishedJobs
      BY <1>1 DEF Running, UnfinishedJobs
    <3> QED BY <3>1 DEF JobsInv, WorkIsBounded
  <2> QED BY <2>1, <2>2 DEF JobsInv
<1>2. CASE UNCHANGED bjVars
  BY <1>0, <1>1, <1>2 DEF bjVars, JobsTypeOK
<1>3. CASE Shutdown \/ ProcessDies
  BY <1>3, ProcessEndKeeps
<1>4. CASE RestartProcess
  BY <1>1, <1>4 DEF RestartProcess
<1>5. CASE StoredElsewhere
  <2>1. PICK r \in Backtests, id \in Identities :
            /\ bjReq[r].pc = "none" /\ Identical(id) = {}
            /\ bjReq' = [bjReq EXCEPT ![r].pc = "elsewhere"]
            /\ bjRow' = [bjRow EXCEPT ![r] = [identity |-> id, status |-> "DONE"]]
            /\ bjStored' = bjStored \cup {r}
            /\ UNCHANGED <<bjUp, bjTask, bjStatus, bjJobs, bjLost, bjLate>>
    BY <1>5 DEF StoredElsewhere
  <2>2. /\ bjTask[r] = "none" /\ bjStatus[r] = "none" /\ r \notin bjJobs /\ r \notin bjLate
    <3>1. RunOk(r) /\ ~HasRow(r)
      BY <2>1 DEF JobsInv, RunOk
    <3> QED BY <2>1, <3>1, NoRowHasNone DEF RunOk, HasRow
  <2>3. bjReq'[r].pc = "elsewhere" /\ bjRow'[r].identity = id /\ bjRow'[r].status = "DONE" /\ OthersStay(r)
    BY <1>0, <2>1 DEF JobsTypeOK, JobRequests, OthersStay
  <2>4. JobsTypeOK'
    BY <1>0, <2>1 DEF JobsTypeOK, JobRequests, RunRows
  <2>5. RunOk(r)'
    BY <2>1, <2>2, <2>3 DEF RunOk, ActiveTask, HasRow
  <2>6. r \notin Running' /\ r \notin UnfinishedJobs'
    BY <2>1, <2>2 DEF Running, InRunner, InTry, UnfinishedJobs
  <2> QED BY <2>1, <2>3, <2>4, <2>5, <2>6, PassportKeeps
<1>6. ASSUME NEW r \in Backtests, SubmitJob(r) PROVE JobsInv'
  BY <1>6, SubmitKeeps
<1>7. ASSUME NEW r \in Backtests, StartJob(r) PROVE JobsInv'
  BY <1>7, StartKeeps
<1>8. ASSUME NEW r \in Backtests, CommitJob(r) PROVE JobsInv'
  <2>1. /\ bjReq[r].pc = "open" /\ bjReq' = [bjReq EXCEPT ![r].pc = "accepted"]
        /\ UNCHANGED <<bjUp, bjTask, bjStatus, bjJobs, bjRow, bjStored, bjLost, bjLate>>
    BY <1>8 DEF CommitJob
  <2>2. bjReq'[r].pc = "accepted" /\ bjReq'[r].identity = bjReq[r].identity /\ OthersStay(r) /\ JobsTypeOK'
    BY <1>0, <2>1 DEF JobsTypeOK, JobRequests, OthersStay
  <2>3. RunOk(r)
    BY DEF JobsInv
  <2>4. RunOk(r)' /\ (HasRow(r)' => HasRow(r))
    BY <2>1, <2>2, <2>3 DEF RunOk, ActiveTask, HasRow
  <2> QED BY <2>1, <2>2, <2>4, RunStepKeeps DEF Running, UnfinishedJobs
<1>9. ASSUME NEW r \in Backtests, CommitJobFails(r) PROVE JobsInv'
  <2>1. /\ bjReq[r].pc = "open" /\ bjReq' = [bjReq EXCEPT ![r].pc = "failed"]
        /\ bjTask' = [bjTask EXCEPT ![r] = CancelledTask(@)]
        /\ bjStatus' = [bjStatus EXCEPT ![r] = CancelledStatus(bjTask[r], @)]
        /\ bjLost' = bjLost \cup {q \in {r} : bjTask[q] \in {"committed", "fail"} /\ bjRow[q].status = "RUNNING"}
        /\ bjLate' = bjLate \cup {q \in {r} : bjTask[q] = "persisted"}
        /\ UNCHANGED <<bjUp, bjJobs, bjRow, bjStored>>
    BY <1>9 DEF CommitJobFails
  <2>2. RunOk(r) /\ bjTask[r] \in JobTasks /\ bjStatus[r] \in JobStatuses
    BY <1>0 DEF JobsInv, JobsTypeOK
  <2>3. /\ bjReq'[r].pc = "failed" /\ bjReq'[r].identity = bjReq[r].identity /\ OthersStay(r)
        /\ bjTask'[r] = CancelledTask(bjTask[r]) /\ bjStatus'[r] = CancelledStatus(bjTask[r], bjStatus[r])
    BY <1>0, <2>1 DEF JobsTypeOK, JobRequests, OthersStay
  <2>4. CancelledTask(bjTask[r]) \in JobTasks /\ CancelledStatus(bjTask[r], bjStatus[r]) \in JobStatuses
    BY <2>2 DEF CancelledTask, CancelledStatus, JobTasks, JobStatuses, InRunner, InTry
  <2>5. JobsTypeOK'
    BY <1>0, <2>1, <2>3, <2>4 DEF JobsTypeOK, JobRequests
  <2>6. /\ bjTask[r] # "failCancelled"
        /\ bjTask'[r] \in {"over", "failCancelled"}
        /\ bjTask'[r] # "over" => bjTask[r] \in {"engine", "persist", "persisted"} /\ bjStatus'[r] = bjStatus[r]
        /\ bjTask[r] \in {"engine", "persist", "persisted"} => bjTask'[r] # "over"
    BY <2>1, <2>2, <2>3 DEF RunOk, CancelledTask, CancelledStatus
  <2>7. (HasRow(r)' <=> HasRow(r)) /\ (bjStatus'[r] = "DONE" => bjStatus[r] = "DONE" /\ ~ActiveTask(r))
        /\ (bjStatus'[r] \in Unfinished => bjStatus'[r] = bjStatus[r])
    BY <2>1, <2>2, <2>3 DEF HasRow, CancelledStatus, Unfinished, RunOk, ActiveTask
  <2>8. bjRow[r].status = "RUNNING" => bjTask[r] \in {"engine", "persist"} \/ r \in bjLost'
    <3>1. bjRow[r].status = "RUNNING" => HasRow(r)
      BY NoRowHasNone DEF HasRow
    <3> QED BY <2>1, <2>2, <2>6, <3>1 DEF RunOk, InRunner, InTry
  <2>9. (r \in bjLate' <=> r \in bjLate \/ bjTask[r] = "persisted") /\ bjRow'[r] = bjRow[r] /\ bjStored' = bjStored
        /\ bjJobs' = bjJobs
    BY <2>1
  <2>10. /\ bjRow[r].status = "DONE" => r \in bjStored
         /\ r \in bjStored => bjRow[r].status = "DONE" \/ r \in bjLate'
         /\ bjStatus'[r] = "DONE" => bjRow[r].status = "DONE" /\ r \notin bjLate'
         /\ r \in bjLate' => r \in bjStored /\ bjRow[r].status \in {"DONE", "FAILED"}
    BY <2>2, <2>7, <2>9 DEF RunOk, ActiveTask
  <2>11. bjTask'[r] = "failCancelled" => bjRow[r].status = "RUNNING" \/ (bjRow[r].status = "DONE" /\ r \in bjLate')
    BY <2>2, <2>6, <2>9 DEF RunOk
  <2>12. ActiveTask(r)' => r \in bjJobs /\ bjStatus'[r] \in Unfinished /\ bjReq'[r].identity \in Identities
    BY <2>2, <2>3, <2>6 DEF RunOk, ActiveTask
  <2>13. HasRow(r) => bjRow[r].identity \in Identities
    BY <2>2 DEF RunOk
  <2>14. bjTask'[r] = "failCancelled" => bjTask'[r] \in InRunner
    BY DEF InRunner, InTry
  <2>15. RunOk(r)'
    BY <2>3, <2>6, <2>7, <2>8, <2>9, <2>10, <2>11, <2>12, <2>13, <2>14 DEF RunOk
  <2>16. (r \in Running' => r \in Running) /\ (r \in UnfinishedJobs' => r \in UnfinishedJobs)
    BY <2>6, <2>7, <2>9 DEF Running, InRunner, InTry, UnfinishedJobs
  <2> QED BY <2>3, <2>5, <2>7, <2>9, <2>15, <2>16, RunStepKeeps
(* The steps of the runner: the task of r goes on or ends. *)
<1>10. ASSUME NEW r \in Backtests, Prepare(r) PROVE JobsInv'
  <2>1. /\ bjTask[r] = "prepare" /\ UNCHANGED <<bjUp, bjReq, bjJobs, bjRow, bjStored, bjLost, bjLate>>
        /\ \/ bjTask' = [bjTask EXCEPT ![r] = "passport"] /\ UNCHANGED bjStatus
           \/ bjTask' = [bjTask EXCEPT ![r] = "over"] /\ bjStatus' = [bjStatus EXCEPT ![r] = "FAILED"]
    BY <1>10 DEF Prepare, Ends
  <2>2. RunOk(r) /\ r \in Running /\ ~HasRow(r) /\ ActiveTask(r)
    BY <2>1 DEF JobsInv, RunOk, Running, InRunner, InTry, ActiveTask
  <2>3. JobsTypeOK' /\ OthersStay(r)
        /\ \/ bjTask'[r] = "passport" /\ bjStatus'[r] = bjStatus[r]
           \/ bjTask'[r] = "over" /\ bjStatus'[r] = "FAILED"
    BY <1>0, <2>1 DEF JobsTypeOK, OthersStay, JobTasks, JobStatuses, InRunner, InTry
  <2>4. ~HasRow(r)' /\ bjRow[r].status = "none"
    BY <2>1, <2>2, NoRowHasNone DEF HasRow
  <2>5. RunOk(r)'
    BY <2>1, <2>2, <2>3, <2>4 DEF RunOk, ActiveTask
  <2>6. r \in UnfinishedJobs
    BY <2>2 DEF RunOk, UnfinishedJobs
  <2> QED BY <2>2, <2>3, <2>4, <2>5, <2>6, RunStepKeeps
<1>11. ASSUME NEW r \in Backtests, Passport(r) PROVE JobsInv'
  <2>1. bjTask[r] = "passport" /\ UNCHANGED <<bjUp, bjReq, bjJobs, bjStored, bjLost, bjLate>>
    BY <1>11 DEF Passport
  <2>2. RunOk(r) /\ r \in Running /\ ~HasRow(r) /\ bjReq[r].identity \in Identities /\ r \in UnfinishedJobs
        /\ bjStatus[r] \in Unfinished
    BY <2>1 DEF JobsInv, RunOk, Running, InRunner, InTry, ActiveTask, UnfinishedJobs
  <2>3. r \notin bjStored /\ r \notin bjLate /\ bjRow[r].status = "none" /\ bjReq[r].pc # "none"
    BY <2>1, <2>2, NoRowHasNone DEF HasRow, RunOk
  <2>4. CASE /\ Identical(bjReq[r].identity) = {}
             /\ bjRow' = [bjRow EXCEPT ![r] = [identity |-> bjReq[r].identity, status |-> "RUNNING"]]
             /\ bjTask' = [bjTask EXCEPT ![r] = "committed"]
             /\ UNCHANGED bjStatus
    <3>1. /\ JobsTypeOK' /\ OthersStay(r) /\ bjTask'[r] = "committed"
          /\ bjRow'[r].identity = bjReq[r].identity /\ bjRow'[r].status = "RUNNING"
      BY <1>0, <2>1, <2>2, <2>4 DEF JobsTypeOK, OthersStay, JobTasks, InRunner, InTry, RunRows
    <3>2. RunOk(r)'
      BY <2>1, <2>2, <2>3, <2>4, <3>1 DEF RunOk, ActiveTask, InRunner, InTry, UnfinishedJobs, Unfinished
    <3> QED BY <2>2, <2>4, <3>1, <3>2, PassportKeeps
  <2>5. CASE Ends(r, "FAILED") /\ UNCHANGED bjRow
    <3>1. JobsTypeOK' /\ OthersStay(r) /\ bjTask'[r] = "over" /\ bjStatus'[r] = "FAILED" /\ (HasRow(r)' <=> HasRow(r))
      BY <1>0, <2>1, <2>5 DEF JobsTypeOK, OthersStay, JobTasks, JobStatuses, Ends, HasRow
    <3>2. RunOk(r)'
      BY <2>1, <2>2, <2>3, <2>5, <3>1 DEF RunOk, ActiveTask
    <3> QED BY <2>2, <3>1, <3>2, RunStepKeeps
  <2> QED BY <1>11, <2>4, <2>5 DEF Passport, RunningRow
<1>12. ASSUME NEW r \in Backtests, EnterTry(r) PROVE JobsInv'
  <2>1. bjTask[r] = "committed" /\ UNCHANGED <<bjUp, bjReq, bjJobs, bjRow, bjStored, bjLate>>
    BY <1>12 DEF EnterTry
  <2>2. RunOk(r) /\ r \in Running /\ r \in UnfinishedJobs /\ bjRow[r].status = "RUNNING"
    BY <1>0, <2>1 DEF JobsInv, RunOk, Running, InRunner, ActiveTask, UnfinishedJobs
  <2>3. CASE bjTask' = [bjTask EXCEPT ![r] = "engine"] /\ UNCHANGED <<bjStatus, bjLost>>
    <3>1. JobsTypeOK' /\ OthersStay(r) /\ bjTask'[r] = "engine"
      BY <1>0, <2>1, <2>3 DEF JobsTypeOK, OthersStay, JobTasks, InRunner, InTry
    <3>2. RunOk(r)' /\ (HasRow(r)' <=> HasRow(r))
      BY <2>1, <2>2, <2>3, <3>1 DEF RunOk, ActiveTask, InRunner, InTry, HasRow
    <3> QED BY <2>1, <2>2, <3>1, <3>2, RunStepKeeps
  <2>4. CASE Ends(r, "FAILED") /\ bjLost' = bjLost \cup {r}
    <3>1. JobsTypeOK' /\ OthersStay(r) /\ bjTask'[r] = "over" /\ bjStatus'[r] = "FAILED" /\ r \in bjLost'
      BY <1>0, <2>1, <2>4 DEF JobsTypeOK, OthersStay, JobTasks, JobStatuses, Ends
    <3>2. RunOk(r)' /\ (HasRow(r)' <=> HasRow(r))
      BY <2>1, <2>2, <3>1 DEF RunOk, ActiveTask, HasRow
    <3> QED BY <2>1, <2>2, <3>1, <3>2, RunStepKeeps
  <2> QED BY <1>12, <2>3, <2>4 DEF EnterTry
<1>13. ASSUME NEW r \in Backtests, RunEngine(r) PROVE JobsInv'
  <2>1. PICK w \in {"persist", "fail"} : bjTask' = [bjTask EXCEPT ![r] = w]
    BY <1>13 DEF RunEngine
  <2>2. bjTask[r] = "engine" /\ UNCHANGED <<bjUp, bjReq, bjStatus, bjJobs, bjRow, bjStored, bjLost, bjLate>>
    BY <1>13 DEF RunEngine
  <2>3. RunOk(r) /\ r \in Running
    BY <2>2 DEF JobsInv, Running, InRunner, InTry
  <2>4. JobsTypeOK' /\ OthersStay(r) /\ bjTask'[r] = w
    BY <1>0, <2>1, <2>2 DEF JobsTypeOK, OthersStay, JobTasks, InRunner, InTry
  <2>5. RunOk(r)' /\ (HasRow(r)' <=> HasRow(r))
    BY <2>2, <2>3, <2>4 DEF RunOk, ActiveTask, InRunner, InTry, HasRow
  <2> QED BY <2>2, <2>3, <2>4, <2>5, RunStepKeeps DEF UnfinishedJobs
<1>14. ASSUME NEW r \in Backtests, Persist(r) PROVE JobsInv'
  <2>1. bjTask[r] = "persist" /\ UNCHANGED <<bjUp, bjReq, bjStatus, bjJobs, bjLost, bjLate>>
    BY <1>14 DEF Persist
  <2>2. /\ RunOk(r) /\ r \in Running /\ r \in UnfinishedJobs /\ bjRow[r].status = "RUNNING" /\ bjRow[r] \in RunRows
        /\ r \notin bjLate /\ bjStatus[r] \in Unfinished
    BY <1>0, <2>1 DEF JobsInv, JobsTypeOK, RunOk, Running, InRunner, InTry, ActiveTask, UnfinishedJobs
  <2>3. HasRow(r)
    BY <2>2, NoRowHasNone DEF HasRow
  <2>4. CASE bjTask' = [bjTask EXCEPT ![r] = "fail"] /\ UNCHANGED <<bjRow, bjStored>>
    <3>1. JobsTypeOK' /\ OthersStay(r) /\ bjTask'[r] = "fail"
      BY <1>0, <2>1, <2>4 DEF JobsTypeOK, OthersStay, JobTasks, InRunner, InTry
    <3>2. RunOk(r)' /\ (HasRow(r)' <=> HasRow(r))
      BY <2>1, <2>2, <2>4, <3>1 DEF RunOk, ActiveTask, InRunner, InTry, HasRow
    <3> QED BY <2>1, <2>2, <2>3, <2>4, <3>1, <3>2, RunStepKeeps
  <2>5. CASE /\ bjStored' = bjStored \cup {r} /\ bjRow' = [bjRow EXCEPT ![r].status = "DONE"]
             /\ bjTask' = [bjTask EXCEPT ![r] = "persisted"]
    <3>1. /\ JobsTypeOK' /\ OthersStay(r) /\ bjTask'[r] = "persisted"
          /\ bjRow'[r].status = "DONE" /\ bjRow'[r].identity = bjRow[r].identity
      BY <1>0, <2>1, <2>2, <2>5 DEF JobsTypeOK, OthersStay, JobTasks, InRunner, InTry, RunRows
    <3>2. RunOk(r)'
      BY <2>1, <2>2, <2>3, <2>5, <3>1 DEF RunOk, ActiveTask, InRunner, InTry, Unfinished
    <3>3. r \in UnfinishedJobs' => r \in UnfinishedJobs
      BY <2>2
    <3> QED BY <2>2, <2>3, <3>1, <3>2, <3>3, RunStepKeeps
  <2> QED BY <1>14, <2>4, <2>5 DEF Persist
<1>15. ASSUME NEW r \in Backtests, LeaveTry(r) PROVE JobsInv'
  <2>1. bjTask[r] = "persisted" /\ UNCHANGED <<bjUp, bjReq, bjJobs, bjRow, bjStored, bjLost>>
    BY <1>15 DEF LeaveTry
  <2>2. /\ RunOk(r) /\ r \in Running /\ r \in UnfinishedJobs /\ bjRow[r].status = "DONE"
        /\ r \in bjStored /\ r \notin bjLate /\ bjStatus[r] \in Unfinished
    BY <1>0, <2>1 DEF JobsInv, RunOk, Running, InRunner, InTry, ActiveTask, UnfinishedJobs
  <2>3. CASE Ends(r, "DONE") /\ UNCHANGED bjLate
    <3>1. JobsTypeOK' /\ OthersStay(r) /\ bjTask'[r] = "over" /\ bjStatus'[r] = "DONE"
      BY <1>0, <2>1, <2>3 DEF JobsTypeOK, OthersStay, JobTasks, JobStatuses, Ends
    <3>2. RunOk(r)' /\ (HasRow(r)' <=> HasRow(r))
      BY <2>1, <2>2, <2>3, <3>1 DEF RunOk, ActiveTask, HasRow
    <3> QED BY <2>1, <2>2, <3>1, <3>2, RunStepKeeps
  <2>4. CASE bjTask' = [bjTask EXCEPT ![r] = "fail"] /\ bjLate' = bjLate \cup {r} /\ UNCHANGED bjStatus
    <3>1. JobsTypeOK' /\ OthersStay(r) /\ bjTask'[r] = "fail" /\ r \in bjLate' /\ bjStatus'[r] = bjStatus[r]
      BY <1>0, <2>1, <2>4 DEF JobsTypeOK, OthersStay, JobTasks, InRunner, InTry
    <3>2. RunOk(r)' /\ (HasRow(r)' <=> HasRow(r))
      BY <2>1, <2>2, <3>1 DEF RunOk, ActiveTask, InRunner, InTry, HasRow, Unfinished
    <3> QED BY <2>1, <2>2, <3>1, <3>2, RunStepKeeps
  <2> QED BY <1>15, <2>3, <2>4 DEF LeaveTry
<1>16. ASSUME NEW r \in Backtests, WriteFailure(r) PROVE JobsInv'
  <2>1. /\ bjTask[r] \in {"fail", "failCancelled"} /\ UNCHANGED <<bjUp, bjReq, bjJobs, bjStored, bjLate>>
        /\ Ends(r, "FAILED")
    BY <1>16 DEF WriteFailure
  <2>2. /\ RunOk(r) /\ r \in Running /\ r \in UnfinishedJobs /\ bjRow[r] \in RunRows
        /\ bjRow[r].status = "RUNNING" \/ (bjRow[r].status = "DONE" /\ r \in bjLate)
    BY <1>0, <2>1 DEF JobsInv, JobsTypeOK, RunOk, Running, InRunner, InTry, ActiveTask, UnfinishedJobs
  <2>3. HasRow(r)
    BY <2>2, NoRowHasNone DEF HasRow
  <2>4. CASE bjRow' = [bjRow EXCEPT ![r].status = "FAILED"] /\ UNCHANGED bjLost
    <3>1. /\ JobsTypeOK' /\ OthersStay(r) /\ bjTask'[r] = "over" /\ bjStatus'[r] = "FAILED"
          /\ bjRow'[r].status = "FAILED" /\ bjRow'[r].identity = bjRow[r].identity
      BY <1>0, <2>1, <2>2, <2>4 DEF JobsTypeOK, OthersStay, JobTasks, JobStatuses, Ends, RunRows
    <3>2. RunOk(r)'
      BY <2>1, <2>2, <2>3, <2>4, <3>1 DEF RunOk, ActiveTask
    <3> QED BY <2>2, <2>3, <3>1, <3>2, RunStepKeeps
  <2>5. CASE bjLost' = bjLost \cup {q \in {r} : bjRow[q].status = "RUNNING"} /\ UNCHANGED bjRow
    <3>1. /\ JobsTypeOK' /\ OthersStay(r) /\ bjTask'[r] = "over" /\ bjStatus'[r] = "FAILED"
          /\ bjRow[r].status = "RUNNING" => r \in bjLost'
      BY <1>0, <2>1, <2>2, <2>5 DEF JobsTypeOK, OthersStay, JobTasks, JobStatuses, Ends
    <3>2. RunOk(r)' /\ (HasRow(r)' <=> HasRow(r))
      BY <2>1, <2>2, <2>5, <3>1 DEF RunOk, ActiveTask, HasRow
    <3> QED BY <2>2, <2>3, <2>5, <3>1, <3>2, RunStepKeeps
  <2> QED BY <1>16, <2>4, <2>5 DEF WriteFailure
<1> QED BY <1>2, <1>3, <1>4, <1>5, <1>6, <1>7, <1>8, <1>9, <1>10, <1>11, <1>12, <1>13, <1>14, <1>15, <1>16
        DEF JobsNext, RunnerStep

LEMMA JobsInitInv == JobsInit => JobsInv
<1> SUFFICES ASSUME JobsInit PROVE JobsInv
  OBVIOUS
<1>1. JobsTypeOK
  BY NoRowHasNone DEF JobsInit, JobsTypeOK, JobRequests, JobTasks, JobStatuses
<1>2. \A r \in Backtests : RunOk(r) /\ ~HasRow(r)
  BY NoRowHasNone DEF JobsInit, RunOk, HasRow, ActiveTask
<1>3. Running = {} /\ UnfinishedJobs = {}
  BY DEF JobsInit, Running, UnfinishedJobs, InRunner, InTry
<1>4. WorkIsBounded
  BY <1>3, FS_EmptySet, JobsAssumption DEF WorkIsBounded
<1> QED BY <1>1, <1>2, <1>4 DEF JobsInv, RowsDiffer

(* The table of runs tells the truth about results, finished jobs and rows *)
(* that say RUNNING, identities are unique and the work is bounded, for    *)
(* any number of requests, identities and limits (backtests.py submit,     *)
(* _execute, _evict, aclose; backtest_runner.py).                          *)
THEOREM JobsSound == JobsSpec => []JobsAreSound
<1>1. JobsInv => JobsAreSound
  <2> SUFFICES ASSUME JobsInv PROVE JobsAreSound
    OBVIOUS
  <2>1. RowTellsTheTruth
    BY DEF JobsInv, RunOk, RowTellsTheTruth
  <2>2. \A r, q \in Backtests : r # q /\ bjRow[r] # NoRow => bjRow[r].identity # bjRow[q].identity
    <3> SUFFICES ASSUME NEW r \in Backtests, NEW q \in Backtests, r # q, HasRow(r)
                 PROVE  bjRow[r].identity # bjRow[q].identity
      BY DEF HasRow
    <3>1. bjRow[r].identity \in Identities
      BY DEF JobsInv, RunOk
    <3>2. CASE HasRow(q)
      BY <3>2 DEF JobsInv, RowsDiffer
    <3>3. CASE ~HasRow(q)
      BY <3>1, <3>3, NoRowHasNone, JobsAssumption DEF HasRow
    <3> QED BY <3>2, <3>3
  <2>3. Cardinality({r \in Backtests : bjTask[r] \notin {"none", "over"}}) <= MaxPending
    <3> DEFINE active == {r \in Backtests : bjTask[r] \notin {"none", "over"}}
    <3>1. active \subseteq UnfinishedJobs /\ UnfinishedJobs \subseteq Backtests
      BY DEF JobsInv, RunOk, ActiveTask, UnfinishedJobs, JobsTypeOK
    <3> HIDE DEF active
    <3>2. Cardinality(active) <= Cardinality(UnfinishedJobs) /\ Cardinality(UnfinishedJobs) \in Nat
          /\ Cardinality(active) \in Nat
      BY <3>1, FewerThan, BacktestsFinite
    <3>3. Cardinality(UnfinishedJobs) <= MaxPending
      BY DEF JobsInv, WorkIsBounded
    <3>4. Cardinality(active) <= MaxPending
      BY <3>2, <3>3, JobsAssumption
    <3> QED BY <3>4 DEF active
  <2>4. Cardinality(Running) <= MaxConcurrent
    BY DEF JobsInv, WorkIsBounded
  <2> QED BY <2>1, <2>2, <2>3, <2>4 DEF JobsAreSound, JobsAreBounded
<1> QED BY <1>1, JobsInitInv, JobsStep, PTL DEF JobsSpec

-----------------------------------------------------------------------------
(* RiskLimits.                                                             *)

(* The program counters a request can only have after its document may have been
   written. *)
MayHaveWritten == {"written", "undo", "done", "failed", "dead"}

(* A text is on disk, or was read, only if somebody wrote it. *)
Known(t) == t \in {Orig} \cup Edits \cup {r \in Requests : pc[r] \in MayHaveWritten}

KnownInv == Known(file) /\ \A r \in Requests : Known(old[r])

BaseValid == \A r \in Requests : pc[r] = "tx" \/ r \in Live => old[r] \in Valid

(* The texts that live requests replaced are pairwise different, and none of them
   is on disk now: this is what makes a replacement of the current text safe. *)
LiveInv ==
    /\ \A r \in Live : old[r] # file
    /\ \A r, s \in Live : old[r] = old[s] => r = s

LimitsInv == TypeOK /\ KnownInv /\ BaseValid /\ LiveInv

(* Every variable keeps its type (TypeOK): in particular the worker's tree is never
   an unparsable text. *)
THEOREM TypeCorrect == Spec => []TypeOK
<1>1. Init => TypeOK
  <2> SUFFICES ASSUME Init PROVE TypeOK
    OBVIOUS
  <2>1. notified \in BOOLEAN /\ raced \in BOOLEAN
    BY Zenon DEF Init
  <2>2. 0 \in 0..MaxFailures /\ 0 \in 0..MaxCrashes
    BY LimitsAssumption
  <2> QED BY <2>1, <2>2 DEF Init, TypeOK, Texts, Valid
<1>2. TypeOK /\ [Next]_vars => TypeOK'
  <2> SUFFICES ASSUME TypeOK, [Next]_vars PROVE TypeOK'
    OBVIOUS
  <2> USE LimitsAssumption DEF TypeOK, Texts, Valid
  <2>1. ASSUME NEW r \in Requests, Get(r) PROVE TypeOK'
    BY <2>1 DEF Get, worker
  <2>2. ASSUME NEW r \in Requests, Put(r) PROVE TypeOK'
    BY <2>2 DEF Put, worker
  <2>3. ASSUME NEW r \in Requests, Replace(r) PROVE TypeOK'
    <3>1. raced' \in BOOLEAN
      BY <2>3, Zenon DEF Replace, Write, TypeOK
    <3>2. file' \in Texts /\ stamp' \in Nat
      BY <2>3 DEF Replace, Write
    <3> QED BY <2>3, <3>1, <3>2 DEF Replace, worker
  <2>4. ASSUME NEW r \in Requests, Commit(r) PROVE TypeOK'
    BY <2>4, ZenonT(40) DEF Commit, worker
  <2>5. ASSUME NEW r \in Requests, CommitFails(r) PROVE TypeOK'
    BY <2>5 DEF CommitFails, worker
  <2>6. ASSUME NEW r \in Requests, Restore(r) PROVE TypeOK'
    BY <2>6 DEF Restore, Write, worker
  <2>7. CASE Crash
    BY <2>7 DEF Crash, worker, InTransaction
  <2>8. ASSUME NEW t \in Edits, Edit(t) PROVE TypeOK'
    BY <2>8 DEF Edit, Write, worker, api
  <2>9. CASE Load \/ AttachStat \/ AttachSha \/ Stop
    BY <2>9 DEF Load, AttachStat, AttachSha, Stop, api
  <2>10. CASE Reload
    BY <2>10 DEF Reload, ReloadStat, ReloadSha, ReloadRead, api
  <2>11. CASE UNCHANGED vars
    BY <2>11 DEF vars, api, worker
  <2> QED BY <2>1, <2>2, <2>3, <2>4, <2>5, <2>6, <2>7, <2>8, <2>9, <2>10, <2>11 DEF Next
<1> QED BY <1>1, <1>2, PTL DEF Spec

(* What the API's steps preserve, for a step that leaves file and api alone. *)
LEMMA WorkerStepKeeps ==
    ASSUME KnownInv, BaseValid, LiveInv, UNCHANGED <<file, api>>
    PROVE  (KnownInv /\ BaseValid /\ LiveInv)'
BY DEF KnownInv, Known, BaseValid, LiveInv, Live, api, MayHaveWritten

(* A replacement is made by a request whose text nobody has read yet, over a text
   no live request has replaced. *)
LEMMA ReplaceKeeps ==
    ASSUME LimitsInv, NEW r \in Requests, Replace(r)
    PROVE  (KnownInv /\ BaseValid /\ LiveInv)'
<1> USE DEF LimitsInv, TypeOK
<1>1. CASE file = old[r]
  <2>1. /\ file' = r /\ old' = old /\ pc' = [pc EXCEPT ![r] = "written"]
        /\ pc[r] = "tx"
    BY <1>1 DEF Replace, Write
  <2>2. \A x \in Requests : old[x] # r
    BY <2>1, LimitsAssumption DEF KnownInv, Known, MayHaveWritten
  <2>3. Live' = Live \cup {r} /\ r \notin Live
    BY <2>1 DEF Live
  <2>4. KnownInv'
    BY <2>1 DEF KnownInv, Known, MayHaveWritten
  <2>5. BaseValid'
    BY <2>1, <2>3 DEF BaseValid, Valid
  <2>6. LiveInv'
    <3>1. \A x \in Live' : old'[x] # file'
      BY <2>1, <2>2, <2>3 DEF Live
    <3>2. ASSUME NEW x \in Live', NEW y \in Live', old'[x] = old'[y] PROVE x = y
      BY <3>2, <2>1, <2>3, <1>1 DEF LiveInv
    <3> QED BY <3>1, <3>2 DEF LiveInv
  <2> QED BY <2>4, <2>5, <2>6
<1>2. CASE file # old[r]
  <2>1. /\ file' = file /\ old' = old /\ pc' = [pc EXCEPT ![r] = "conflict"]
        /\ pc[r] = "tx"
    BY <1>2 DEF Replace
  <2>2. Live' = Live
    BY <2>1 DEF Live
  <2>3. \A t \in Texts : Known(t) => Known(t)'
    BY <2>1 DEF Known, MayHaveWritten
  <2> QED BY <2>1, <2>2, <2>3 DEF KnownInv, BaseValid, LiveInv, Live
<1> QED BY <1>1, <1>2

(* The compensation puts back a text only its own request had replaced. *)
LEMMA RestoreKeeps ==
    ASSUME LimitsInv, NEW r \in Requests, Restore(r)
    PROVE  (KnownInv /\ BaseValid /\ LiveInv)'
<1> USE DEF LimitsInv, TypeOK
<1>1. /\ file' = old[r] /\ old' = old /\ pc' = [pc EXCEPT ![r] = "failed"]
      /\ pc[r] = "undo"
  BY DEF Restore, Write
<1>2. Live' = Live \ {r} /\ r \in Live
  BY <1>1 DEF Live
<1>3. \A t \in Texts : Known(t) => Known(t)'
  BY <1>1 DEF Known, MayHaveWritten
<1>4. KnownInv'
  BY <1>1, <1>3 DEF KnownInv
<1>5. BaseValid'
  BY <1>1, <1>2 DEF BaseValid
<1>6. LiveInv'
  BY <1>1, <1>2 DEF LiveInv
<1> QED BY <1>4, <1>5, <1>6

LEMMA Inductive == LimitsInv /\ [Next]_vars => (KnownInv /\ BaseValid /\ LiveInv)'
<1> SUFFICES ASSUME LimitsInv, [Next]_vars PROVE (KnownInv /\ BaseValid /\ LiveInv)'
  OBVIOUS
<1> USE DEF LimitsInv, TypeOK
<1>1. ASSUME NEW r \in Requests, Get(r) PROVE (KnownInv /\ BaseValid /\ LiveInv)'
  BY <1>1 DEF Get, KnownInv, Known, BaseValid, LiveInv, Live
<1>2. ASSUME NEW r \in Requests, Put(r) PROVE (KnownInv /\ BaseValid /\ LiveInv)'
  <2>1. /\ file' = file /\ old' = [old EXCEPT ![r] = file] /\ pc[r] = "idle"
        /\ pc' = [pc EXCEPT ![r] = pc'[r]] /\ pc'[r] \in {"failed", "tx", "conflict"}
        /\ pc'[r] = "tx" => file \in Valid
    BY <1>2 DEF Put
  <2>2. Live' = Live /\ r \notin Live
    BY <2>1 DEF Live
  <2>3. \A t \in Texts : Known(t) => Known(t)'
    BY <2>1 DEF Known, MayHaveWritten
  <2>4. KnownInv'
    BY <2>1, <2>3 DEF KnownInv
  <2>5. BaseValid'
    BY <2>1, <2>2 DEF BaseValid
  <2>6. LiveInv'
    BY <2>1, <2>2 DEF LiveInv, Live
  <2> QED BY <2>4, <2>5, <2>6
<1>3. ASSUME NEW r \in Requests, Replace(r) PROVE (KnownInv /\ BaseValid /\ LiveInv)'
  BY <1>3, ReplaceKeeps
<1>4. ASSUME NEW r \in Requests, Commit(r) \/ CommitFails(r)
      PROVE  (KnownInv /\ BaseValid /\ LiveInv)'
  <2>1. /\ file' = file /\ old' = old /\ pc[r] = "written"
        /\ pc' = [pc EXCEPT ![r] = pc'[r]] /\ pc'[r] \in {"done", "undo"}
    BY <1>4 DEF Commit, CommitFails
  <2>2. Live' = Live
    BY <2>1 DEF Live
  <2>3. \A t \in Texts : Known(t) => Known(t)'
    BY <2>1 DEF Known, MayHaveWritten
  <2> QED BY <2>1, <2>2, <2>3 DEF KnownInv, BaseValid, LiveInv, Live
<1>5. ASSUME NEW r \in Requests, Restore(r) PROVE (KnownInv /\ BaseValid /\ LiveInv)'
  BY <1>5, RestoreKeeps
<1>6. CASE Crash
  <2>1. file' = file /\ old' = old
    BY <1>6 DEF Crash
  <2>2. Live' \subseteq Live
    BY <1>6 DEF Crash, Live, InTransaction
  <2>3. \A t \in Texts : Known(t) => Known(t)'
    BY <1>6 DEF Crash, Known, MayHaveWritten, InTransaction
  <2>4. \A x \in Requests : pc'[x] = "tx" => pc[x] = "tx"
    BY <1>6 DEF Crash, InTransaction
  <2> QED BY <2>1, <2>2, <2>3, <2>4 DEF KnownInv, BaseValid, LiveInv, Live
<1>7. ASSUME NEW t \in Edits, Edit(t) PROVE (KnownInv /\ BaseValid /\ LiveInv)'
  <2>1. file' = t /\ old' = old /\ pc' = pc
    BY <1>7 DEF Edit, Write, api
  <2>2. \A r \in Live : old[r] # t
    BY LimitsAssumption DEF BaseValid, Valid, Live
  <2> QED BY <2>1, <2>2 DEF KnownInv, Known, BaseValid, LiveInv, Live
<1>8. CASE Load \/ AttachStat \/ AttachSha \/ Reload \/ Stop \/ UNCHANGED vars
  <2>1. UNCHANGED <<file, api>>
    BY <1>8 DEF Load, AttachStat, AttachSha, Reload, ReloadStat, ReloadSha, ReloadRead, Stop, vars
  <2> QED BY <2>1, WorkerStepKeeps
<1> QED BY <1>1, <1>2, <1>3, <1>4, <1>5, <1>6, <1>7, <1>8 DEF Next

(* Optimistic locking holds for any number of concurrent requests: no two accepted
   changes replaced the same version, in spite of failed COMMITs that are
   compensated without a check, and of crashes (DistinctBases). *)
THEOREM BasesDistinct == Spec => []DistinctBases
<1>1. Init => KnownInv /\ BaseValid /\ LiveInv
  BY LimitsAssumption DEF Init, KnownInv, Known, BaseValid, LiveInv, Live, Valid
<1>2. TypeOK /\ TypeOK' /\ (KnownInv /\ BaseValid /\ LiveInv) /\ [Next]_vars
        => (KnownInv /\ BaseValid /\ LiveInv)'
  BY Inductive DEF LimitsInv
<1>3. LimitsInv => DistinctBases
  BY DEF LimitsInv, LiveInv, DistinctBases, Live
<1> QED BY <1>1, <1>2, <1>3, TypeCorrect, PTL DEF Spec, LimitsInv

(* A running worker always trades on limits that passed validation
   (TradesOnValidLimits). *)
THEOREM ValidLimits == Spec => []TradesOnValidLimits
<1>1. Init => TradesOnValidLimits
  BY DEF Init, TradesOnValidLimits
<1>2. TradesOnValidLimits /\ [Next]_vars => TradesOnValidLimits'
  <2> SUFFICES ASSUME TradesOnValidLimits, [Next]_vars PROVE TradesOnValidLimits'
    OBVIOUS
  <2> USE DEF TradesOnValidLimits, Valid
  <2>1. ASSUME NEW r \in Requests,
               Get(r) \/ Put(r) \/ Replace(r) \/ Commit(r) \/ CommitFails(r) \/ Restore(r)
        PROVE  TradesOnValidLimits'
    BY <2>1 DEF Get, Put, Replace, Commit, CommitFails, Restore, worker
  <2>2. CASE Crash \/ (\E t \in Edits : Edit(t))
    BY <2>2 DEF Crash, Edit, worker
  <2>3. CASE Load \/ AttachStat \/ AttachSha \/ Stop
    BY <2>3 DEF Load, AttachStat, AttachSha, Stop
  <2>4. CASE Reload
    BY <2>4 DEF Reload, ReloadStat, ReloadSha, ReloadRead
  <2>5. CASE UNCHANGED vars
    BY <2>5 DEF vars, worker
  <2> QED BY <2>1, <2>2, <2>3, <2>4, <2>5 DEF Next
<1> QED BY <1>1, <1>2, PTL DEF Spec

-----------------------------------------------------------------------------
(* Access.                                                                 *)

AccessRoles == {"admin", "auditor", "none"}

LoginTries ==
    [pc : {"idle", "find", "verify"}, login : Logins \cup {"none"}, role : AccessRoles]

TokensOf == [login : Logins, role : AccessRoles, exp : Nat]

AccessCalls ==
    [pc : {"idle", "read", "check", "handler", "written"}, token : TokensOf \cup {NoCall.token},
     perm : Asked \cup {"none"}, had : BOOLEAN]

AccessTypeOK ==
    /\ axNow \in Nat
    /\ axRole \in [Logins -> AccessRoles]
    /\ axTokens \subseteq TokensOf
    /\ axFails \in [Keys -> Seq(Nat)]
    /\ axTry \in [Attempts -> LoginTries]
    /\ \A a \in Attempts : axTry[a].pc # "idle" => axTry[a].login \in Logins
    /\ axCall \in [Calls -> AccessCalls]
    /\ \A q \in Calls : axCall[q].pc # "idle" => axCall[q].token \in TokensOf

(* A request that the database still allows, or that has passed the check, *)
(* was allowed at some moment since it came.                               *)
AllowedSinceItCame ==
    \A q \in Calls :
        /\ axCall[q].pc = "check" /\ May(axRole[axCall[q].token.login], axCall[q].perm) => axCall[q].had
        /\ axCall[q].pc \in {"handler", "written"} => axCall[q].had

(* The attempts that count against a key once they have failed. *)
Underway(k) == {a \in Attempts : axTry[a].pc # "idle" /\ k \in KeysOf(axTry[a].login)}

FailuresStillPossible ==
    \A k \in Keys : Len(Recent(k)) + Cardinality(Underway(k)) < MaxLoginFailures + Cardinality(Attempts)

AccessInv == AccessTypeOK /\ AllowedSinceItCame /\ FailuresStillPossible

(* The first failure that still counts exists, or all are pruned. *)
LEMMA PrunedIsSuffix ==
    ASSUME NEW q \in Seq(Nat), NEW now \in Nat
    PROVE  \E i \in 1 .. (Len(q) + 1) :
               /\ \A j \in 1 .. (i - 1) : now - q[j] >= LoginWindow
               /\ i <= Len(q) => now - q[i] < LoginWindow
               /\ Pruned(q, now) = SubSeq(q, i, Len(q))
               /\ Pruned(q, now) \in Seq(Nat)
               /\ Len(Pruned(q, now)) = Len(q) - i + 1
<1> DEFINE Counts == {i \in 1 .. Len(q) : now - q[i] < LoginWindow}
           IsFirst(i) == /\ \A j \in 1 .. (i - 1) : now - q[j] >= LoginWindow
                         /\ i <= Len(q) => now - q[i] < LoginWindow
<1>0. LoginWindow \in Nat /\ Len(q) \in Nat /\ \A j \in 1 .. Len(q) : q[j] \in Nat
  BY AccessAssumption
<1>1. \E i \in 1 .. (Len(q) + 1) : IsFirst(i)
  <2>1. CASE Counts = {}
    <3>1. \A j \in 1 .. Len(q) : now - q[j] >= LoginWindow
      BY <1>0, <2>1
    <3>2. IsFirst(Len(q) + 1) /\ Len(q) + 1 \in 1 .. (Len(q) + 1)
      BY <1>0, <3>1
    <3> QED BY <3>2
  <2>2. CASE Counts # {}
    <3>1. Counts \in SUBSET Nat
      BY <1>0
    <3>2. PICK m \in Counts : \A n \in Counts : m <= n
      BY <3>1, <2>2, LeastNat
    <3>3. \A j \in 1 .. (m - 1) : now - q[j] >= LoginWindow
      BY <1>0, <3>2
    <3>4. IsFirst(m) /\ m \in 1 .. (Len(q) + 1)
      BY <1>0, <3>2, <3>3
    <3> QED BY <3>4
  <2> QED BY <2>1, <2>2
<1>2. PICK i \in 1 .. (Len(q) + 1) : IsFirst(i) /\ Pruned(q, now) = SubSeq(q, i, Len(q))
  <2> DEFINE c == CHOOSE i \in 1 .. (Len(q) + 1) : IsFirst(i)
  <2>1. c \in 1 .. (Len(q) + 1) /\ IsFirst(c)
    BY <1>1
  <2>2. Pruned(q, now) = SubSeq(q, c, Len(q))
    BY DEF Pruned
  <2> HIDE DEF c
  <2> QED BY <2>1, <2>2
<1>3. SubSeq(q, i, Len(q)) \in Seq(Nat) /\ Len(SubSeq(q, i, Len(q))) = Len(q) - i + 1
  BY <1>0
<1> QED BY <1>2, <1>3

(* Failures leave the window as time goes on. *)
LEMMA PrunedLater ==
    ASSUME NEW q \in Seq(Nat), NEW now \in Nat
    PROVE  \A later \in Nat : now <= later => Len(Pruned(q, later)) <= Len(Pruned(q, now))
<1> TAKE later \in Nat
<1> HAVE now <= later
<1>0. LoginWindow \in Nat /\ Len(q) \in Nat /\ \A j \in 1 .. Len(q) : q[j] \in Nat
  BY AccessAssumption
<1>1. PICK i \in 1 .. (Len(q) + 1) :
          /\ \A j \in 1 .. (i - 1) : now - q[j] >= LoginWindow
          /\ Len(Pruned(q, now)) = Len(q) - i + 1
  BY PrunedIsSuffix
<1>2. PICK k \in 1 .. (Len(q) + 1) :
          /\ k <= Len(q) => later - q[k] < LoginWindow
          /\ Len(Pruned(q, later)) = Len(q) - k + 1
  BY PrunedIsSuffix
<1>3. ~(k < i)
  <2> SUFFICES ASSUME k < i PROVE FALSE
    OBVIOUS
  <2>1. k \in 1 .. (i - 1) /\ k \in 1 .. Len(q)
    BY <1>0
  <2> QED BY <2>1, <1>0, <1>1, <1>2
<1> QED BY <1>0, <1>1, <1>2, <1>3

(* One more failure is at most one more that counts. *)
LEMMA PrunedAppend ==
    ASSUME NEW q \in Seq(Nat), NEW now \in Nat
    PROVE  Len(Pruned(Append(q, now), now)) <= Len(Pruned(q, now)) + 1
<1> DEFINE r == Append(q, now)
<1>0. /\ LoginWindow \in Nat /\ Len(q) \in Nat /\ \A j \in 1 .. Len(q) : q[j] \in Nat /\ r[j] = q[j]
      /\ r \in Seq(Nat) /\ Len(r) = Len(q) + 1
  BY AccessAssumption
<1>1. PICK i \in 1 .. (Len(q) + 1) :
          /\ \A j \in 1 .. (i - 1) : now - q[j] >= LoginWindow
          /\ Len(Pruned(q, now)) = Len(q) - i + 1
  BY PrunedIsSuffix
<1>2. PICK k \in 1 .. (Len(r) + 1) :
          /\ k <= Len(r) => now - r[k] < LoginWindow
          /\ Len(Pruned(r, now)) = Len(r) - k + 1
  BY PrunedIsSuffix, <1>0
<1>3. ~(k < i)
  <2> SUFFICES ASSUME k < i PROVE FALSE
    OBVIOUS
  <2>1. k \in 1 .. (i - 1) /\ k \in 1 .. Len(q)
    BY <1>0
  <2> QED BY <2>1, <1>0, <1>1, <1>2
<1> QED BY <1>0, <1>1, <1>2, <1>3
LEMMA UnderwayBound ==
    ASSUME NEW T \in SUBSET Attempts
    PROVE  IsFiniteSet(T) /\ Cardinality(T) \in Nat /\ Cardinality(T) <= Cardinality(Attempts)
           /\ Cardinality(Attempts) \in Nat
BY AccessAssumption, FS_Subset, FS_CardinalityType

LEMMA RecentTyped ==
    ASSUME AccessTypeOK, NEW k \in Keys
    PROVE  Recent(k) \in Seq(Nat) /\ Len(Recent(k)) \in Nat /\ Len(Recent(k)) <= Len(axFails[k])
<1>1. axFails[k] \in Seq(Nat) /\ axNow \in Nat
  BY DEF AccessTypeOK
<1>2. PICK i \in 1 .. (Len(axFails[k]) + 1) :
          Recent(k) \in Seq(Nat) /\ Len(Recent(k)) = Len(axFails[k]) - i + 1
  BY <1>1, PrunedIsSuffix DEF Recent
<1> QED BY <1>1, <1>2

LEMMA AccessTypeStep == AccessTypeOK /\ [AccessNext]_axVars => AccessTypeOK'
<1> SUFFICES ASSUME AccessTypeOK, [AccessNext]_axVars PROVE AccessTypeOK'
  OBVIOUS
<1> USE DEF AccessTypeOK
<1>1. CASE UNCHANGED axVars
  BY <1>1 DEF axVars
<1>2. CASE AccessTick
  BY <1>2 DEF AccessTick
<1>3. ASSUME NEW l \in Logins, DemoLogin(l) PROVE AccessTypeOK'
  BY <1>3, AccessAssumption DEF DemoLogin, Token, TokensOf
<1>4. ASSUME NEW l \in Logins, NEW role \in AccessRoles, ChangeRole(l, role) PROVE AccessTypeOK'
  <2>1. \A q \in Calls : /\ axCall'[q] \in AccessCalls
                          /\ axCall'[q].pc = axCall[q].pc /\ axCall'[q].token = axCall[q].token
    <3> SUFFICES ASSUME NEW q \in Calls
                 PROVE  /\ axCall'[q] \in AccessCalls
                        /\ axCall'[q].pc = axCall[q].pc /\ axCall'[q].token = axCall[q].token
      OBVIOUS
    <3>1. axCall[q] \in AccessCalls
      OBVIOUS
    <3>2. CASE axCall[q].token.login = l
      <4>1. axCall'[q] = [axCall[q] EXCEPT !.had = axCall[q].had \/ May(role, axCall[q].perm)]
        BY <1>4, <3>2 DEF ChangeRole
      <4>2. (axCall[q].had \/ May(role, axCall[q].perm)) \in BOOLEAN
        OBVIOUS
      <4> QED BY <3>1, <4>1, <4>2 DEF AccessCalls
    <3>3. CASE axCall[q].token.login # l
      BY <1>4, <3>3 DEF ChangeRole
    <3> QED BY <3>2, <3>3
  <2>2. axCall' \in [Calls -> AccessCalls]
    BY <1>4, <2>1 DEF ChangeRole
  <2> QED BY <1>4, <2>1, <2>2 DEF ChangeRole
<1>5. ASSUME NEW a \in Attempts, FindUser(a) PROVE AccessTypeOK'
  <2>1. axTry[a] \in LoginTries /\ axTry[a].login \in Logins /\ axRole[axTry[a].login] \in AccessRoles
    BY <1>5 DEF FindUser
  <2> DEFINE new == [[axTry[a] EXCEPT !.pc = "verify"] EXCEPT !.role = axRole[axTry[a].login]]
  <2>2. axTry' = [axTry EXCEPT ![a] = new]
    BY <1>5, Zenon DEF FindUser
  <2>3. new \in LoginTries /\ new.login = axTry[a].login
    BY <2>1 DEF LoginTries
  <2> HIDE DEF new
  <2>4. axTry' \in [Attempts -> LoginTries] /\ axTry'[a] = new
        /\ \A b \in Attempts : b # a => axTry'[b] = axTry[b]
    BY <2>2, <2>3
  <2> QED BY <1>5, <2>1, <2>3, <2>4 DEF FindUser
<1>6. ASSUME NEW a \in Attempts, LoginSucceeds(a) PROVE AccessTypeOK'
  BY <1>6, AccessAssumption DEF LoginSucceeds, Token, TokensOf, LoginTries, NoTry, AccessRoles, Keys
<1>7. ASSUME NEW a \in Attempts, LoginFails(a) PROVE AccessTypeOK'
  BY <1>7 DEF LoginFails, LoginTries, NoTry, AccessRoles
<1>8. ASSUME NEW a \in Attempts, LoginError(a) PROVE AccessTypeOK'
  BY <1>8 DEF LoginError, LoginTries, NoTry, AccessRoles
<1>9. ASSUME NEW a \in Attempts, NEW l \in Logins, TryLogin(a, l) PROVE AccessTypeOK'
  BY <1>9, RecentTyped DEF TryLogin, LoginTries, AccessRoles
<1>10. ASSUME NEW q \in Calls, CheckRole(q) PROVE AccessTypeOK'
  <2>1. NoCall \in AccessCalls /\ NoCall.pc = "idle"
    BY DEF NoCall, AccessCalls
  <2>2. axCall[q] \in AccessCalls /\ axCall[q].token \in TokensOf
    BY <1>10 DEF CheckRole
  <2>3. [axCall[q] EXCEPT !.pc = "handler"] \in AccessCalls
        /\ [axCall[q] EXCEPT !.pc = "handler"].token = axCall[q].token
    BY <2>2 DEF AccessCalls
  <2>4. axCall' = [axCall EXCEPT ![q] = NoCall] \/ axCall' = [axCall EXCEPT ![q] = [axCall[q] EXCEPT !.pc = "handler"]]
    BY <1>10 DEF CheckRole
  <2> QED BY <1>10, <2>1, <2>2, <2>3, <2>4 DEF CheckRole
<1>11. ASSUME NEW q \in Calls, Handle(q) \/ Respond(q) PROVE AccessTypeOK'
  <2>1. NoCall \in AccessCalls /\ NoCall.pc = "idle"
    BY DEF NoCall, AccessCalls
  <2>2. CASE Handle(q)
    <3>1. axCall[q] \in AccessCalls /\ axCall' = [axCall EXCEPT ![q] = [axCall[q] EXCEPT !.pc = "written"]]
      BY <2>2 DEF Handle
    <3>2. [axCall[q] EXCEPT !.pc = "written"] \in AccessCalls
      BY <3>1 DEF AccessCalls
    <3>3. axCall[q].token \in TokensOf /\ [axCall[q] EXCEPT !.pc = "written"].token = axCall[q].token
      BY <2>2, <3>1 DEF Handle, AccessCalls
    <3> QED BY <2>2, <3>1, <3>2, <3>3 DEF Handle
  <2>3. CASE Respond(q)
    BY <2>1, <2>3 DEF Respond
  <2> QED BY <1>11, <2>2, <2>3
<1>12. ASSUME NEW q \in Calls, NEW t \in axTokens, NEW p \in Asked, Call(q, t, p) PROVE AccessTypeOK'
  BY <1>12 DEF Call, May, AccessCalls
<1> QED BY <1>1, <1>2, <1>3, <1>4, <1>5, <1>6, <1>7, <1>8, <1>9, <1>10, <1>11, <1>12
        DEF AccessNext, AccessRoles

(* Roles: the check reads the role as it is, and a change of it is noted   *)
(* by every request under way.                                             *)
LEMMA AllowedStep ==
    AccessTypeOK /\ AllowedSinceItCame /\ [AccessNext]_axVars => AllowedSinceItCame'
<1> SUFFICES ASSUME AccessTypeOK, AllowedSinceItCame, [AccessNext]_axVars,
                    NEW q \in Calls
             PROVE  (/\ axCall[q].pc = "check" /\ May(axRole[axCall[q].token.login], axCall[q].perm) => axCall[q].had
                     /\ axCall[q].pc \in {"handler", "written"} => axCall[q].had)'
  BY DEF AllowedSinceItCame
<1>0. /\ axCall[q] \in AccessCalls /\ (axCall[q].pc # "idle" => axCall[q].token \in TokensOf)
      /\ axCall \in [Calls -> AccessCalls] /\ axRole \in [Logins -> AccessRoles]
      /\ axCall[q].pc = "check" /\ May(axRole[axCall[q].token.login], axCall[q].perm) => axCall[q].had
      /\ axCall[q].pc \in {"handler", "written"} => axCall[q].had
      /\ NoCall.pc = "idle"
  BY DEF AccessTypeOK, AllowedSinceItCame, NoCall
<1>1. CASE UNCHANGED <<axRole, axCall>>
  BY <1>0, <1>1 DEF May
<1>2. ASSUME NEW l \in Logins, NEW role \in AccessRoles, ChangeRole(l, role)
      PROVE  (/\ axCall[q].pc = "check" /\ May(axRole[axCall[q].token.login], axCall[q].perm) => axCall[q].had
              /\ axCall[q].pc \in {"handler", "written"} => axCall[q].had)'
  <2>1. CASE axCall[q].token.login = l
    <3>1. axCall'[q] = [axCall[q] EXCEPT !.had = axCall[q].had \/ May(role, axCall[q].perm)]
      BY <1>2, <2>1 DEF ChangeRole
    <3>2. /\ axCall'[q].pc = axCall[q].pc /\ axCall'[q].perm = axCall[q].perm
          /\ axCall'[q].token = axCall[q].token
          /\ axCall'[q].had = (axCall[q].had \/ May(role, axCall[q].perm))
      BY <1>0, <3>1 DEF AccessCalls
    <3>3. axRole'[l] = role
      BY <1>0, <1>2 DEF ChangeRole
    <3> QED BY <1>0, <2>1, <3>2, <3>3 DEF May
  <2>2. CASE axCall[q].token.login # l
    <3>1. axCall'[q] = axCall[q]
      BY <1>2, <2>2 DEF ChangeRole
    <3>2. axCall[q].pc # "idle" => axRole'[axCall[q].token.login] = axRole[axCall[q].token.login]
      BY <1>0, <1>2, <2>2 DEF ChangeRole, TokensOf
    <3> QED BY <1>0, <3>1, <3>2 DEF May
  <2> QED BY <2>1, <2>2
<1>3. ASSUME NEW c \in Calls, NEW t \in axTokens, NEW p \in Asked, Call(c, t, p)
      PROVE  (/\ axCall[q].pc = "check" /\ May(axRole[axCall[q].token.login], axCall[q].perm) => axCall[q].had
              /\ axCall[q].pc \in {"handler", "written"} => axCall[q].had)'
  <2>1. CASE c = q
    BY <1>0, <1>3, <2>1 DEF Call, May
  <2>2. CASE c # q
    BY <1>0, <1>3, <2>2 DEF Call, May
  <2> QED BY <2>1, <2>2
<1>4. ASSUME NEW c \in Calls, CheckRole(c)
      PROVE  (/\ axCall[q].pc = "check" /\ May(axRole[axCall[q].token.login], axCall[q].perm) => axCall[q].had
              /\ axCall[q].pc \in {"handler", "written"} => axCall[q].had)'
  <2>1. CASE c = q
    <3>1. CASE May(axRole[axCall[q].token.login], axCall[q].perm)
      <4>1. axCall'[q] = [axCall[q] EXCEPT !.pc = "handler"] /\ axCall[q].pc = "check"
        BY <1>0, <1>4, <2>1, <3>1 DEF CheckRole, Current
      <4>2. axCall'[q].pc = "handler" /\ axCall'[q].had = axCall[q].had
        BY <1>0, <4>1 DEF AccessCalls
      <4> QED BY <1>0, <3>1, <4>1, <4>2
    <3>2. CASE ~May(axRole[axCall[q].token.login], axCall[q].perm)
      <4>1. axCall'[q] = NoCall
        BY <1>0, <1>4, <2>1, <3>2 DEF CheckRole, Current
      <4> QED BY <1>0, <4>1
    <3> QED BY <3>1, <3>2
  <2>2. CASE c # q
    BY <1>0, <1>4, <2>2 DEF CheckRole, May
  <2> QED BY <2>1, <2>2
<1>5. ASSUME NEW c \in Calls, Handle(c) \/ Respond(c)
      PROVE  (/\ axCall[q].pc = "check" /\ May(axRole[axCall[q].token.login], axCall[q].perm) => axCall[q].had
              /\ axCall[q].pc \in {"handler", "written"} => axCall[q].had)'
  <2>1. CASE c = q
    <3>1. CASE Respond(q)
      BY <1>0, <3>1 DEF Respond
    <3>2. CASE Handle(q)
      <4>1. axCall'[q] = [axCall[q] EXCEPT !.pc = "written"] /\ axCall[q].pc = "handler"
        BY <1>0, <3>2 DEF Handle
      <4>2. axCall'[q].pc = "written" /\ axCall'[q].had = axCall[q].had
        BY <1>0, <4>1 DEF AccessCalls
      <4> QED BY <1>0, <4>1, <4>2
    <3> QED BY <1>5, <2>1, <3>1, <3>2
  <2>2. CASE c # q
    BY <1>0, <1>5, <2>2 DEF Handle, Respond, May
  <2> QED BY <2>1, <2>2
<1> QED BY <1>1, <1>2, <1>3, <1>4, <1>5
        DEF AccessNext, axVars, AccessTick, DemoLogin, FindUser, LoginSucceeds, LoginFails, LoginError,
            TryLogin, AccessRoles

(* Limits: an attempt that has passed the check can add one failure.       *)
LEMMA LimitStep ==
    AccessTypeOK /\ FailuresStillPossible /\ [AccessNext]_axVars => FailuresStillPossible'
<1> SUFFICES ASSUME AccessTypeOK, FailuresStillPossible, [AccessNext]_axVars, NEW k \in Keys
             PROVE  (Len(Recent(k)) + Cardinality(Underway(k)) < MaxLoginFailures + Cardinality(Attempts))'
  BY DEF FailuresStillPossible
<1> DEFINE N == Cardinality(Attempts)
<1>0. /\ Len(Recent(k)) + Cardinality(Underway(k)) < MaxLoginFailures + N
      /\ MaxLoginFailures \in Nat \ {0} /\ N \in Nat
      /\ axFails[k] \in Seq(Nat) /\ axFails \in [Keys -> Seq(Nat)]
      /\ axNow \in Nat /\ axTry \in [Attempts -> LoginTries]
      /\ Len(Recent(k)) \in Nat /\ Len(axFails[k]) \in Nat
      /\ Recent(k) \in Seq(Nat)
  BY AccessAssumption, FS_CardinalityType, RecentTyped DEF FailuresStillPossible, AccessTypeOK
<1>u. /\ IsFiniteSet(Underway(k)) /\ Cardinality(Underway(k)) \in Nat /\ Cardinality(Underway(k)) <= N
      /\ Cardinality(Underway(k)') \in Nat /\ Cardinality(Underway(k)') <= N
  <2>1. Underway(k) \in SUBSET Attempts /\ Underway(k)' \in SUBSET Attempts
    BY DEF Underway
  <2> QED BY <2>1, UnderwayBound
<1> HIDE DEF N
<1>1. CASE UNCHANGED <<axNow, axFails, axTry>>
  BY <1>0, <1>1 DEF Recent, Underway, N
<1>2. CASE AccessTick
  <2>1. Underway(k)' = Underway(k)
    BY <1>2 DEF AccessTick, Underway
  <2>2. Len(Recent(k)') <= Len(Recent(k)) /\ Len(Recent(k)') \in Nat
    <3>1. axNow' \in Nat /\ axNow <= axNow' /\ axFails' = axFails
      BY <1>0, <1>2 DEF AccessTick
    <3>2. Len(Pruned(axFails[k], axNow')) <= Len(Pruned(axFails[k], axNow))
      BY <1>0, <3>1, PrunedLater
    <3>3. Pruned(axFails[k], axNow') \in Seq(Nat)
      BY <1>0, <3>1, PrunedIsSuffix
    <3> QED BY <3>1, <3>2, <3>3 DEF Recent
  <2> QED BY <1>0, <1>u, <2>1, <2>2 DEF N
<1>3. ASSUME NEW a \in Attempts, FindUser(a)
      PROVE  (Len(Recent(k)) + Cardinality(Underway(k)) < MaxLoginFailures + N)'
  <2>1. ASSUME NEW b \in Attempts
        PROVE  axTry'[b].pc = "idle" <=> axTry[b].pc = "idle"
    BY <1>0, <1>3 DEF FindUser, LoginTries
  <2>3. ASSUME NEW b \in Attempts
        PROVE  axTry'[b].login = axTry[b].login
    BY <1>0, <1>3 DEF FindUser, LoginTries
  <2>2. Underway(k)' = Underway(k) /\ Recent(k)' = Recent(k)
    <3>1. axNow' = axNow /\ axFails' = axFails
      BY <1>3 DEF FindUser
    <3>2. Underway(k)' = Underway(k)
      <4>1. ASSUME NEW b \in Attempts
            PROVE  b \in Underway(k)' <=> b \in Underway(k)
        BY <2>1, <2>3 DEF Underway, KeysOf
      <4>2. Underway(k)' \subseteq Attempts /\ Underway(k) \subseteq Attempts
        BY DEF Underway
      <4> QED BY <4>1, <4>2
    <3> QED BY <3>1, <3>2 DEF Recent
  <2> QED BY <1>0, <2>2 DEF N
<1>4. ASSUME NEW a \in Attempts, LoginError(a)
      PROVE  (Len(Recent(k)) + Cardinality(Underway(k)) < MaxLoginFailures + N)'
  <2>1. Underway(k)' \subseteq Underway(k) /\ Recent(k)' = Recent(k)
    BY <1>0, <1>4 DEF Underway, Recent, LoginError, NoTry
  <2>2. Cardinality(Underway(k)') <= Cardinality(Underway(k))
    BY <1>u, <2>1, FS_Subset
  <2> QED BY <1>0, <1>u, <2>1, <2>2 DEF N
<1>5. ASSUME NEW a \in Attempts, LoginSucceeds(a)
      PROVE  (Len(Recent(k)) + Cardinality(Underway(k)) < MaxLoginFailures + N)'
  <2>1. Underway(k)' \subseteq Underway(k)
    BY <1>0, <1>5 DEF Underway, LoginSucceeds, NoTry
  <2>2. Cardinality(Underway(k)') <= Cardinality(Underway(k))
    BY <1>u, <2>1, FS_Subset
  <2>3. axNow' = axNow /\ (axFails'[k] = axFails[k] \/ axFails'[k] = <<>>)
    BY <1>0, <1>5 DEF LoginSucceeds
  <2>4. Len(Recent(k)') <= Len(Recent(k)) /\ Len(Recent(k)') \in Nat
    <3>1. CASE axFails'[k] = axFails[k]
      BY <1>0, <2>3, <3>1 DEF Recent
    <3>2. CASE axFails'[k] = <<>>
      <4>1. <<>> \in Seq(Nat) /\ Len(<<>>) = 0
        OBVIOUS
      <4>2. PICK i \in 1 .. (Len(<<>>) + 1) : Len(Pruned(<<>>, axNow)) = Len(<<>>) - i + 1
        BY <1>0, <4>1, PrunedIsSuffix, Zenon
      <4>3. Recent(k)' = Pruned(<<>>, axNow)
        BY <2>3, <3>2 DEF Recent
      <4> QED BY <1>0, <4>1, <4>2, <4>3
    <3> QED BY <2>3, <3>1, <3>2
  <2> QED BY <1>0, <1>u, <2>2, <2>4 DEF N
<1>6. ASSUME NEW a \in Attempts, LoginFails(a)
      PROVE  (Len(Recent(k)) + Cardinality(Underway(k)) < MaxLoginFailures + N)'
  <2>1. CASE k \in KeysOf(axTry[a].login)
    <3>1. a \in Underway(k) /\ Underway(k)' \subseteq Underway(k) \ {a}
      BY <1>0, <1>6, <2>1 DEF Underway, LoginFails, NoTry
    <3>2. Cardinality(Underway(k) \ {a}) = Cardinality(Underway(k)) - 1 /\ IsFiniteSet(Underway(k) \ {a})
      BY <1>u, <3>1, FS_RemoveElement
    <3>3. Cardinality(Underway(k)') <= Cardinality(Underway(k)) - 1
      BY <3>1, <3>2, FS_Subset
    <3>4. Recent(k)' = Pruned(Append(axFails[k], axNow), axNow)
      BY <1>0, <1>6, <2>1 DEF Recent, LoginFails
    <3>5. Len(Recent(k)') <= Len(Recent(k)) + 1
      BY <1>0, <3>4, PrunedAppend DEF Recent
    <3>6. Len(Recent(k)') \in Nat
      <4>1. Append(axFails[k], axNow) \in Seq(Nat)
        BY <1>0
      <4> QED BY <1>0, <3>4, <4>1, PrunedIsSuffix
    <3> QED BY <1>0, <1>u, <3>3, <3>5, <3>6 DEF N
  <2>2. CASE k \notin KeysOf(axTry[a].login)
    <3>1. Underway(k)' \subseteq Underway(k) /\ Recent(k)' = Recent(k)
      BY <1>0, <1>6, <2>2 DEF Underway, Recent, LoginFails, NoTry
    <3>2. Cardinality(Underway(k)') <= Cardinality(Underway(k))
      BY <1>u, <3>1, FS_Subset
    <3> QED BY <1>0, <1>u, <3>1, <3>2 DEF N
  <2> QED BY <2>1, <2>2
<1>7. ASSUME NEW a \in Attempts, NEW l \in Logins, TryLogin(a, l)
      PROVE  (Len(Recent(k)) + Cardinality(Underway(k)) < MaxLoginFailures + N)'
  <2>1. CASE k \in KeysOf(l)
    <3>1. Len(Recent(k)) < MaxLoginFailures
      BY <1>0, <1>7, <2>1 DEF TryLogin, LoginBlocked
    <3>2. Recent(k)' = Pruned(Recent(k), axNow)
      BY <1>0, <1>7, <2>1 DEF Recent, TryLogin
    <3>3. PICK i \in 1 .. (Len(Recent(k)) + 1) : Len(Pruned(Recent(k), axNow)) = Len(Recent(k)) - i + 1
      BY <1>0, PrunedIsSuffix
    <3> QED BY <1>0, <1>u, <3>1, <3>2, <3>3 DEF N
  <2>2. CASE k \notin KeysOf(l)
    <3>1. Underway(k)' \subseteq Underway(k) /\ Recent(k)' = Recent(k)
      BY <1>0, <1>7, <2>2 DEF Underway, Recent, TryLogin
    <3>2. Cardinality(Underway(k)') <= Cardinality(Underway(k))
      BY <1>u, <3>1, FS_Subset
    <3> QED BY <1>0, <1>u, <3>1, <3>2 DEF N
  <2> QED BY <2>1, <2>2
<1> QED BY <1>1, <1>2, <1>3, <1>4, <1>5, <1>6, <1>7
        DEF N, AccessNext, axVars, DemoLogin, ChangeRole, CheckRole, Handle, Respond, Call

(* Roles and limits as they are now decide, whatever was read before:      *)
(* AccessIsCurrent for any number of logins, attempts and requests         *)
(* (deps.py require, auth.py LoginRateLimiter).                            *)
THEOREM AccessCurrent == AccessSpec => []AccessIsCurrent
<1>1. AccessInit => AccessInv
  <2> SUFFICES ASSUME AccessInit PROVE AccessInv
    OBVIOUS
  <2>1. NoCall \in AccessCalls /\ NoCall.pc = "idle" /\ NoTry \in LoginTries /\ NoTry.pc = "idle"
    BY DEF NoCall, AccessCalls, NoTry, LoginTries, AccessRoles
  <2>2. AccessTypeOK
    BY <2>1 DEF AccessInit, AccessTypeOK, AccessRoles
  <2>3. AllowedSinceItCame
    BY <2>1 DEF AccessInit, AllowedSinceItCame
  <2>4. FailuresStillPossible
    <3> SUFFICES ASSUME NEW k \in Keys
                 PROVE  Len(Recent(k)) + Cardinality(Underway(k)) < MaxLoginFailures + Cardinality(Attempts)
      BY DEF FailuresStillPossible
    <3>1. Underway(k) = {}
      BY <2>1 DEF Underway, AccessInit
    <3>2. Len(Recent(k)) = 0
      <4>1. axFails[k] = <<>>
        BY DEF AccessInit
      <4> QED BY <2>2, <4>1, RecentTyped
    <3> QED BY <3>1, <3>2, FS_EmptySet, AccessAssumption, FS_CardinalityType
  <2> QED BY <2>2, <2>3, <2>4 DEF AccessInv
<1>2. AccessInv /\ [AccessNext]_axVars => AccessInv'
  BY AccessTypeStep, AllowedStep, LimitStep DEF AccessInv
<1>3. AccessInv => AccessIsCurrent
  <2> SUFFICES ASSUME AccessInv PROVE AccessIsCurrent
    OBVIOUS
  <2>1. RevokedMayNotWrite
    BY DEF AccessInv, AllowedSinceItCame, RevokedMayNotWrite
  <2>2. FailuresAreLimited
    <3> SUFFICES ASSUME NEW k \in Keys
                 PROVE  Len(Recent(k)) < MaxLoginFailures + Cardinality(Attempts)
      BY DEF FailuresAreLimited
    <3>1. Underway(k) \in SUBSET Attempts
      BY DEF Underway
    <3>2. /\ Len(Recent(k)) \in Nat /\ Cardinality(Underway(k)) \in Nat /\ Cardinality(Attempts) \in Nat
          /\ Len(Recent(k)) + Cardinality(Underway(k)) < MaxLoginFailures + Cardinality(Attempts)
      BY <3>1, UnderwayBound, RecentTyped DEF AccessInv, FailuresStillPossible
    <3> QED BY <3>2, AccessAssumption
  <2> QED BY <2>1, <2>2 DEF AccessIsCurrent
<1> QED BY <1>1, <1>2, <1>3, PTL DEF AccessSpec

-----------------------------------------------------------------------------
(* LiveStream.                                                              *)

LiveEvents == [seq : Nat, kind : Kinds \cup {"none"}]

Subscriptions ==
    [pc : Open \cup {"off", "ended"}, kinds : SUBSET Kinds, backlog : Seq(LiveEvents),
     queue : Seq(LiveEvents), dropped : Nat, closed : BOOLEAN, late : BOOLEAN,
     from : Nat, due : SUBSET Nat, seen : Seq(Nat)]

LogOk(log) ==
    /\ log \in Seq(LiveEvents)
    /\ \A i \in 1 .. Len(log) : log[i].seq = i

OwedFrom(s, log) == {i \in (s.from + 1) .. Len(log) : log[i].kind \in s.kinds}

OwedBy(s, log) == s.due \cup OwedFrom(s, log)

(* What a stream has seen lies before its backlog, and that before its     *)
(* queue.                                                                  *)
InOrder(s) ==
    /\ \A i, j \in 1 .. Len(s.backlog) : i < j => s.backlog[i].seq < s.backlog[j].seq
    /\ \A i, j \in 1 .. Len(s.queue) : i < j => s.queue[i].seq < s.queue[j].seq
    /\ \A i \in 1 .. Len(s.seen), j \in 1 .. Len(s.backlog) : s.seen[i] < s.backlog[j].seq
    /\ \A i \in 1 .. Len(s.seen), j \in 1 .. Len(s.queue) :
          s.queue[j] # EndMark => s.seen[i] < s.queue[j].seq

AllOwed(s, log) ==
    /\ s.from \in 0 .. Len(log) /\ s.due \subseteq 1 .. s.from
    /\ \A i \in 1 .. Len(s.seen) : s.seen[i] \in OwedBy(s, log)
    /\ \A i \in 1 .. Len(s.backlog) : s.backlog[i].seq \in s.due
    /\ \A i \in 1 .. Len(s.queue) : s.queue[i] = EndMark \/ s.queue[i].seq \in OwedFrom(s, log)

Counted(s, log) ==
    ~s.closed => Cardinality(OwedBy(s, log)) = Len(s.seen) + Len(s.backlog) + Len(s.queue) + s.dropped

OpenOk(s, log) ==
    /\ InOrder(s) /\ AllOwed(s, log) /\ Counted(s, log)
    /\ s.pc # "backlog" => s.backlog = <<>>

StreamOk(s, log) ==
    /\ s \in Subscriptions
    /\ \A i, j \in 1 .. Len(s.seen) : i < j => s.seen[i] < s.seen[j]
    /\ s.pc \in Open => OpenOk(s, log)

StreamInv ==
    /\ lsHub \in [log : Seq(LiveEvents), closed : BOOLEAN] /\ LogOk(lsHub.log)
    /\ lsClient \in [Clients -> [last : Nat, streams : Nat]]
    /\ DOMAIN lsSub = Clients /\ lsSub = [c \in Clients |-> lsSub[c]]
    /\ \A c \in Clients : StreamOk(lsSub[c], lsHub.log)

LEMMA OwedIsFinite ==
    ASSUME NEW s \in Subscriptions, NEW log, LogOk(log), AllOwed(s, log)
    PROVE  IsFiniteSet(OwedBy(s, log)) /\ OwedBy(s, log) \subseteq 1 .. Len(log)
<1>1. Len(log) \in Nat /\ s.from \in Nat
  BY DEF LogOk, Subscriptions
<1>2. OwedBy(s, log) \subseteq 1 .. Len(log)
  BY <1>1 DEF OwedBy, OwedFrom, AllOwed
<1>3. IsFiniteSet(1 .. Len(log))
  BY <1>1, FS_Interval
<1> QED BY <1>2, <1>3, FS_Subset

(* A stream that only moves on in its loop. *)
LEMMA StreamMoves ==
    ASSUME NEW log, NEW s, StreamOk(s, log), NEW at \in Open \cup {"off", "ended"},
           at \in Open => s.pc \in Open /\ s.backlog = <<>>
    PROVE  StreamOk([s EXCEPT !.pc = at], log)
<1> DEFINE t == [s EXCEPT !.pc = at]
<1>1. s \in Subscriptions
  BY DEF StreamOk
<1>2. /\ t \in Subscriptions /\ t.pc = at /\ t.kinds = s.kinds /\ t.backlog = s.backlog
      /\ t.queue = s.queue /\ t.dropped = s.dropped /\ t.closed = s.closed /\ t.from = s.from
      /\ t.due = s.due /\ t.seen = s.seen
  BY <1>1 DEF Subscriptions
<1> HIDE DEF t
<1>3. ASSUME at \in Open PROVE OpenOk(t, log)
  <2>1. OpenOk(s, log)
    BY <1>3 DEF StreamOk
  <2>2. OwedBy(t, log) = OwedBy(s, log) /\ OwedFrom(t, log) = OwedFrom(s, log)
    BY <1>2 DEF OwedBy, OwedFrom
  <2> QED BY <2>1, <2>2, <1>2, <1>3 DEF OpenOk, InOrder, AllOwed, Counted
<1>4. \A i, j \in 1 .. Len(t.seen) : i < j => t.seen[i] < t.seen[j]
  BY <1>2 DEF StreamOk
<1>5. StreamOk(t, log)
  BY <1>2, <1>3, <1>4 DEF StreamOk
<1> QED BY <1>5 DEF t

(* close(), for one stream. *)
LEMMA ClosingOk ==
    ASSUME NEW log, NEW s, StreamOk(s, log)
    PROVE  StreamOk(Closing(s), log)
<1> DEFINE t == Closing(s)
<1>1. s \in Subscriptions
  BY DEF StreamOk
<1>2. CASE s.pc \notin Open
  BY <1>2 DEF Closing
<1>3. CASE s.pc \in Open
  <2>0. EndMark \in LiveEvents
    BY DEF EndMark, LiveEvents
  <2>1. t = [s EXCEPT !.closed = TRUE, !.queue = IF @ = <<>> THEN <<EndMark>> ELSE @]
    BY <1>3 DEF Closing
  <2> HIDE DEF t
  <2>2. /\ t.pc = s.pc /\ t.kinds = s.kinds /\ t.backlog = s.backlog
        /\ t.queue = (IF s.queue = <<>> THEN <<EndMark>> ELSE s.queue)
        /\ t.dropped = s.dropped /\ t.closed = TRUE /\ t.from = s.from
        /\ t.due = s.due /\ t.seen = s.seen
    BY <2>1, <1>1 DEF Subscriptions
  <2>3. t.queue \in Seq(LiveEvents)
    BY <2>0, <2>2, <1>1 DEF Subscriptions
  <2>4. t \in Subscriptions
    BY <2>1, <2>2, <2>3, <1>1 DEF Subscriptions
  <2>5. OpenOk(s, log)
    BY <1>3 DEF StreamOk
  <2>6. OwedBy(t, log) = OwedBy(s, log) /\ OwedFrom(t, log) = OwedFrom(s, log)
    BY <2>2 DEF OwedBy, OwedFrom
  <2>7. t.queue = s.queue \/ (Len(t.queue) = 1 /\ t.queue[1] = EndMark)
    BY <2>2
  <2>8. InOrder(t) /\ AllOwed(t, log) /\ Counted(t, log)
    <3>1. InOrder(s) /\ AllOwed(s, log)
      BY <2>5 DEF OpenOk
    <3>2. Counted(t, log)
      BY <2>2 DEF Counted
    <3>3. CASE t.queue = s.queue
      BY <3>1, <3>2, <3>3, <2>2, <2>6 DEF InOrder, AllOwed
    <3>4. CASE Len(t.queue) = 1 /\ t.queue[1] = EndMark
      <4> DEFINE d == t.queue
      <4>1. \A i \in 1 .. Len(d) : d[i] = EndMark
        BY <3>4
      <4>2. \A i, j \in 1 .. Len(d) : ~(i < j)
        BY <3>4
      <4> HIDE DEF d
      <4>3. InOrder(t)
        BY <3>1, <4>1, <4>2, <2>2 DEF InOrder, d
      <4>4. AllOwed(t, log)
        BY <3>1, <4>1, <2>2, <2>6 DEF AllOwed, d
      <4> QED BY <4>3, <4>4, <3>2
    <3> QED BY <3>3, <3>4, <2>7
  <2>9. OpenOk(t, log)
    BY <2>2, <2>5, <2>8 DEF OpenOk
  <2>10. StreamOk(t, log)
    BY <2>2, <2>4, <2>9 DEF StreamOk
  <2> QED BY <2>10 DEF t
<1> QED BY <1>2, <1>3

(* One item goes from the backlog, or from the queue, to the client. *)
FromBacklog(s, t) ==
    /\ t.pc = s.pc /\ t.backlog = Tail(s.backlog) /\ t.queue = s.queue
    /\ t.seen = Append(s.seen, Head(s.backlog).seq)

FromQueue(s, t) ==
    /\ t.pc = "live" /\ t.backlog = s.backlog /\ t.queue = Tail(s.queue)
    /\ t.seen = Append(s.seen, Head(s.queue).seq)

(* What a move leaves of q: facts about s and t with the lengths as        *)
(* numbers.                                                                *)
HeadMoved(n, m, q, qt, s, t) ==
    /\ n \in Nat /\ n > 0 /\ m \in Nat /\ Len(q) = n /\ Len(s.seen) = m
    /\ Len(qt) = n - 1 /\ Len(t.seen) = m + 1
    /\ \A i \in 1 .. n : q[i].seq \in Nat
    /\ \A i \in 1 .. m : s.seen[i] \in Nat
    /\ \A i \in 1 .. (n - 1) : qt[i] = q[i + 1]
    /\ \A i \in 1 .. m : t.seen[i] = s.seen[i]
    /\ t.seen[m + 1] = q[1].seq

LEMMA MovedFacts ==
    ASSUME NEW q \in Seq(LiveEvents), q # <<>>, NEW s, s.seen \in Seq(Nat), NEW qt, NEW t,
           qt = Tail(q), t.seen = Append(s.seen, Head(q).seq)
    PROVE  HeadMoved(Len(q), Len(s.seen), q, qt, s, t)
<1> DEFINE a == s.seen
           at == t.seen
<1>0. a \in Seq(Nat) /\ at = Append(a, Head(q).seq)
  OBVIOUS
<1> HIDE DEF a, at
<1>1. \A i \in 1 .. Len(q) : q[i] \in LiveEvents
  OBVIOUS
<1>2. \A i \in 1 .. Len(q) : q[i].seq \in Nat
  BY <1>1 DEF LiveEvents
<1>3. Head(q) = q[1] /\ q[1].seq \in Nat
  BY <1>2, TailFacts
<1>4. /\ Len(a) \in Nat /\ Len(at) = Len(a) + 1 /\ at[Len(a) + 1] = q[1].seq
      /\ \A i \in 1 .. Len(a) : at[i] = a[i] /\ a[i] \in Nat
  BY <1>0, <1>3, AppendFacts
<1>5. /\ Len(q) \in Nat /\ Len(q) > 0 /\ Len(qt) = Len(q) - 1
      /\ \A i \in 1 .. (Len(q) - 1) : qt[i] = q[i + 1]
  BY TailFacts
<1>6. HeadMoved(Len(q), Len(a), q, qt, s, t)
  BY <1>2, <1>4, <1>5, Zenon DEF HeadMoved, a, at
<1> QED BY <1>6 DEF a

(* Rising numbers, and what is owed, with the lengths as numbers. *)
MovedInOrder(n, m, q, s) ==
    /\ \A i, j \in 1 .. n : i < j => q[i].seq < q[j].seq
    /\ \A i, j \in 1 .. m : i < j => s.seen[i] < s.seen[j]
    /\ \A i \in 1 .. m, j \in 1 .. n : s.seen[i] < q[j].seq

LEMMA MoveKeepsOrder ==
    ASSUME NEW n, NEW m, NEW q, NEW qt, NEW s, NEW t, HeadMoved(n, m, q, qt, s, t),
           MovedInOrder(n, m, q, s)
    PROVE  MovedInOrder(n - 1, m + 1, qt, t)
<1>1. /\ n \in Nat /\ n > 0 /\ m \in Nat
      /\ \A i \in 1 .. n : q[i].seq \in Nat
      /\ \A i \in 1 .. m : s.seen[i] \in Nat
      /\ \A i \in 1 .. (n - 1) : qt[i] = q[i + 1]
      /\ \A i \in 1 .. m : t.seen[i] = s.seen[i]
      /\ t.seen[m + 1] = q[1].seq
  BY DEF HeadMoved
<1>2. /\ \A i, j \in 1 .. n : i < j => q[i].seq < q[j].seq
      /\ \A i, j \in 1 .. m : i < j => s.seen[i] < s.seen[j]
      /\ \A i \in 1 .. m : s.seen[i] < q[1].seq
  BY <1>1, SMTT(20) DEF MovedInOrder
<1> DEFINE a == s.seen
           at == t.seen
<1>3. /\ \A i \in 1 .. m : a[i] \in Nat
      /\ \A i \in 1 .. m : at[i] = a[i]
      /\ at[m + 1] = q[1].seq
      /\ \A i, j \in 1 .. m : i < j => a[i] < a[j]
      /\ \A i \in 1 .. m : a[i] < q[1].seq
  BY <1>1, <1>2
<1> HIDE DEF a, at
<1>11. \A i, j \in 1 .. (n - 1) : i < j => qt[i].seq < qt[j].seq
  BY <1>1, <1>2
<1>12. \A i \in 1 .. (m + 1) : i = m + 1 \/ i \in 1 .. m
  BY <1>1
<1>13. \A i \in 1 .. (m + 1) : at[i] \in Nat /\ at[i] <= q[1].seq /\ (i # m + 1 => at[i] < q[1].seq)
  BY <1>1, <1>3, <1>12
<1>14. \A j \in 1 .. (n - 1) : q[1].seq < qt[j].seq /\ qt[j].seq \in Nat
  BY <1>1, <1>2
<1>15. \A i, j \in 1 .. (m + 1) : i < j => at[i] < at[j]
  <2> SUFFICES ASSUME NEW i \in 1 .. (m + 1), NEW j \in 1 .. (m + 1), i < j PROVE at[i] < at[j]
    OBVIOUS
  <2>1. i \in 1 .. m
    BY <1>1
  <2>2. CASE j \in 1 .. m
    BY <2>1, <2>2, <1>3
  <2>3. CASE j = m + 1
    BY <2>1, <2>3, <1>3
  <2> QED BY <2>2, <2>3, <1>12
<1>16. \A i \in 1 .. (m + 1), j \in 1 .. (n - 1) : at[i] < qt[j].seq
  <2> SUFFICES ASSUME NEW i \in 1 .. (m + 1), NEW j \in 1 .. (n - 1) PROVE at[i] < qt[j].seq
    OBVIOUS
  <2>1. at[i] \in Nat /\ at[i] <= q[1].seq /\ q[1].seq < qt[j].seq /\ qt[j].seq \in Nat /\ q[1].seq \in Nat
    BY <1>1, <1>13, <1>14
  <2> QED BY <2>1
<1> QED BY <1>11, <1>15, <1>16 DEF MovedInOrder, at

LEMMA MovedMembers ==
    ASSUME NEW n, NEW m, NEW q, NEW qt, NEW s, NEW t, HeadMoved(n, m, q, qt, s, t),
           NEW S, \A i \in 1 .. m : s.seen[i] \in S, q[1].seq \in S
    PROVE  \A i \in 1 .. (m + 1) : t.seen[i] \in S
<1>1. /\ m \in Nat /\ t.seen[m + 1] = q[1].seq
      /\ \A i \in 1 .. m : t.seen[i] = s.seen[i]
  BY DEF HeadMoved
<1>2. \A i \in 1 .. (m + 1) : i = m + 1 \/ i \in 1 .. m
  BY <1>1
<1> QED BY <1>1, <1>2

LEMMA MovedRest ==
    ASSUME NEW n, NEW m, NEW q, NEW qt, NEW s, NEW t, HeadMoved(n, m, q, qt, s, t)
    PROVE  /\ 1 \in 1 .. n /\ n - 1 \in Nat
           /\ \A i \in 1 .. (n - 1) : i + 1 \in 1 .. n /\ qt[i] = q[i + 1]
  BY DEF HeadMoved

LEMMA BacklogSent ==
    ASSUME NEW log, LogOk(log), NEW s, StreamOk(s, log), s.pc = "backlog", s.backlog # <<>>,
           NEW t \in Subscriptions, FromBacklog(s, t), t.kinds = s.kinds,
           t.dropped = s.dropped, t.closed = s.closed, t.from = s.from, t.due = s.due
    PROVE  StreamOk(t, log)
<1>1. s \in Subscriptions /\ InOrder(s) /\ AllOwed(s, log) /\ Counted(s, log)
  BY DEF StreamOk, Open, OpenOk
<1> DEFINE n == Len(s.backlog)
           m == Len(s.seen)
           k == Len(s.queue)
<1>2. /\ s.backlog \in Seq(LiveEvents) /\ s.seen \in Seq(Nat) /\ s.queue \in Seq(LiveEvents)
      /\ s.from \in Nat /\ s.dropped \in Nat /\ k \in Nat /\ Len(log) \in Nat
  BY <1>1 DEF Subscriptions, LogOk
<1>3. t.queue = s.queue /\ t.pc = s.pc
  BY DEF FromBacklog
<1>4. HeadMoved(n, m, s.backlog, t.backlog, s, t)
  <2>1. t.backlog = Tail(s.backlog) /\ t.seen = Append(s.seen, Head(s.backlog).seq)
    BY DEF FromBacklog
  <2> QED BY <1>2, <2>1, MovedFacts
<1>5. MovedInOrder(n, m, s.backlog, s)
  BY <1>1 DEF MovedInOrder, InOrder, StreamOk
<1>6. /\ \A i \in 1 .. m : s.seen[i] \in OwedBy(s, log)
      /\ \A i \in 1 .. n : s.backlog[i].seq \in s.due
  BY <1>1 DEF AllOwed
<1>7. ~s.closed => Cardinality(OwedBy(s, log)) = m + n + k + s.dropped
  BY <1>1 DEF Counted
<1>8. \A i \in 1 .. m, j \in 1 .. k : s.queue[j] # EndMark => s.seen[i] < s.queue[j].seq
  BY <1>1 DEF InOrder
<1> HIDE DEF n, m, k
<1>9. Len(t.backlog) = n - 1 /\ Len(t.seen) = m + 1 /\ Len(t.queue) = k /\ n \in Nat /\ m \in Nat
  BY <1>3, <1>4 DEF HeadMoved, k
<1>10. MovedInOrder(n - 1, m + 1, t.backlog, t)
  BY <1>4, <1>5, MoveKeepsOrder
<1>11. OwedBy(t, log) = OwedBy(s, log) /\ OwedFrom(t, log) = OwedFrom(s, log)
  BY DEF OwedBy, OwedFrom
<1>12. s.backlog[1].seq \in s.due /\ s.backlog[1].seq \in OwedBy(s, log)
  BY <1>4, <1>6, MovedRest DEF OwedBy
<1>13. s.due \subseteq 1 .. s.from
  BY <1>1 DEF AllOwed
<1>14. AllOwed(t, log)
  <2>1. \A i \in 1 .. Len(t.seen) : t.seen[i] \in OwedBy(t, log)
    BY <1>4, <1>6, <1>9, <1>11, <1>12, MovedMembers
  <2>2. \A i \in 1 .. (n - 1) : t.backlog[i].seq \in t.due
    <3> TAKE i \in 1 .. (n - 1)
    <3>1. i + 1 \in 1 .. n /\ t.backlog[i] = s.backlog[i + 1]
      BY <1>4, MovedRest
    <3> QED BY <3>1, <1>6
  <2> QED BY <1>1, <1>3, <1>9, <1>11, <2>1, <2>2 DEF AllOwed
<1>15. InOrder(t)
  <2>1. \A j \in 1 .. k : s.queue[j] # EndMark => s.queue[j].seq \in OwedFrom(s, log)
    BY <1>1 DEF AllOwed, k
  <2>2. \A j \in 1 .. k : s.queue[j] # EndMark =>
           /\ s.queue[j].seq \in Int /\ s.queue[j].seq > s.from
    BY <1>2, <2>1 DEF OwedFrom
  <2>3. \A j \in 1 .. k : s.queue[j] # EndMark => s.backlog[1].seq < s.queue[j].seq
    BY <1>2, <1>12, <1>13, <2>2
  <2>4. \A i \in 1 .. (m + 1), j \in 1 .. k : s.queue[j] # EndMark => t.seen[i] < s.queue[j].seq
    <3> TAKE i \in 1 .. (m + 1), j \in 1 .. k
    <3>1. i = m + 1 \/ i \in 1 .. m
      BY <1>9
    <3>2. t.seen[m + 1] = s.backlog[1].seq /\ \A l \in 1 .. m : t.seen[l] = s.seen[l]
      BY <1>4 DEF HeadMoved
    <3> QED BY <1>8, <2>3, <3>1, <3>2
  <2>5. \A i, j \in 1 .. k : i < j => s.queue[i].seq < s.queue[j].seq
    BY <1>1 DEF InOrder, k
  <2>6. /\ \A i, j \in 1 .. (n - 1) : i < j => t.backlog[i].seq < t.backlog[j].seq
        /\ \A i \in 1 .. (m + 1), j \in 1 .. (n - 1) : t.seen[i] < t.backlog[j].seq
    BY <1>10 DEF MovedInOrder
  <2> QED BY <1>3, <1>9, <2>4, <2>5, <2>6 DEF InOrder
<1>16. Counted(t, log)
  <2>1. ~t.closed => Cardinality(OwedBy(t, log)) = m + n + k + t.dropped
    BY <1>7, <1>11
  <2>2. m + n + k + t.dropped = (m + 1) + (n - 1) + k + t.dropped
    BY <1>2, <1>9
  <2> QED BY <1>9, <2>1, <2>2 DEF Counted
<1>17. \A i, j \in 1 .. Len(t.seen) : i < j => t.seen[i] < t.seen[j]
  BY <1>9, <1>10 DEF MovedInOrder
<1>18. OpenOk(t, log)
  BY <1>3, <1>14, <1>15, <1>16 DEF OpenOk
<1> QED BY <1>17, <1>18 DEF StreamOk

LEMMA QueueSent ==
    ASSUME NEW log, LogOk(log), NEW s, StreamOk(s, log), s.pc = "get", s.queue # <<>>,
           Head(s.queue) # EndMark,
           NEW t \in Subscriptions, FromQueue(s, t), t.kinds = s.kinds,
           t.dropped = s.dropped, t.closed = s.closed, t.from = s.from, t.due = s.due
    PROVE  StreamOk(t, log)
<1>1. /\ s \in Subscriptions /\ InOrder(s) /\ AllOwed(s, log) /\ Counted(s, log)
      /\ s.backlog = <<>> /\ t.backlog = <<>> /\ t.pc = "live"
  BY DEF StreamOk, Open, OpenOk, FromQueue
<1> DEFINE n == Len(s.queue)
           m == Len(s.seen)
<1>2. /\ s.queue \in Seq(LiveEvents) /\ s.seen \in Seq(Nat) /\ s.dropped \in Nat
      /\ Len(t.backlog) = 0 /\ Len(s.backlog) = 0
  BY <1>1 DEF Subscriptions
<1>3. s.queue[1] # EndMark
  BY <1>2, TailFacts
<1>4. HeadMoved(n, m, s.queue, t.queue, s, t)
  <2>1. t.queue = Tail(s.queue) /\ t.seen = Append(s.seen, Head(s.queue).seq)
    BY DEF FromQueue
  <2> QED BY <1>2, <2>1, MovedFacts
<1>5. /\ \A i, j \in 1 .. n : i < j => s.queue[i].seq < s.queue[j].seq
      /\ \A i, j \in 1 .. m : i < j => s.seen[i] < s.seen[j]
      /\ \A i \in 1 .. m, j \in 1 .. n : s.queue[j] # EndMark => s.seen[i] < s.queue[j].seq
  BY <1>1 DEF InOrder, StreamOk
<1>6. /\ \A i \in 1 .. m : s.seen[i] \in OwedBy(s, log)
      /\ \A i \in 1 .. n : s.queue[i] = EndMark \/ s.queue[i].seq \in OwedFrom(s, log)
  BY <1>1 DEF AllOwed
<1>7. ~s.closed => Cardinality(OwedBy(s, log)) = m + 0 + n + s.dropped
  BY <1>1, <1>2 DEF Counted
<1> HIDE DEF n, m
<1>8. /\ Len(t.queue) = n - 1 /\ Len(t.seen) = m + 1 /\ n \in Nat /\ m \in Nat
      /\ \A i \in 1 .. n : s.queue[i].seq \in Nat
      /\ \A i \in 1 .. m : s.seen[i] \in Nat
  BY <1>4 DEF HeadMoved
<1>9. MovedInOrder(n, m, s.queue, s)
  <2>1. \A j \in 1 .. n : s.queue[1].seq <= s.queue[j].seq /\ 1 \in 1 .. n
    BY <1>5, <1>8
  <2>2. \A i \in 1 .. m : 1 \in 1 .. n => s.seen[i] < s.queue[1].seq
    BY <1>3, <1>5
  <2>3. \A i \in 1 .. m, j \in 1 .. n : s.seen[i] < s.queue[j].seq
    BY <1>8, <2>1, <2>2
  <2> QED BY <1>5, <2>3 DEF MovedInOrder
<1>10. MovedInOrder(n - 1, m + 1, t.queue, t)
  BY <1>4, <1>9, MoveKeepsOrder
<1>11. OwedBy(t, log) = OwedBy(s, log) /\ OwedFrom(t, log) = OwedFrom(s, log)
  BY DEF OwedBy, OwedFrom
<1>12. s.queue[1].seq \in OwedBy(s, log)
  BY <1>3, <1>4, <1>6, MovedRest DEF OwedBy
<1>14. AllOwed(t, log)
  <2>1. \A i \in 1 .. Len(t.seen) : t.seen[i] \in OwedBy(t, log)
    BY <1>4, <1>6, <1>8, <1>11, <1>12, MovedMembers, SMTT(20)
  <2>2. \A i \in 1 .. (n - 1) : t.queue[i] = EndMark \/ t.queue[i].seq \in OwedFrom(t, log)
    <3> TAKE i \in 1 .. (n - 1)
    <3>1. i + 1 \in 1 .. n /\ t.queue[i] = s.queue[i + 1]
      BY <1>4, MovedRest
    <3> QED BY <3>1, <1>6, <1>11
  <2> QED BY <1>1, <1>2, <1>8, <1>11, <2>1, <2>2 DEF AllOwed
<1>15. InOrder(t)
  <2>6. /\ \A i, j \in 1 .. (n - 1) : i < j => t.queue[i].seq < t.queue[j].seq
        /\ \A i \in 1 .. (m + 1), j \in 1 .. (n - 1) : t.seen[i] < t.queue[j].seq
    BY <1>10 DEF MovedInOrder
  <2>7. /\ \A i, j \in 1 .. Len(t.queue) : i < j => t.queue[i].seq < t.queue[j].seq
        /\ \A i \in 1 .. Len(t.seen), j \in 1 .. Len(t.queue) : t.seen[i] < t.queue[j].seq
    BY <1>8, <2>6, Zenon
  <2>8. 1 .. Len(t.backlog) = {}
    BY <1>2
  <2> QED BY <2>7, <2>8, Zenon DEF InOrder
<1>16. Counted(t, log)
  <2>1. ~t.closed => Cardinality(OwedBy(t, log)) = m + 0 + n + t.dropped
    BY <1>7, <1>11
  <2>2. m + 0 + n + t.dropped = (m + 1) + 0 + (n - 1) + t.dropped
    BY <1>2, <1>8
  <2> QED BY <1>2, <1>8, <2>1, <2>2 DEF Counted
<1>17. \A i, j \in 1 .. Len(t.seen) : i < j => t.seen[i] < t.seen[j]
  BY <1>8, <1>10 DEF MovedInOrder
<1>18. OpenOk(t, log)
  BY <1>1, <1>14, <1>15, <1>16 DEF OpenOk
<1> QED BY <1>17, <1>18 DEF StreamOk

-----------------------------------------------------------------------------
(* One event is published. *)
GrownLog(log, new, e) ==
    /\ LogOk(log) /\ LogOk(new) /\ Len(log) \in Nat /\ Len(new) = Len(log) + 1
    /\ \A i \in 1 .. Len(log) : new[i] = log[i]
    /\ new[Len(log) + 1] = e /\ e \in LiveEvents /\ e.seq = Len(log) + 1

LEMMA LogGrows ==
    ASSUME NEW log, LogOk(log), NEW e \in LiveEvents, e.seq = Len(log) + 1
    PROVE  GrownLog(log, Append(log, e), e)
<1> DEFINE new == Append(log, e)
           n == Len(log)
<1>1. log \in Seq(LiveEvents) /\ \A i \in 1 .. n : log[i].seq = i
  BY DEF LogOk
<1>2. /\ n \in Nat /\ new \in Seq(LiveEvents) /\ Len(new) = n + 1 /\ new[n + 1] = e
      /\ \A i \in 1 .. n : new[i] = log[i]
  BY <1>1, AppendFacts
<1> HIDE DEF new
<1>3. \A i \in 1 .. (n + 1) : new[i].seq = i
  <2> TAKE i \in 1 .. (n + 1)
  <2>1. CASE i = n + 1
    BY <1>2, <2>1
  <2>2. CASE i \in 1 .. n
    BY <1>1, <1>2, <2>2
  <2> QED BY <1>2, <2>1, <2>2
<1>4. LogOk(new)
  BY <1>2, <1>3 DEF LogOk
<1>5. GrownLog(log, new, e)
  BY <1>2, <1>4 DEF GrownLog
<1> QED BY <1>5 DEF new

LEMMA OwedGrows ==
    ASSUME NEW log, NEW new, NEW e, GrownLog(log, new, e), NEW s \in Subscriptions, AllOwed(s, log)
    PROVE  /\ OwedFrom(s, log) \subseteq 1 .. Len(log) /\ OwedBy(s, log) \subseteq 1 .. Len(log)
           /\ OwedFrom(s, new) = OwedFrom(s, log) \cup (IF e.kind \in s.kinds THEN {e.seq} ELSE {})
           /\ OwedBy(s, new) = OwedBy(s, log) \cup (IF e.kind \in s.kinds THEN {e.seq} ELSE {})
<1> DEFINE n == Len(log)
<1>1. /\ n \in Nat /\ Len(new) = n + 1 /\ \A i \in 1 .. n : new[i] = log[i]
      /\ new[n + 1] = e /\ e.seq = n + 1
  BY DEF GrownLog
<1>2. s.from \in 0 .. n /\ s.from \in Nat /\ s.due \subseteq 1 .. s.from
  BY DEF AllOwed, Subscriptions
<1>3. OwedFrom(s, new) = {i \in (s.from + 1) .. (n + 1) : new[i].kind \in s.kinds}
  BY <1>1 DEF OwedFrom
<1>4. OwedFrom(s, log) = {i \in (s.from + 1) .. n : log[i].kind \in s.kinds}
  BY DEF OwedFrom
<1> HIDE DEF n
<1>5. OwedFrom(s, log) \subseteq 1 .. n /\ OwedBy(s, log) \subseteq 1 .. n
  BY <1>1, <1>2, <1>4 DEF OwedBy
<1>6. \A i : i \in (s.from + 1) .. (n + 1) <=> i \in (s.from + 1) .. n \/ i = n + 1
  BY <1>1, <1>2
<1>7. \A i \in (s.from + 1) .. n : i \in 1 .. n
  BY <1>1, <1>2
<1>8. \A i : i \in OwedFrom(s, new) <=> i \in OwedFrom(s, log) \/ (i = e.seq /\ e.kind \in s.kinds)
  BY <1>1, <1>3, <1>4, <1>6, <1>7
<1>9. OwedFrom(s, new) = OwedFrom(s, log) \cup (IF e.kind \in s.kinds THEN {e.seq} ELSE {})
  BY <1>8
<1> QED BY <1>5, <1>9 DEF OwedBy, n

(* r is what is left of the queue of s before e is put at its end. *)
Waiting(s, r, log) ==
    /\ r \in Seq(LiveEvents)
    /\ \A i, j \in 1 .. Len(r) : i < j => r[i].seq < r[j].seq
    /\ \A i \in 1 .. Len(r) : r[i] = EndMark \/ r[i].seq \in OwedFrom(s, log)
    /\ \A i \in 1 .. Len(s.seen), j \in 1 .. Len(r) : r[j] # EndMark => s.seen[i] < r[j].seq

SameButQueue(s, t) ==
    /\ t.pc = s.pc /\ t.kinds = s.kinds /\ t.backlog = s.backlog /\ t.closed = s.closed
    /\ t.from = s.from /\ t.due = s.due /\ t.seen = s.seen

LEMMA EventWaits ==
    ASSUME NEW log, NEW new, NEW e, GrownLog(log, new, e), NEW s \in Subscriptions,
           InOrder(s), AllOwed(s, log), e.kind \in s.kinds, NEW r, Waiting(s, r, log),
           NEW t \in Subscriptions, SameButQueue(s, t), t.queue = Append(r, e)
    PROVE  InOrder(t) /\ AllOwed(t, new)
<1> DEFINE n == Len(log)
           k == Len(r)
           m == Len(s.seen)
           q == t.queue
<1>1. /\ n \in Nat /\ Len(new) = n + 1 /\ e.seq = n + 1 /\ e \in LiveEvents
  BY DEF GrownLog
<1>2. /\ OwedFrom(s, log) \subseteq 1 .. n /\ OwedBy(s, log) \subseteq 1 .. n
      /\ OwedFrom(s, new) = OwedFrom(s, log) \cup {e.seq}
      /\ OwedBy(s, new) = OwedBy(s, log) \cup {e.seq}
  BY OwedGrows
<1>3. /\ k \in Nat /\ Len(q) = k + 1 /\ q[k + 1] = e /\ \A i \in 1 .. k : q[i] = r[i]
  <2>1. r \in Seq(LiveEvents)
    BY DEF Waiting
  <2> QED BY <1>1, <2>1, AppendFacts
<1>4. /\ \A i, j \in 1 .. k : i < j => r[i].seq < r[j].seq
      /\ \A i \in 1 .. k : r[i] = EndMark \/ r[i].seq \in OwedFrom(s, log)
      /\ \A i \in 1 .. m, j \in 1 .. k : r[j] # EndMark => s.seen[i] < r[j].seq
  BY DEF Waiting
<1>5. \A i \in 1 .. m : s.seen[i] \in OwedBy(s, log)
  BY DEF AllOwed
<1>6. /\ t.pc = s.pc /\ t.kinds = s.kinds /\ t.backlog = s.backlog /\ t.closed = s.closed
      /\ t.from = s.from /\ t.due = s.due /\ t.seen = s.seen
  BY DEF SameButQueue
<1>7. OwedBy(t, new) = OwedBy(s, new) /\ OwedFrom(t, new) = OwedFrom(s, new)
  BY <1>6 DEF OwedBy, OwedFrom
<1>Q. Len(t.queue) = k + 1 /\ t.queue = q
  BY <1>3
<1> HIDE DEF n, k, m, q
<1>8. EndMark.seq = 0
  BY DEF EndMark
<1>9. \A i \in 1 .. k : r[i].seq \in Nat /\ r[i].seq < e.seq
  BY <1>1, <1>2, <1>4, <1>8
<1>10. \A i \in 1 .. (k + 1) : i = k + 1 \/ i \in 1 .. k
  BY <1>3
<1>11. \A i, j \in 1 .. (k + 1) : i < j => q[i].seq < q[j].seq
  <2> SUFFICES ASSUME NEW i \in 1 .. (k + 1), NEW j \in 1 .. (k + 1), i < j PROVE q[i].seq < q[j].seq
    OBVIOUS
  <2>1. i \in 1 .. k
    BY <1>3
  <2>2. CASE j = k + 1
    BY <1>3, <1>9, <2>1, <2>2
  <2>3. CASE j \in 1 .. k
    BY <1>3, <1>4, <2>1, <2>3
  <2> QED BY <1>10, <2>2, <2>3
<1>12. \A i \in 1 .. m, j \in 1 .. (k + 1) : q[j] # EndMark => s.seen[i] < q[j].seq
  <2> SUFFICES ASSUME NEW i \in 1 .. m, NEW j \in 1 .. (k + 1), q[j] # EndMark PROVE s.seen[i] < q[j].seq
    OBVIOUS
  <2>1. s.seen[i] \in 1 .. n
    BY <1>2, <1>5
  <2>2. CASE j = k + 1
    BY <1>1, <1>3, <2>1, <2>2
  <2>3. CASE j \in 1 .. k
    BY <1>3, <1>4, <2>3
  <2> QED BY <1>10, <2>2, <2>3
<1>13. InOrder(t)
  <2>1. /\ \A i, j \in 1 .. Len(t.backlog) : i < j => t.backlog[i].seq < t.backlog[j].seq
        /\ \A i \in 1 .. Len(t.seen), j \in 1 .. Len(t.backlog) : t.seen[i] < t.backlog[j].seq
    BY <1>6 DEF InOrder
  <2>2. \A i, j \in 1 .. Len(t.queue) : i < j => t.queue[i].seq < t.queue[j].seq
    BY <1>11, <1>Q
  <2>3. \A i \in 1 .. Len(t.seen), j \in 1 .. Len(t.queue) : t.queue[j] # EndMark => t.seen[i] < t.queue[j].seq
    BY <1>6, <1>12, <1>Q DEF m
  <2> QED BY <2>1, <2>2, <2>3 DEF InOrder
<1>14. \A i \in 1 .. (k + 1) : q[i] = EndMark \/ q[i].seq \in OwedFrom(t, new)
  BY <1>2, <1>3, <1>4, <1>7, <1>10
<1>15. \A i \in 1 .. Len(t.seen) : t.seen[i] \in OwedBy(t, new)
  BY <1>2, <1>5, <1>6, <1>7 DEF m
<1>16. t.from \in 0 .. Len(new)
  BY <1>1, <1>6 DEF AllOwed, n
<1>17. AllOwed(t, new)
  BY <1>6, <1>14, <1>15, <1>16, <1>Q DEF AllOwed
<1> QED BY <1>13, <1>17

LEMMA CountGrows ==
    ASSUME NEW log, NEW new, NEW e, GrownLog(log, new, e), NEW s \in Subscriptions,
           AllOwed(s, log), e.kind \in s.kinds
    PROVE  /\ Cardinality(OwedBy(s, log)) \in Nat
           /\ Cardinality(OwedBy(s, new)) = Cardinality(OwedBy(s, log)) + 1
<1>1. /\ LogOk(log) /\ Len(log) \in Nat /\ e.seq = Len(log) + 1
  BY DEF GrownLog
<1>2. /\ OwedBy(s, log) \subseteq 1 .. Len(log)
      /\ OwedBy(s, new) = OwedBy(s, log) \cup {e.seq}
  BY OwedGrows
<1>3. IsFiniteSet(OwedBy(s, log))
  BY <1>1, OwedIsFinite
<1>4. e.seq \notin OwedBy(s, log)
  BY <1>1, <1>2
<1> QED BY <1>2, <1>3, <1>4, FS_AddElement, FS_CardinalityType

LEMMA OfferedOk ==
    ASSUME NEW log, NEW new, NEW e, GrownLog(log, new, e), NEW s, StreamOk(s, log)
    PROVE  StreamOk(Offered(s, e), new)
<1>1. s \in Subscriptions /\ \A i, j \in 1 .. Len(s.seen) : i < j => s.seen[i] < s.seen[j]
  BY DEF StreamOk
<1>2. CASE s.pc \notin Open
  BY <1>1, <1>2 DEF Offered, StreamOk
<1>3. ASSUME s.pc \in Open PROVE StreamOk(Offered(s, e), new)
  <2>1. InOrder(s) /\ AllOwed(s, log) /\ Counted(s, log) /\ (s.pc # "backlog" => s.backlog = <<>>)
    BY <1>3 DEF StreamOk, OpenOk
  <2>2. CASE e.kind \notin s.kinds
    <3>1. Offered(s, e) = s
      BY <2>2 DEF Offered
    <3>2. OwedBy(s, new) = OwedBy(s, log) /\ OwedFrom(s, new) = OwedFrom(s, log)
      <4>1. /\ OwedFrom(s, new) = OwedFrom(s, log) \cup (IF e.kind \in s.kinds THEN {e.seq} ELSE {})
            /\ OwedBy(s, new) = OwedBy(s, log) \cup (IF e.kind \in s.kinds THEN {e.seq} ELSE {})
        BY <1>1, <2>1, OwedGrows
      <4> QED BY <2>2, <4>1
    <3>3. s.from \in 0 .. Len(new)
      <4>1. s.from \in 0 .. Len(log) /\ Len(log) \in Nat /\ Len(new) = Len(log) + 1
        BY <2>1 DEF AllOwed, GrownLog
      <4> QED BY <4>1
    <3>4. AllOwed(s, new)
      BY <2>1, <3>2, <3>3 DEF AllOwed
    <3>5. Counted(s, new)
      BY <2>1, <3>2 DEF Counted
    <3> QED BY <1>1, <2>1, <3>1, <3>4, <3>5 DEF StreamOk, OpenOk
  <2>3. ASSUME e.kind \in s.kinds PROVE StreamOk(Offered(s, e), new)
    <3> DEFINE k == Len(s.queue)
               t == Offered(s, e)
               full == k >= LiveQueueSize
               r == IF full THEN Tail(s.queue) ELSE s.queue
    <3>0. s.queue \in Seq(LiveEvents) /\ k \in Nat /\ e \in LiveEvents /\ LiveQueueSize \in Nat \ {0}
      BY <1>1, LiveAssumption DEF Subscriptions, GrownLog
    <3>1. full => s.queue # <<>>
      BY <3>0
    <3>2. /\ t.queue = Append(r, e) /\ t.dropped = (IF full THEN s.dropped + 1 ELSE s.dropped)
          /\ SameButQueue(s, t) /\ t.late = s.late
      BY <1>1, <1>3, <2>3 DEF Offered, Subscriptions, SameButQueue
    <3>3. Waiting(s, r, log)
      <4>1. Waiting(s, s.queue, log)
        BY <2>1, <3>0 DEF Waiting, InOrder, AllOwed
      <4>2. CASE ~full
        BY <4>1, <4>2
      <4>3. CASE full
        <5> DEFINE q == s.queue
                   u == Tail(s.queue)
        <5>1. r = u
          BY <4>3
        <5>2. /\ u \in Seq(LiveEvents) /\ Len(u) = k - 1
              /\ \A i \in 1 .. (k - 1) : u[i] = q[i + 1]
          BY <3>0, <3>1, <4>3, TailFacts
        <5>3. /\ \A i, j \in 1 .. k : i < j => q[i].seq < q[j].seq
              /\ \A i \in 1 .. k : q[i] = EndMark \/ q[i].seq \in OwedFrom(s, log)
              /\ \A i \in 1 .. Len(s.seen), j \in 1 .. k : q[j] # EndMark => s.seen[i] < q[j].seq
          BY <4>1 DEF Waiting
        <5> HIDE DEF q, u, k
        <5>4. \A i \in 1 .. (k - 1) : i + 1 \in 1 .. k
          BY <3>0
        <5>5. \A i, j \in 1 .. (k - 1) : i < j => u[i].seq < u[j].seq
          <6> SUFFICES ASSUME NEW i \in 1 .. (k - 1), NEW j \in 1 .. (k - 1), i < j
                       PROVE  u[i].seq < u[j].seq
            OBVIOUS
          <6>1. i + 1 < j + 1
            BY <3>0
          <6> QED BY <5>2, <5>3, <5>4, <6>1
        <5>6. \A i \in 1 .. (k - 1) : u[i] = EndMark \/ u[i].seq \in OwedFrom(s, log)
          BY <5>2, <5>3, <5>4
        <5>7. \A i \in 1 .. Len(s.seen), j \in 1 .. (k - 1) : u[j] # EndMark => s.seen[i] < u[j].seq
          BY <5>2, <5>3, <5>4
        <5>8. Waiting(s, u, log)
          BY <5>2, <5>5, <5>6, <5>7 DEF Waiting
        <5> QED BY <5>1, <5>8
      <4> QED BY <4>2, <4>3
    <3>4. t \in Subscriptions
      <4>1. r \in Seq(LiveEvents)
        BY <3>3 DEF Waiting
      <4>2. Append(r, e) \in Seq(LiveEvents)
        BY <3>0, <4>1, AppendFacts
      <4> HIDE DEF r, full
      <4>3. s.dropped \in Nat /\ t.dropped \in Nat
        BY <1>1, <3>2 DEF Subscriptions
      <4>4. t = IF full THEN [s EXCEPT !.queue = t.queue, !.dropped = t.dropped]
                ELSE [s EXCEPT !.queue = t.queue]
        BY <1>1, <1>3, <2>3 DEF Offered, Subscriptions, full
      <4>5. t.queue \in Seq(LiveEvents)
        BY <3>2, <4>2
      <4> HIDE DEF t
      <4>6. CASE full
        BY <1>1, <4>3, <4>4, <4>5, <4>6 DEF Subscriptions
      <4>7. CASE ~full
        BY <1>1, <4>3, <4>4, <4>5, <4>7 DEF Subscriptions
      <4> QED BY <4>6, <4>7
    <3>5. InOrder(t) /\ AllOwed(t, new)
      <4> HIDE DEF t, r
      <4> QED BY <1>1, <2>1, <2>3, <3>2, <3>3, <3>4, EventWaits
    <3>6. Counted(t, new)
      <4>1. /\ Cardinality(OwedBy(s, log)) \in Nat
            /\ Cardinality(OwedBy(s, new)) = Cardinality(OwedBy(s, log)) + 1
        BY <1>1, <2>1, <2>3, CountGrows
      <4>2. OwedBy(t, new) = OwedBy(s, new)
        <5> HIDE DEF t, r
        <5> QED BY <3>2 DEF SameButQueue, OwedBy, OwedFrom
      <4>3. Len(t.queue) = IF full THEN k ELSE k + 1
        <5>1. CASE full
          <6>1. Tail(s.queue) \in Seq(LiveEvents) /\ Len(Tail(s.queue)) = k - 1
            BY <3>0, <3>1, <5>1, TailFacts
          <6>2. Len(Append(Tail(s.queue), e)) = (k - 1) + 1
            BY <3>0, <6>1, AppendFacts
          <6>3. (k - 1) + 1 = k
            BY <3>0
          <6> HIDE DEF t
          <6> QED BY <3>2, <5>1, <6>2, <6>3
        <5>2. CASE ~full
          <6>1. Len(Append(s.queue, e)) = k + 1
            BY <3>0, AppendFacts
          <6> HIDE DEF t
          <6> QED BY <3>2, <5>2, <6>1
        <5> QED BY <5>1, <5>2
      <4> DEFINE m == Len(s.seen)
                 b == Len(s.backlog)
      <4>4. s.closed \/ Cardinality(OwedBy(s, log)) = m + b + k + s.dropped
        BY <2>1 DEF Counted
      <4>5. m \in Nat /\ b \in Nat /\ s.dropped \in Nat
        BY <1>1 DEF Subscriptions
      <4>6. /\ t.closed = s.closed /\ Len(t.seen) = m /\ Len(t.backlog) = b
            /\ t.dropped = (IF full THEN s.dropped + 1 ELSE s.dropped)
        <5> HIDE DEF t, r
        <5> QED BY <3>2 DEF SameButQueue
      <4> HIDE DEF t, r, full, m, b, k
      <4>7. s.closed \/ Cardinality(OwedBy(t, new)) = m + b + Len(t.queue) + t.dropped
        <5>1. CASE full
          BY <3>0, <4>1, <4>2, <4>3, <4>4, <4>5, <4>6, <5>1
        <5>2. CASE ~full
          BY <3>0, <4>1, <4>2, <4>3, <4>4, <4>5, <4>6, <5>2
        <5> QED BY <5>1, <5>2
      <4> QED BY <4>6, <4>7 DEF Counted
    <3> HIDE DEF t, r
    <3>7. StreamOk(t, new)
      BY <1>1, <1>3, <2>1, <3>2, <3>4, <3>5, <3>6 DEF StreamOk, OpenOk, SameButQueue
    <3> QED BY <3>7 DEF t
  <2> QED BY <2>2, <2>3
<1> QED BY <1>2, <1>3

-----------------------------------------------------------------------------
(* The replay of the ring: its numbers are those that are due. *)
DueAfter(first, kinds) ==
    {i \in first .. LastSeq : i > LastSeq - ReplaySize /\ lsHub.log[i].kind \in kinds}

LEMMA RingFacts ==
    ASSUME LogOk(lsHub.log)
    PROVE  \E d \in Nat :
              /\ d <= LastSeq /\ LastSeq \in Nat
              /\ Ring \in Seq(LiveEvents) /\ Len(Ring) = LastSeq - d
              /\ \A i \in 1 .. (LastSeq - d) : Ring[i] = lsHub.log[i + d]
              /\ \A i \in 1 .. LastSeq : i > d <=> i > LastSeq - ReplaySize
<1> DEFINE log == lsHub.log
           n == Len(log)
           R == ReplaySize
           d == IF n > R THEN n - R ELSE 0
<1>1. log \in Seq(LiveEvents) /\ n \in Nat /\ R \in Nat /\ LastSeq = n
  BY LiveAssumption DEF LogOk, LastSeq
<1>2. Ring = SubSeq(log, d + 1, n)
  BY <1>1 DEF Ring
<1> HIDE DEF log
<1>3. d \in Nat /\ d <= n
  BY <1>1
<1>4. \A i \in 1 .. n : i > d <=> i > n - R
  BY <1>1
<1>5. /\ SubSeq(log, d + 1, n) \in Seq(LiveEvents) /\ Len(SubSeq(log, d + 1, n)) = n - d
      /\ \A i \in 1 .. (n - d) : SubSeq(log, d + 1, n)[i] = log[i + d]
  <2> HIDE DEF d
  <2>1. \A i \in (d + 1) .. n : log[i] \in LiveEvents
    BY <1>1, <1>3
  <2> QED BY <1>1, <1>3, <2>1
<1> QED BY <1>1, <1>2, <1>3, <1>4, <1>5 DEF log

LEMMA ReplayCovers ==
    ASSUME LogOk(lsHub.log), NEW last \in Nat, NEW kinds \in SUBSET Kinds
    PROVE  /\ ReplayAfter(last, kinds) \in Seq(LiveEvents)
           /\ \A i, j \in 1 .. Len(ReplayAfter(last, kinds)) :
                 i < j => ReplayAfter(last, kinds)[i].seq < ReplayAfter(last, kinds)[j].seq
           /\ \A i \in 1 .. Len(ReplayAfter(last, kinds)) :
                 ReplayAfter(last, kinds)[i].seq \in DueAfter(last + 1, kinds)
           /\ Cardinality(DueAfter(last + 1, kinds)) = Len(ReplayAfter(last, kinds))
<1> DEFINE n == LastSeq
           K == {e \in ToSet(Ring) : e.seq > last /\ e.kind \in kinds}
           due == DueAfter(last + 1, kinds)
           b == Kept(Ring, K)
           k == Len(b)
<1>1. PICK d \in Nat :
              /\ d <= n /\ n \in Nat
              /\ Ring \in Seq(LiveEvents) /\ Len(Ring) = n - d
              /\ \A i \in 1 .. (n - d) : Ring[i] = lsHub.log[i + d]
              /\ \A i \in 1 .. n : i > d <=> i > n - ReplaySize
  BY RingFacts
<1>2. ReplayAfter(last, kinds) = b
  BY DEF ReplayAfter
<1>3. \A i \in 1 .. n : lsHub.log[i].seq = i
  BY DEF LogOk, LastSeq
<1>4. \A a \in 1 .. (n - d) : Ring[a] \in K <=> a + d > last /\ lsHub.log[a + d].kind \in kinds
  <2> TAKE a \in 1 .. (n - d)
  <2>1. Ring[a] \in ToSet(Ring)
    BY <1>1 DEF ToSet
  <2>2. a + d \in 1 .. n /\ Ring[a] = lsHub.log[a + d]
    BY <1>1
  <2> QED BY <1>3, <2>1, <2>2
<1>5. \A i : i \in due <=> i \in 1 .. n /\ i > last /\ i > d /\ lsHub.log[i].kind \in kinds
  <2>1. \A i : i \in (last + 1) .. n <=> i \in 1 .. n /\ i > last
    BY <1>1
  <2> QED BY <1>1, <2>1 DEF DueAfter
<1>6. b \in Seq(LiveEvents) /\ k \in Nat
  BY <1>1, KeptSelects
<1>7. PICK m \in [1 .. k -> 1 .. (n - d)] :
                 /\ \A j \in 1 .. k : b[j] = Ring[m[j]] /\ Ring[m[j]] \in K
                 /\ \A i, j \in 1 .. k : i < j => m[i] < m[j]
                 /\ \A a \in 1 .. (n - d) : Ring[a] \in K => \E j \in 1 .. k : m[j] = a
  <2> DEFINE q == Ring
  <2>1. q \in Seq(LiveEvents) /\ Len(q) = n - d
    BY <1>1
  <2> HIDE DEF K, q
  <2>2. SelectedFrom(q, Kept(q, K), K)
    BY <2>1, KeptIsSelected
  <2>3. SelectedFrom(Ring, b, K)
    BY <2>2 DEF q
  <2> HIDE DEF b
  <2> QED BY <2>1, <2>3 DEF SelectedFrom, q
<1> HIDE DEF n, K, due, b, k
<1>8. \A j \in 1 .. k : m[j] \in 1 .. (n - d)
  BY <1>7
<1>9. \A j \in 1 .. k : /\ b[j].seq = m[j] + d /\ m[j] + d \in 1 .. n /\ m[j] + d > d
                        /\ m[j] + d > last /\ lsHub.log[m[j] + d].kind \in kinds
  <2> TAKE j \in 1 .. k
  <2>1. m[j] \in 1 .. (n - d) /\ b[j] = Ring[m[j]] /\ Ring[m[j]] \in K
    BY <1>7, <1>8
  <2>2. m[j] + d \in 1 .. n /\ m[j] + d > d
    BY <1>1, <2>1
  <2>3. m[j] + d > last /\ lsHub.log[m[j] + d].kind \in kinds
    BY <1>4, <2>1
  <2>4. b[j] = lsHub.log[m[j] + d]
    BY <1>1, <2>1
  <2> QED BY <1>3, <2>2, <2>3, <2>4
<1>10. \A j \in 1 .. k : b[j].seq \in due
  BY <1>5, <1>9
<1>11. \A i, j \in 1 .. k : i < j => b[i].seq < b[j].seq
  <2> SUFFICES ASSUME NEW i \in 1 .. k, NEW j \in 1 .. k, i < j PROVE b[i].seq < b[j].seq
    OBVIOUS
  <2>1. m[i] < m[j] /\ m[i] \in Nat /\ m[j] \in Nat
    BY <1>1, <1>7, <1>8
  <2>2. m[i] + d < m[j] + d
    BY <1>1, <2>1
  <2> QED BY <1>9, <2>2
<1>12. \A i \in due : \E j \in 1 .. k : b[j].seq = i
  <2> SUFFICES ASSUME NEW i \in due PROVE \E j \in 1 .. k : b[j].seq = i
    OBVIOUS
  <2>1. i \in 1 .. n /\ i > last /\ i > d /\ lsHub.log[i].kind \in kinds
    BY <1>5
  <2>2. i - d \in 1 .. (n - d) /\ (i - d) + d = i
    BY <1>1, <2>1
  <2>3. Ring[i - d] \in K
    BY <1>4, <2>1, <2>2
  <2>4. PICK j \in 1 .. k : m[j] = i - d
    BY <1>7, <2>2, <2>3
  <2> QED BY <1>9, <2>2, <2>4
<1>13. Cardinality(due) = k
  <2> DEFINE f == [j \in 1 .. k |-> b[j].seq]
  <2>1. f \in [1 .. k -> due]
    BY <1>10
  <2>2. \A i, j \in 1 .. k : i # j => f[i] # f[j]
    <3> SUFFICES ASSUME NEW i \in 1 .. k, NEW j \in 1 .. k, i # j PROVE b[i].seq # b[j].seq
      OBVIOUS
    <3>1. b[i].seq \in Int /\ b[j].seq \in Int
      BY <1>1, <1>9
    <3>2. i < j \/ j < i
      BY <1>6
    <3> QED BY <1>11, <3>1, <3>2
  <2>3. \A i \in due : \E j \in 1 .. k : f[j] = i
    BY <1>12
  <2>4. ExistsBijection(1 .. k, due)
    <3> HIDE DEF f
    <3> QED BY <2>1, <2>2, <2>3, Zenon DEF ExistsBijection, Bijection, Injection, Surjection, IsInjective
  <2> QED BY <1>6, <2>4, FS_CountingElements
<1> QED BY <1>2, <1>6, <1>10, <1>11, <1>13 DEF due, k

(* A stream as it is opened: nothing seen, nothing queued. *)
JustOpened(t, log, backlog, due) ==
    /\ t.pc = "backlog" /\ t.backlog = backlog /\ t.queue = <<>> /\ t.seen = <<>> /\ t.dropped = 0
    /\ t.from = Len(log) /\ t.due = due

LEMMA FreshOk ==
    ASSUME NEW log, LogOk(log), NEW t \in Subscriptions, NEW b, NEW due, JustOpened(t, log, b, due),
           due \subseteq 1 .. Len(log), Cardinality(due) = Len(b),
           \A i, j \in 1 .. Len(b) : i < j => b[i].seq < b[j].seq,
           \A i \in 1 .. Len(b) : b[i].seq \in due
    PROVE  StreamOk(t, log)
<1>1. /\ t.pc = "backlog" /\ t.backlog = b /\ t.from = Len(log) /\ t.due = due /\ t.dropped = 0
      /\ Len(t.queue) = 0 /\ Len(t.seen) = 0 /\ Len(log) \in Nat /\ Len(b) \in Nat
  BY DEF JustOpened, LogOk, Subscriptions
<1>2. OwedFrom(t, log) = {} /\ OwedBy(t, log) = due
  BY <1>1 DEF OwedFrom, OwedBy
<1>3. InOrder(t)
  BY <1>1 DEF InOrder
<1>4. AllOwed(t, log)
  BY <1>1 DEF AllOwed
<1>5. Counted(t, log)
  <2> DEFINE k == Len(b)
  <2>1. k = 0 + k + 0 + 0
    BY <1>1
  <2> HIDE DEF k
  <2> QED BY <1>1, <1>2, <2>1 DEF Counted, k
<1> QED BY <1>1, <1>3, <1>4, <1>5 DEF StreamOk, OpenOk

LEMMA OpenedOk ==
    ASSUME LogOk(lsHub.log), lsHub.closed \in BOOLEAN, NEW last \in Nat, NEW kinds \in SUBSET Kinds,
           NEW resume \in BOOLEAN, NEW b, NEW first,
           b = IF resume THEN ReplayAfter(last, kinds) ELSE <<>>,
           first = IF resume THEN last + 1 ELSE LastSeq + 1
    PROVE  StreamOk([NoSub EXCEPT !.pc = "backlog", !.kinds = kinds, !.backlog = b,
                             !.late = lsHub.closed, !.from = LastSeq, !.due = DueAfter(first, kinds)],
                    lsHub.log)
<1> DEFINE log == lsHub.log
           due == DueAfter(first, kinds)
           t == [NoSub EXCEPT !.pc = "backlog", !.kinds = kinds, !.backlog = b,
                             !.late = lsHub.closed, !.from = LastSeq, !.due = due]
<1>1. LastSeq = Len(log) /\ LastSeq \in Nat
  BY DEF LastSeq, LogOk
<1>2. /\ b \in Seq(LiveEvents) /\ Cardinality(due) = Len(b)
      /\ \A i, j \in 1 .. Len(b) : i < j => b[i].seq < b[j].seq
      /\ \A i \in 1 .. Len(b) : b[i].seq \in due
  <2>1. CASE resume
    <3>1. b = ReplayAfter(last, kinds) /\ due = DueAfter(last + 1, kinds)
      BY <2>1
    <3> HIDE DEF due
    <3> QED BY <3>1, ReplayCovers
  <2>2. CASE ~resume
    <3>1. b = <<>> /\ Len(b) = 0 /\ b \in Seq(LiveEvents)
      BY <2>2
    <3>2. due = {}
      BY <2>2, <1>1 DEF DueAfter
    <3>3. Cardinality(due) = 0
      BY <3>2, FS_EmptySet
    <3> HIDE DEF due
    <3> QED BY <3>1, <3>3
  <2> QED BY <2>1, <2>2
<1>3. due \subseteq 1 .. Len(log)
  <2>1. first \in Nat \ {0}
    BY <1>1
  <2> QED BY <1>1, <2>1 DEF DueAfter
<1>4. due \subseteq Nat
  BY <1>1, <1>3
<1> HIDE DEF due, log
<1>5. t \in Subscriptions
  <2>1. NoSub \in Subscriptions
    BY DEF NoSub, Subscriptions
  <2>2. "backlog" \in Open
    BY DEF Open
  <2> QED BY <1>1, <1>2, <1>4, <2>1, <2>2 DEF Subscriptions
<1>6. JustOpened(t, log, b, due)
  BY <1>1 DEF JustOpened, NoSub
<1>7. LogOk(log)
  BY DEF log
<1> HIDE DEF t
<1>8. StreamOk(t, log)
  BY <1>2, <1>3, <1>5, <1>6, <1>7, FreshOk
<1> QED BY <1>8 DEF t, log, due

LEMMA NoSubOk ==
    ASSUME NEW log
    PROVE  StreamOk(NoSub, log)
<1>1. NoSub \in Subscriptions /\ NoSub.pc = "off" /\ NoSub.seen = <<>>
  BY DEF NoSub, Subscriptions
<1> QED BY <1>1 DEF StreamOk, Open

-----------------------------------------------------------------------------
(* One stream changes, the log does not. *)
LEMMA OneStream ==
    ASSUME StreamInv, NEW c \in Clients, NEW t, lsSub' = [lsSub EXCEPT ![c] = t], StreamOk(t, lsHub.log),
           UNCHANGED lsHub, lsClient' \in [Clients -> [last : Nat, streams : Nat]]
    PROVE  StreamInv'
<1>1. lsSub' = [d \in Clients |-> IF d = c THEN t ELSE lsSub[d]]
  BY DEF StreamInv
<1>2. \A d \in Clients : StreamOk(lsSub'[d], lsHub.log)
  BY <1>1 DEF StreamInv
<1>3. DOMAIN lsSub' = Clients /\ lsSub' = [d \in Clients |-> lsSub'[d]]
  BY <1>1
<1> QED BY <1>2, <1>3 DEF StreamInv

LEMMA LiveInitial == LiveInit => StreamInv
<1> SUFFICES ASSUME LiveInit PROVE StreamInv
  OBVIOUS
<1>1. lsHub \in [log : Seq(LiveEvents), closed : BOOLEAN] /\ lsHub.log = <<>>
  BY DEF LiveInit
<1>2. LogOk(lsHub.log)
  BY <1>1 DEF LogOk
<1>3. lsClient \in [Clients -> [last : Nat, streams : Nat]]
  BY DEF LiveInit
<1>4. \A c \in Clients : StreamOk(lsSub[c], lsHub.log)
  BY NoSubOk DEF LiveInit
<1> QED BY <1>1, <1>2, <1>3, <1>4 DEF StreamInv, LiveInit

LEMMA SentKeeps ==
    ASSUME StreamInv, NEW c \in Clients, NEW e \in LiveEvents, NEW sub,
           Sent(c, e, sub), UNCHANGED lsHub,
           StreamOk([sub EXCEPT !.seen = Append(@, e.seq)], lsHub.log)
    PROVE  StreamInv'
<1>1. e.seq \in Nat
  BY DEF LiveEvents
<1>2. lsClient' \in [Clients -> [last : Nat, streams : Nat]]
  BY <1>1 DEF Sent, StreamInv
<1> QED BY <1>2, OneStream DEF Sent

LEMMA LiveStep == StreamInv /\ [LiveNext]_lsVars => StreamInv'
<1> SUFFICES ASSUME StreamInv, [LiveNext]_lsVars PROVE StreamInv'
  OBVIOUS
<1>0. /\ lsHub \in [log : Seq(LiveEvents), closed : BOOLEAN] /\ LogOk(lsHub.log)
      /\ lsClient \in [Clients -> [last : Nat, streams : Nat]]
      /\ DOMAIN lsSub = Clients /\ lsSub = [c \in Clients |-> lsSub[c]]
      /\ \A c \in Clients : StreamOk(lsSub[c], lsHub.log) /\ lsSub[c] \in Subscriptions
  BY DEF StreamInv, StreamOk
<1>1. ASSUME UNCHANGED <<lsHub, lsSub, lsClient>> PROVE StreamInv'
  BY <1>1 DEF StreamInv
<1>2. CASE SourceConnects \/ SourceLost \/ SourceRetries \/ SourceStops \/ UNCHANGED lsVars
  BY <1>1, <1>2 DEF SourceConnects, SourceLost, SourceRetries, SourceStops, lsVars
<1>3. CASE CloseHub
  <2>1. /\ lsHub' = [lsHub EXCEPT !.closed = TRUE] /\ lsSub' = [c \in Clients |-> Closing(lsSub[c])]
        /\ lsClient' = lsClient
    BY <1>3 DEF CloseHub
  <2>2. lsHub' \in [log : Seq(LiveEvents), closed : BOOLEAN] /\ lsHub'.log = lsHub.log
    BY <1>0, <2>1
  <2>3. \A c \in Clients : StreamOk(lsSub'[c], lsHub.log)
    BY <1>0, <2>1, ClosingOk
  <2>4. DOMAIN lsSub' = Clients /\ lsSub' = [c \in Clients |-> lsSub'[c]]
    BY <2>1
  <2> QED BY <1>0, <2>1, <2>2, <2>3, <2>4 DEF StreamInv
<1>4. CASE RestartApi
  <2>1. lsHub' = [log |-> <<>>, closed |-> FALSE] /\ lsSub' = [c \in Clients |-> NoSub] /\ lsClient' = lsClient
    BY <1>4 DEF RestartApi
  <2>2. lsHub' \in [log : Seq(LiveEvents), closed : BOOLEAN] /\ lsHub'.log = <<>>
    BY <2>1
  <2>3. LogOk(lsHub'.log)
    BY <2>2 DEF LogOk
  <2>4. \A c \in Clients : StreamOk(lsSub'[c], lsHub'.log)
    BY <2>1, NoSubOk
  <2>5. DOMAIN lsSub' = Clients /\ lsSub' = [c \in Clients |-> lsSub'[c]]
    BY <2>1
  <2> QED BY <1>0, <2>1, <2>2, <2>3, <2>4, <2>5 DEF StreamInv
<1>5. ASSUME NEW k \in Kinds, Publish(k) PROVE StreamInv'
  <2> DEFINE log == lsHub.log
             e == [seq |-> Len(log) + 1, kind |-> k]
             new == Append(log, e)
  <2>1. /\ lsHub' = [lsHub EXCEPT !.log = new] /\ lsSub' = [c \in Clients |-> Offered(lsSub[c], e)]
        /\ lsClient' = lsClient
    BY <1>5 DEF Publish, LastSeq
  <2>2. e \in LiveEvents /\ e.seq = Len(log) + 1
    <3>1. Len(log) \in Nat
      BY <1>0
    <3> QED BY <3>1 DEF LiveEvents
  <2> HIDE DEF e
  <2>3. GrownLog(log, new, e)
    BY <1>0, <2>2, LogGrows
  <2>4. LogOk(new) /\ new \in Seq(LiveEvents)
    BY <2>3 DEF GrownLog, LogOk
  <2> HIDE DEF new
  <2>5. lsHub' \in [log : Seq(LiveEvents), closed : BOOLEAN] /\ lsHub'.log = new
    BY <1>0, <2>1, <2>4
  <2>6. \A c \in Clients : StreamOk(lsSub'[c], new)
    BY <1>0, <2>1, <2>3, OfferedOk
  <2>7. DOMAIN lsSub' = Clients /\ lsSub' = [c \in Clients |-> lsSub'[c]]
    BY <2>1
  <2> QED BY <1>0, <2>1, <2>4, <2>5, <2>6, <2>7 DEF StreamInv
<1>6. ASSUME NEW c \in Clients, NEW kinds \in {Kinds} \cup {{k} : k \in Kinds}, NEW resume \in BOOLEAN,
             OpenStream(c, kinds, resume)
      PROVE  StreamInv'
  <2>1. kinds \in SUBSET Kinds /\ lsClient[c].last \in Nat /\ lsHub.closed \in BOOLEAN
    BY <1>0
  <2> DEFINE b == IF resume THEN ReplayAfter(lsClient[c].last, kinds) ELSE <<>>
             first == IF resume THEN lsClient[c].last + 1 ELSE LastSeq + 1
             t == [NoSub EXCEPT !.pc = "backlog", !.kinds = kinds, !.backlog = b,
                             !.late = lsHub.closed, !.from = LastSeq, !.due = DueAfter(first, kinds)]
  <2>2. /\ lsSub' = [lsSub EXCEPT ![c] = t] /\ lsClient' = [lsClient EXCEPT ![c].streams = @ + 1]
        /\ UNCHANGED lsHub
    BY <1>6 DEF OpenStream, DueAfter
  <2>3. StreamOk(t, lsHub.log)
    BY <1>0, <2>1, OpenedOk
  <2>4. lsClient' \in [Clients -> [last : Nat, streams : Nat]]
    <3> DEFINE x == [lsClient[c] EXCEPT !.streams = @ + 1]
    <3>1. lsClient \in [Clients -> [last : Nat, streams : Nat]]
      BY <1>0
    <3>2. lsClient' = [lsClient EXCEPT ![c] = x]
      BY <2>2
    <3>3. x \in [last : Nat, streams : Nat]
      BY <3>1
    <3> HIDE DEF x
    <3> QED BY <3>1, <3>2, <3>3
  <2> HIDE DEF t
  <2> QED BY <2>2, <2>3, <2>4, OneStream
<1>7. ASSUME NEW c \in Clients, SendBacklog(c) PROVE StreamInv'
  <2> DEFINE s == lsSub[c]
             e == Head(s.backlog)
             sub == [s EXCEPT !.backlog = Tail(@)]
             t == [sub EXCEPT !.seen = Append(@, e.seq)]
  <2>1. s.pc = "backlog" /\ s.backlog # <<>> /\ Sent(c, e, sub) /\ UNCHANGED lsHub
    BY <1>7 DEF SendBacklog
  <2>2. s \in Subscriptions /\ StreamOk(s, lsHub.log)
    BY <1>0
  <2>3. s.backlog \in Seq(LiveEvents) /\ s.seen \in Seq(Nat)
    BY <2>2 DEF Subscriptions
  <2>4. e \in LiveEvents /\ Tail(s.backlog) \in Seq(LiveEvents)
    BY <2>1, <2>3, TailFacts
  <2>5. e.seq \in Nat
    BY <2>4 DEF LiveEvents
  <2>6. Append(s.seen, e.seq) \in Seq(Nat)
    BY <2>3, <2>5, AppendFacts
  <2>7. /\ t \in Subscriptions /\ FromBacklog(s, t) /\ t.kinds = s.kinds /\ t.dropped = s.dropped
        /\ t.closed = s.closed /\ t.from = s.from /\ t.due = s.due
    <3> HIDE DEF s
    <3> QED BY <2>2, <2>4, <2>6 DEF Subscriptions, FromBacklog
  <2> HIDE DEF s, sub, e
  <2>8. StreamOk(t, lsHub.log)
    <3> HIDE DEF t
    <3> QED BY <1>0, <2>1, <2>2, <2>7, BacklogSent
  <2> QED BY <2>1, <2>4, <2>8, SentKeeps
<1>8. ASSUME NEW c \in Clients, SendNext(c) PROVE StreamInv'
  <2> DEFINE s == lsSub[c]
             e == Head(s.queue)
             sub == [s EXCEPT !.pc = "live", !.queue = Tail(@)]
             t == [sub EXCEPT !.seen = Append(@, e.seq)]
  <2>1. s.pc = "get" /\ s.queue # <<>> /\ e # EndMark /\ Sent(c, e, sub) /\ UNCHANGED lsHub
    BY <1>8 DEF SendNext
  <2>2. s \in Subscriptions /\ StreamOk(s, lsHub.log)
    BY <1>0
  <2>3. s.queue \in Seq(LiveEvents) /\ s.seen \in Seq(Nat)
    BY <2>2 DEF Subscriptions
  <2>4. e \in LiveEvents /\ Tail(s.queue) \in Seq(LiveEvents)
    BY <2>1, <2>3, TailFacts
  <2>5. e.seq \in Nat
    BY <2>4 DEF LiveEvents
  <2>6. Append(s.seen, e.seq) \in Seq(Nat)
    BY <2>3, <2>5, AppendFacts
  <2>7. /\ t \in Subscriptions /\ FromQueue(s, t) /\ t.kinds = s.kinds /\ t.dropped = s.dropped
        /\ t.closed = s.closed /\ t.from = s.from /\ t.due = s.due
    <3> HIDE DEF s
    <3> QED BY <2>2, <2>4, <2>6 DEF Subscriptions, FromQueue, Open
  <2>9. Head(s.queue) # EndMark
    BY <2>1
  <2> HIDE DEF s, sub, e
  <2>8. StreamOk(t, lsHub.log)
    <3> HIDE DEF t
    <3> QED BY <1>0, <2>1, <2>2, <2>7, <2>9, QueueSent
  <2> QED BY <2>1, <2>4, <2>8, SentKeeps
<1>9. ASSUME NEW c \in Clients, GoLive(c) \/ NextItem(c) \/ EndStream(c) \/ LeaveStream(c) PROVE StreamInv'
  <2>1. \E at \in Open \cup {"off", "ended"} :
           /\ lsSub' = [lsSub EXCEPT ![c] = [lsSub[c] EXCEPT !.pc = at]]
           /\ at \in Open => lsSub[c].pc \in Open /\ lsSub[c].backlog = <<>>
    <3>0. lsSub[c].pc # "backlog" /\ lsSub[c].pc \in Open => lsSub[c].backlog = <<>>
      BY <1>0 DEF StreamOk, OpenOk
    <3>1. CASE GoLive(c)
      BY <3>1 DEF GoLive, Open
    <3>2. CASE NextItem(c)
      BY <3>0, <3>2 DEF NextItem, Open
    <3>3. CASE EndStream(c)
      BY <3>3 DEF EndStream, Open
    <3>4. CASE LeaveStream(c)
      BY <3>4 DEF LeaveStream, Open
    <3> QED BY <1>9, <3>1, <3>2, <3>3, <3>4
  <2>2. UNCHANGED <<lsHub, lsClient>>
    BY <1>9 DEF GoLive, NextItem, EndStream, LeaveStream
  <2>3. PICK at \in Open \cup {"off", "ended"} :
           /\ lsSub' = [lsSub EXCEPT ![c] = [lsSub[c] EXCEPT !.pc = at]]
           /\ at \in Open => lsSub[c].pc \in Open /\ lsSub[c].backlog = <<>>
    BY <2>1
  <2> DEFINE s == lsSub[c]
             t == [s EXCEPT !.pc = at]
  <2>4. StreamOk(s, lsHub.log) /\ (at \in Open => s.pc \in Open /\ s.backlog = <<>>)
    BY <1>0, <2>3
  <2>5. lsSub' = [lsSub EXCEPT ![c] = t]
    BY <2>3
  <2> HIDE DEF s
  <2>6. StreamOk(t, lsHub.log)
    BY <2>4, StreamMoves
  <2>7. lsClient' \in [Clients -> [last : Nat, streams : Nat]]
    BY <1>0, <2>2
  <2> HIDE DEF t
  <2> QED BY <2>2, <2>5, <2>6, <2>7, OneStream
<1> QED BY <1>2, <1>3, <1>4, <1>5, <1>6, <1>7, <1>8, <1>9 DEF LiveNext, StreamStep

LEMMA LiveExact == StreamInv => StreamIsExact
<1> SUFFICES ASSUME StreamInv, NEW c \in Clients
             PROVE  LET s == lsSub[c]
                        kept == ToSet(s.seen) \cup Seqs(s.backlog) \cup Seqs(s.queue)
                    IN  /\ \A i, j \in DOMAIN s.seen : i < j => s.seen[i] < s.seen[j]
                        /\ s.pc \in Open => kept \subseteq Owed(s)
                        /\ s.pc \in Open /\ ~s.closed =>
                             Cardinality(Owed(s)) = Len(s.seen) + Len(s.backlog) + Len(s.queue) + s.dropped
  BY DEF StreamIsExact
<1> DEFINE s == lsSub[c]
           log == lsHub.log
<1>1. StreamOk(s, log)
  BY DEF StreamInv
<1>2. Owed(s) = OwedBy(s, log)
  BY DEF Owed, OwedBy, OwedFrom, LastSeq
<1> HIDE DEF s, log
<1>3. /\ s.seen \in Seq(Nat) /\ s.backlog \in Seq(LiveEvents) /\ s.queue \in Seq(LiveEvents)
  BY <1>1 DEF StreamOk, Subscriptions
<1>4. /\ DOMAIN s.seen = 1 .. Len(s.seen) /\ DOMAIN s.backlog = 1 .. Len(s.backlog)
      /\ DOMAIN s.queue = 1 .. Len(s.queue)
  BY <1>3
<1>5. \A i, j \in DOMAIN s.seen : i < j => s.seen[i] < s.seen[j]
  BY <1>1, <1>4 DEF StreamOk
<1>6. ASSUME s.pc \in Open
      PROVE  /\ ToSet(s.seen) \cup Seqs(s.backlog) \cup Seqs(s.queue) \subseteq Owed(s)
             /\ ~s.closed => Cardinality(Owed(s)) = Len(s.seen) + Len(s.backlog) + Len(s.queue) + s.dropped
  <2>1. AllOwed(s, log) /\ Counted(s, log)
    BY <1>1, <1>6 DEF StreamOk, OpenOk
  <2>2. ToSet(s.seen) \subseteq Owed(s)
    BY <1>2, <1>4, <2>1 DEF ToSet, AllOwed
  <2>3. Seqs(s.backlog) \subseteq Owed(s)
    BY <1>2, <1>4, <2>1 DEF Seqs, AllOwed, OwedBy
  <2>4. EndMark.seq = 0
    BY DEF EndMark
  <2>5. Seqs(s.queue) \subseteq Owed(s)
    BY <1>2, <1>4, <2>1, <2>4 DEF Seqs, AllOwed, OwedBy
  <2> QED BY <1>2, <2>1, <2>2, <2>3, <2>5 DEF Counted
<1> QED BY <1>5, <1>6 DEF s

(* However publications, resumptions, closes and restarts fall, an open    *)
(* stream hands on rising numbers and loses nothing it does not count: for *)
(* every size of queue and ring (live.py subscribe, publish, close).       *)
THEOREM StreamExact == LiveSpec => []StreamIsExact
<1>1. LiveSpec => []StreamInv
  BY LiveInitial, LiveStep, PTL DEF LiveSpec
<1> QED BY <1>1, LiveExact, PTL

=============================================================================

----------------------------- MODULE UserRoles -----------------------------
(***************************************************************************)
(* The commands that create users and change their roles, each in one      *)
(* transaction at READ COMMITTED, run side by side.                        *)
(*                                                                         *)
(* Source: cli.py (user_add, user_set_role), storage/repositories/user.py  *)
(* (get_by_login, create, set_role, admins_for_update).                    *)
(*                                                                         *)
(* A statement sees what was committed when it began.  SELECT FOR UPDATE   *)
(* waits for the rows it found that another transaction holds, and then    *)
(* keeps those that still qualify.  The rows are locked in the order of    *)
(* their ids and the only other lock of a transaction is the row it        *)
(* updates, so the locks are taken here in one step.                       *)
(***************************************************************************)
EXTENDS Integers, FiniteSets

CONSTANTS
    Users,
    MaxCommands,     \* BOUND: commands run
    UserRoleNames            \* the roles, "admin" among them

ASSUME RolesAssumption ==
    /\ IsFiniteSet(Users) /\ MaxCommands \in Nat
    /\ "admin" \in UserRoleNames /\ "absent" \notin UserRoleNames

VARIABLES
    urRole,   \* app_user as committed: each user's role, or "absent"
    urLock,   \* per user: the command that holds its row, or 0
    urCmd     \* per command: where it is, its arguments, what it has read

urVars == <<urRole, urLock, urCmd>>

Commands == 1..MaxCommands      \* numbered in the order in which they begin

Admins == {u \in Users : urRole[u] = "admin"}

Fresh == [pc |-> "new", kind |-> "set", user |-> CHOOSE u \in Users : TRUE, role |-> "admin",
          old |-> "absent", found |-> {}]

Over == [Fresh EXCEPT !.pc = "over"]    \* done or refused

UsersInit ==
    /\ urRole \in {f \in [Users -> UserRoleNames \cup {"absent"}] : \E u \in Users : f[u] = "admin"}
    /\ urLock = [u \in Users |-> 0]
    /\ urCmd = [k \in Commands |-> Fresh]

(* The transaction ends: its locks are free. *)
Released(k) == [u \in Users |-> IF urLock[u] = k THEN 0 ELSE urLock[u]]

(* get_by_login: an unknown user, or one that is already there, ends the   *)
(* command, and so does a role that is as wanted.                          *)
ReadUser(k, kind, u, role) ==
    /\ urCmd[k].pc = "new" /\ \A j \in Commands : j < k => urCmd[j].pc # "new"
    /\ LET old == urRole[u]
           over == IF kind = "add" THEN old # "absent" ELSE old \in {"absent", role}
           pc == IF kind = "set" /\ old = "admin" THEN "select" ELSE "write"
       IN  urCmd' = [urCmd EXCEPT ![k] = IF over THEN Over ELSE
                        [Fresh EXCEPT !.pc = pc, !.kind = kind, !.user = u, !.role = role, !.old = old]]
    /\ UNCHANGED <<urRole, urLock>>

(* admins_for_update begins. *)
SelectAdmins(k) ==
    /\ urCmd[k].pc = "select"
    /\ urCmd' = [urCmd EXCEPT ![k].pc = "lock", ![k].found = Admins]
    /\ UNCHANGED <<urRole, urLock>>

(* Fault: the rows are read without FOR UPDATE. *)
FaultyObtained(k) == TRUE

Obtained(k) == \A u \in urCmd[k].found : urLock[u] \in {0, k}

(* It returns: a target that is no longer among the admins, and the last   *)
(* of them, end the command.                                               *)
LockAdmins(k) ==
    /\ urCmd[k].pc = "lock" /\ Obtained(k)
    /\ LET admins == urCmd[k].found \cap Admins
           refuse == urCmd[k].user \notin admins \/ Cardinality(admins) <= 1
       IN  /\ urLock' = IF refuse THEN Released(k)
                        ELSE [u \in Users |-> IF u \in admins THEN k ELSE urLock[u]]
           /\ urCmd' = [urCmd EXCEPT ![k] = IF refuse THEN Over ELSE [@ EXCEPT !.pc = "write"]]
    /\ UNCHANGED urRole

(* create or set_role: the row is locked until COMMIT; an insert waits for *)
(* the other insert of that login and then fails on the unique index.      *)
WriteUser(k) ==
    /\ urCmd[k].pc = "write" /\ urLock[urCmd[k].user] \in {0, k}
    /\ LET taken == urCmd[k].kind = "add" /\ urRole[urCmd[k].user] # "absent"
       IN  /\ urCmd' = [urCmd EXCEPT ![k] = IF taken THEN Over ELSE [@ EXCEPT !.pc = "commit"]]
           /\ urLock' = IF taken THEN Released(k) ELSE [urLock EXCEPT ![urCmd[k].user] = k]
    /\ UNCHANGED urRole

(* COMMIT, with the audit row; or the transaction fails at any point. *)
CommitUser(k) ==
    /\ urCmd[k].pc = "commit"
    /\ urRole' = [urRole EXCEPT ![urCmd[k].user] = urCmd[k].role]
    /\ urLock' = Released(k)
    /\ urCmd' = [urCmd EXCEPT ![k] = Over]

AbortUser(k) ==
    /\ urCmd[k].pc \in {"select", "lock", "write", "commit"}
    /\ urLock' = Released(k)
    /\ urCmd' = [urCmd EXCEPT ![k] = Over]
    /\ UNCHANGED urRole

CommandStep(k) == SelectAdmins(k) \/ LockAdmins(k) \/ WriteUser(k) \/ CommitUser(k)

UsersNext ==
    \E k \in Commands :
        \/ \E kind \in {"add", "set"}, u \in Users, role \in UserRoleNames : ReadUser(k, kind, u, role)
        \/ CommandStep(k) \/ AbortUser(k)

RolesSpec == UsersInit /\ [][UsersNext]_urVars

-----------------------------------------------------------------------------
(* A command that found an admin and takes the role away leaves another    *)
(* admin behind, whatever else commits meanwhile (cli.py user_set_role,    *)
(* user.py admins_for_update).                                             *)
DemotionLeavesAdmin ==
    [][\A k \in Commands : CommitUser(k) /\ urCmd[k].old = "admin" => Admins' # {}]_urVars

(* user set-role refuses to demote the last admin: there always is one. *)
LastAdminStays == Admins # {}

=============================================================================

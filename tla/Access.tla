------------------------------- MODULE Access -------------------------------
(***************************************************************************)
(* Who may do what: logins with their limiter, tokens that carry a role,   *)
(* and the check that stands before every request.                         *)
(*                                                                         *)
(* Source: api/auth.py (ACCESS_MATRIX, issue_token, decode_token,          *)
(* LoginRateLimiter), api/routers/auth.py (login, demo_login), api/deps.py *)
(* (get_principal, require), storage/repositories/user.py.                 *)
(*                                                                         *)
(* Between the limiter's check and its record, and between the check of a  *)
(* role and the handler's transaction, other requests run and roles change *)
(* (UserRoles has the commands that change them).  A token is its claims;  *)
(* forged ones are refused by the library.  The limiter holds fewer keys   *)
(* than max_keys and all attempts come from one address.                   *)
(***************************************************************************)
EXTENDS Integers, Sequences, FiniteSets

CONSTANTS
    Logins,
    DemoLogins,      \* those with the demo prefix, when demo_login is on
    Asked,           \* BOUND: permissions asked for
    Attempts,        \* logins in progress at a time
    Calls,           \* other requests in progress at a time
    MaxLoginFailures,
    LoginWindow,     \* window_s
    TokenTtl,        \* jwt_ttl_hours
    MaxTokens,       \* BOUND: tokens issued
    MaxClock         \* BOUND: time

ASSUME AccessAssumption ==
    /\ DemoLogins \subseteq Logins /\ IsFiniteSet(Attempts)
    /\ MaxLoginFailures \in Nat \ {0} /\ LoginWindow \in Nat \ {0} /\ TokenTtl \in Nat \ {0}

VARIABLES
    axNow,     \* the clock
    axRole,    \* app_user: role of each login, or "none" (no row, or no known role)
    axTokens,  \* tokens issued: login, role, exp
    axFails,   \* LoginRateLimiter._fails
    axTry,     \* per attempt: where it is, its login, the role it has read
    axCall     \* per request: where it is, its token, its permission, and whether
               \* the role in the database has allowed it since it came

axVars == <<axNow, axRole, axTokens, axFails, axTry, axCall>>

All == {"operator", "analyst", "auditor", "admin"}

ACCESS_MATRIX ==
    [self_read |-> All, market_read |-> All, strategy_read |-> All,
     strategy_write |-> {"operator", "admin"}, backtest_run |-> {"operator", "analyst", "admin"},
     run_read |-> All, decision_read |-> All, risk_read |-> All,
     risk_limits_write |-> {"admin"}, killswitch_release |-> {"admin"},
     stream_read |-> All, audit_read |-> {"auditor", "admin"}]

MUTATING_PERMISSIONS == {"strategy_write", "backtest_run", "risk_limits_write", "killswitch_release"}

NoTry == [pc |-> "idle", login |-> "none", role |-> "none"]
NoCall == [pc |-> "idle", token |-> [login |-> "none", role |-> "none", exp |-> 0],
           perm |-> "none", had |-> FALSE]

Keys == Logins \cup {"ip"}

AccessInit ==
    /\ axNow = 0
    /\ axRole \in [Logins -> {"admin", "auditor"}]
    /\ axTokens = {}
    /\ axFails = [k \in Keys |-> <<>>]
    /\ axTry = [a \in Attempts |-> NoTry]
    /\ axCall = [q \in Calls |-> NoCall]

-----------------------------------------------------------------------------
(* LoginRateLimiter. *)

(* _prune: failures older than window_s leave the queue at its left end, *)
(* up to the first that still counts.                                      *)
Pruned(q, now) ==
    LET first == CHOOSE i \in 1..(Len(q) + 1) :
                     /\ \A j \in 1..(i - 1) : now - q[j] >= LoginWindow
                     /\ i <= Len(q) => now - q[i] < LoginWindow
    IN  SubSeq(q, first, Len(q))

Recent(k) == Pruned(axFails[k], axNow)

LoginBlocked(keys) == \E k \in keys : Len(Recent(k)) >= MaxLoginFailures

KeysOf(l) == {"ip", l}

-----------------------------------------------------------------------------
(* login. *)

TryLogin(a, l) ==
    /\ axTry[a].pc = "idle" /\ ~LoginBlocked(KeysOf(l))
    /\ axFails' = [k \in Keys |-> IF k \in KeysOf(l) THEN Recent(k) ELSE axFails[k]]
    /\ axTry' = [axTry EXCEPT ![a] = [pc |-> "find", login |-> l, role |-> "none"]]
    /\ UNCHANGED <<axNow, axRole, axTokens, axCall>>

(* get_by_login in a transaction of its own, before the slow hash. *)
FindUser(a) ==
    /\ axTry[a].pc = "find"
    /\ axTry' = [axTry EXCEPT ![a].pc = "verify", ![a].role = axRole[axTry[a].login]]
    /\ UNCHANGED <<axNow, axRole, axTokens, axFails, axCall>>

Token(l, role) == [login |-> l, role |-> role, exp |-> axNow + TokenTtl]

(* The password was right: a token with the role read before, audited; the *)
(* login's failures are forgotten, the address's are not.                  *)
LoginSucceeds(a) ==
    /\ axTry[a].pc = "verify" /\ axTry[a].role # "none" /\ Cardinality(axTokens) < MaxTokens
    /\ axTokens' = axTokens \cup {Token(axTry[a].login, axTry[a].role)}
    /\ axFails' = [axFails EXCEPT ![axTry[a].login] = <<>>]
    /\ axTry' = [axTry EXCEPT ![a] = NoTry]
    /\ UNCHANGED <<axNow, axRole, axCall>>

(* record_failure, after the audit row is committed. *)
LoginFails(a) ==
    /\ axTry[a].pc = "verify"
    /\ axFails' = [k \in Keys |-> IF k \in KeysOf(axTry[a].login) THEN Append(axFails[k], axNow)
                                  ELSE axFails[k]]
    /\ axTry' = [axTry EXCEPT ![a] = NoTry]
    /\ UNCHANGED <<axNow, axRole, axTokens, axCall>>

(* A database error ends the request; nothing is recorded. *)
LoginError(a) ==
    /\ axTry[a].pc \in {"find", "verify"}
    /\ axTry' = [axTry EXCEPT ![a] = NoTry]
    /\ UNCHANGED <<axNow, axRole, axTokens, axFails, axCall>>

DemoLogin(l) ==
    /\ l \in DemoLogins /\ axRole[l] # "none" /\ Cardinality(axTokens) < MaxTokens
    /\ axTokens' = axTokens \cup {Token(l, axRole[l])}
    /\ UNCHANGED <<axNow, axRole, axFails, axTry, axCall>>

-----------------------------------------------------------------------------
(* require(permission). *)

May(role, perm) == role # "none" /\ role \in ACCESS_MATRIX[perm]

(* A token is taken until its exp. *)
decode_token(t) == axNow < t.exp

(* get_principal and the role of the token; a read is allowed at once. *)
Call(q, t, p) ==
    /\ axCall[q].pc = "idle"
    /\ decode_token(t) /\ May(t.role, p)
    /\ axCall' = [axCall EXCEPT ![q] =
          [pc |-> IF p \in MUTATING_PERMISSIONS THEN "check" ELSE "read",
           token |-> t, perm |-> p, had |-> May(axRole[t.login], p)]]
    /\ UNCHANGED <<axNow, axRole, axTokens, axFails, axTry>>

(* Fault: the role of the token is believed. *)
FaultyCurrent(t) == t.role

Current(t) == axRole[t.login]

(* For a change the role is read from the database, in a transaction of    *)
(* its own.                                                                *)
CheckRole(q) ==
    /\ axCall[q].pc = "check"
    /\ axCall' = [axCall EXCEPT ![q] = IF May(Current(@.token), @.perm) THEN [@ EXCEPT !.pc = "handler"]
                                       ELSE NoCall]
    /\ UNCHANGED <<axNow, axRole, axTokens, axFails, axTry>>

(* The handler's transaction commits, or fails. *)
Handle(q) ==
    /\ axCall[q].pc = "handler"
    /\ axCall' = [axCall EXCEPT ![q].pc = "written"]
    /\ UNCHANGED <<axNow, axRole, axTokens, axFails, axTry>>

Respond(q) ==
    /\ axCall[q].pc \in {"read", "handler", "written"}
    /\ axCall' = [axCall EXCEPT ![q] = NoCall]
    /\ UNCHANGED <<axNow, axRole, axTokens, axFails, axTry>>

(* A role changes, or a user goes. *)
ChangeRole(l, role) ==
    /\ axRole[l] # role
    /\ axRole' = [axRole EXCEPT ![l] = role]
    /\ axCall' = [q \in Calls |-> IF axCall[q].token.login = l
                                    THEN [axCall[q] EXCEPT !.had = @ \/ May(role, axCall[q].perm)]
                                    ELSE axCall[q]]
    /\ UNCHANGED <<axNow, axTokens, axFails, axTry>>

AccessTick ==
    /\ axNow < MaxClock
    /\ axNow' = axNow + 1
    /\ axTokens' = {t \in axTokens : axNow + 1 < t.exp}     \* a token is of no use from its exp on
    /\ UNCHANGED <<axRole, axFails, axTry, axCall>>

AccessNext ==
    \/ AccessTick
    \/ \E l \in Logins : DemoLogin(l) \/ \E role \in {"admin", "auditor", "none"} : ChangeRole(l, role)
    \/ \E a \in Attempts :
          FindUser(a) \/ LoginSucceeds(a) \/ LoginFails(a) \/ LoginError(a) \/ \E l \in Logins : TryLogin(a, l)
    \/ \E q \in Calls :
          CheckRole(q) \/ Handle(q) \/ Respond(q) \/ \E t \in axTokens, p \in Asked : Call(q, t, p)

AccessSpec == AccessInit /\ [][AccessNext]_axVars

-----------------------------------------------------------------------------
(* A role that was taken away before a request came does not write through *)
(* it, though the token still carries the role and a slow login may even   *)
(* have issued it afterwards (deps.py require, auth.py                     *)
(* MUTATING_PERMISSIONS).                                                  *)
RevokedMayNotWrite ==
    \A q \in Calls : axCall[q].pc = "written" => axCall[q].had

(* A window holds no more failures of a login or an address than the limit *)
(* and the attempts that had passed the check when it was reached          *)
(* (auth.py LoginRateLimiter, routers/auth.py login).                      *)
FailuresAreLimited ==
    \A k \in Keys : Len(Recent(k)) < MaxLoginFailures + Cardinality(Attempts)

(* Roles and limits as they are now decide, whatever was read before.  *)
AccessIsCurrent == RevokedMayNotWrite /\ FailuresAreLimited

=============================================================================

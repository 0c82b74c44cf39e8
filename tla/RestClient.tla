----------------------------- MODULE RestClient -----------------------------
(***************************************************************************)
(* Requests to the exchange: every attempt pays its weight to one token    *)
(* bucket, the answer may lower the bucket, and a failure is retried after *)
(* a pause until the attempts are used up.                                 *)
(*                                                                         *)
(* Source: ingest/ratelimit.py (TokenBucket), ingest/retry.py              *)
(* (RetryPolicy), ingest/rest_client.py (BinanceRestClient._get).          *)
(*                                                                         *)
(* Time is counted in the ticks in which the bucket gains Rate tokens.     *)
(* Callers are the concurrent users of a client: backfill of gaps,         *)
(* pagination, metadata.  The exchange may answer anything; the weight it  *)
(* reports includes that of other clients of the address.                  *)
(***************************************************************************)
EXTENDS Integers, Sequences

CONSTANTS
    Callers,       \* concurrent calls of _get
    Weights,       \* request_weight of the endpoints used
    Rate,          \* refill_per_s, in tokens of a tick
    Window,        \* ticks of the exchange's minute
    MaxAttempts,   \* max_attempts
    MaxPause       \* max_retry_after_s, and the cap of the back-off

ASSUME RestAssumption ==
    /\ Rate \in Nat \ {0} /\ Window \in Nat \ {0} /\ MaxAttempts \in Nat \ {0} /\ MaxPause \in Nat
    /\ Weights \subseteq Nat \ {0}

VARIABLES
    rcTokens,   \* _tokens
    rcLock,     \* the callers that wait for the bucket's lock, in order
    rcCall,     \* per caller: where it is, its weight, attempt and pause
    rcSent      \* weight sent in the current tick and the k before it, for k up to Window

rcVars == <<rcTokens, rcLock, rcCall, rcSent>>

(* binance_request_bucket: C = L / 2 and r = C / Window. *)
Capacity == Rate * Window
Limit == 2 * Capacity

Absent == -1    \* a header the answer does not have

Finished == {"answered", "api_error", "exhausted", "banned", "rejected"}

RestInit ==
    /\ rcTokens = Capacity
    /\ rcLock = <<>>
    /\ rcCall = [c \in Callers |-> [pc |-> "idle", weight |-> 0, attempt |-> 0, pause |-> 0]]
    /\ rcSent = [k \in 0..Window |-> 0]

AtLeast0(x) == IF x < 0 THEN 0 ELSE x
AtMost(x, y) == IF x < y THEN x ELSE y

(* _get: the weight is looked up and checked once, then the first attempt  *)
(* asks for the lock.                                                      *)
Get(c) ==
    /\ rcCall[c].pc = "idle"
    /\ \E w \in Weights :
         IF w > Capacity
           THEN /\ rcCall' = [rcCall EXCEPT ![c].pc = "rejected"]
                /\ UNCHANGED rcLock
           ELSE /\ rcCall' = [rcCall EXCEPT ![c].pc = "acquire", ![c].weight = w]
                /\ rcLock' = Append(rcLock, c)
    /\ UNCHANGED <<rcTokens, rcSent>>

Admits(c) == rcTokens >= rcCall[c].weight

(* try_acquire succeeds for the holder of the lock, and the request goes   *)
(* out.  While it does not, the holder sleeps: nothing happens but time.   *)
Acquire(c) ==
    /\ rcCall[c].pc = "acquire" /\ Head(rcLock) = c /\ Admits(c)
    /\ rcTokens' = AtLeast0(rcTokens - rcCall[c].weight)
    /\ rcLock' = Tail(rcLock)
    /\ rcCall' = [rcCall EXCEPT ![c].pc = "sent"]
    /\ rcSent' = [k \in 0..Window |-> rcSent[k] + rcCall[c].weight]

(* Fault: the report of the exchange may raise the bucket. *)
FaultyObserved(tokens, used, status) ==
    IF status = "limited" THEN 0
    ELSE IF used = Absent THEN tokens
    ELSE AtLeast0(Limit - used)

(* The bucket after an answer: the reported weight only lowers it, and a   *)
(* refusal for the rate (418, 429) empties it.                             *)
Observed(tokens, used, status) ==
    IF status = "limited" THEN 0
    ELSE IF used = Absent THEN tokens
    ELSE AtLeast0(AtMost(tokens, Limit - used))

Ceil(attempt) == AtMost(MaxPause, 2 ^ attempt)

(* Fault: the attempts are not limited. *)
FaultyRetried(call, retryAfter) ==
    IF retryAfter > MaxPause THEN {[call EXCEPT !.pc = "banned"]}
    ELSE {[call EXCEPT !.pc = "pause", !.pause = 1,
                       !.attempt = AtMost(MaxAttempts - 1, call.attempt + 1)]}

(* execute: what a retryable failure leads to.  Retry-After is obeyed up   *)
(* to its limit, and without it the pause is any part of the ceiling.      *)
Retried(call, retryAfter) ==
    IF call.attempt + 1 = MaxAttempts THEN {[call EXCEPT !.pc = "exhausted"]}
    ELSE IF retryAfter > MaxPause THEN {[call EXCEPT !.pc = "banned"]}
    ELSE LET pauses == IF retryAfter # Absent THEN {retryAfter} ELSE 0..Ceil(call.attempt)
         IN {[call EXCEPT !.pc = "pause", !.pause = p, !.attempt = @ + 1] : p \in pauses}

(* The answer: success, an API error, a server error (5xx), a refusal for  *)
(* the rate, or none at all (a transport error, no header to read).        *)
Answer(c) ==
    /\ rcCall[c].pc = "sent"
    /\ \E status \in {"ok", "api", "server", "limited", "transport"},
          used \in {Absent, 0, Capacity, Limit}, retryAfter \in {Absent, 1, MaxPause + 1} :
         /\ status = "transport" => used = Absent
         /\ status \in {"ok", "api", "transport"} => retryAfter = Absent
         /\ rcTokens' = Observed(rcTokens, used, status)
         /\ IF status \in {"ok", "api"}
              THEN rcCall' = [rcCall EXCEPT ![c].pc = IF status = "ok" THEN "answered" ELSE "api_error"]
              ELSE \E next \in Retried(rcCall[c], retryAfter) : rcCall' = [rcCall EXCEPT ![c] = next]
    /\ UNCHANGED <<rcLock, rcSent>>

(* The pause is over: the next attempt asks for the lock again. *)
Retry(c) ==
    /\ rcCall[c].pc = "pause" /\ rcCall[c].pause = 0
    /\ rcCall' = [rcCall EXCEPT ![c].pc = "acquire"]
    /\ rcLock' = Append(rcLock, c)
    /\ UNCHANGED <<rcTokens, rcSent>>

(* A tick: the bucket is refilled up to its capacity, pauses shorten, and  *)
(* the window of the exchange moves on.                                    *)
Refill ==
    /\ \E c \in Callers : rcCall[c].pc \notin Finished
    /\ rcTokens' = AtMost(Capacity, rcTokens + Rate)
    /\ rcCall' = [c \in Callers |-> [rcCall[c] EXCEPT !.pause = AtLeast0(@ - 1)]]
    /\ rcSent' = [k \in 0..Window |-> IF k = 0 THEN 0 ELSE rcSent[k - 1]]
    /\ UNCHANGED rcLock

CallStep(c) == Get(c) \/ Acquire(c) \/ Answer(c) \/ Retry(c)

RestNext == Refill \/ (\E c \in Callers : CallStep(c))

RestSpec == RestInit /\ [][RestNext]_rcVars

(* Time passes, the transport answers or fails by its own timeouts, and    *)
(* the loop runs what is ready.                                            *)
RestFairness ==
    /\ WF_rcVars(Refill)
    /\ \A c \in Callers : WF_rcVars(Acquire(c)) /\ WF_rcVars(Answer(c)) /\ WF_rcVars(Retry(c))

-----------------------------------------------------------------------------
(* In no window of the exchange do all callers together, with all their    *)
(* retries, send more weight than the exchange allows (C + r * W = L),     *)
(* whatever the exchange reports.                                          *)
BudgetHeld == rcSent[Window] <= Limit

(* Every call ends: it is answered, refused or gives up.  The lock is      *)
(* handed on in order, so that no caller starves behind retries.           *)
CallEnds ==
    \A c \in Callers : rcCall[c].pc \in {"acquire", "sent", "pause"} ~> rcCall[c].pc \in Finished

=============================================================================

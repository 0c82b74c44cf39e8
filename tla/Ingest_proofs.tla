--------------------------- MODULE Ingest_proofs ---------------------------
(***************************************************************************)
(* Proofs about what stands between the exchange and the database: the     *)
(* weight budget of the REST client, the session of the ingest worker, the *)
(* connections of the WebSocket client, the recording of a session with    *)
(* its replay, the candle table, and the pipeline with its gaps, its       *)
(* backfill and the ordered release of candles.                            *)
(***************************************************************************)
EXTENDS
    RestClient, IngestSession, WsClient, SessionFile, CandleStore, IngestPipeline,
    FiniteSetTheorems, SequenceTheorems, SequenceFacts, TLAPS

-----------------------------------------------------------------------------
(* The budget. *)

Calls ==
    [pc : {"idle", "acquire", "sent", "pause", "answered", "api_error", "exhausted", "banned",
           "rejected"},
     weight : Nat, attempt : Int, pause : Int]

RestTypeOK ==
    /\ rcTokens \in Nat
    /\ rcCall \in [Callers -> Calls]
    /\ rcSent \in [0 .. Window -> Nat]

(* Tokens left and weight sent since k ticks share what the bucket held then, at
   most its capacity, and what k ticks brought. *)
TokensShared == \A k \in 0 .. Window : rcTokens + rcSent[k] <= Capacity + k * Rate

RestInv == RestTypeOK /\ TokensShared

LEMMA CapacityIsNat == Capacity \in Nat /\ Limit = Capacity + Window * Rate
BY RestAssumption DEF Capacity, Limit

(* A call stays a call whatever it goes to. *)
LEMMA CallMoved ==
    ASSUME RestTypeOK, NEW c \in Callers, NEW call \in Calls, rcCall' = [rcCall EXCEPT ![c] = call]
    PROVE  rcCall' \in [Callers -> Calls]
BY DEF RestTypeOK

LEMMA InitBudget == RestInit => RestInv
<1> SUFFICES ASSUME RestInit PROVE RestInv
  OBVIOUS
<1>1. RestTypeOK
  BY CapacityIsNat DEF RestInit, RestTypeOK, Calls
<1>2. \A k \in 0 .. Window : k * Rate >= 0
  BY RestAssumption
<1>3. TokensShared
  BY <1>2, CapacityIsNat, RestAssumption DEF RestInit, TokensShared
<1> QED BY <1>1, <1>3 DEF RestInv

LEMMA AcquireKeeps == ASSUME RestInv, NEW c \in Callers, Acquire(c) PROVE RestInv'
<1> DEFINE w == rcCall[c].weight
<1>1. w \in Nat /\ rcTokens \in Nat /\ rcTokens >= w
  BY DEF RestInv, RestTypeOK, Calls, Acquire, Admits
<1>2. /\ rcTokens' = rcTokens - w
      /\ rcCall' = [rcCall EXCEPT ![c].pc = "sent"]
      /\ rcSent' = [k \in 0 .. Window |-> rcSent[k] + w]
  BY <1>1 DEF Acquire, AtLeast0
<1> HIDE DEF w
<1>3. RestTypeOK'
  <2>1. [rcCall[c] EXCEPT !.pc = "sent"] \in Calls
    BY DEF RestInv, RestTypeOK, Calls
  <2>2. rcCall' = [rcCall EXCEPT ![c] = [rcCall[c] EXCEPT !.pc = "sent"]]
    BY <1>2
  <2>3. rcCall' \in [Callers -> Calls]
    BY <2>1, <2>2, CallMoved DEF RestInv
  <2>4. rcSent' \in [0 .. Window -> Nat] /\ rcTokens' \in Nat
    BY <1>1, <1>2 DEF RestInv, RestTypeOK
  <2> QED BY <2>3, <2>4 DEF RestTypeOK
<1>4. TokensShared'
  <2> SUFFICES ASSUME NEW k \in 0 .. Window PROVE rcTokens' + rcSent'[k] <= Capacity + k * Rate
    BY DEF TokensShared
  <2>1. rcSent[k] \in Nat /\ rcTokens + rcSent[k] <= Capacity + k * Rate /\ k * Rate \in Int
    BY RestAssumption DEF RestInv, RestTypeOK, TokensShared
  <2>2. rcTokens' + rcSent'[k] = rcTokens + rcSent[k]
    BY <1>1, <1>2, <2>1
  <2> QED BY <2>1, <2>2
<1> QED BY <1>3, <1>4 DEF RestInv

(* An answer only takes tokens away. *)
LEMMA AnswerKeeps == ASSUME RestInv, NEW c \in Callers, Answer(c) PROVE RestInv'
<1>1. PICK status \in {"ok", "api", "server", "limited", "transport"},
           used \in {Absent, 0, Capacity, Limit}, retryAfter \in {Absent, 1, MaxPause + 1} :
         /\ rcTokens' = Observed(rcTokens, used, status)
         /\ IF status \in {"ok", "api"}
              THEN rcCall' = [rcCall EXCEPT ![c].pc = IF status = "ok" THEN "answered" ELSE "api_error"]
              ELSE \E next \in Retried(rcCall[c], retryAfter) : rcCall' = [rcCall EXCEPT ![c] = next]
  BY DEF Answer
<1>2. UNCHANGED rcSent
  BY DEF Answer
<1>3. used \in Int /\ Limit \in Int /\ rcTokens \in Nat
  BY CapacityIsNat, RestAssumption DEF Absent, RestInv, RestTypeOK
<1>4. rcTokens' \in Nat /\ rcTokens' <= rcTokens
  BY <1>1, <1>3 DEF Observed, AtLeast0, AtMost
<1>5. rcCall[c] \in Calls /\ retryAfter \in Int
  BY RestAssumption DEF RestInv, RestTypeOK, Absent
<1>6. \A next \in Retried(rcCall[c], retryAfter) : next \in Calls
  <2> DEFINE call == rcCall[c]
             pauses == IF retryAfter # Absent THEN {retryAfter} ELSE 0 .. Ceil(call.attempt)
  <2>1. call.attempt + 1 \in Int /\ pauses \subseteq Int
    BY <1>5 DEF Calls
  <2> HIDE DEF pauses
  <2>2. [call EXCEPT !.pc = "exhausted"] \in Calls /\ [call EXCEPT !.pc = "banned"] \in Calls
    BY <1>5 DEF Calls
  <2>3. \A p \in pauses : [call EXCEPT !.pc = "pause", !.pause = p, !.attempt = @ + 1] \in Calls
    BY <1>5, <2>1 DEF Calls
  <2> QED BY <2>2, <2>3 DEF Retried, pauses
<1>7. rcCall' \in [Callers -> Calls]
  <2>1. CASE status \in {"ok", "api"}
    <3> DEFINE call == [rcCall[c] EXCEPT !.pc = IF status = "ok" THEN "answered" ELSE "api_error"]
    <3>1. call \in Calls
      BY <1>5 DEF Calls
    <3>2. rcCall' = [rcCall EXCEPT ![c] = call]
      BY <1>1, <2>1
    <3> QED BY <3>1, <3>2, CallMoved DEF RestInv
  <2>2. CASE status \notin {"ok", "api"}
    BY <1>1, <1>6, <2>2, CallMoved DEF RestInv
  <2> QED BY <2>1, <2>2
<1>8. RestTypeOK'
  BY <1>2, <1>4, <1>7 DEF RestInv, RestTypeOK
<1>9. TokensShared'
  <2> SUFFICES ASSUME NEW k \in 0 .. Window PROVE rcTokens' + rcSent[k] <= Capacity + k * Rate
    BY <1>2 DEF TokensShared
  <2>1. /\ rcSent[k] \in Nat /\ rcTokens + rcSent[k] <= Capacity + k * Rate
        /\ k * Rate \in Int /\ Capacity \in Nat
    BY CapacityIsNat, RestAssumption DEF RestInv, RestTypeOK, TokensShared
  <2> QED BY <1>3, <1>4, <2>1
<1> QED BY <1>8, <1>9 DEF RestInv

(* A tick brings Rate tokens and moves every age by one. *)
LEMMA RefillKeeps == ASSUME RestInv, Refill PROVE RestInv'
<1>1. /\ rcTokens' = AtMost(Capacity, rcTokens + Rate)
      /\ rcCall' = [c \in Callers |-> [rcCall[c] EXCEPT !.pause = AtLeast0(@ - 1)]]
      /\ rcSent' = [k \in 0 .. Window |-> IF k = 0 THEN 0 ELSE rcSent[k - 1]]
  BY DEF Refill
<1>2. rcTokens \in Nat /\ Capacity \in Nat /\ Rate \in Nat /\ Window \in Nat
  BY CapacityIsNat, RestAssumption DEF RestInv, RestTypeOK
<1>3. rcTokens' \in Nat /\ rcTokens' <= Capacity /\ rcTokens' <= rcTokens + Rate
  BY <1>1, <1>2 DEF AtMost
<1>4. RestTypeOK'
  <2>1. rcCall' \in [Callers -> Calls]
    <3>1. \A c \in Callers : [rcCall[c] EXCEPT !.pause = AtLeast0(@ - 1)] \in Calls
      <4> SUFFICES ASSUME NEW call \in Calls PROVE [call EXCEPT !.pause = AtLeast0(@ - 1)] \in Calls
        BY DEF RestInv, RestTypeOK
      <4>1. AtLeast0(call.pause - 1) \in Int
        BY DEF AtLeast0, Calls
      <4> QED BY <4>1 DEF Calls
    <3> QED BY <1>1, <3>1
  <2>2. rcSent' \in [0 .. Window -> Nat]
    BY <1>1, <1>2 DEF RestInv, RestTypeOK
  <2> QED BY <1>3, <2>1, <2>2 DEF RestTypeOK
<1>5. TokensShared'
  <2> SUFFICES ASSUME NEW k \in 0 .. Window PROVE rcTokens' + rcSent'[k] <= Capacity + k * Rate
    BY DEF TokensShared
  <2>1. CASE k = 0
    BY <1>1, <1>2, <1>3, <2>1
  <2>2. CASE k # 0
    <3>1. k - 1 \in 0 .. Window /\ k \in Nat
      BY <1>2, <2>2
    <3>2. rcSent'[k] = rcSent[k - 1] /\ rcSent[k - 1] \in Nat
      BY <1>1, <2>2, <3>1 DEF RestInv, RestTypeOK
    <3>3. rcTokens + rcSent[k - 1] <= Capacity + (k - 1) * Rate
      BY <3>1 DEF RestInv, TokensShared
    <3>4. (k - 1) * Rate + Rate = k * Rate /\ (k - 1) * Rate \in Int /\ k * Rate \in Int
      BY <1>2, <3>1
    <3> QED BY <1>2, <1>3, <3>2, <3>3, <3>4
  <2> QED BY <2>1, <2>2
<1> QED BY <1>4, <1>5 DEF RestInv

LEMMA QuietCall == ASSUME RestInv, NEW c \in Callers, Get(c) \/ Retry(c) PROVE RestInv'
<1>1. UNCHANGED <<rcTokens, rcSent>>
  BY DEF Get, Retry
<1>2. rcCall' \in [Callers -> Calls]
  <2>1. CASE Get(c)
    <3>1. PICK w \in Weights :
            \/ rcCall' = [rcCall EXCEPT ![c].pc = "rejected"]
            \/ rcCall' = [rcCall EXCEPT ![c].pc = "acquire", ![c].weight = w]
      BY <2>1 DEF Get
    <3>2. w \in Nat
      BY RestAssumption
    <3> DEFINE call == rcCall[c]
    <3>3. /\ [call EXCEPT !.pc = "rejected"] \in Calls
          /\ [call EXCEPT !.pc = "acquire", !.weight = w] \in Calls
      BY <3>2 DEF RestInv, RestTypeOK, Calls
    <3>4. \/ rcCall' = [rcCall EXCEPT ![c] = [call EXCEPT !.pc = "rejected"]]
          \/ rcCall' = [rcCall EXCEPT ![c] = [call EXCEPT !.pc = "acquire", !.weight = w]]
      BY <3>1 DEF RestInv, RestTypeOK
    <3> QED BY <3>3, <3>4, CallMoved DEF RestInv
  <2>2. CASE Retry(c)
    <3>1. [rcCall[c] EXCEPT !.pc = "acquire"] \in Calls
      BY DEF RestInv, RestTypeOK, Calls
    <3>2. rcCall' = [rcCall EXCEPT ![c] = [rcCall[c] EXCEPT !.pc = "acquire"]]
      BY <2>2 DEF Retry
    <3> QED BY <3>1, <3>2, CallMoved DEF RestInv
  <2> QED BY <2>1, <2>2
<1> QED BY <1>1, <1>2 DEF RestInv, RestTypeOK, TokensShared

LEMMA BudgetStep == ASSUME RestInv, [RestNext]_rcVars PROVE RestInv'
<1>1. CASE Refill
  BY <1>1, RefillKeeps
<1>2. CASE \E c \in Callers : CallStep(c)
  BY <1>2, QuietCall, AcquireKeeps, AnswerKeeps DEF CallStep
<1>3. CASE UNCHANGED rcVars
  BY <1>3 DEF rcVars, RestInv, RestTypeOK, TokensShared
<1> QED BY <1>1, <1>2, <1>3 DEF RestNext

(* However many callers and retries share the bucket, no window of the exchange
   gets more weight than it allows (TokenBucket, BinanceRestClient._get). *)
THEOREM BudgetIsHeld == RestSpec => []BudgetHeld
<1>1. RestInv => BudgetHeld
  <2> SUFFICES ASSUME RestInv PROVE BudgetHeld
    OBVIOUS
  <2>1. Window \in 0 .. Window
    BY RestAssumption
  <2>2. rcTokens + rcSent[Window] <= Limit /\ rcTokens \in Nat /\ rcSent[Window] \in Nat /\ Limit \in Int
    BY <2>1, CapacityIsNat, RestAssumption DEF RestInv, RestTypeOK, TokensShared
  <2> QED BY <2>2 DEF BudgetHeld
<1> QED BY <1>1, InitBudget, BudgetStep, PTL DEF RestSpec

-----------------------------------------------------------------------------
(* The session of the ingest worker. *)

Instruments == Range(Symbols)
ReportStatuses == {"none", "OPEN", "FILLING", "FILLED", "PARTIAL", "UNFILLABLE"}
Reports == [status : ReportStatuses, attempts : Nat]
Gaps == [symbol : Instruments, status : ReportStatuses, attempts : Nat]
Tables ==
    [journal : Seq(Int), candles : SUBSET (Instruments \X Int \X Int), gaps : Seq(Gaps),
     hours : Seq(Instruments \X Int)]

(* The numbers after a, k of them. *)
From(a, k) == [i \in 1 .. k |-> a + i]

(* The open transaction is of this kind. *)
Pending(kind) == sinkTxn # <<>> /\ sinkTxn[1].kind = kind
Alive == stage # "failed"

(* The minute in which an hour is over; and every hour that is over has its row. *)
HourEnd(h) == (h + 1) * HourCandles
Scored(s) == \A h \in Nat : HourEnd(h) <= heard[s] => h \in dqWritten[s]

IngestTypeOK ==
    /\ stage \in {"open", "running", "finishing", "ended", "failed"}
    /\ turn \in Seq(Instruments) /\ made \in Nat
    /\ gapIds \in [Instruments -> Nat]
    /\ reports \in [Instruments -> Reports]
    /\ released \in [Instruments -> Nat] /\ heard \in [Instruments -> Int]
    /\ dqWritten \in [Instruments -> SUBSET Int]
    /\ ingestDb \in Tables

(* The hours of a transaction: over, without a row, and all there are when it
   is the last of its pipeline. *)
HoursTaken(txn) ==
    /\ txn.hours \in SUBSET (0 .. heard[Now]) /\ txn.last \in BOOLEAN
    /\ txn.hours \cap dqWritten[Now] = {}
    /\ \A h \in txn.hours : HourEnd(h) <= heard[Now]
    /\ txn.last => \A h \in Nat : HourEnd(h) <= heard[Now] => h \in dqWritten[Now] \cup txn.hours

(* Where a transaction can be open, and what it carries. *)
TxnInv ==
    /\ sinkTxn # <<>> =>
         /\ sinkTxn = <<sinkTxn[1]>>
         /\ sinkTxn[1].kind \in {"flush", "candle", "gap", "hours", "end"}
         /\ stage \in {"running", "finishing"}
         /\ stage = "running" => consumer = "handling"
         /\ turn # <<>> \/ Pending("end")
    /\ Pending("end") => stage = "finishing" /\ journalBuffer = <<>>
    /\ Pending("candle") =>
         journalBuffer = <<>> /\ sinkTxn[1].candle = <<Now, released[Now], made>>
    /\ Pending("gap") => sinkTxn[1].status \in ReportStatuses /\ sinkTxn[1].new \in BOOLEAN
    /\ Pending("hours") => HoursTaken(sinkTxn[1])
    /\ stage = "ended" => journalBuffer = <<>>
    /\ stage = "open" => made = 0

JournalInv ==
    LET a == Len(ingestDb.journal)
        k == Len(Carried)
        m == Len(journalBuffer)
    IN  /\ ingestDb.journal = From(0, a)
        /\ Alive => /\ k \in Nat /\ m \in Nat
                    /\ Carried = From(a, k) /\ journalBuffer = From(a + k, m) /\ made = a + k + m

CandleInv ==
    /\ \A c \in ingestDb.candles : c[3] <= Len(ingestDb.journal)
    /\ Alive => \A s \in Instruments : \A k \in 1 .. released[s] :
                    \/ \E c \in ingestDb.candles : c[1] = s /\ c[2] = k
                    \/ Pending("candle") /\ s = Now /\ k = released[s]

(* What the table has of a gap, and the transaction adds to it, is the report. *)
Told(s) ==
    LET id    == gapIds[s]
        here  == Pending("gap") /\ s = Now
        fresh == here /\ sinkTxn[1].new
        more  == IF here /\ sinkTxn[1].status = "FILLING" THEN 1 ELSE 0
    IN  /\ id = 0 <=> reports[s].status = "none"
        /\ id = 0 => reports[s] = NoReport /\ ~here
        /\ id = 0 \/ fresh => \A i \in DOMAIN ingestDb.gaps : ingestDb.gaps[i].symbol # s
        /\ fresh => id = Len(ingestDb.gaps) + 1 /\ reports[s].attempts = 0
        /\ here => reports[s].status = sinkTxn[1].status
        /\ id # 0 /\ ~fresh =>
              /\ id \in DOMAIN ingestDb.gaps /\ ingestDb.gaps[id].symbol = s
              /\ ~here => ingestDb.gaps[id].status = reports[s].status
              /\ reports[s].attempts = ingestDb.gaps[id].attempts + more

OneRow(gaps) == \A i, j \in DOMAIN gaps : gaps[i].symbol = gaps[j].symbol => i = j

GapInv == OneRow(ingestDb.gaps) /\ (Alive => \A s \in Instruments : Told(s))

(* What a sink remembers of the hours is in the table, and they are over; what
   is not remembered yet is in the open transaction or follows its candle. *)
HoursKnown(s) == \A h \in Int : <<s, h>> \in Range(ingestDb.hours) <=> h \in dqWritten[s]
HoursOver(s) ==
    /\ released[s] - 1 <= heard[s]
    /\ \A h \in dqWritten[s] : HourEnd(h) <= heard[s]
    /\ \A h \in Nat : HourEnd(h) < released[s] =>
          \/ h \in dqWritten[s]
          \/ Pending("candle") /\ s = Now
          \/ Pending("hours") /\ s = Now /\ h \in sinkTxn[1].hours

HourInv ==
    /\ IsInjective(ingestDb.hours)
    /\ Alive => \A s \in Instruments :
          /\ HoursKnown(s) /\ HoursOver(s)
          /\ stage \in {"finishing", "ended"} /\ s \notin Range(turn) => Scored(s)

IngestInv == IngestTypeOK /\ TxnInv /\ JournalInv /\ CandleInv /\ GapInv /\ HourInv

-----------------------------------------------------------------------------
(* Runs of numbers, and sequences without repetition. *)

LEMMA RunOfNumbers ==
    ASSUME NEW a \in Int, NEW k \in Nat
    PROVE  From(a, k) \in Seq(Int) /\ Len(From(a, k)) = k /\ DOMAIN From(a, k) = 1 .. k
           /\ (\A i \in 1 .. k : From(a, k)[i] = a + i)
BY DEF From

LEMMA JoinedAt ==
    ASSUME NEW S, NEW x \in Seq(S), NEW y \in Seq(S)
    PROVE  /\ x \o y \in Seq(S) /\ Len(x \o y) = Len(x) + Len(y)
           /\ \A i \in 1 .. Len(x) : (x \o y)[i] = x[i]
           /\ \A i \in 1 .. Len(y) : (x \o y)[Len(x) + i] = y[i]
OBVIOUS

LEMMA JoinedRuns ==
    ASSUME NEW k \in Nat, NEW m \in Nat
    PROVE  From(0, k) \o From(k, m) = From(0, k + m)
<1> DEFINE x == From(0, k)
           y == From(k, m)
           z == From(0, k + m)
           w == x \o y
           S == Int
<1>1. /\ x \in Seq(Int) /\ Len(x) = k /\ (\A i \in 1 .. k : x[i] = 0 + i)
      /\ y \in Seq(Int) /\ Len(y) = m /\ (\A i \in 1 .. m : y[i] = k + i)
      /\ z \in Seq(Int) /\ Len(z) = k + m /\ (\A i \in 1 .. (k + m) : z[i] = 0 + i)
  <2>1. k + m \in Nat /\ 0 \in Int /\ k \in Int
    OBVIOUS
  <2>2. x \in Seq(Int) /\ Len(x) = k /\ (\A i \in 1 .. k : x[i] = 0 + i)
    BY <2>1, RunOfNumbers, Zenon
  <2>3. y \in Seq(Int) /\ Len(y) = m /\ (\A i \in 1 .. m : y[i] = k + i)
    BY <2>1, RunOfNumbers, Zenon
  <2>4. z \in Seq(Int) /\ Len(z) = k + m /\ (\A i \in 1 .. (k + m) : z[i] = 0 + i)
    BY <2>1, RunOfNumbers, Zenon
  <2> QED BY <2>2, <2>3, <2>4, Zenon
<1>2. x \in Seq(S) /\ y \in Seq(S)
  BY <1>1
<1> HIDE DEF x, y, z, S
<1>3. /\ w \in Seq(S) /\ Len(w) = k + m
      /\ (\A i \in 1 .. k : w[i] = x[i]) /\ (\A i \in 1 .. m : w[k + i] = y[i])
  <2>1. /\ w \in Seq(S) /\ Len(w) = Len(x) + Len(y)
        /\ \A i \in 1 .. Len(x) : w[i] = x[i]
        /\ \A i \in 1 .. Len(y) : w[Len(x) + i] = y[i]
    BY <1>2, JoinedAt
  <2>2. Len(x) = k /\ Len(y) = m
    BY <1>1
  <2> HIDE DEF w
  <2> QED BY <2>1, <2>2
<1> HIDE DEF w
<1>4. ASSUME NEW i \in 1 .. (k + m) PROVE w[i] = z[i]
  <2>1. CASE i <= k
    BY <1>1, <1>3, <2>1
  <2>2. CASE i > k
    <3>1. i - k \in 1 .. m /\ k + (i - k) = i
      BY <2>2
    <3>2. w[i] = y[i - k]
      BY <1>3, <3>1
    <3> QED BY <1>1, <3>1, <3>2
  <2>3. i <= k \/ i > k
    OBVIOUS
  <2> QED BY <2>1, <2>2, <2>3, Zenon
<1>5. w = z
  BY <1>1, <1>3, <1>4, SeqEqual DEF S
<1> QED BY <1>5 DEF w, x, y, z

LEMMA LongerRun ==
    ASSUME NEW a \in Int, NEW m \in Nat
    PROVE  Append(From(a, m), a + m + 1) = From(a, m + 1)
<1> DEFINE x == From(a, m)
           z == From(a, m + 1)
           y == Append(x, a + m + 1)
<1>1. /\ x \in Seq(Int) /\ Len(x) = m /\ (\A i \in 1 .. m : x[i] = a + i)
      /\ z \in Seq(Int) /\ Len(z) = m + 1 /\ (\A i \in 1 .. (m + 1) : z[i] = a + i)
  BY RunOfNumbers
<1> HIDE DEF x, z
<1>2. y \in Seq(Int) /\ Len(y) = m + 1 /\ (\A i \in 1 .. (m + 1) : y[i] = a + i)
  BY <1>1
<1> HIDE DEF y
<1>3. y = z
  BY <1>1, <1>2, SeqEqual
<1> QED BY <1>3 DEF x, y, z

LEMMA EmptyRun == ASSUME NEW a \in Int PROVE From(a, 0) = <<>>
<1>1. Len(From(a, 0)) = 0 /\ From(a, 0) \in Seq(Int)
  BY RunOfNumbers
<1> QED BY <1>1

LEMMA FirstNumber == From(0, 1) = <<1>>
<1> DEFINE x == From(0, 1)
           y == <<1>>
<1>1. x \in Seq(Int) /\ Len(x) = 1 /\ x[1] = 1
  BY DEF From
<1>2. y \in Seq(Int) /\ Len(y) = 1 /\ y[1] = 1
  OBVIOUS
<1> HIDE DEF x, y
<1>3. \A i \in 1 .. Len(x) : x[i] = y[i]
  BY <1>1, <1>2
<1>4. x = y
  BY <1>1, <1>2, <1>3, SeqEqual
<1> QED BY <1>4 DEF x, y

LEMMA Listed ==
    ASSUME NEW S, IsFiniteSet(S)
    PROVE  SetToSeq(S) \in Seq(S) /\ IsInjective(SetToSeq(S)) /\ Range(SetToSeq(S)) = S
<1> DEFINE n == Cardinality(S)
           d == 1 .. n
<1>1. n \in Nat /\ ExistsBijection(d, S)
  BY FS_CardinalityType
<1>2. \E f \in [d -> S] : IsInjective(f)
  BY <1>1, Zenon DEF ExistsBijection, Bijection, Injection
<1>3. SetToSeq(S) \in [d -> S] /\ IsInjective(SetToSeq(S))
  BY <1>2, Zenon DEF SetToSeq
<1>4. IsFiniteSet(d) /\ Cardinality(d) = n
  BY <1>1, FS_Interval
<1> DEFINE q == SetToSeq(S)
<1> HIDE DEF d
<1>5. q \in Injection(d, S)
  BY <1>3, Zenon DEF Injection
<1>6. q \in Surjection(d, S)
  BY <1>4, <1>5, FS_Injection, Zenon
<1>7. Range(q) = S
  BY <1>3, <1>6 DEF Range, Surjection
<1>8. q \in Seq(S)
  BY <1>1, <1>3 DEF d
<1> QED BY <1>3, <1>7, <1>8

LEMMA JoinedLists ==
    ASSUME NEW S, NEW x \in Seq(S), NEW y \in Seq(S)
    PROVE  /\ x \o y \in Seq(S) /\ Range(x \o y) = Range(x) \cup Range(y)
           /\ (IsInjective(x) /\ IsInjective(y) /\ Range(x) \cap Range(y) = {}
                 => IsInjective(x \o y))
<1> DEFINE z == x \o y
           n == Len(x)
           m == Len(y)
<1>1. /\ z \in Seq(S) /\ n \in Nat /\ m \in Nat
      /\ DOMAIN x = 1 .. n /\ DOMAIN y = 1 .. m /\ DOMAIN z = 1 .. (n + m)
  OBVIOUS
<1>2. /\ \A i \in 1 .. n : z[i] = x[i] /\ i \in 1 .. (n + m)
      /\ \A i \in 1 .. m : z[n + i] = y[i] /\ n + i \in 1 .. (n + m)
  OBVIOUS
<1> HIDE DEF z, n, m
<1>3. \A i \in 1 .. (n + m) : i \in 1 .. n \/ (i - n \in 1 .. m /\ n + (i - n) = i)
  BY <1>1
<1>4. Range(z) = Range(x) \cup Range(y)
  <2>1. Range(z) \subseteq Range(x) \cup Range(y)
    <3> SUFFICES ASSUME NEW i \in 1 .. (n + m) PROVE z[i] \in Range(x) \cup Range(y)
      BY <1>1 DEF Range
    <3>1. CASE i \in 1 .. n
      BY <1>1, <1>2, <3>1 DEF Range
    <3>2. CASE i - n \in 1 .. m /\ n + (i - n) = i
      <4>1. z[i] = y[i - n]
        BY <1>2, <3>2
      <4> QED BY <1>1, <3>2, <4>1 DEF Range
    <3> QED BY <1>3, <3>1, <3>2
  <2>2. Range(x) \subseteq Range(z)
    BY <1>1, <1>2 DEF Range
  <2>3. Range(y) \subseteq Range(z)
    <3> SUFFICES ASSUME NEW i \in 1 .. m PROVE y[i] \in Range(z)
      BY <1>1 DEF Range
    <3> QED BY <1>1, <1>2 DEF Range
  <2> QED BY <2>1, <2>2, <2>3
<1>5. ASSUME IsInjective(x), IsInjective(y), Range(x) \cap Range(y) = {} PROVE IsInjective(z)
  <2> SUFFICES ASSUME NEW i \in 1 .. (n + m), NEW j \in 1 .. (n + m), z[i] = z[j] PROVE i = j
    BY <1>1 DEF IsInjective
  <2>1. i \in Int /\ j \in Int /\ n \in Int
    BY <1>1
  <2>2. \A k \in 1 .. (n + m) : \/ k \in 1 .. n /\ z[k] = x[k] /\ x[k] \in Range(x)
                                \/ k - n \in 1 .. m /\ z[k] = y[k - n] /\ y[k - n] \in Range(y)
    <3> SUFFICES ASSUME NEW k \in 1 .. (n + m)
                 PROVE  \/ k \in 1 .. n /\ z[k] = x[k] /\ x[k] \in Range(x)
                        \/ k - n \in 1 .. m /\ z[k] = y[k - n] /\ y[k - n] \in Range(y)
      OBVIOUS
    <3>1. CASE k \in 1 .. n
      BY <1>1, <1>2, <3>1 DEF Range
    <3>2. CASE k - n \in 1 .. m /\ n + (k - n) = k
      BY <1>1, <1>2, <3>2 DEF Range
    <3> QED BY <1>3, <3>1, <3>2
  <2>3. CASE i \in 1 .. n /\ j \in 1 .. n /\ x[i] = x[j]
    BY <1>1, <1>5, <2>3 DEF IsInjective
  <2>4. CASE i - n \in 1 .. m /\ j - n \in 1 .. m /\ y[i - n] = y[j - n]
    <3>1. i - n = j - n
      BY <1>1, <1>5, <2>4 DEF IsInjective
    <3> QED BY <2>1, <3>1
  <2> QED BY <1>5, <2>2, <2>3, <2>4
<1> QED BY <1>1, <1>4, <1>5 DEF z

-----------------------------------------------------------------------------
(* Hours. *)

LEMMA HourEnds == ASSUME NEW h \in Nat PROVE HourEnd(h) \in Int /\ h < HourEnd(h)
<1> DEFINE d == HourCandles - 1
<1>1. d \in Nat /\ HourCandles = d + 1
  BY IngestAssumption
<1>2. (h + 1) * d \in Nat
  BY <1>1
<1> HIDE DEF d
<1>3. (h + 1) * (d + 1) = (h + 1) * d + (h + 1)
  BY <1>1
<1> QED BY <1>1, <1>2, <1>3 DEF HourEnd

LEMMA HoursDue ==
    ASSUME NEW s, NEW latest \in Int, NEW d, d = DueHours(s, latest)
    PROVE  /\ d \in SUBSET (0 .. latest) /\ d \cap dqWritten[s] = {}
           /\ \A h \in d : HourEnd(h) <= latest
           /\ \A h \in Nat : HourEnd(h) <= latest => h \in dqWritten[s] \cup d
<1>1. ASSUME NEW h \in Nat, HourEnd(h) <= latest PROVE h \in 0 .. latest
  BY <1>1, HourEnds
<1> QED BY <1>1, Zenon DEF DueHours, HourEnd

LEMMA HoursOfLive ==
    ASSUME IngestInv, Alive, NEW s \in Instruments
    PROVE  /\ HoursKnown(s) /\ HoursOver(s)
           /\ stage \in {"finishing", "ended"} /\ s \notin Range(turn) => Scored(s)
BY Zenon DEF IngestInv, HourInv

LEMMA RestOfTurn ==
    ASSUME turn \in Seq(Instruments), turn # <<>>, NEW s, s \in Range(turn), s # Now
    PROVE  s \in Range(Tail(turn))
<1>1. PICK i \in 1 .. Len(turn) : turn[i] = s
  BY DEF Range
<1>2. i # 1
  BY <1>1 DEF Now
<1>3. i - 1 \in 1 .. Len(Tail(turn)) /\ Tail(turn)[i - 1] = s
  BY <1>1, <1>2
<1>4. i - 1 \in DOMAIN Tail(turn)
  BY <1>3
<1> QED BY <1>3, <1>4 DEF Range

-----------------------------------------------------------------------------
(* A commit. *)

LEMMA OpenTxn ==
    ASSUME IngestInv, sinkTxn # <<>>
    PROVE  /\ Alive /\ sinkTxn[1].kind \in {"flush", "candle", "gap", "hours", "end"}
           /\ Carried = sinkTxn[1].entries
           /\ ~Pending("end") => turn # <<>> /\ Now \in Instruments
           /\ Len(ingestDb.journal) \in Nat /\ Len(Carried) \in Nat /\ Len(journalBuffer) \in Nat
           /\ ingestDb \in Tables
<1>1. /\ sinkTxn[1].kind \in {"flush", "candle", "gap", "hours", "end"}
      /\ stage \in {"running", "finishing"}
      /\ turn # <<>> \/ Pending("end")
  BY Zenon DEF IngestInv, TxnInv
<1>2. turn \in Seq(Instruments) /\ ingestDb \in Tables /\ Len(ingestDb.journal) \in Nat
  BY DEF IngestInv, IngestTypeOK, Tables
<1>3. Alive /\ Carried = sinkTxn[1].entries
  BY <1>1 DEF Alive, Carried
<1>4. Len(Carried) \in Nat /\ Len(journalBuffer) \in Nat
  BY <1>3 DEF IngestInv, JournalInv
<1> QED BY <1>1, <1>2, <1>3, <1>4 DEF Now

(* The journal once the open transaction is committed. *)
JournalAfter == From(0, Len(ingestDb.journal) + Len(Carried))

LEMMA EntriesCommitted ==
    ASSUME IngestInv, sinkTxn # <<>>,
           NEW d, d = [ingestDb EXCEPT !.journal = @ \o sinkTxn[1].entries]
    PROVE  /\ d \in Tables /\ d.journal = JournalAfter
           /\ d.candles = ingestDb.candles /\ d.gaps = ingestDb.gaps /\ d.hours = ingestDb.hours
<1> DEFINE a == Len(ingestDb.journal)
           k == Len(Carried)
           new == ingestDb.journal \o sinkTxn[1].entries
<1>1. a \in Nat /\ k \in Nat /\ ingestDb \in Tables
  BY OpenTxn
<1>2. ingestDb.journal = From(0, a) /\ sinkTxn[1].entries = From(a, k)
  BY OpenTxn DEF IngestInv, JournalInv
<1>3. new = From(0, a + k)
  BY <1>1, <1>2, JoinedRuns, Zenon
<1>4. From(0, a + k) \in Seq(Int)
  <2>1. a + k \in Nat /\ 0 \in Int
    BY <1>1
  <2> HIDE DEF a, k
  <2> QED BY <2>1, RunOfNumbers
<1>5. new \in Seq(Int) /\ new = JournalAfter
  BY <1>3, <1>4 DEF JournalAfter
<1>6. d = [ingestDb EXCEPT !.journal = new]
  OBVIOUS
<1> HIDE DEF new
<1> QED BY <1>1, <1>5, <1>6, Zenon DEF Tables

LEMMA CommittedPlain ==
    ASSUME IngestInv, Pending("flush") \/ Pending("end"),
           NEW d, d = Committed(ingestDb, sinkTxn[1])
    PROVE  /\ d \in Tables /\ d.journal = JournalAfter
           /\ d.candles = ingestDb.candles /\ d.gaps = ingestDb.gaps /\ d.hours = ingestDb.hours
<1>1. d = [ingestDb EXCEPT !.journal = @ \o sinkTxn[1].entries] /\ sinkTxn # <<>>
  BY DEF Pending, Committed
<1> QED BY <1>1, EntriesCommitted

LEMMA CommittedCandle ==
    ASSUME IngestInv, Pending("candle"), NEW d, d = Committed(ingestDb, sinkTxn[1])
    PROVE  /\ d \in Tables /\ d.journal = JournalAfter
           /\ d.candles = ingestDb.candles \cup {<<Now, released[Now], made>>}
           /\ d.gaps = ingestDb.gaps /\ d.hours = ingestDb.hours
<1> DEFINE d0 == [ingestDb EXCEPT !.journal = @ \o sinkTxn[1].entries]
           x == ingestDb.candles \cup {<<Now, released[Now], made>>}
<1>1. d = [d0 EXCEPT !.candles = @ \cup {sinkTxn[1].candle}] /\ sinkTxn # <<>>
  BY DEF Pending, Committed
<1>2. /\ d0 \in Tables /\ d0.journal = JournalAfter
      /\ d0.candles = ingestDb.candles /\ d0.gaps = ingestDb.gaps /\ d0.hours = ingestDb.hours
  BY <1>1, EntriesCommitted
<1>3. sinkTxn[1].candle = <<Now, released[Now], made>>
  BY DEF IngestInv, TxnInv
<1>4. Now \in Instruments /\ released[Now] \in Int /\ made \in Int
  BY <1>1, OpenTxn DEF Pending, IngestInv, IngestTypeOK
<1> HIDE DEF d0
<1>5. x \in SUBSET (Instruments \X Int \X Int)
  BY <1>2, <1>4 DEF Tables
<1>6. d = [d0 EXCEPT !.candles = x]
  BY <1>1, <1>2, <1>3
<1> HIDE DEF x
<1>7. /\ d \in Tables /\ d.journal = d0.journal /\ d.candles = x
      /\ d.gaps = d0.gaps /\ d.hours = d0.hours
  BY <1>2, <1>5, <1>6, Zenon DEF Tables
<1> QED BY <1>2, <1>7 DEF x

LEMMA CommittedHours ==
    ASSUME IngestInv, Pending("hours"), NEW d, d = Committed(ingestDb, sinkTxn[1])
    PROVE  /\ d \in Tables /\ d.journal = JournalAfter
           /\ d.candles = ingestDb.candles /\ d.gaps = ingestDb.gaps
           /\ IsInjective(d.hours)
           /\ Range(d.hours) = Range(ingestDb.hours) \cup {<<Now, h>> : h \in sinkTxn[1].hours}
<1> DEFINE d0 == [ingestDb EXCEPT !.journal = @ \o sinkTxn[1].entries]
           T == sinkTxn[1].hours
           S == {<<Now, h>> : h \in T}
           f == [h \in T |-> <<Now, h>>]
           x == ingestDb.hours \o SetToSeq(S)
           Hours == Instruments \X Int
<1>1. d = [d0 EXCEPT !.hours = @ \o SetToSeq(S)] /\ sinkTxn # <<>>
  BY DEF Pending, Committed
<1>2. /\ d0 \in Tables /\ d0.journal = JournalAfter
      /\ d0.candles = ingestDb.candles /\ d0.gaps = ingestDb.gaps /\ d0.hours = ingestDb.hours
  BY <1>1, EntriesCommitted
<1>3. T \in SUBSET (0 .. heard[Now]) /\ Now \in Instruments
      /\ heard[Now] \in Int
      /\ T \cap dqWritten[Now] = {}
  BY <1>1, OpenTxn DEF Pending, IngestInv, TxnInv, HoursTaken, IngestTypeOK
<1>4. IsFiniteSet(S)
  <2>1. IsFiniteSet(0 .. heard[Now])
    BY <1>3, FS_Interval
  <2> HIDE DEF T
  <2>2. IsFiniteSet(T)
    BY <1>3, <2>1, FS_Subset
  <2>3. f \in [T -> S] /\ \A y \in S : \E h \in T : f[h] = y
    OBVIOUS
  <2> HIDE DEF f, S
  <2>4. f \in Surjection(T, S)
    BY <2>3, Zenon DEF Surjection
  <2> QED BY <2>2, <2>4, FS_Surjection, Zenon
<1>5. S \subseteq Hours /\ ingestDb.hours \in Seq(Hours) /\ IsInjective(ingestDb.hours)
  <2>1. S \subseteq Hours
    BY <1>3
  <2> QED BY <2>1, OpenTxn, <1>1 DEF Tables, IngestInv, HourInv, HoursKnown, HoursOver
<1>6. Range(ingestDb.hours) \cap S = {}
  <2>1. \A h \in T : h \in Int /\ h \notin dqWritten[Now]
    BY <1>3
  <2>2. \A h \in Int : <<Now, h>> \in Range(ingestDb.hours) <=> h \in dqWritten[Now]
    BY <1>1, <1>3, OpenTxn DEF IngestInv, HourInv, HoursKnown, HoursOver
  <2> QED BY <2>1, <2>2
<1> HIDE DEF d0, S, T, Hours
<1>7. SetToSeq(S) \in Seq(S) /\ IsInjective(SetToSeq(S)) /\ Range(SetToSeq(S)) = S
  BY <1>4, Listed
<1>8. SetToSeq(S) \in Seq(Hours)
  BY <1>5, <1>7, SeqMonotonic
<1>9. x \in Seq(Hours) /\ Range(x) = Range(ingestDb.hours) \cup S /\ IsInjective(x)
  BY <1>5, <1>6, <1>7, <1>8, JoinedLists
<1>10. d = [d0 EXCEPT !.hours = x]
  BY <1>1, <1>2
<1> HIDE DEF x
<1>11. /\ d \in Tables /\ d.journal = d0.journal /\ d.candles = d0.candles
       /\ d.gaps = d0.gaps /\ d.hours = x
  BY <1>2, <1>9, <1>10, Zenon DEF Tables, Hours
<1> QED BY <1>2, <1>9, <1>11 DEF S, T

(* The table has of the gap of s what the pipeline said last. *)
RowTold(gaps, s) ==
    LET id == gapIds[s]
    IN  IF id = 0 THEN \A i \in DOMAIN gaps : gaps[i].symbol # s
        ELSE /\ id \in DOMAIN gaps /\ gaps[id].symbol = s
             /\ gaps[id].status = reports[s].status /\ gaps[id].attempts = reports[s].attempts

LEMMA OtherRowsTold ==
    ASSUME IngestInv, sinkTxn # <<>>, NEW s \in Instruments, ~(Pending("gap") /\ s = Now)
    PROVE  RowTold(ingestDb.gaps, s)
<1>1. Told(s) /\ gapIds[s] \in Nat /\ reports[s] \in Reports /\ ingestDb.gaps \in Seq(Gaps)
  BY OpenTxn DEF IngestInv, GapInv, IngestTypeOK, Tables
<1>2. ASSUME gapIds[s] # 0 PROVE ingestDb.gaps[gapIds[s]].attempts = reports[s].attempts
  <2>1. reports[s].attempts = ingestDb.gaps[gapIds[s]].attempts + 0 /\ gapIds[s] \in DOMAIN ingestDb.gaps
    BY <1>1, <1>2 DEF Told
  <2>2. ingestDb.gaps[gapIds[s]] \in Gaps
    <3> HIDE DEF Gaps
    <3> QED BY <1>1, <2>1
  <2> QED BY <2>1, <2>2 DEF Gaps
<1> QED BY <1>1, <1>2 DEF Told, RowTold

LEMMA CommittedGap ==
    ASSUME IngestInv, Pending("gap"), NEW d, d = Committed(ingestDb, sinkTxn[1])
    PROVE  /\ d \in Tables /\ d.journal = JournalAfter
           /\ d.candles = ingestDb.candles /\ d.hours = ingestDb.hours
           /\ OneRow(d.gaps) /\ \A s \in Instruments : RowTold(d.gaps, s)
<1> DEFINE d0 == [ingestDb EXCEPT !.journal = @ \o sinkTxn[1].entries]
           t == sinkTxn[1]
           id == gapIds[Now]
           g == ingestDb.gaps
           row == [symbol |-> Now, status |-> t.status, attempts |-> 0]
           told == Updated(g[id], t.status)
<1>1. /\ d = IF t.new THEN [d0 EXCEPT !.gaps = Append(@, row)]
             ELSE [d0 EXCEPT !.gaps[id] = Updated(@, t.status)]
      /\ sinkTxn # <<>>
  BY DEF Pending, Committed
<1>2. /\ d0 \in Tables /\ d0.journal = JournalAfter
      /\ d0.candles = ingestDb.candles /\ d0.gaps = g /\ d0.hours = ingestDb.hours
  BY <1>1, EntriesCommitted
<1>3. /\ Now \in Instruments /\ t.status \in ReportStatuses /\ t.new \in BOOLEAN /\ id \in Nat
      /\ g \in Seq(Gaps) /\ OneRow(g) /\ Told(Now)
      /\ reports[Now].attempts \in Nat
  BY <1>1, OpenTxn DEF Pending, IngestInv, IngestTypeOK, TxnInv, GapInv, Tables, Reports
<1>4. /\ id # 0 /\ reports[Now].status = t.status
      /\ t.new => /\ \A i \in DOMAIN g : g[i].symbol # Now
                  /\ id = Len(g) + 1 /\ reports[Now].attempts = 0
      /\ ~t.new => /\ id \in DOMAIN g /\ g[id].symbol = Now
                   /\ reports[Now].attempts = g[id].attempts + (IF t.status = "FILLING" THEN 1 ELSE 0)
  BY <1>3 DEF Told, Pending
<1>5. \A s \in Instruments : s # Now => RowTold(g, s)
  BY <1>1, OtherRowsTold
<1> HIDE DEF d0, t, id, g
<1>6. CASE t.new
  <2> DEFINE x == Append(g, row)
             n == Len(g)
  <2>1. row \in Gaps
    BY <1>3 DEF Gaps
  <2>2. d = [d0 EXCEPT !.gaps = x]
    BY <1>1, <1>2, <1>6
  <2>3. /\ x \in Seq(Gaps) /\ n \in Nat /\ DOMAIN g = 1 .. n /\ DOMAIN x = 1 .. (n + 1)
        /\ x[n + 1] = row /\ \A i \in 1 .. n : x[i] = g[i]
    <3> HIDE DEF Gaps, row
    <3> QED BY <1>3, <2>1
  <2> HIDE DEF x
  <2>4. /\ d \in Tables /\ d.journal = d0.journal /\ d.candles = d0.candles
        /\ d.gaps = x /\ d.hours = d0.hours
    BY <1>2, <2>2, <2>3, Zenon DEF Tables
  <2>5. row.symbol = Now /\ row.status = t.status /\ row.attempts = 0
    OBVIOUS
  <2> HIDE DEF row, n
  <2>6. \A i \in 1 .. (n + 1) : i \in 1 .. n \/ i = n + 1
    BY <2>3
  <2>7. OneRow(x)
    BY <1>3, <1>4, <1>6, <2>3, <2>5, <2>6 DEF OneRow
  <2>8. ASSUME NEW s \in Instruments PROVE RowTold(x, s)
    <3>1. CASE s = Now
      <4>1. gapIds[s] = n + 1 /\ n + 1 \in DOMAIN x /\ n + 1 # 0
        BY <1>4, <1>6, <2>3, <3>1 DEF id, n
      <4>2. reports[s].status = t.status /\ reports[s].attempts = 0
        BY <1>4, <1>6, <3>1
      <4> QED BY <2>3, <2>5, <3>1, <4>1, <4>2 DEF RowTold
    <3>2. CASE s # Now
      <4>1. RowTold(g, s)
        BY <1>5, <3>2
      <4>2. CASE gapIds[s] = 0
        BY <2>3, <2>5, <2>6, <3>2, <4>1, <4>2 DEF RowTold
      <4>3. CASE gapIds[s] # 0
        <5>1. gapIds[s] \in 1 .. n /\ gapIds[s] \in 1 .. (n + 1)
          BY <2>3, <4>1, <4>3 DEF RowTold
        <5> QED BY <2>3, <4>1, <4>3, <5>1 DEF RowTold
      <4> QED BY <4>2, <4>3
    <3> QED BY <3>1, <3>2
  <2> QED BY <1>2, <2>4, <2>7, <2>8
<1>7. CASE ~t.new
  <2> DEFINE x == [g EXCEPT ![id] = told]
  <2>1. id \in DOMAIN g /\ g[id] \in Gaps /\ g[id].symbol = Now
    <3> HIDE DEF Gaps
    <3> QED BY <1>3, <1>4, <1>7
  <2>2. told \in Gaps /\ told.symbol = Now /\ told.status = t.status
        /\ told.attempts = g[id].attempts + (IF t.status = "FILLING" THEN 1 ELSE 0)
    <3>1. g[id].attempts + (IF t.status = "FILLING" THEN 1 ELSE 0) \in Nat
      BY <2>1 DEF Gaps
    <3>2. told \in Gaps
      BY <1>3, <2>1, <3>1, Zenon DEF Gaps, Updated
    <3> QED BY <2>1, <3>2 DEF Gaps, Updated
  <2>3. d = [d0 EXCEPT !.gaps = x]
    <3>1. d = [d0 EXCEPT !.gaps = [d0.gaps EXCEPT ![id] = Updated(d0.gaps[id], t.status)]]
      BY <1>1, <1>7, Zenon
    <3>2. d0.gaps = g
      BY <1>2
    <3> QED BY <3>1, <3>2, Zenon
  <2> HIDE DEF told
  <2>4. /\ x \in Seq(Gaps) /\ DOMAIN x = DOMAIN g /\ x[id] = told
        /\ \A i \in DOMAIN g : i # id => x[i] = g[i]
    <3> HIDE DEF Gaps
    <3> QED BY <1>3, <2>1, <2>2
  <2> HIDE DEF x
  <2>5. /\ d \in Tables /\ d.journal = d0.journal /\ d.candles = d0.candles
        /\ d.gaps = x /\ d.hours = d0.hours
    BY <1>2, <2>3, <2>4, Zenon DEF Tables
  <2>6. \A i \in DOMAIN g : x[i].symbol = g[i].symbol
    BY <2>1, <2>2, <2>4
  <2>7. OneRow(x)
    BY <1>3, <2>4, <2>6 DEF OneRow
  <2>8. ASSUME NEW s \in Instruments PROVE RowTold(x, s)
    <3>1. CASE s = Now
      <4>1. gapIds[s] = id
        BY <3>1 DEF id
      <4> QED BY <1>4, <1>7, <2>1, <2>2, <2>4, <3>1, <4>1 DEF RowTold
    <3>2. CASE s # Now
      <4>1. RowTold(g, s)
        BY <1>5, <3>2
      <4>2. CASE gapIds[s] = 0
        BY <2>4, <2>6, <4>1, <4>2 DEF RowTold
      <4>3. CASE gapIds[s] # 0
        <5>1. gapIds[s] # id
          BY <2>1, <3>2, <4>1, <4>3 DEF RowTold
        <5> QED BY <2>4, <4>1, <4>3, <5>1 DEF RowTold
      <4> QED BY <4>2, <4>3
    <3> QED BY <3>1, <3>2
  <2> QED BY <1>2, <2>5, <2>7, <2>8
<1> QED BY <1>3, <1>6, <1>7

(* Every candle released is stored, and the hours with a row are those written
   or in the open transaction. *)
CandlesStored(candles) ==
    \A s \in Instruments : \A k \in 1 .. released[s] : \E c \in candles : c[1] = s /\ c[2] = k
HoursListed(hours) ==
    \A s \in Instruments : \A h \in Int :
        <<s, h>> \in Range(hours)
           <=> h \in dqWritten[s] \/ (Pending("hours") /\ s = Now /\ h \in sinkTxn[1].hours)

(* Whatever the transaction was, its commit leaves the tables in step with
   what the session remembers. *)
LEMMA AfterCommit ==
    ASSUME IngestInv, sinkTxn # <<>>, NEW d, d = Committed(ingestDb, sinkTxn[1])
    PROVE  /\ d \in Tables /\ d.journal = JournalAfter
           /\ \A c \in d.candles : c[3] <= Len(ingestDb.journal) + Len(Carried)
           /\ CandlesStored(d.candles) /\ HoursListed(d.hours)
           /\ OneRow(d.gaps) /\ \A s \in Instruments : RowTold(d.gaps, s)
           /\ IsInjective(d.hours)
<1> DEFINE a == Len(ingestDb.journal)
           k == Len(Carried)
           x == <<Now, released[Now], made>>
<1>1. /\ Alive /\ sinkTxn[1].kind \in {"flush", "candle", "gap", "hours", "end"}
      /\ a \in Nat /\ k \in Nat /\ Len(journalBuffer) \in Nat /\ ingestDb \in Tables
  BY OpenTxn
<1>2. /\ \A c \in ingestDb.candles : c[3] <= a /\ c[3] \in Int
      /\ \A s \in Instruments : \A j \in 1 .. released[s] :
                    \/ \E c \in ingestDb.candles : c[1] = s /\ c[2] = j
                    \/ Pending("candle") /\ s = Now /\ j = released[s]
  BY <1>1 DEF IngestInv, CandleInv, Tables
<1>3. OneRow(ingestDb.gaps) /\ IsInjective(ingestDb.hours)
  BY DEF IngestInv, GapInv, HourInv
<1>4. \A s \in Instruments : \A h \in Int : <<s, h>> \in Range(ingestDb.hours) <=> h \in dqWritten[s]
  BY <1>1, HoursOfLive DEF HoursKnown
<1>5. \A c \in ingestDb.candles : c[3] <= a + k
  BY <1>1, <1>2
<1>6. ~Pending("gap") => \A s \in Instruments : RowTold(ingestDb.gaps, s)
  BY OtherRowsTold
<1>7. ~Pending("candle") => CandlesStored(ingestDb.candles)
  BY <1>2 DEF CandlesStored
<1>8. ~Pending("hours") => HoursListed(ingestDb.hours)
  BY <1>4 DEF HoursListed
<1> HIDE DEF a, k, x
<1>9. CASE Pending("flush") \/ Pending("end")
  <2>1. ~Pending("gap") /\ ~Pending("hours") /\ ~Pending("candle")
    BY <1>9 DEF Pending
  <2>2. /\ d \in Tables /\ d.journal = JournalAfter
        /\ d.candles = ingestDb.candles /\ d.gaps = ingestDb.gaps /\ d.hours = ingestDb.hours
    BY <1>9, CommittedPlain
  <2> QED BY <1>3, <1>5, <1>6, <1>7, <1>8, <2>1, <2>2 DEF a, k
<1>10. CASE Pending("candle")
  <2>1. ~Pending("gap") /\ ~Pending("hours")
    BY <1>10 DEF Pending
  <2>2. /\ d \in Tables /\ d.journal = JournalAfter
        /\ d.candles = ingestDb.candles \cup {x}
        /\ d.gaps = ingestDb.gaps /\ d.hours = ingestDb.hours
    BY <1>10, CommittedCandle DEF x
  <2>3. x[1] = Now /\ x[2] = released[Now] /\ x[3] = made
    BY DEF x
  <2>4. made <= a + k
    <3>1. made = a + k + Len(journalBuffer) /\ Len(journalBuffer) = 0
      BY <1>1, <1>10 DEF IngestInv, JournalInv, TxnInv, a, k
    <3> QED BY <1>1, <3>1
  <2>5. \A c \in d.candles : c[3] <= a + k
    BY <1>5, <2>2, <2>3, <2>4
  <2>6. CandlesStored(d.candles)
    BY <1>2, <2>2, <2>3 DEF CandlesStored
  <2> QED BY <1>3, <1>6, <1>8, <2>1, <2>2, <2>5, <2>6 DEF a, k
<1>11. CASE Pending("gap")
  <2>1. ~Pending("hours") /\ ~Pending("candle")
    BY <1>11 DEF Pending
  <2>2. /\ d \in Tables /\ d.journal = JournalAfter
        /\ d.candles = ingestDb.candles /\ d.hours = ingestDb.hours
        /\ OneRow(d.gaps) /\ \A s \in Instruments : RowTold(d.gaps, s)
    BY <1>11, CommittedGap
  <2> QED BY <1>3, <1>5, <1>7, <1>8, <2>1, <2>2 DEF a, k
<1>12. CASE Pending("hours")
  <2>1. ~Pending("gap") /\ ~Pending("candle")
    BY <1>12 DEF Pending
  <2>2. /\ d \in Tables /\ d.journal = JournalAfter
        /\ d.candles = ingestDb.candles /\ d.gaps = ingestDb.gaps
        /\ IsInjective(d.hours)
        /\ Range(d.hours) = Range(ingestDb.hours) \cup {<<Now, h>> : h \in sinkTxn[1].hours}
    BY <1>12, CommittedHours
  <2>3. HoursListed(d.hours)
    BY <1>4, <1>12, <2>2 DEF HoursListed
  <2> QED BY <1>3, <1>5, <1>6, <1>7, <2>1, <2>2, <2>3 DEF a, k
<1>13. \/ Pending("flush") \/ Pending("end") \/ Pending("candle") \/ Pending("gap")
       \/ Pending("hours")
  BY <1>1 DEF Pending
<1> QED BY <1>9, <1>10, <1>11, <1>12, <1>13

(* The tables of a session that is dead keep what the invariant says of them. *)
LEMMA BreakOffKeeps == ASSUME IngestInv, NEW applied \in BOOLEAN, BreakOff(applied) PROVE IngestInv'
<1> DEFINE a == Len(ingestDb.journal)
           k == Len(Carried)
<1>1. /\ stage' = "failed" /\ turn' = <<>> /\ made' = 0 /\ sinkTxn' = <<>>
      /\ gapIds' = [s \in Instruments |-> 0] /\ reports' = [s \in Instruments |-> NoReport]
      /\ released' = [s \in Instruments |-> 0] /\ dqWritten' = [s \in Instruments |-> {}]
      /\ heard' = [s \in Instruments |-> -1]
  BY Zenon DEF BreakOff, MemoryLost, Instruments
<1>2. /\ ingestDb' \in Tables /\ ingestDb'.journal = From(0, Len(ingestDb'.journal))
      /\ \A c \in ingestDb'.candles : c[3] <= Len(ingestDb'.journal)
      /\ OneRow(ingestDb'.gaps) /\ IsInjective(ingestDb'.hours)
  <2>1. CASE applied
    <3>1. sinkTxn # <<>> /\ ingestDb' = Committed(ingestDb, sinkTxn[1])
      BY <2>1 DEF BreakOff
    <3>2. a \in Nat /\ k \in Nat
      BY <3>1, OpenTxn
    <3>3. Len(From(0, a + k)) = a + k
      <4>1. a + k \in Nat /\ 0 \in Int
        BY <3>2
      <4> HIDE DEF a, k
      <4> QED BY <4>1, RunOfNumbers
    <3>4. /\ ingestDb' \in Tables /\ ingestDb'.journal = From(0, a + k)
          /\ \A c \in ingestDb'.candles : c[3] <= a + k
          /\ OneRow(ingestDb'.gaps) /\ IsInjective(ingestDb'.hours)
      BY <3>1, AfterCommit, Zenon DEF JournalAfter
    <3> HIDE DEF a, k
    <3> QED BY <3>3, <3>4
  <2>2. CASE ~applied
    <3>1. ingestDb' = ingestDb
      BY <2>2 DEF BreakOff
    <3> QED BY <3>1 DEF IngestInv, IngestTypeOK, JournalInv, CandleInv, GapInv, HourInv, HoursKnown, HoursOver
  <2> QED BY <2>1, <2>2
<1>3. ~Alive' /\ ~Pending("end")' /\ ~Pending("candle")' /\ ~Pending("gap")' /\ ~Pending("hours")'
  BY <1>1 DEF Alive, Pending
<1>4. IngestTypeOK'
  <2>1. NoReport \in Reports
    BY DEF NoReport, Reports, ReportStatuses
  <2> QED BY <1>1, <1>2, <2>1 DEF IngestTypeOK
<1>5. TxnInv'
  BY <1>1, <1>3 DEF TxnInv
<1>6. JournalInv'
  BY <1>2, <1>3 DEF JournalInv
<1>7. CandleInv' /\ GapInv' /\ HourInv'
  BY <1>2, <1>3 DEF CandleInv, GapInv, HourInv, HoursKnown, HoursOver
<1> QED BY <1>4, <1>5, <1>6, <1>7 DEF IngestInv

(* Without an open transaction the tables are in step with the session. *)
LEMMA Settled ==
    ASSUME IngestInv, Alive, sinkTxn = <<>>
    PROVE  /\ CandlesStored(ingestDb.candles) /\ HoursListed(ingestDb.hours)
           /\ \A s \in Instruments : RowTold(ingestDb.gaps, s)
           /\ ~Pending("end") /\ ~Pending("candle") /\ ~Pending("gap") /\ ~Pending("hours")
<1>1. ~Pending("end") /\ ~Pending("candle") /\ ~Pending("gap") /\ ~Pending("hours")
  BY DEF Pending
<1>2. CandlesStored(ingestDb.candles)
  BY <1>1 DEF IngestInv, CandleInv, CandlesStored
<1>3. HoursListed(ingestDb.hours)
  BY <1>1, HoursOfLive DEF HoursKnown, HoursListed
<1>4. ASSUME NEW s \in Instruments PROVE RowTold(ingestDb.gaps, s)
  <2>1. Told(s) /\ gapIds[s] \in Nat /\ reports[s] \in Reports /\ ingestDb.gaps \in Seq(Gaps)
    BY DEF IngestInv, GapInv, IngestTypeOK, Tables
  <2>2. ASSUME gapIds[s] # 0 PROVE ingestDb.gaps[gapIds[s]].attempts = reports[s].attempts
    <3>1. reports[s].attempts = ingestDb.gaps[gapIds[s]].attempts + 0 /\ gapIds[s] \in DOMAIN ingestDb.gaps
      BY <1>1, <2>1, <2>2 DEF Told
    <3>2. ingestDb.gaps[gapIds[s]] \in Gaps
      <4> HIDE DEF Gaps
      <4> QED BY <2>1, <3>1
    <3> QED BY <3>1, <3>2 DEF Gaps
  <2> QED BY <1>1, <2>1, <2>2 DEF Told, RowTold
<1> QED BY <1>1, <1>2, <1>3, <1>4

(* A gap without a row has no report. *)
Unreported(s) ==
    /\ gapIds[s] = 0 <=> reports[s].status = "none"
    /\ gapIds[s] = 0 => reports[s] = NoReport

(* The other way round: tables in step, and no transaction on a gap. *)
LEMMA InStep ==
    ASSUME NEW s \in Instruments, Unreported(s), RowTold(ingestDb.gaps, s), ~Pending("gap"),
           gapIds[s] \in Nat, reports[s] \in Reports
    PROVE  Told(s)
<1>1. reports[s].attempts + 0 = reports[s].attempts
  BY DEF Reports
<1> QED BY <1>1 DEF Unreported, RowTold, Told

(* A commit, and the hours that a candle made complete. *)
LEMMA CommitKeeps == ASSUME IngestInv, CommitSink PROVE IngestInv'
<1> DEFINE a == Len(ingestDb.journal)
           k == Len(Carried)
           m == Len(journalBuffer)
           txn == sinkTxn[1]
           due == IF txn.kind = "candle" THEN DueHours(Now, CloseMinute(Now)) ELSE {}
<1>1. /\ sinkTxn # <<>> /\ stage \in {"running", "finishing"}
      /\ ingestDb' = Committed(ingestDb, sinkTxn[1])
      /\ sinkTxn' = IF due = {} THEN <<>>
                    ELSE <<[kind |-> "hours", entries |-> <<>>, hours |-> due, last |-> FALSE]>>
      /\ dqWritten' = IF txn.kind = "hours"
                      THEN [dqWritten EXCEPT ![Now] = @ \cup txn.hours] ELSE dqWritten
      /\ stage' = IF txn.kind = "end" THEN "ended" ELSE stage
      /\ turn' = IF txn.kind = "hours" /\ txn.last THEN Tail(turn) ELSE turn
      /\ UNCHANGED <<consumer, made, journalBuffer, gapIds, reports, heard, released>>
  BY DEF CommitSink
<1>2. /\ Alive /\ txn.kind \in {"flush", "candle", "gap", "hours", "end"}
      /\ ~Pending("end") => turn # <<>> /\ Now \in Instruments
      /\ a \in Nat /\ k \in Nat /\ m \in Nat
  BY <1>1, OpenTxn
<1>3. /\ ingestDb' \in Tables /\ ingestDb'.journal = From(0, a + k)
      /\ \A c \in ingestDb'.candles : c[3] <= a + k
      /\ CandlesStored(ingestDb'.candles) /\ HoursListed(ingestDb'.hours)
      /\ OneRow(ingestDb'.gaps) /\ \A s \in Instruments : RowTold(ingestDb'.gaps, s)
      /\ IsInjective(ingestDb'.hours)
  BY <1>1, AfterCommit, Zenon DEF JournalAfter
<1>4. Len(ingestDb'.journal) = a + k
  <2>1. a + k \in Nat /\ 0 \in Int
    BY <1>2
  <2> HIDE DEF a, k
  <2> QED BY <1>3, <2>1, RunOfNumbers
<1>5. /\ \A kind : Pending(kind) <=> txn.kind = kind
      /\ due # {} => txn.kind = "candle"
      /\ Alive' /\ ~Pending("end")' /\ ~Pending("candle")' /\ ~Pending("gap")'
      /\ Pending("hours")' => due # {} /\ sinkTxn' = <<sinkTxn'[1]>> /\ sinkTxn'[1].kind = "hours"
                              /\ sinkTxn'[1].hours = due /\ sinkTxn'[1].last = FALSE
      /\ due = {} => ~Pending("hours")' /\ sinkTxn' = <<>>
      /\ due # {} => Pending("hours")'
      /\ Carried' = <<>>
  <2>1. CASE due = {}
    BY <1>1, <1>2, <2>1 DEF Pending, Alive, Carried
  <2>2. CASE due # {}
    <3>1. sinkTxn' = <<[kind |-> "hours", entries |-> <<>>, hours |-> due, last |-> FALSE]>>
      BY <1>1, <2>2
    <3>2. txn.kind = "candle" /\ stage' = stage
      BY <1>1, <2>2
    <3> DEFINE r == [kind |-> "hours", entries |-> <<>>, hours |-> due, last |-> FALSE]
    <3>3. sinkTxn' = <<r>> /\ r.kind = "hours" /\ r.entries = <<>> /\ r.hours = due /\ r.last = FALSE
      BY <3>1
    <3> HIDE DEF due, r
    <3>4. sinkTxn' # <<>> /\ sinkTxn'[1] = r
      BY <3>3
    <3>5. \A kind : Pending(kind)' <=> kind = "hours"
      BY <3>3, <3>4 DEF Pending
    <3>6. \A kind : Pending(kind) <=> txn.kind = kind
      BY <1>1 DEF Pending
    <3>7. Alive' /\ Carried' = <<>>
      BY <1>2, <3>2, <3>3, <3>4 DEF Alive, Carried
    <3> QED BY <2>2, <3>2, <3>3, <3>4, <3>5, <3>6, <3>7
  <2> QED BY <2>1, <2>2
<1>6. /\ turn \in Seq(Instruments) /\ made \in Nat /\ gapIds \in [Instruments -> Nat]
      /\ reports \in [Instruments -> Reports] /\ released \in [Instruments -> Nat]
      /\ dqWritten \in [Instruments -> SUBSET Int] /\ heard \in [Instruments -> Int]
  BY DEF IngestInv, IngestTypeOK
<1>7. txn.kind = "hours" =>
         /\ txn.hours \subseteq Int /\ dqWritten' = [dqWritten EXCEPT ![Now] = @ \cup txn.hours]
         /\ Now \in Instruments /\ turn # <<>>
  <2> SUFFICES ASSUME txn.kind = "hours" PROVE txn.hours \subseteq Int /\ Now \in Instruments /\ turn # <<>>
    BY <1>1
  <2>1. txn.hours \in SUBSET (0 .. heard[Now]) /\ ~Pending("end")
    BY <1>1, <1>5 DEF IngestInv, TxnInv, HoursTaken
  <2>2. \A h \in 0 .. heard[Now] : h \in Int
    OBVIOUS
  <2> QED BY <1>2, <2>1, <2>2
<1>8. /\ Now' = Now \/ due = {}
      /\ due # {} => turn' = turn /\ stage' = stage /\ dqWritten' = dqWritten
  BY <1>1, <1>5 DEF Now
<1>16. due # {} => /\ due \in SUBSET (0 .. heard[Now]) /\ due \cap dqWritten[Now] = {}
                   /\ \A h \in due : HourEnd(h) <= heard[Now]
                   /\ \A h \in Nat : HourEnd(h) < released[Now] => h \in dqWritten[Now] \cup due
  <2> SUFFICES ASSUME due # {}
               PROVE  /\ due \in SUBSET (0 .. heard[Now]) /\ due \cap dqWritten[Now] = {}
                      /\ \A h \in due : HourEnd(h) <= heard[Now]
                      /\ \A h \in Nat : HourEnd(h) < released[Now] => h \in dqWritten[Now] \cup due
    OBVIOUS
  <2>1. Now \in Instruments /\ due = DueHours(Now, CloseMinute(Now))
    BY <1>2, <1>5
  <2>2. /\ CloseMinute(Now) \in Int /\ heard[Now] \in Int /\ released[Now] \in Nat
        /\ CloseMinute(Now) = released[Now] - 1 /\ CloseMinute(Now) <= heard[Now]
    BY <1>2, <1>6, <2>1 DEF CloseMinute, IngestInv, HourInv, HoursKnown, HoursOver
  <2> HIDE DEF due
  <2>3. /\ due \in SUBSET (0 .. CloseMinute(Now)) /\ due \cap dqWritten[Now] = {}
        /\ \A h \in due : HourEnd(h) <= CloseMinute(Now)
        /\ \A h \in Nat : HourEnd(h) <= CloseMinute(Now) => h \in dqWritten[Now] \cup due
    BY <2>1, <2>2, HoursDue
  <2>4. due \in SUBSET (0 .. heard[Now]) /\ \A h \in due : h \in Nat
    BY <2>2, <2>3
  <2>5. ASSUME NEW h \in due PROVE HourEnd(h) <= heard[Now]
    <3>1. HourEnd(h) \in Int /\ HourEnd(h) <= CloseMinute(Now)
      BY <2>3, <2>4, HourEnds
    <3> QED BY <2>2, <3>1
  <2>6. ASSUME NEW h \in Nat, HourEnd(h) < released[Now] PROVE h \in dqWritten[Now] \cup due
    <3>1. HourEnd(h) \in Int
      BY HourEnds
    <3>2. HourEnd(h) <= CloseMinute(Now)
      BY <2>2, <2>6, <3>1
    <3> QED BY <2>3, <3>2
  <2> QED BY <2>3, <2>4, <2>5, <2>6
<1>17. txn.kind = "hours" /\ txn.last =>
          /\ \A h \in Nat : HourEnd(h) <= heard[Now] => h \in dqWritten[Now] \cup txn.hours
          /\ turn' = Tail(turn)
  BY <1>1, <1>5 DEF IngestInv, TxnInv, HoursTaken
<1> HIDE DEF a, k, m, txn, due
<1>9. \A s \in Instruments : \A h \in Int :
         <<s, h>> \in Range(ingestDb'.hours) <=> h \in dqWritten'[s]
  <2>1. CASE txn.kind = "hours"
    <3> SUFFICES ASSUME NEW s \in Instruments, NEW h \in Int
                 PROVE  h \in dqWritten'[s] <=> h \in dqWritten[s] \/ (s = Now /\ h \in txn.hours)
      BY <1>3, <1>5, <2>1 DEF HoursListed, txn
    <3> QED BY <1>6, <1>7, <2>1
  <2>2. CASE txn.kind # "hours"
    BY <1>1, <1>3, <1>5, <2>2 DEF HoursListed, txn
  <2> QED BY <2>1, <2>2
<1>10. IngestTypeOK'
  <2>1. turn' \in Seq(Instruments)
    <3>1. turn # <<>> => Tail(turn) \in Seq(Instruments)
      BY <1>6
    <3> QED BY <1>1, <1>6, <1>7, <3>1 DEF txn
  <2>2. dqWritten' \in [Instruments -> SUBSET Int]
    <3>1. CASE txn.kind = "hours"
      <4>1. dqWritten[Now] \cup txn.hours \in SUBSET Int
        BY <1>6, <1>7, <3>1
      <4> QED BY <1>6, <1>7, <3>1, <4>1, Zenon
    <3>2. CASE txn.kind # "hours"
      BY <1>1, <1>6, <3>2 DEF txn
    <3> QED BY <3>1, <3>2
  <2>3. stage' \in {"open", "running", "finishing", "ended", "failed"}
    BY <1>1
  <2> QED BY <1>1, <1>3, <1>6, <2>1, <2>2, <2>3 DEF IngestTypeOK
<1>11. TxnInv'
  <2>1. sinkTxn' # <<>> => Pending("hours")' /\ due # {}
    BY <1>5
  <2>2. stage' # "open" /\ (stage' = "ended" => Pending("end"))
    <3>1. stage # "ended" /\ stage # "open"
      BY <1>1
    <3> QED BY <1>1, <1>5, <3>1 DEF txn
  <2>3. Pending("end") => journalBuffer = <<>>
    BY DEF IngestInv, TxnInv
  <2>4. ASSUME due # {} PROVE /\ due \in SUBSET (0 .. heard[Now]) /\ due \cap dqWritten[Now] = {}
                              /\ \A h \in due : HourEnd(h) <= heard[Now]
    BY <1>16, <2>4
  <2>5. ASSUME due # {} PROVE /\ stage' \in {"running", "finishing"}
                              /\ stage' = "running" => consumer' = "handling"
                              /\ turn' # <<>>
    <3>1. ~Pending("end")
      BY <1>5, <2>5
    <3> QED BY <1>1, <1>2, <1>8, <2>5, <3>1 DEF IngestInv, TxnInv, HoursTaken
  <2>6. due # {} => Now' = Now /\ dqWritten' = dqWritten /\ heard' = heard
    BY <1>1, <1>8 DEF Now
  <2> QED BY <1>1, <1>5, <2>1, <2>2, <2>3, <2>4, <2>5, <2>6, Zenon DEF TxnInv, HoursTaken
<1>12. JournalInv'
  <2>1. Carried' = <<>> /\ Len(Carried') = 0 /\ Len(journalBuffer') = m /\ journalBuffer' = journalBuffer
    BY <1>1, <1>5 DEF m
  <2>2. From(a + k, 0) = <<>>
    BY <1>2, EmptyRun
  <2>3. journalBuffer = From(a + k, m) /\ made = a + k + m
    BY <1>2 DEF IngestInv, JournalInv, a, k, m
  <2>4. a + k + 0 = a + k
    BY <1>2
  <2> QED BY <1>1, <1>2, <1>3, <1>4, <2>1, <2>2, <2>3, <2>4 DEF JournalInv
<1>13. CandleInv'
  BY <1>1, <1>3, <1>4 DEF CandleInv, CandlesStored
<1>14. GapInv'
  <2> SUFFICES ASSUME NEW s \in Instruments PROVE Told(s)'
    BY <1>3 DEF GapInv
  <2>1. Unreported(s)
    BY <1>2 DEF IngestInv, GapInv, Told, Unreported
  <2>2. gapIds[s] \in Nat /\ reports[s] \in Reports
    BY <1>6
  <2>3. Unreported(s)' /\ RowTold(ingestDb.gaps, s)'
    BY <1>1, <1>3, <2>1 DEF Unreported, RowTold
  <2>4. reports'[s].attempts + 0 = reports'[s].attempts
    BY <1>1, <2>2 DEF Reports
  <2> QED BY <1>5, <2>3, <2>4 DEF Unreported, RowTold, Told
<1>18. \A s \in Instruments : dqWritten[s] \subseteq dqWritten'[s]
  BY <1>1, <1>6, <1>7 DEF txn
<1>19. ASSUME NEW s \in Instruments, NEW h \in Nat, HourEnd(h) < released[s]
       PROVE  \/ h \in dqWritten'[s]
              \/ Pending("hours")' /\ s = Now' /\ h \in sinkTxn'[1].hours
  <2>1. \/ h \in dqWritten[s]
        \/ Pending("candle") /\ s = Now
        \/ Pending("hours") /\ s = Now /\ h \in txn.hours
    BY <1>2, <1>19 DEF IngestInv, HourInv, HoursKnown, HoursOver, txn
  <2>2. h \in dqWritten[s] => h \in dqWritten'[s]
    BY <1>18
  <2>3. Pending("hours") /\ s = Now /\ h \in txn.hours => h \in dqWritten'[s]
    BY <1>5, <1>6, <1>7
  <2>4. CASE Pending("candle") /\ s = Now /\ h \notin dqWritten[s]
    <3>1. due = DueHours(Now, CloseMinute(Now)) /\ CloseMinute(Now) = released[Now] - 1
          /\ released[Now] \in Nat
      BY <1>5, <1>6, <2>4 DEF due, CloseMinute, txn
    <3>2. h \in due
      <4>1. HourEnd(h) \in Int
        BY HourEnds
      <4>2. HourEnd(h) <= CloseMinute(Now) /\ CloseMinute(Now) \in Int
        BY <1>19, <2>4, <3>1, <4>1
      <4> QED BY <2>4, <3>1, <4>2, HoursDue
    <3>3. Now' = Now
      BY <1>8, <3>2 DEF Now
    <3> QED BY <1>5, <2>4, <3>2, <3>3
  <2> QED BY <2>1, <2>2, <2>3, <2>4
<1>20. ASSUME NEW s \in Instruments, NEW h \in dqWritten'[s] PROVE HourEnd(h) <= heard'[s]
  <2>1. heard'[s] = heard[s]
    BY <1>1
  <2>2. CASE h \in dqWritten[s]
    BY <1>2, <2>1, <2>2 DEF IngestInv, HourInv, HoursKnown, HoursOver
  <2>3. CASE h \notin dqWritten[s]
    <3>1. txn.kind = "hours" /\ s = Now /\ h \in txn.hours
      BY <1>1, <1>6, <1>7, <1>20, <2>3 DEF txn
    <3>2. \A g \in txn.hours : HourEnd(g) <= heard[Now]
      BY <1>5, <3>1 DEF IngestInv, TxnInv, HoursTaken, txn
    <3> QED BY <2>1, <3>1, <3>2
  <2> QED BY <2>2, <2>3
<1>21. ASSUME NEW s \in Instruments, stage' \in {"finishing", "ended"}, s \notin Range(turn')
       PROVE  Scored(s)'
  <2>1. stage \in {"finishing", "ended"} /\ heard' = heard
    BY <1>1, <1>5, <1>21 DEF txn, IngestInv, TxnInv, HoursTaken
  <2>2. CASE s \notin Range(turn)
    <3>1. Scored(s)
      BY <1>2, <2>1, <2>2 DEF IngestInv, HourInv, HoursKnown, HoursOver
    <3> QED BY <1>18, <2>1, <3>1 DEF Scored
  <2>3. CASE s \in Range(turn)
    <3>1. txn.kind = "hours" /\ txn.last /\ turn' = Tail(turn) /\ turn # <<>>
      BY <1>1, <1>7, <1>21, <2>3 DEF txn
    <3>2. s = Now
      BY <1>6, <1>21, <2>3, <3>1, RestOfTurn
    <3>3. \A h \in Nat : HourEnd(h) <= heard[Now] => h \in dqWritten[Now] \cup txn.hours
      BY <1>17, <3>1
    <3>4. dqWritten'[s] = dqWritten[Now] \cup txn.hours
      BY <1>6, <1>7, <3>1, <3>2
    <3> QED BY <2>1, <3>2, <3>3, <3>4 DEF Scored
  <2> QED BY <2>2, <2>3
<1>15. HourInv'
  <2>1. \A s \in Instruments : released'[s] - 1 <= heard'[s]
    BY <1>1, <1>2 DEF IngestInv, HourInv, HoursKnown, HoursOver
  <2>2. \A s \in Instruments : \A h \in Nat : HourEnd(h)' < released'[s] =>
           \/ h \in dqWritten'[s]
           \/ Pending("hours")' /\ s = Now' /\ h \in sinkTxn'[1].hours
    BY <1>1, <1>19 DEF HourEnd
  <2>3. \A s \in Instruments : \A h \in dqWritten'[s] : HourEnd(h)' <= heard'[s]
    BY <1>20 DEF HourEnd
  <2> QED BY <1>3, <1>9, <1>21, <2>1, <2>2, <2>3, Zenon DEF HourInv, HoursKnown, HoursOver
<1> QED BY <1>10, <1>11, <1>12, <1>13, <1>14, <1>15 DEF IngestInv

(* Steps that leave the journal, the tables and what goes with them alone. *)
Aside == <<made, journalBuffer, gapIds, reports, heard, released, dqWritten, ingestDb>>

LEMMA QuietKeeps ==
    ASSUME IngestInv, UNCHANGED Aside, sinkTxn' = sinkTxn,
           stage' \in {"running", "finishing"}, stage \in {"running", "finishing"},
           turn' \in Seq(Instruments),
           \A s \in Instruments : stage' = "finishing" /\ s \notin Range(turn') => Scored(s),
           sinkTxn = <<>> \/ (UNCHANGED <<stage, turn>>
                              /\ (stage = "running" /\ consumer = "handling" => consumer' = "handling"))
    PROVE  IngestInv'
<1>1. Alive /\ Alive' /\ stage' # "ended" /\ stage' # "open"
      /\ (\A s \in Instruments : Scored(s)' <=> Scored(s))
  BY DEF Alive, Aside, Scored, HourEnd
<1>2. IngestTypeOK'
  BY DEF Aside, IngestInv, IngestTypeOK
<1>3. JournalInv'
  BY <1>1 DEF Aside, IngestInv, JournalInv, Carried
<1>4. CASE sinkTxn = <<>>
  <2>1. /\ ~Pending("end") /\ ~Pending("candle") /\ ~Pending("gap") /\ ~Pending("hours")
        /\ ~Pending("end")' /\ ~Pending("candle")' /\ ~Pending("gap")' /\ ~Pending("hours")'
    BY <1>4 DEF Pending
  <2>2. TxnInv'
    BY <1>1, <1>4, <2>1 DEF TxnInv
  <2>3. CandleInv'
    BY <1>1, <2>1 DEF Aside, IngestInv, CandleInv
  <2>4. GapInv'
    BY <1>1, <2>1 DEF Aside, IngestInv, GapInv, Told
  <2>5. HourInv'
    BY <1>1, <2>1 DEF Aside, IngestInv, HourInv, HoursKnown, HoursOver
  <2> QED BY <1>2, <1>3, <2>2, <2>3, <2>4, <2>5 DEF IngestInv
<1>5. CASE UNCHANGED <<stage, turn>> /\ (stage = "running" /\ consumer = "handling" => consumer' = "handling")
  <2>1. Now' = Now /\ (\A kind : Pending(kind)' <=> Pending(kind))
    BY <1>5 DEF Now, Pending
  <2>2. TxnInv'
    BY <1>5, <2>1 DEF Aside, IngestInv, TxnInv, HoursTaken
  <2>3. CandleInv'
    BY <1>1, <2>1 DEF Aside, IngestInv, CandleInv
  <2>4. GapInv'
    BY <1>1, <2>1 DEF Aside, IngestInv, GapInv, Told
  <2>5. HourInv'
    BY <1>1, <2>1 DEF Aside, IngestInv, HourInv, HoursKnown, HoursOver
  <2> QED BY <1>2, <1>3, <2>2, <2>3, <2>4, <2>5 DEF IngestInv
<1> QED BY <1>4, <1>5

LEMMA QuietStep ==
    ASSUME IngestInv,
           \/ \E route \in Routes : TakeItem(route)
           \/ StreamEnds \/ HandleReturns \/ AskStop \/ HaltPump \/ PumpReturns
    PROVE  IngestInv'
<1>1. turn \in Seq(Instruments) /\ (turn # <<>> => Tail(turn) \in Seq(Instruments))
  BY DEF IngestInv, IngestTypeOK
<1>2. sinkTxn # <<>> /\ stage = "running" => consumer = "handling"
  BY DEF IngestInv, TxnInv
<1>3. Symbols \in Seq(Instruments) /\ (\A s \in Instruments : <<s>> \in Seq(Instruments)) /\ <<>> \in Seq(Instruments)
  BY IngestAssumption DEF Instruments
<1>10. /\ Range(Symbols) = Instruments
       /\ stage = "finishing" => \A s \in Instruments : s \notin Range(turn) => Scored(s)
  BY DEF Instruments, IngestInv, HourInv, HoursKnown, HoursOver, Alive
<1>4. CASE \E route \in Routes : TakeItem(route)
  <2>1. PICK route \in Routes : TakeItem(route)
    BY <1>4
  <2>2. route \in Seq(Instruments)
    BY <1>3 DEF Routes, Instruments
  <2>3. sinkTxn = <<>>
    BY <1>2, <2>1 DEF TakeItem
  <2> QED BY <2>1, <2>2, <2>3, QuietKeeps DEF TakeItem, Aside
<1>5. CASE StreamEnds
  <2>1. sinkTxn = <<>>
    BY <1>2, <1>5 DEF StreamEnds
  <2> QED BY <1>1, <1>5, <2>1, QuietKeeps DEF StreamEnds, Aside
<1>6. CASE HandleReturns
  <2>1. turn' \in Seq(Instruments)
    <3>1. Len(turn) > 1 => turn # <<>>
      BY <1>1
    <3> QED BY <1>1, <1>3, <1>6, <3>1 DEF HandleReturns
  <2> QED BY <1>6, <2>1, QuietKeeps DEF HandleReturns, Aside
<1>7. CASE AskStop
  BY <1>1, <1>7, <1>10, QuietKeeps DEF AskStop, Aside
<1>8. CASE HaltPump
  BY <1>1, <1>8, <1>10, QuietKeeps DEF HaltPump, Aside
<1>9. CASE PumpReturns
  <2>1. sinkTxn = <<>>
    BY <1>2, <1>9 DEF PumpReturns
  <2> QED BY <1>3, <1>9, <1>10, <2>1, QuietKeeps DEF PumpReturns, Aside
<1> QED BY <1>4, <1>5, <1>6, <1>7, <1>8, <1>9

LEMMA SessionStarts == IngestSessionInit => IngestInv
<1> SUFFICES ASSUME IngestSessionInit PROVE IngestInv
  OBVIOUS
<1>1. /\ stage = "open" /\ turn = <<>> /\ made = 0 /\ journalBuffer = <<>> /\ sinkTxn = <<>>
      /\ gapIds = [s \in Instruments |-> 0] /\ reports = [s \in Instruments |-> NoReport]
      /\ released = [s \in Instruments |-> 0] /\ dqWritten = [s \in Instruments |-> {}]
      /\ heard = [s \in Instruments |-> -1]
      /\ ingestDb = [journal |-> <<>>, candles |-> {}, gaps |-> <<>>, hours |-> <<>>]
  BY Zenon DEF IngestSessionInit, Instruments
<1>2. /\ ingestDb.journal = <<>> /\ ingestDb.candles = {} /\ ingestDb.gaps = <<>> /\ ingestDb.hours = <<>>
  BY <1>1
<1>3. Carried = <<>> /\ \A kind : ~Pending(kind)
  BY <1>1 DEF Carried, Pending
<1>4. From(0, 0) = <<>> /\ From(0 + 0, 0) = <<>>
  BY EmptyRun
<1>5. IngestTypeOK
  <2>1. NoReport \in Reports
    BY DEF NoReport, Reports, ReportStatuses
  <2>2. ingestDb \in Tables
    <3>1. <<>> \in Seq(Int) /\ <<>> \in Seq(Gaps) /\ <<>> \in Seq(Instruments \X Int)
      OBVIOUS
    <3> QED BY <1>1, <3>1 DEF Tables
  <2> QED BY <1>1, <2>1, <2>2 DEF IngestTypeOK
<1>6. TxnInv
  BY <1>1, <1>3 DEF TxnInv
<1>7. JournalInv
  BY <1>1, <1>2, <1>3, <1>4 DEF JournalInv
<1>8. CandleInv
  BY <1>1, <1>2 DEF CandleInv
<1>9. GapInv
  <2>1. \A s \in Instruments : gapIds[s] = 0 /\ reports[s] = NoReport
    BY <1>1
  <2> QED BY <1>2, <1>3, <2>1 DEF GapInv, OneRow, Told, NoReport
<1>10. HourInv
  <2>1. IsInjective(ingestDb.hours) /\ Range(ingestDb.hours) = {}
    BY <1>2 DEF IsInjective, Range
  <2>2. \A s \in Instruments : released[s] = 0 /\ dqWritten[s] = {} /\ heard[s] = -1
    BY <1>1
  <2>3. ASSUME NEW h \in Nat PROVE ~(HourEnd(h) < 0)
    BY HourEnds
  <2> QED BY <1>1, <2>1, <2>2, <2>3 DEF HourInv, HoursKnown, HoursOver
<1> QED BY <1>5, <1>6, <1>7, <1>8, <1>9, <1>10 DEF IngestInv

LEMMA StartKeeps == ASSUME IngestInv, NEW known \in BOOLEAN, StartIngest(known) PROVE IngestInv'
<1> DEFINE a == Len(ingestDb.journal)
<1>1. /\ stage = "open" /\ stage' = (IF known THEN "running" ELSE "failed")
      /\ made' = (IF known THEN 1 ELSE 0) /\ journalBuffer' = (IF known THEN <<1>> ELSE <<>>)
      /\ UNCHANGED <<turn, sinkTxn, gapIds, reports, heard, released, dqWritten, ingestDb>>
  BY DEF StartIngest
<1>2. sinkTxn = <<>> /\ made = 0 /\ Alive
  BY <1>1 DEF IngestInv, TxnInv, Alive
<1>3. Carried = <<>> /\ Carried' = <<>> /\ (\A kind : ~Pending(kind) /\ ~Pending(kind)')
  BY <1>1, <1>2 DEF Carried, Pending
<1>4. a = 0 /\ ingestDb.journal = From(0, a)
  <2>1. a \in Nat /\ Len(journalBuffer) \in Nat /\ made = a + 0 + Len(journalBuffer)
    BY <1>2, <1>3 DEF IngestInv, JournalInv, IngestTypeOK, Tables
  <2> QED BY <1>2, <2>1 DEF IngestInv, JournalInv
<1>5. IngestTypeOK'
  BY <1>1 DEF IngestInv, IngestTypeOK
<1>6. TxnInv'
  BY <1>1, <1>2, <1>3 DEF TxnInv
<1>7. JournalInv'
  <2>1. From(0, 0) = <<>>
    BY EmptyRun
  <2>2. From(0, 1) = <<1>>
    BY FirstNumber
  <2>3. Carried' = From(0, 0) /\ Len(Carried') = 0
    BY <1>3, <2>1
  <2>4. CASE known
    <3>1. journalBuffer' = From(0 + 0, 1) /\ Len(journalBuffer') = 1
      BY <1>1, <2>2, <2>4
    <3> QED BY <1>1, <1>4, <2>3, <2>4, <3>1 DEF JournalInv
  <2>5. CASE ~known
    BY <1>1, <1>4, <2>5 DEF JournalInv, Alive
  <2> QED BY <2>4, <2>5
<1>8. CandleInv'
  BY <1>1, <1>2, <1>3 DEF IngestInv, CandleInv
<1>9. GapInv'
  BY <1>1, <1>2, <1>3 DEF IngestInv, GapInv, Told
<1>10. HourInv'
  BY <1>1, <1>2, <1>3 DEF IngestInv, HourInv, HoursKnown, HoursOver, HourEnd
<1> QED BY <1>5, <1>6, <1>7, <1>8, <1>9, <1>10 DEF IngestInv

(* What Processing means, and where the journal stands then. *)
LEMMA AtWork ==
    ASSUME IngestInv, sinkTxn = <<>>, stage \in {"running", "finishing"}
    PROVE  /\ Alive /\ Carried = <<>> /\ (\A kind : ~Pending(kind))
           /\ Len(ingestDb.journal) \in Nat /\ Len(journalBuffer) \in Nat
           /\ ingestDb.journal = From(0, Len(ingestDb.journal))
           /\ journalBuffer = From(Len(ingestDb.journal), Len(journalBuffer))
           /\ made = Len(ingestDb.journal) + Len(journalBuffer)
           /\ turn \in Seq(Instruments) /\ (turn # <<>> => Now \in Instruments)
<1>1. Alive /\ Carried = <<>> /\ Len(Carried) = 0 /\ (\A kind : ~Pending(kind))
  BY DEF Alive, Carried, Pending
<1>2. Len(ingestDb.journal) \in Nat
  BY DEF IngestInv, IngestTypeOK, Tables
<1>3. Len(ingestDb.journal) + 0 = Len(ingestDb.journal)
  BY <1>2
<1>4. /\ Len(journalBuffer) \in Nat /\ ingestDb.journal = From(0, Len(ingestDb.journal))
      /\ journalBuffer = From(Len(ingestDb.journal), Len(journalBuffer))
      /\ made = Len(ingestDb.journal) + Len(journalBuffer)
  BY <1>1, <1>3 DEF IngestInv, JournalInv
<1>5. turn \in Seq(Instruments) /\ (turn # <<>> => Now \in Instruments)
  BY DEF IngestInv, IngestTypeOK, Now
<1> QED BY <1>1, <1>2, <1>4, <1>5

(* A transaction opened with the entries of the buffer, and no other change of
   the journal: it carries all of them. *)
LEMMA BufferTaken ==
    ASSUME IngestInv, sinkTxn = <<>>, stage \in {"running", "finishing"}, Alive',
           sinkTxn' # <<>>, journalBuffer' = <<>>, UNCHANGED ingestDb,
           \/ made' = made /\ sinkTxn'[1].entries = journalBuffer
           \/ made' = made + 1 /\ sinkTxn'[1].entries = Append(journalBuffer, made + 1)
    PROVE  JournalInv'
<1> DEFINE a == Len(ingestDb.journal)
           m == Len(journalBuffer)
<1>1. /\ a \in Nat /\ m \in Nat /\ ingestDb.journal = From(0, a)
      /\ journalBuffer = From(a, m) /\ made = a + m
  BY AtWork
<1>2. Carried' = sinkTxn'[1].entries
  BY DEF Carried
<1>3. PICK n \in Nat : Carried' = From(a, n) /\ made' = a + n
  <2> HIDE DEF a, m
  <2>1. a + (m + 1) = a + m + 1 /\ m + 1 \in Nat /\ a \in Int
    BY <1>1
  <2>2. Append(From(a, m), a + m + 1) = From(a, m + 1)
    BY <1>1, <2>1, LongerRun, Zenon
  <2> QED BY <1>1, <1>2, <2>1, <2>2
<1>4. Len(Carried') = n /\ a + n + 0 = a + n /\ a + n \in Int /\ From(a + n, 0) = <<>> /\ Len(<<>>) = 0
  <2> HIDE DEF a, m
  <2> QED BY <1>1, <1>3, RunOfNumbers, EmptyRun
<1>5. Len(ingestDb.journal)' = a
  OBVIOUS
<1> HIDE DEF a, m
<1> QED BY <1>1, <1>3, <1>4, <1>5 DEF JournalInv

(* OnEvent: the entry is in the buffer, or in the transaction that takes it. *)
LEMMA EventKeeps == ASSUME IngestInv, OnEvent PROVE IngestInv'
<1> DEFINE a == Len(ingestDb.journal)
           m == Len(journalBuffer)
           buf == Append(journalBuffer, made + 1)
<1>1. /\ sinkTxn = <<>> /\ turn # <<>> /\ made' = made + 1
      /\ (stage = "running" /\ consumer = "handling") \/ stage = "finishing"
      /\ \/ journalBuffer' = <<>> /\ sinkTxn' = <<[kind |-> "flush", entries |-> buf]>>
         \/ journalBuffer' = buf /\ sinkTxn' = sinkTxn
      /\ UNCHANGED <<stage, consumer, turn, gapIds, reports, released, dqWritten, ingestDb>>
  BY DEF OnEvent, Processing
<1>10. PICK minute \in {heard[Now], heard[Now] + 1} \cap Nat :
          /\ stage = "finishing" => minute = heard[Now]
          /\ heard' = [heard EXCEPT ![Now] = minute]
  BY DEF OnEvent
<1>2. /\ Alive /\ Carried = <<>> /\ (\A kind : ~Pending(kind))
      /\ a \in Nat /\ m \in Nat /\ ingestDb.journal = From(0, a)
      /\ journalBuffer = From(a, m) /\ made = a + m
  BY <1>1, AtWork
<1>3. /\ Alive' /\ Now' = Now
      /\ ~Pending("end")' /\ ~Pending("candle")' /\ ~Pending("gap")' /\ ~Pending("hours")'
  <2>1. CASE sinkTxn' = <<[kind |-> "flush", entries |-> buf]>>
    <3> HIDE DEF buf
    <3> QED BY <1>1, <1>2, <2>1 DEF Alive, Now, Pending
  <2>2. CASE sinkTxn' = sinkTxn
    BY <1>1, <1>2, <2>2 DEF Alive, Now, Pending
  <2> QED BY <1>1, <2>1, <2>2
<1>11. /\ heard \in [Instruments -> Int] /\ heard' \in [Instruments -> Int]
       /\ \A s \in Instruments : heard'[s] \in Int /\ heard[s] <= heard'[s]
       /\ stage = "finishing" => heard' = heard
  <2>1. heard \in [Instruments -> Int] /\ Now \in Instruments
    BY <1>1, AtWork DEF IngestInv, IngestTypeOK
  <2> QED BY <1>10, <2>1
<1>4. IngestTypeOK'
  <2>1. made' \in Nat
    BY <1>1 DEF IngestInv, IngestTypeOK
  <2> HIDE DEF buf
  <2> QED BY <1>1, <1>11, <2>1 DEF IngestInv, IngestTypeOK
<1>5. TxnInv'
  <2>1. sinkTxn' # <<>> => sinkTxn' = <<sinkTxn'[1]>> /\ sinkTxn'[1].kind = "flush"
    <3>1. CASE sinkTxn' = <<[kind |-> "flush", entries |-> buf]>>
      <4> HIDE DEF buf
      <4> QED BY <3>1
    <3> QED BY <1>1, <3>1
  <2> QED BY <1>1, <1>3, <2>1 DEF TxnInv
<1>6. JournalInv'
  <2>1. CASE journalBuffer' = <<>> /\ sinkTxn' = <<[kind |-> "flush", entries |-> buf]>>
    <3>1. sinkTxn' # <<>> /\ sinkTxn'[1].entries = buf
      <4> HIDE DEF buf
      <4> QED BY <2>1
    <3> QED BY <1>1, <1>3, <2>1, <3>1, BufferTaken
  <2>2. CASE journalBuffer' = buf /\ sinkTxn' = sinkTxn
    <3>1. Carried' = <<>>
      BY <1>1, <2>2 DEF Carried
    <3>2. Len(<<>>) = 0 /\ From(a, 0) = <<>> /\ a + 0 = a
      BY <1>2, EmptyRun
    <3>3. buf = From(a, m + 1) /\ Len(From(a, m + 1)) = m + 1 /\ made' = a + (m + 1) /\ m + 1 \in Nat
      <4> HIDE DEF a, m
      <4>1. a + m + 1 = made + 1 /\ m + 1 \in Nat /\ a \in Int /\ a + m + 1 = a + (m + 1)
        BY <1>2
      <4>2. Append(From(a, m), made + 1) = From(a, m + 1)
        BY <1>2, <4>1, LongerRun, Zenon
      <4>3. Len(From(a, m + 1)) = m + 1
        BY <4>1, RunOfNumbers
      <4> QED BY <1>1, <1>2, <4>1, <4>2, <4>3
    <3>4. Len(ingestDb.journal)' = a /\ ingestDb' = ingestDb
      BY <1>1
    <3> HIDE DEF a, m, buf
    <3> QED BY <1>2, <2>2, <3>1, <3>2, <3>3, <3>4 DEF JournalInv
  <2> QED BY <1>1, <2>1, <2>2
<1>7. CandleInv'
  BY <1>1, <1>2, <1>3 DEF IngestInv, CandleInv
<1>8. GapInv'
  BY <1>1, <1>2, <1>3 DEF IngestInv, GapInv, Told
<1>9. HourInv'
  <2>1. \A s \in Instruments : released[s] \in Nat /\ dqWritten[s] \subseteq Int
    BY DEF IngestInv, IngestTypeOK
  <2>2. /\ IsInjective(ingestDb.hours)
        /\ \A s \in Instruments :
              /\ released[s] - 1 <= heard[s]
              /\ \A h \in Int : <<s, h>> \in Range(ingestDb.hours) <=> h \in dqWritten[s]
              /\ \A h \in dqWritten[s] : HourEnd(h) <= heard[s]
              /\ \A h \in Nat : HourEnd(h) < released[s] => h \in dqWritten[s]
              /\ stage \in {"finishing", "ended"} /\ s \notin Range(turn) => Scored(s)
    BY <1>2 DEF IngestInv, HourInv, HoursKnown, HoursOver
  <2>3. ASSUME NEW s \in Instruments PROVE released[s] - 1 <= heard'[s]
    BY <1>11, <2>1, <2>2
  <2>4. ASSUME NEW s \in Instruments, NEW h \in dqWritten[s] PROVE HourEnd(h) <= heard'[s]
    <3>1. HourEnd(h) \in Int /\ HourEnd(h) <= heard[s] /\ heard[s] <= heard'[s]
      BY <1>11, <2>1, <2>2, IngestAssumption DEF HourEnd
    <3> QED BY <1>11, <3>1
  <2>5. ASSUME NEW s \in Instruments, stage \in {"finishing", "ended"}, s \notin Range(turn)
        PROVE  Scored(s)'
    <3>1. heard' = heard /\ dqWritten' = dqWritten
      BY <1>1, <1>11, <2>5
    <3> QED BY <2>2, <2>5, <3>1 DEF Scored, HourEnd
  <2>6. \A h : HourEnd(h)' = HourEnd(h)
    BY DEF HourEnd
  <2> QED BY <1>1, <1>3, <2>2, <2>3, <2>4, <2>5, <2>6 DEF HourInv, HoursKnown, HoursOver
<1> QED BY <1>4, <1>5, <1>6, <1>7, <1>8, <1>9 DEF IngestInv

(* OnReleased: the candle travels with the entries before it. *)
LEMMA ReleaseKeeps == ASSUME IngestInv, OnReleased PROVE IngestInv'
<1> DEFINE x == <<Now, released[Now] + 1, made>>
           r == [kind |-> "candle", entries |-> journalBuffer, candle |-> x]
<1>1. /\ sinkTxn = <<>> /\ turn # <<>> /\ stage \in {"running", "finishing"}
      /\ stage = "running" => consumer = "handling"
      /\ released' = [released EXCEPT ![Now] = @ + 1] /\ sinkTxn' = <<r>> /\ journalBuffer' = <<>>
      /\ released[Now] <= heard[Now]
      /\ UNCHANGED <<stage, consumer, turn, made, gapIds, reports, heard, dqWritten, ingestDb>>
  BY DEF OnReleased, Processing
<1>2. /\ Alive /\ Carried = <<>> /\ (\A kind : ~Pending(kind)) /\ Now \in Instruments
  BY <1>1, AtWork
<1>3. r.kind = "candle" /\ r.entries = journalBuffer /\ r.candle = x
  OBVIOUS
<1>4. released \in [Instruments -> Nat] /\ released[Now] \in Nat
  BY <1>2 DEF IngestInv, IngestTypeOK
<1>5. released'[Now] = released[Now] + 1 /\ \A s \in Instruments : s # Now => released'[s] = released[s]
  BY <1>1, <1>2, <1>4
<1> HIDE DEF r, x
<1>6. /\ Alive' /\ Now' = Now /\ sinkTxn' # <<>> /\ sinkTxn'[1] = r
      /\ ~Pending("end")' /\ Pending("candle")' /\ ~Pending("gap")' /\ ~Pending("hours")'
  BY <1>1, <1>2, <1>3 DEF Alive, Now, Pending
<1>7. IngestTypeOK'
  <2>1. released' \in [Instruments -> Nat]
    <3>1. released[Now] + 1 \in Nat
      BY <1>4
    <3> QED BY <1>1, <1>4, <3>1, Zenon
  <2> QED BY <1>1, <2>1 DEF IngestInv, IngestTypeOK
<1>8. TxnInv'
  <2>1. x = <<Now, released'[Now], made>>
    BY <1>5 DEF x
  <2>2. stage' # "ended" /\ stage' # "open"
    BY <1>1
  <2> QED BY <1>1, <1>3, <1>6, <2>1, <2>2 DEF TxnInv
<1>9. JournalInv'
  BY <1>1, <1>3, <1>6, BufferTaken
<1>10. CandleInv'
  <2> SUFFICES ASSUME NEW s \in Instruments, NEW k \in 1 .. released'[s]
               PROVE  \/ \E c \in ingestDb.candles : c[1] = s /\ c[2] = k
                      \/ s = Now /\ k = released'[s]
    BY <1>1, <1>6 DEF IngestInv, CandleInv
  <2>1. k \in 1 .. released[s] \/ (s = Now /\ k = released'[s])
    BY <1>4, <1>5
  <2> QED BY <1>2, <2>1 DEF IngestInv, CandleInv
<1>11. GapInv'
  BY <1>1, <1>2, <1>6 DEF IngestInv, GapInv, Told
<1>12. HourInv'
  <2>1. /\ IsInjective(ingestDb.hours)
        /\ \A s \in Instruments :
              /\ released[s] - 1 <= heard[s]
              /\ \A h \in Int : <<s, h>> \in Range(ingestDb.hours) <=> h \in dqWritten[s]
              /\ \A h \in dqWritten[s] : HourEnd(h) <= heard[s]
              /\ \A h \in Nat : HourEnd(h) < released[s] => h \in dqWritten[s]
              /\ stage \in {"finishing", "ended"} /\ s \notin Range(turn) => Scored(s)
    BY <1>2 DEF IngestInv, HourInv, HoursKnown, HoursOver
  <2>2. ASSUME NEW s \in Instruments PROVE released'[s] - 1 <= heard[s]
    <3>1. CASE s = Now
      BY <1>1, <1>4, <1>5, <3>1
    <3>2. CASE s # Now
      BY <1>5, <2>1, <3>2
    <3> QED BY <3>1, <3>2
  <2>3. ASSUME NEW s \in Instruments, NEW h \in Nat, HourEnd(h) < released'[s]
        PROVE  h \in dqWritten[s] \/ s = Now
    BY <1>5, <2>1, <2>3
  <2>4. /\ \A h : HourEnd(h)' = HourEnd(h)
        /\ \A s \in Instruments : Scored(s)' <=> Scored(s)
    BY <1>1 DEF HourEnd, Scored
  <2> QED BY <1>1, <1>6, <2>1, <2>2, <2>3, <2>4 DEF HourInv, HoursKnown, HoursOver
<1> QED BY <1>7, <1>8, <1>9, <1>10, <1>11, <1>12 DEF IngestInv

(* EndIngest: the last entry goes with whatever the buffer holds. *)
LEMMA EndKeeps == ASSUME IngestInv, EndIngest PROVE IngestInv'
<1> DEFINE buf == Append(journalBuffer, made + 1)
           r == [kind |-> "end", entries |-> buf]
<1>1. /\ sinkTxn = <<>> /\ stage = "finishing" /\ made' = made + 1
      /\ sinkTxn' = <<r>> /\ journalBuffer' = <<>>
      /\ UNCHANGED <<stage, consumer, turn, gapIds, reports, heard, released, dqWritten, ingestDb>>
  BY DEF EndIngest
<1>2. Alive /\ Carried = <<>> /\ (\A kind : ~Pending(kind))
  BY <1>1, AtWork
<1>3. r.kind = "end" /\ r.entries = buf
  OBVIOUS
<1> HIDE DEF r
<1>4. /\ Alive' /\ Now' = Now /\ sinkTxn' # <<>> /\ sinkTxn'[1] = r /\ Pending("end")'
      /\ ~Pending("candle")' /\ ~Pending("gap")' /\ ~Pending("hours")'
  BY <1>1, <1>2, <1>3 DEF Alive, Now, Pending
<1>5. IngestTypeOK'
  <2>1. made + 1 \in Nat
    BY DEF IngestInv, IngestTypeOK
  <2> QED BY <1>1, <2>1 DEF IngestInv, IngestTypeOK
<1>6. TxnInv'
  BY <1>1, <1>3, <1>4 DEF TxnInv
<1>7. JournalInv'
  BY <1>1, <1>3, <1>4, BufferTaken
<1>8. CandleInv'
  BY <1>1, <1>2, <1>4 DEF IngestInv, CandleInv
<1>9. GapInv'
  BY <1>1, <1>2, <1>4 DEF IngestInv, GapInv, Told
<1>10. HourInv'
  BY <1>1, <1>2, <1>4 DEF IngestInv, HourInv, HoursKnown, HoursOver, HourEnd, Scored
<1> QED BY <1>5, <1>6, <1>7, <1>8, <1>9, <1>10 DEF IngestInv

(* A transaction without entries leaves the journal where it is. *)
LEMMA NothingTaken ==
    ASSUME IngestInv, sinkTxn = <<>>, stage \in {"running", "finishing"}, Alive',
           Carried' = <<>>, UNCHANGED <<made, journalBuffer, ingestDb>>
    PROVE  JournalInv'
<1>1. Carried = <<>> /\ Alive
  BY AtWork
<1> QED BY <1>1 DEF IngestInv, JournalInv

(* OnGap: a gap seen first is OPEN and gets a row; any other status is told of
   the row it has. *)
LEMMA GapKeeps ==
    ASSUME IngestInv, NEW status \in {"OPEN", "FILLING"} \cup Terminal, OnGap(status)
    PROVE  IngestInv'
<1> DEFINE more == IF status = "FILLING" THEN 1 ELSE 0
           id == gapIds[Now]
           said == reports[Now]
           new == id = 0
           says == [status |-> status, attempts |-> said.attempts + more]
           r == [kind |-> "gap", entries |-> <<>>, status |-> status, new |-> new]
           row == IF new THEN Len(ingestDb.gaps) + 1 ELSE id
<1>1. /\ sinkTxn = <<>> /\ turn # <<>> /\ stage \in {"running", "finishing"}
      /\ stage = "running" => consumer = "handling"
      /\ status \in NextStatus(said.status)
      /\ reports' = [reports EXCEPT ![Now] = says] /\ sinkTxn' = <<r>>
      /\ gapIds' = [gapIds EXCEPT ![Now] = row]
      /\ UNCHANGED <<stage, consumer, turn, made, journalBuffer, heard, released, dqWritten, ingestDb>>
  BY DEF OnGap, Processing
<1>2. /\ Alive /\ Carried = <<>> /\ (\A kind : ~Pending(kind)) /\ Now \in Instruments
      /\ \A s \in Instruments : RowTold(ingestDb.gaps, s)
  BY <1>1, AtWork, Settled
<1>3. /\ gapIds \in [Instruments -> Nat] /\ reports \in [Instruments -> Reports]
      /\ id \in Nat /\ said \in Reports /\ ingestDb.gaps \in Seq(Gaps) /\ Len(ingestDb.gaps) \in Nat
  BY <1>2 DEF IngestInv, IngestTypeOK, Tables
<1>4. \A s \in Instruments : Unreported(s)
  BY <1>2 DEF IngestInv, GapInv, Told, Unreported
<1>5. /\ status \in ReportStatuses /\ status # "none" /\ more \in Nat /\ said.attempts \in Nat
      /\ said.status = "none" => status = "OPEN" /\ more = 0
  BY <1>1, <1>3 DEF ReportStatuses, Terminal, NextStatus, Reports
<1>6. /\ r.kind = "gap" /\ r.entries = <<>> /\ r.status = status /\ r.new = new
      /\ says.status = status /\ says.attempts = said.attempts + more
  OBVIOUS
<1>7. says \in Reports /\ row \in Nat /\ row # 0
  <2>1. said.attempts + more \in Nat
    BY <1>5
  <2>2. says \in Reports
    BY <1>5, <2>1 DEF Reports
  <2> QED BY <1>3, <2>2
<1> HIDE DEF r, says
<1>8. /\ Alive' /\ Now' = Now /\ sinkTxn' # <<>> /\ sinkTxn'[1] = r /\ Carried' = <<>>
      /\ ~Pending("end")' /\ ~Pending("candle")' /\ Pending("gap")' /\ ~Pending("hours")'
  BY <1>1, <1>2, <1>6 DEF Alive, Now, Pending, Carried
<1>9. /\ gapIds'[Now] = row /\ reports'[Now] = says
      /\ \A s \in Instruments : s # Now => gapIds'[s] = gapIds[s] /\ reports'[s] = reports[s]
  BY <1>1, <1>2, <1>3
<1> HIDE DEF row
<1>10. IngestTypeOK'
  <2>1. gapIds' \in [Instruments -> Nat] /\ reports' \in [Instruments -> Reports]
    <3> HIDE DEF Reports
    <3> QED BY <1>1, <1>3, <1>7
  <2> QED BY <1>1, <2>1 DEF IngestInv, IngestTypeOK
<1>11. TxnInv'
  <2>1. new \in BOOLEAN /\ stage' # "ended" /\ stage' # "open"
    BY <1>1
  <2> QED BY <1>1, <1>5, <1>6, <1>8, <2>1 DEF TxnInv
<1>12. JournalInv'
  BY <1>1, <1>8, NothingTaken
<1>13. CandleInv'
  BY <1>1, <1>2, <1>8 DEF IngestInv, CandleInv
<1>14. HourInv'
  BY <1>1, <1>2, <1>8 DEF IngestInv, HourInv, HoursKnown, HoursOver, HourEnd, Scored
<1>15. GapInv'
  <2> SUFFICES ASSUME NEW s \in Instruments PROVE Told(s)'
    BY <1>1 DEF IngestInv, GapInv
  <2>1. RowTold(ingestDb.gaps, s) /\ Unreported(s) /\ ingestDb' = ingestDb
    BY <1>1, <1>2, <1>4
  <2>2. CASE s # Now
    <3>1. gapIds'[s] = gapIds[s] /\ reports'[s] = reports[s] /\ ~(s = Now')
      BY <1>8, <1>9, <2>2
    <3>2. reports[s].attempts + 0 = reports[s].attempts
      BY <1>3 DEF Reports
    <3> QED BY <2>1, <3>1, <3>2 DEF Unreported, RowTold, Told
  <2>3. CASE s = Now /\ new
    <3>1. /\ said = NoReport /\ said.status = "none" /\ said.attempts = 0
          /\ \A i \in DOMAIN ingestDb.gaps : ingestDb.gaps[i].symbol # s
      BY <2>1, <2>3 DEF Unreported, RowTold, NoReport
    <3>2. says.status = "OPEN" /\ says.attempts = 0 /\ row = Len(ingestDb.gaps) + 1
      BY <1>5, <1>6, <2>3, <3>1 DEF row
    <3>3. gapIds'[s] = row /\ reports'[s] = says /\ s = Now' /\ sinkTxn'[1].new /\ sinkTxn'[1].status = says.status
      BY <1>6, <1>8, <1>9, <2>3
    <3> QED BY <1>7, <1>8, <2>1, <3>1, <3>2, <3>3 DEF Told
  <2>4. CASE s = Now /\ ~new
    <3>1. /\ gapIds'[s] = gapIds[s] /\ gapIds[s] # 0 /\ reports'[s] = says /\ s = Now'
          /\ ~sinkTxn'[1].new /\ sinkTxn'[1].status = status
      BY <1>6, <1>8, <1>9, <2>4 DEF row
    <3>2. /\ gapIds[s] \in DOMAIN ingestDb.gaps /\ ingestDb.gaps[gapIds[s]].symbol = s
          /\ ingestDb.gaps[gapIds[s]].attempts = said.attempts
      BY <2>1, <2>4 DEF RowTold
    <3>3. says.status = status /\ says.status # "none" /\ says.attempts = ingestDb.gaps[gapIds[s]].attempts + more
      BY <1>5, <1>6, <3>2
    <3> QED BY <1>8, <2>1, <3>1, <3>2, <3>3 DEF Told
  <2> QED BY <2>2, <2>3, <2>4
<1> QED BY <1>10, <1>11, <1>12, <1>13, <1>14, <1>15 DEF IngestInv

(* PipelineFinished: the next pipeline, or the hours that ended by the newest
   event. *)
LEMMA FinishKeeps ==
    ASSUME IngestInv, PipelineFinished
    PROVE  IngestInv'
<1> DEFINE due == DueHours(Now, heard[Now])
           r == [kind |-> "hours", entries |-> <<>>, hours |-> due, last |-> TRUE]
<1>1. /\ sinkTxn = <<>> /\ turn # <<>> /\ stage = "finishing"
      /\ IF due = {} THEN turn' = Tail(turn) /\ sinkTxn' = sinkTxn
         ELSE sinkTxn' = <<r>> /\ turn' = turn
      /\ UNCHANGED <<stage, consumer, made, journalBuffer, gapIds, reports, heard, released, dqWritten, ingestDb>>
  BY DEF PipelineFinished
<1>2. /\ Alive /\ Carried = <<>> /\ (\A kind : ~Pending(kind)) /\ Now \in Instruments
      /\ turn \in Seq(Instruments) /\ heard[Now] \in Int
  BY <1>1, AtWork DEF IngestInv, IngestTypeOK
<1>5. /\ due \in SUBSET (0 .. heard[Now]) /\ due \cap dqWritten[Now] = {}
      /\ \A h \in due : HourEnd(h) <= heard[Now]
      /\ \A h \in Nat : HourEnd(h) <= heard[Now] => h \in dqWritten[Now] \cup due
  BY <1>2, HoursDue
<1>3. CASE due = {}
  <2>1. Tail(turn) \in Seq(Instruments)
    BY <1>1, <1>2
  <2>2. ASSUME NEW s \in Instruments, s \notin Range(Tail(turn)) PROVE Scored(s)
    <3>1. CASE s = Now
      BY <1>3, <1>5, <3>1 DEF Scored
    <3>2. CASE s # Now
      <4>1. s \notin Range(turn)
        BY <1>1, <1>2, <2>2, <3>2, RestOfTurn
      <4> QED BY <1>1, <1>2, <4>1 DEF IngestInv, HourInv, HoursKnown, HoursOver
    <3> QED BY <3>1, <3>2
  <2> HIDE DEF due
  <2> QED BY <1>1, <1>3, <2>1, <2>2, QuietKeeps DEF Aside
<1>4. CASE due # {}
  <2>1. /\ due \in SUBSET (0 .. heard[Now]) /\ due \cap dqWritten[Now] = {}
        /\ \A h \in due : HourEnd(h) <= heard[Now]
        /\ \A h \in Nat : HourEnd(h) <= heard[Now] => h \in dqWritten[Now] \cup due
    BY <1>5
  <2>2. r.kind = "hours" /\ r.entries = <<>> /\ r.hours = due /\ r.last = TRUE
    OBVIOUS
  <2>3. sinkTxn' = <<r>> /\ turn' = turn
    BY <1>1, <1>4
  <2> HIDE DEF r, due
  <2>4. /\ Alive' /\ Now' = Now /\ sinkTxn' # <<>> /\ sinkTxn'[1] = r /\ Carried' = <<>>
        /\ ~Pending("end")' /\ ~Pending("candle")' /\ ~Pending("gap")' /\ Pending("hours")'
    BY <1>1, <1>2, <2>2, <2>3 DEF Alive, Now, Pending, Carried
  <2>5. IngestTypeOK'
    BY <1>1, <2>3 DEF IngestInv, IngestTypeOK
  <2>6. TxnInv'
    BY <1>1, <2>1, <2>2, <2>3, <2>4 DEF TxnInv, HoursTaken, HourEnd
  <2>7. JournalInv'
    BY <1>1, <2>4, NothingTaken
  <2>8. CandleInv'
    BY <1>1, <1>2, <2>4 DEF IngestInv, CandleInv
  <2>9. GapInv'
    BY <1>1, <1>2, <2>4 DEF IngestInv, GapInv, Told
  <2>10. HourInv'
    BY <1>1, <1>2, <2>3, <2>4 DEF IngestInv, HourInv, HoursKnown, HoursOver, HourEnd, Scored
  <2> QED BY <2>5, <2>6, <2>7, <2>8, <2>9, <2>10 DEF IngestInv
<1> QED BY <1>3, <1>4

LEMMA SessionStep == ASSUME IngestInv, [IngestSessionNext]_insVars PROVE IngestInv'
<1>1. CASE \E known \in BOOLEAN : StartIngest(known)
  BY <1>1, StartKeeps
<1>2. CASE OnEvent \/ OnReleased \/ CommitSink \/ EndIngest
  BY <1>2, EventKeeps, ReleaseKeeps, CommitKeeps, EndKeeps
<1>3. CASE \E status \in {"OPEN", "FILLING"} \cup Terminal : OnGap(status)
  BY <1>3, GapKeeps
<1>4. CASE \E applied \in BOOLEAN : BreakOff(applied)
  BY <1>4, BreakOffKeeps
<1>5. CASE PipelineFinished
  BY <1>5, FinishKeeps
<1>6. CASE \/ \E route \in Routes : TakeItem(route)
           \/ StreamEnds \/ HandleReturns \/ AskStop \/ HaltPump \/ PumpReturns
  BY <1>6, QuietStep
<1>7. CASE UNCHANGED insVars
  <2>1. UNCHANGED <<stage, consumer, turn, made, journalBuffer, sinkTxn, gapIds, reports, heard,
                    released, dqWritten, ingestDb>>
    BY <1>7 DEF insVars
  <2>2. Now' = Now /\ Carried' = Carried /\ (\A kind : Pending(kind)' <=> Pending(kind))
    BY <2>1 DEF Now, Carried, Pending
  <2>3. IngestTypeOK' /\ TxnInv'
    BY <2>1, <2>2 DEF IngestInv, IngestTypeOK, TxnInv, HoursTaken, HourEnd
  <2>4. JournalInv' /\ CandleInv'
    BY <2>1, <2>2 DEF IngestInv, JournalInv, CandleInv, Alive
  <2>5. GapInv'
    BY <2>1, <2>2 DEF IngestInv, GapInv, Told, Alive
  <2>6. HourInv'
    BY <2>1, <2>2 DEF IngestInv, HourInv, HoursKnown, HoursOver, Alive, HourEnd, Scored
  <2> QED BY <2>3, <2>4, <2>5, <2>6 DEF IngestInv
<1> QED BY <1>1, <1>2, <1>3, <1>4, <1>5, <1>6, <1>7 DEF IngestSessionNext

LEMMA SameNumbers == ASSUME NEW n \in Nat PROVE Numbers(n) = From(0, n)
BY DEF Numbers, From

(* Whenever the session is stopped, fails or dies: the stored journal is a
   gapless prefix, candles never outrun it, a gap has one true row and an
   hour that is over one quality row (run_ingest, InstrumentSink). *)
THEOREM SessionRecorded == IngestSessionSpec => []SessionIsRecorded
<1>1. IngestInv => SessionIsRecorded
  <2> SUFFICES ASSUME IngestInv PROVE SessionIsRecorded
    OBVIOUS
  <2> DEFINE a == Len(ingestDb.journal)
             k == Len(Carried)
             m == Len(journalBuffer)
  <2>1. a \in Nat /\ ingestDb.journal = From(0, a) /\ made \in Nat /\ ingestDb \in Tables
    BY DEF IngestInv, IngestTypeOK, JournalInv, Tables
  <2>2. Alive => /\ k \in Nat /\ m \in Nat /\ made = a + k + m
                 /\ Carried = From(a, k) /\ journalBuffer = From(a + k, m)
    BY DEF IngestInv, JournalInv
  <2> HIDE DEF a, k, m
  <2>3. JournalIsWhole
    <3>1. ingestDb.journal = Numbers(a)
      BY <2>1, SameNumbers, Zenon
    <3>2. ASSUME Alive PROVE ingestDb.journal \o Carried \o journalBuffer = Numbers(made)
      <4>1. From(0, a) \o From(a, k) = From(0, a + k)
        BY <2>1, <2>2, <3>2, JoinedRuns, Zenon
      <4>2. a + k \in Nat
        BY <2>1, <2>2, <3>2
      <4>3. From(0, a + k) \o From(a + k, m) = From(0, a + k + m)
        BY <2>2, <3>2, <4>2, JoinedRuns, Zenon
      <4>4. Numbers(made) = From(0, made)
        BY <2>1, SameNumbers
      <4>5. /\ ingestDb.journal = From(0, a) /\ Carried = From(a, k)
            /\ journalBuffer = From(a + k, m) /\ made = a + k + m
        BY <2>1, <2>2, <3>2
      <4> QED BY <4>1, <4>3, <4>4, <4>5, Zenon
    <3>3. ASSUME stage = "ended" PROVE a = made
      <4>1. Alive /\ journalBuffer = <<>> /\ Carried = <<>>
        BY <3>3 DEF IngestInv, TxnInv, Alive, Carried
      <4>2. k = 0 /\ m = 0
        BY <4>1 DEF k, m
      <4> QED BY <2>1, <2>2, <4>1, <4>2
    <3> QED BY <3>1, <3>2, <3>3 DEF JournalIsWhole, Alive, a
  <2>4. CandlesFollowJournal
    BY DEF IngestInv, CandleInv, CandlesFollowJournal, Alive, Pending, Instruments
  <2>5. GapsFollowReports
    <3>1. ASSUME Alive, sinkTxn = <<>>, NEW s \in Instruments, reports[s] # NoReport
          PROVE  ingestDb.gaps[gapIds[s]] =
                   [symbol |-> s, status |-> reports[s].status, attempts |-> reports[s].attempts]
      <4>1. RowTold(ingestDb.gaps, s) /\ Told(s)
        BY <3>1, Settled DEF IngestInv, GapInv
      <4>2. gapIds[s] # 0
        BY <3>1, <4>1 DEF Told
      <4>3. /\ gapIds[s] \in DOMAIN ingestDb.gaps /\ ingestDb.gaps[gapIds[s]].symbol = s
            /\ ingestDb.gaps[gapIds[s]].status = reports[s].status
            /\ ingestDb.gaps[gapIds[s]].attempts = reports[s].attempts
        BY <4>1, <4>2 DEF RowTold
      <4>4. ingestDb.gaps[gapIds[s]] \in Gaps
        <5>1. ingestDb.gaps \in Seq(Gaps)
          BY <2>1 DEF Tables
        <5> HIDE DEF Gaps
        <5> QED BY <4>3, <5>1
      <4> QED BY <4>3, <4>4 DEF Gaps
    <3> QED BY <3>1 DEF IngestInv, GapInv, OneRow, GapsFollowReports, Alive, Instruments
  <2>6. HoursAreScored
    <3>1. ASSUME Alive, NEW s \in Instruments, NEW h \in 0 .. MaxEntries
          PROVE  /\ <<s, h>> \in Range(ingestDb.hours) => HourEnd(h) <= heard[s]
                 /\ sinkTxn = <<>> /\ HourEnd(h) < released[s] => <<s, h>> \in Range(ingestDb.hours)
                 /\ stage \in {"finishing", "ended"} /\ s \notin Range(turn) /\ HourEnd(h) <= heard[s] =>
                       <<s, h>> \in Range(ingestDb.hours)
      <4>1. h \in Nat /\ h \in Int
        BY <3>1, IngestAssumption
      <4>2. <<s, h>> \in Range(ingestDb.hours) <=> h \in dqWritten[s]
        BY <3>1, <4>1 DEF IngestInv, HourInv, HoursKnown, HoursOver
      <4> QED BY <3>1, <4>1, <4>2 DEF IngestInv, HourInv, HoursKnown, HoursOver, Pending, Scored
    <3>2. \A i, j \in DOMAIN ingestDb.hours : ingestDb.hours[i] = ingestDb.hours[j] => i = j
      BY DEF IngestInv, HourInv, HoursKnown, HoursOver, IsInjective
    <3> QED BY <3>1, <3>2, Zenon DEF HoursAreScored, Alive, Instruments, HourEnd
  <2> QED BY <2>3, <2>4, <2>5, <2>6 DEF SessionIsRecorded
<1> QED BY <1>1, SessionStarts, SessionStep, PTL DEF IngestSessionSpec

-----------------------------------------------------------------------------
(* The connections. *)

WsKinds == {"connected", "disconnected", "frame"}

WsItems == [conn : Conns, kind : WsKinds, n : Nat]

TaskRecords ==
    [pc : {"start", "connect", "put", "recv", "after", "sleep", "returned", "raised", "done"},
     item : WsItems \cup {Stop}, then : {"none", "recv", "after", "returned"}, opens : Nat,
     attempt : Nat, healthy : BOOLEAN, silence : Nat, recorded : Nat, frames : Nat, pause : Nat,
     since : Nat, cls : CloseClass]

WsTypeOK ==
    /\ wsTask \in [Conns -> TaskRecords]
    /\ wsQueue \in Seq(WsItems \cup {Stop})
    /\ wsSeen \in [Conns -> [n : Nat, kind : WsKinds]]

(* The back-off of a task counts the losses since the last frame; the one  *)
(* that is being reported is not counted yet.                              *)
Reporting(t) == t.pc = "after" \/ (t.pc = "put" /\ t.then = "after")
InSession(t) == t.pc = "recv" \/ (t.pc = "put" /\ t.then = "recv")

BacksOff(t) ==
    /\ t.pc \in {"start", "connect", "sleep"} \/ InSession(t) => t.attempt = t.since
    /\ Reporting(t) => t.since = t.attempt + 1
    /\ InSession(t) /\ t.healthy => t.since = 0
    /\ t.pc = "sleep" /\ t.since >= 2 => t.pause = Ceiling(t.since - 1)
    /\ t.pc = "put" => t.then # "none"

(* What has passed _put of a connection: what was consumed last, and what  *)
(* is queued.                                                              *)
QueuedOf(c) == {k \in DOMAIN wsQueue : wsQueue[k].conn = c}
NumbersOf(c) == {wsQueue[k].n : k \in QueuedOf(c)}
Passed(c) == {wsSeen[c]} \cup {[n |-> wsQueue[k].n, kind |-> wsQueue[k].kind] : k \in QueuedOf(c)}

(* What may follow in a session, and between two.  *)
Follows(x, y) ==
    \/ x = "disconnected" /\ y # "frame"
    \/ x # "disconnected" /\ y # "connected"

InPut(t) == IF t.pc = "put" /\ t.item # Stop THEN 1 ELSE 0

QueueInOrder(c) ==
    /\ \A j, k \in QueuedOf(c) : j < k => wsQueue[j].n < wsQueue[k].n
    /\ \A x, y \in Passed(c) : y.n = x.n + 1 => Follows(x.kind, y.kind)

(* Where a task is tells the kind of the last item it has put. *)
PutsInOrder(c, t) ==
    /\ NumbersOf(c) = (wsSeen[c].n + 1) .. (t.recorded - InPut(t))
    /\ wsSeen[c].n <= t.recorded - InPut(t)
    /\ t.pc = "put" /\ t.item # Stop =>
         /\ t.item.conn = c /\ t.item.n = t.recorded
         /\ t.then = IF t.item.kind = "disconnected" THEN "after" ELSE "recv"
         /\ \A x \in Passed(c) : x.n = t.recorded - 1 => Follows(x.kind, t.item.kind)
    /\ t.pc = "put" /\ t.item = Stop => t.then = "returned"
    /\ t.pc \in {"start", "connect", "sleep", "after"} =>
         \A x \in Passed(c) : x.n = t.recorded => x.kind = "disconnected"
    /\ t.pc = "recv" => \A x \in Passed(c) : x.n = t.recorded => x.kind # "disconnected"

WsInv ==
    /\ WsTypeOK
    /\ \A c \in Conns : BacksOff(wsTask[c])
    /\ wsConsumer = "run" => \A c \in Conns : QueueInOrder(c) /\ PutsInOrder(c, wsTask[c])

LEMMA CeilingIsNat == \A a \in Nat : Ceiling(a) \in Nat
BY DEF Ceiling

LEMMA StopIsNoItem == Stop \notin WsItems /\ Stop.conn = "none" /\ \A c \in Conns : Stop.conn # c
BY WsAssumption DEF Stop, WsItems

(* What _put changes of a task. *)
LEMMA PuttingFields ==
    ASSUME NEW t \in TaskRecords, NEW c \in Conns, NEW kind \in WsKinds, NEW then \in {"recv", "after"},
           NEW u, u = Putting(t, c, kind, then)
    PROVE  /\ u \in TaskRecords
           /\ u.pc = "put" /\ u.then = then /\ u.recorded = t.recorded + 1
           /\ u.item = [conn |-> c, kind |-> kind, n |-> t.recorded + 1] /\ u.item \in WsItems
           /\ u.attempt = t.attempt /\ u.healthy = t.healthy /\ u.since = t.since
<1> DEFINE item == [conn |-> c, kind |-> kind, n |-> t.recorded + 1]
<1>1. item \in WsItems /\ t.recorded + 1 \in Nat
  BY DEF WsItems, TaskRecords
<1>2. u = [t EXCEPT !.pc = "put", !.then = then, !.recorded = @ + 1, !.item = item]
  BY DEF Putting
<1> HIDE DEF item
<1>3. u \in TaskRecords
  BY <1>1, <1>2 DEF TaskRecords
<1>4. /\ u.pc = "put" /\ u.then = then /\ u.recorded = t.recorded + 1 /\ u.item = item
      /\ u.attempt = t.attempt /\ u.healthy = t.healthy /\ u.since = t.since
  BY <1>2 DEF TaskRecords
<1> QED BY <1>1, <1>3, <1>4 DEF item

(* The put of a task is in order if the item may follow the last one. *)
LEMMA PuttingInOrder ==
    ASSUME WsTypeOK, NEW c \in Conns, NEW t \in TaskRecords, PutsInOrder(c, t),
           NEW kind \in WsKinds, NEW u \in TaskRecords,
           u.pc = "put", u.recorded = t.recorded + 1,
           u.item = [conn |-> c, kind |-> kind, n |-> t.recorded + 1],
           u.then = IF kind = "disconnected" THEN "after" ELSE "recv",
           \/ t.pc = "connect" /\ kind # "frame"
           \/ t.pc = "recv" /\ kind # "connected"
    PROVE  PutsInOrder(c, u)
<1>1. t.recorded \in Nat /\ wsSeen[c].n \in Nat
  BY DEF WsTypeOK, TaskRecords
<1>2. u.item # Stop /\ u.item.conn = c /\ u.item.kind = kind /\ u.item.n = t.recorded + 1
  BY StopIsNoItem, <1>1 DEF WsItems
<1>3. InPut(u) = 1 /\ InPut(t) = 0
  BY <1>2 DEF InPut
<1>4. ASSUME NEW x \in Passed(c), x.n = u.recorded - 1
      PROVE  Follows(x.kind, u.item.kind)
  <2>1. x.n = t.recorded
    BY <1>1, <1>4
  <2> QED BY <1>2, <2>1 DEF PutsInOrder, Follows
<1>5. u.recorded - InPut(u) = t.recorded - InPut(t)
  BY <1>1, <1>3
<1> QED BY <1>1, <1>2, <1>4, <1>5 DEF PutsInOrder

(* A step of one task that leaves the queue and the consumer alone. *)
LEMMA TaskMoves ==
    ASSUME WsInv, NEW c \in Conns, NEW t \in TaskRecords, BacksOff(t),
           PutsInOrder(c, wsTask[c]) => PutsInOrder(c, t),
           wsTask' = [wsTask EXCEPT ![c] = t], UNCHANGED <<wsQueue, wsConsumer, wsSeen>>
    PROVE  WsInv'
<1>1. wsTask'[c] = t /\ \A d \in Conns : d # c => wsTask'[d] = wsTask[d]
  BY DEF WsInv, WsTypeOK
<1>2. WsTypeOK'
  BY DEF WsInv, WsTypeOK
<1>3. ASSUME NEW d \in Conns PROVE BacksOff(wsTask[d])'
  BY <1>1 DEF WsInv, BacksOff, Reporting, InSession
<1>4. ASSUME NEW d \in Conns, wsConsumer' = "run" PROVE (QueueInOrder(d) /\ PutsInOrder(d, wsTask[d]))'
  <2>1. QueueInOrder(d) /\ PutsInOrder(d, wsTask[d])
    BY <1>4 DEF WsInv
  <2>2. QueueInOrder(d)' /\ NumbersOf(d)' = NumbersOf(d) /\ Passed(d)' = Passed(d)
    BY <2>1 DEF QueueInOrder, QueuedOf, NumbersOf, Passed
  <2>3. PutsInOrder(d, wsTask'[d])
    BY <1>1, <2>1
  <2> QED BY <2>2, <2>3 DEF PutsInOrder, InPut
<1> QED BY <1>2, <1>3, <1>4 DEF WsInv

(* A connection that is lost, in the handshake or in a session. *)
LEMMA LossStep ==
    ASSUME WsInv, NEW c \in Conns, NEW cls \in CloseClass,
           wsTask[c].pc \in {"connect", "recv"}, Step(c, Lost(wsTask[c], c, cls))
    PROVE  WsInv'
<1> DEFINE t == wsTask[c]
           p == Putting(t, c, "disconnected", "after")
           u == Lost(t, c, cls)
<1>1. t \in TaskRecords /\ BacksOff(t) /\ t.since \in Nat /\ t.attempt \in Nat
  BY DEF WsInv, WsTypeOK, TaskRecords
<1>2. "disconnected" \in WsKinds
  BY DEF WsKinds
<1>3. /\ p \in TaskRecords
      /\ p.pc = "put" /\ p.then = "after" /\ p.recorded = t.recorded + 1
      /\ p.item = [conn |-> c, kind |-> "disconnected", n |-> t.recorded + 1]
      /\ p.attempt = t.attempt /\ p.healthy = t.healthy /\ p.since = t.since
  BY <1>1, <1>2, PuttingFields
<1>4. u = [p EXCEPT !.cls = cls, !.since = @ + 1]
  BY DEF Lost
<1> HIDE DEF p
<1>5. /\ u \in TaskRecords
      /\ u.pc = "put" /\ u.then = "after" /\ u.recorded = t.recorded + 1
      /\ u.item = [conn |-> c, kind |-> "disconnected", n |-> t.recorded + 1]
      /\ u.attempt = t.attempt /\ u.since = t.since + 1
  <2> HIDE DEF t, u
  <2>1. p.since + 1 \in Nat
    BY <1>1, <1>3
  <2>2. u \in TaskRecords
    BY <1>3, <1>4, <2>1 DEF TaskRecords
  <2>3. u.pc = p.pc /\ u.then = p.then /\ u.recorded = p.recorded /\ u.item = p.item
        /\ u.attempt = p.attempt /\ u.since = p.since + 1
    BY <1>3, <1>4 DEF TaskRecords
  <2> QED BY <1>3, <2>2, <2>3
<1> HIDE DEF u
<1>6. BacksOff(u)
  BY <1>1, <1>5 DEF BacksOff, Reporting, InSession
<1>7. PutsInOrder(c, t) => PutsInOrder(c, u)
  BY <1>1, <1>2, <1>5, PuttingInOrder DEF WsInv
<1>8. wsTask' = [wsTask EXCEPT ![c] = u] /\ UNCHANGED <<wsQueue, wsConsumer, wsSeen>>
  BY DEF Step, u
<1> QED BY <1>5, <1>6, <1>7, <1>8, TaskMoves

LEMMA ConnectedStep ==
    ASSUME WsInv, NEW c \in Conns, wsTask[c].pc = "connect",
           Step(c, [Putting(wsTask[c], c, "connected", "recv") EXCEPT !.healthy = FALSE])
    PROVE  WsInv'
<1> DEFINE t == wsTask[c]
           p == Putting(t, c, "connected", "recv")
           u == [p EXCEPT !.healthy = FALSE]
<1>1. t \in TaskRecords /\ BacksOff(t) /\ t.since \in Nat /\ t.attempt \in Nat
  BY DEF WsInv, WsTypeOK, TaskRecords
<1>2. "connected" \in WsKinds
  BY DEF WsKinds
<1>3. /\ p \in TaskRecords
      /\ p.pc = "put" /\ p.then = "recv" /\ p.recorded = t.recorded + 1
      /\ p.item = [conn |-> c, kind |-> "connected", n |-> t.recorded + 1]
      /\ p.attempt = t.attempt /\ p.healthy = t.healthy /\ p.since = t.since
  BY <1>1, <1>2, PuttingFields
<1>8. wsTask' = [wsTask EXCEPT ![c] = u] /\ UNCHANGED <<wsQueue, wsConsumer, wsSeen>>
  BY DEF Step
<1> HIDE DEF p
<1>5. /\ u \in TaskRecords
      /\ u.pc = "put" /\ u.then = "recv" /\ u.recorded = t.recorded + 1
      /\ u.item = [conn |-> c, kind |-> "connected", n |-> t.recorded + 1]
      /\ u.attempt = t.attempt /\ u.since = t.since /\ u.healthy = FALSE
  BY <1>1, <1>3 DEF TaskRecords
<1> HIDE DEF u
<1>6. BacksOff(u)
  BY <1>1, <1>5 DEF BacksOff, Reporting, InSession
<1>7. PutsInOrder(c, t) => PutsInOrder(c, u)
  BY <1>1, <1>2, <1>5, PuttingInOrder DEF WsInv
<1> QED BY <1>5, <1>6, <1>7, <1>8, TaskMoves

LEMMA FrameStep ==
    ASSUME WsInv, NEW c \in Conns, wsTask[c].pc = "recv", Step(c, ReceivedFrame(wsTask[c], c))
    PROVE  WsInv'
<1> DEFINE t == wsTask[c]
           p == Putting(t, c, "frame", "recv")
           u == ReceivedFrame(t, c)
<1>1. t \in TaskRecords /\ BacksOff(t) /\ t.since \in Nat /\ t.attempt \in Nat /\ t.healthy \in BOOLEAN
  BY DEF WsInv, WsTypeOK, TaskRecords
<1>2. "frame" \in WsKinds
  BY DEF WsKinds
<1>3. /\ p \in TaskRecords
      /\ p.pc = "put" /\ p.then = "recv" /\ p.recorded = t.recorded + 1
      /\ p.item = [conn |-> c, kind |-> "frame", n |-> t.recorded + 1]
      /\ p.attempt = t.attempt /\ p.healthy = t.healthy /\ p.since = t.since
  BY <1>1, <1>2, PuttingFields
<1> DEFINE a == IF t.healthy THEN t.attempt ELSE 0
<1>4. u = [p EXCEPT !.frames = @ + 1, !.silence = 0, !.healthy = TRUE, !.since = 0, !.attempt = a]
  BY <1>3 DEF ReceivedFrame
<1>9. a = 0
  BY <1>1 DEF BacksOff, InSession
<1> HIDE DEF p, a
<1>5. /\ u \in TaskRecords
      /\ u.pc = "put" /\ u.then = "recv" /\ u.recorded = t.recorded + 1
      /\ u.item = [conn |-> c, kind |-> "frame", n |-> t.recorded + 1]
      /\ u.attempt = 0 /\ u.since = 0
  <2> HIDE DEF t, u
  <2>1. p.frames + 1 \in Nat
    BY <1>3 DEF TaskRecords
  <2>2. u \in TaskRecords
    BY <1>3, <1>4, <1>9, <2>1 DEF TaskRecords
  <2>3. u.pc = p.pc /\ u.then = p.then /\ u.recorded = p.recorded /\ u.item = p.item
        /\ u.attempt = a /\ u.since = 0
    BY <1>3, <1>4 DEF TaskRecords
  <2> QED BY <1>3, <1>9, <2>2, <2>3
<1>8. wsTask' = [wsTask EXCEPT ![c] = u] /\ UNCHANGED <<wsQueue, wsConsumer, wsSeen>>
  BY DEF Step
<1> HIDE DEF u
<1>6. BacksOff(u)
  BY <1>1, <1>5 DEF BacksOff, Reporting, InSession
<1>7. PutsInOrder(c, t) => PutsInOrder(c, u)
  BY <1>1, <1>2, <1>5, PuttingInOrder DEF WsInv
<1> QED BY <1>5, <1>6, <1>7, <1>8, TaskMoves

(* Another round, a crash, a frame that does not parse, and what follows a loss. *)
LEMMA OtherTaskStep ==
    ASSUME WsInv, NEW c \in Conns, Loop(c) \/ Crash(c) \/ ReceiveBad(c) \/ AfterLoss(c)
    PROVE  WsInv'
<1> DEFINE t == wsTask[c]
           u == wsTask'[c]
<1>1. /\ t \in TaskRecords /\ BacksOff(t) /\ t.since \in Nat /\ t.attempt \in Nat /\ t.recorded \in Nat
      /\ wsTask \in [Conns -> TaskRecords]
  BY DEF WsInv, WsTypeOK, TaskRecords
<1>2. UNCHANGED <<wsQueue, wsConsumer, wsSeen>>
  BY DEF Loop, Crash, ReceiveBad, AfterLoss, Step
<1>3. CASE Loop(c)
  <2>1. \/ u = [t EXCEPT !.pc = "returned"]
        \/ u = [t EXCEPT !.pc = "connect", !.opens = @ + 1, !.pause = 0]
    BY <1>1, <1>3 DEF Loop, Step
  <2>2. u \in TaskRecords /\ u.recorded = t.recorded /\ u.pc \in {"returned", "connect"} /\ u.attempt = t.attempt
        /\ u.since = t.since
    <3> HIDE DEF t, u
    <3>1. CASE u = [t EXCEPT !.pc = "returned"]
      BY <1>1, <3>1 DEF TaskRecords
    <3>2. CASE u = [t EXCEPT !.pc = "connect", !.opens = @ + 1, !.pause = 0]
      <4>1. t.opens + 1 \in Nat
        BY <1>1 DEF TaskRecords
      <4> QED BY <1>1, <3>2, <4>1 DEF TaskRecords
    <3> QED BY <2>1, <3>1, <3>2
  <2>3. wsTask' = [wsTask EXCEPT ![c] = u] /\ t.pc \in {"start", "sleep"}
    BY <1>1, <1>3 DEF Loop, Step
  <2>4. BacksOff(u)
    BY <1>1, <2>2, <2>3 DEF BacksOff, Reporting, InSession
  <2>5. PutsInOrder(c, t) => PutsInOrder(c, u)
    BY <1>1, <2>2, <2>3 DEF PutsInOrder, InPut
  <2> QED BY <1>2, <2>2, <2>3, <2>4, <2>5, TaskMoves
<1>4. CASE Crash(c)
  <2>1. u = [t EXCEPT !.pc = "raised"] /\ wsTask' = [wsTask EXCEPT ![c] = u] /\ t.pc \in {"connect", "recv"}
    BY <1>1, <1>4 DEF Crash, Step
  <2>2. u \in TaskRecords /\ u.recorded = t.recorded /\ u.pc = "raised"
    BY <1>1, <2>1 DEF TaskRecords
  <2>4. BacksOff(u)
    BY <1>1, <2>2 DEF BacksOff, Reporting, InSession
  <2>5. PutsInOrder(c, t) => PutsInOrder(c, u)
    BY <1>1, <2>1, <2>2 DEF PutsInOrder, InPut
  <2> QED BY <1>2, <2>1, <2>2, <2>4, <2>5, TaskMoves
<1>5. CASE ReceiveBad(c)
  <2>1. u = [t EXCEPT !.silence = 0] /\ wsTask' = [wsTask EXCEPT ![c] = u] /\ t.pc = "recv"
    BY <1>1, <1>5 DEF ReceiveBad, Step
  <2>2. u \in TaskRecords /\ u.recorded = t.recorded /\ u.pc = "recv" /\ u.attempt = t.attempt
        /\ u.since = t.since /\ u.healthy = t.healthy
    BY <1>1, <2>1 DEF TaskRecords
  <2>4. BacksOff(u)
    BY <1>1, <2>1, <2>2 DEF BacksOff, Reporting, InSession
  <2>5. PutsInOrder(c, t) => PutsInOrder(c, u)
    BY <1>1, <2>1, <2>2 DEF PutsInOrder, InPut
  <2> QED BY <1>2, <2>1, <2>2, <2>4, <2>5, TaskMoves
<1>6. CASE AfterLoss(c) /\ t.cls \in FATAL
  <2>1. u = [[[t EXCEPT !.pc = "put"] EXCEPT !.item = Stop] EXCEPT !.then = "returned"]
        /\ wsTask' = [wsTask EXCEPT ![c] = u] /\ t.pc = "after"
    BY <1>1, <1>6 DEF AfterLoss
  <2>2. u \in TaskRecords /\ u.recorded = t.recorded /\ u.pc = "put" /\ u.item = Stop /\ u.then = "returned"
    BY <1>1, <2>1 DEF TaskRecords
  <2>4. BacksOff(u)
    BY <1>1, <2>2 DEF BacksOff, Reporting, InSession
  <2>5. PutsInOrder(c, t) => PutsInOrder(c, u)
    BY <1>1, <2>1, <2>2 DEF PutsInOrder, InPut
  <2> QED BY <1>2, <2>1, <2>2, <2>4, <2>5, TaskMoves
<1>7. CASE AfterLoss(c) /\ t.cls \notin FATAL
  <2> DEFINE d == Delay(t)
  <2>0. d \in Nat /\ (t.attempt # 0 => d = Ceiling(t.attempt))
    BY <1>1, CeilingIsNat DEF Delay
  <2> HIDE DEF d
  <2>6. t.pc = "after" /\ wsTask' = [wsTask EXCEPT ![c].pc = "sleep", ![c].pause = d,
                                          ![c].attempt = @ + 1, ![c].cls = "TRANSIENT"]
    BY <1>7, Zenon DEF AfterLoss, d
  <2>1. u = [[[[t EXCEPT !.pc = "sleep"] EXCEPT !.pause = d] EXCEPT !.attempt = @ + 1] EXCEPT !.cls = "TRANSIENT"]
        /\ wsTask' = [wsTask EXCEPT ![c] = u] /\ t.pc = "after"
    BY <1>1, <2>6
  <2>2. u \in TaskRecords /\ u.recorded = t.recorded /\ u.pc = "sleep" /\ u.attempt = t.attempt + 1
        /\ u.since = t.since /\ u.pause = d
    <3> HIDE DEF t, u
    <3>1. t.attempt + 1 \in Nat /\ "TRANSIENT" \in CloseClass
      BY <1>1 DEF CloseClass
    <3>2. u \in TaskRecords
      BY <1>1, <2>0, <2>1, <3>1 DEF TaskRecords
    <3> QED BY <1>1, <2>1, <3>2 DEF TaskRecords
  <2>4. BacksOff(u)
    <3>1. t.since = t.attempt + 1
      BY <1>1, <2>1 DEF BacksOff, Reporting
    <3>2. t.since >= 2 => t.attempt # 0 /\ t.since - 1 = t.attempt
      BY <1>1, <3>1
    <3> QED BY <2>0, <2>2, <3>1, <3>2 DEF BacksOff, Reporting, InSession
  <2>5. PutsInOrder(c, t) => PutsInOrder(c, u)
    BY <1>1, <2>1, <2>2 DEF PutsInOrder, InPut
  <2> QED BY <1>2, <2>1, <2>2, <2>4, <2>5, TaskMoves
<1> QED BY <1>3, <1>4, <1>5, <1>6, <1>7

(* An item at the end of the queue is one more of its connection. *)
LEMMA Enqueued ==
    ASSUME WsTypeOK, NEW i \in WsItems \cup {Stop}, NEW c \in Conns,
           wsQueue' = Append(wsQueue, i), UNCHANGED wsSeen
    PROVE  /\ i.conn # c => /\ QueuedOf(c)' = QueuedOf(c) /\ NumbersOf(c)' = NumbersOf(c)
                            /\ Passed(c)' = Passed(c)
           /\ i.conn = c => /\ QueuedOf(c)' = QueuedOf(c) \cup {Len(wsQueue) + 1}
                            /\ NumbersOf(c)' = NumbersOf(c) \cup {i.n}
                            /\ Passed(c)' = Passed(c) \cup {[n |-> i.n, kind |-> i.kind]}
           /\ \A k \in QueuedOf(c) : k <= Len(wsQueue) /\ k \in Nat /\ wsQueue'[k] = wsQueue[k]
           /\ wsQueue'[Len(wsQueue) + 1] = i
<1> DEFINE n == Len(wsQueue)
<1>1. n \in Nat /\ DOMAIN wsQueue = 1 .. n /\ DOMAIN wsQueue' = 1 .. (n + 1)
      /\ (\A k \in 1 .. n : wsQueue'[k] = wsQueue[k]) /\ wsQueue'[n + 1] = i
  BY DEF WsTypeOK
<1> HIDE DEF n
<1>2. \A k \in QueuedOf(c) : k <= n /\ k \in Nat /\ wsQueue'[k] = wsQueue[k]
  BY <1>1 DEF QueuedOf
<1>3. ASSUME i.conn # c PROVE QueuedOf(c)' = QueuedOf(c)
  <2>1. ASSUME NEW k \in QueuedOf(c) PROVE k \in QueuedOf(c)'
    BY <1>1 DEF QueuedOf
  <2>2. ASSUME NEW k \in QueuedOf(c)' PROVE k \in QueuedOf(c)
    <3>1. k \in 1 .. (n + 1) /\ wsQueue'[k].conn = c
      BY <1>1 DEF QueuedOf
    <3>2. k # n + 1
      BY <1>1, <1>3, <3>1
    <3> QED BY <1>1, <3>1, <3>2 DEF QueuedOf
  <2> QED BY <2>1, <2>2
<1>4. ASSUME i.conn = c PROVE QueuedOf(c)' = QueuedOf(c) \cup {n + 1}
  <2>1. ASSUME NEW k \in QueuedOf(c) PROVE k \in QueuedOf(c)'
    BY <1>1 DEF QueuedOf
  <2>2. ASSUME NEW k \in QueuedOf(c)' PROVE k \in QueuedOf(c) \cup {n + 1}
    <3>1. k \in 1 .. (n + 1) /\ wsQueue'[k].conn = c
      BY <1>1 DEF QueuedOf
    <3>2. CASE k # n + 1
      BY <1>1, <3>1, <3>2 DEF QueuedOf
    <3> QED BY <3>2
  <2>3. n + 1 \in QueuedOf(c)'
    BY <1>1, <1>4 DEF QueuedOf
  <2> QED BY <2>1, <2>2, <2>3
<1>5. ASSUME i.conn # c PROVE NumbersOf(c)' = NumbersOf(c) /\ Passed(c)' = Passed(c)
  BY <1>2, <1>3, <1>5 DEF NumbersOf, Passed
<1>6. ASSUME i.conn = c
      PROVE  NumbersOf(c)' = NumbersOf(c) \cup {i.n} /\ Passed(c)' = Passed(c) \cup {[n |-> i.n, kind |-> i.kind]}
  <2>1. NumbersOf(c)' = {wsQueue'[k].n : k \in QueuedOf(c) \cup {n + 1}}
    BY <1>4, <1>6 DEF NumbersOf
  <2>2. Passed(c)' = {wsSeen[c]} \cup {[n |-> wsQueue'[k].n, kind |-> wsQueue'[k].kind] : k \in QueuedOf(c) \cup {n + 1}}
    BY <1>4, <1>6 DEF Passed
  <2>3. NumbersOf(c)' = NumbersOf(c) \cup {i.n}
    BY <1>1, <1>2, <2>1 DEF NumbersOf
  <2> DEFINE it(k) == [n |-> wsQueue[k].n, kind |-> wsQueue[k].kind]
             it2(k) == [n |-> wsQueue'[k].n, kind |-> wsQueue'[k].kind]
  <2>4. (\A k \in QueuedOf(c) : it2(k) = it(k)) /\ it2(n + 1) = [n |-> i.n, kind |-> i.kind]
    BY <1>1, <1>2
  <2>5. Passed(c)' = {wsSeen[c]} \cup {it2(k) : k \in QueuedOf(c) \cup {n + 1}} /\ Passed(c) = {wsSeen[c]} \cup {it(k) : k \in QueuedOf(c)}
    BY <2>2 DEF Passed
  <2> HIDE DEF it, it2
  <2> QED BY <2>3, <2>4, <2>5
<1> QED BY <1>1, <1>2, <1>3, <1>4, <1>5, <1>6 DEF n

(* The order of a connection whose part of the queue did not change. *)
LEMMA OrderKept ==
    ASSUME NEW c \in Conns, QueueInOrder(c), NEW t, PutsInOrder(c, t), NEW u,
           QueuedOf(c)' = QueuedOf(c), NumbersOf(c)' = NumbersOf(c), Passed(c)' = Passed(c),
           \A k \in QueuedOf(c) : wsQueue'[k] = wsQueue[k], wsSeen'[c] = wsSeen[c],
           \/ /\ u.pc = t.pc /\ u.item = t.item /\ u.then = t.then /\ u.recorded = t.recorded
           \/ /\ InPut(t) = 0 /\ u.recorded = t.recorded /\ u.pc \in {"returned", "raised", "done"}
    PROVE  QueueInOrder(c)' /\ NumbersOf(c)' = (wsSeen'[c].n + 1) .. (u.recorded - InPut(u))
           /\ wsSeen'[c].n <= u.recorded - InPut(u) /\ (u = wsTask'[c] => PutsInOrder(c, wsTask[c])')
<1>1. QueueInOrder(c)'
  BY DEF QueueInOrder
<1>2. InPut(u) = InPut(t)
  BY DEF InPut
<1> QED BY <1>1, <1>2 DEF PutsInOrder, InPut

(* A stop signal is of no connection. *)
LEMMA StopQueued ==
    ASSUME WsInv, wsQueue' = Append(wsQueue, Stop), UNCHANGED <<wsTask, wsSeen, wsConsumer>>
    PROVE  WsInv'
<1>1. WsTypeOK'
  BY DEF WsInv, WsTypeOK
<1>2. ASSUME NEW c \in Conns, wsConsumer = "run" PROVE (QueueInOrder(c) /\ PutsInOrder(c, wsTask[c]))'
  <2>1. /\ QueuedOf(c)' = QueuedOf(c) /\ NumbersOf(c)' = NumbersOf(c) /\ Passed(c)' = Passed(c)
        /\ \A k \in QueuedOf(c) : wsQueue'[k] = wsQueue[k]
    BY Enqueued, StopIsNoItem DEF WsInv
  <2>2. QueueInOrder(c) /\ PutsInOrder(c, wsTask[c])
    BY <1>2 DEF WsInv
  <2> QED BY <2>1, <2>2, OrderKept
<1> QED BY <1>1, <1>2 DEF WsInv, BacksOff, Reporting, InSession

LEMMA TaskDoneStep ==
    ASSUME WsInv, NEW c \in Conns, OnTaskDone(c)
    PROVE  WsInv'
<1> DEFINE t == wsTask[c]
           u == wsTask'[c]
<1>1. t \in TaskRecords /\ t.pc \in {"returned", "raised"} /\ wsTask \in [Conns -> TaskRecords]
  BY DEF WsInv, WsTypeOK, OnTaskDone
<1>2. u = [t EXCEPT !.pc = "done"] /\ wsTask' = [wsTask EXCEPT ![c] = u]
  BY <1>1 DEF OnTaskDone
<1>3. u \in TaskRecords /\ u.recorded = t.recorded /\ u.pc = "done"
  BY <1>1, <1>2 DEF TaskRecords
<1>4. BacksOff(u)
  BY <1>3 DEF BacksOff, Reporting, InSession
<1>5. InPut(t) = 0
  BY <1>1 DEF InPut
<1>6. PutsInOrder(c, t) => PutsInOrder(c, u)
  BY <1>1, <1>3 DEF PutsInOrder, InPut
<1>7. UNCHANGED <<wsConsumer, wsSeen>> /\ (wsQueue' = wsQueue \/ wsQueue' = Append(wsQueue, Stop))
  BY DEF OnTaskDone
<1>8. CASE wsQueue' = wsQueue
  BY <1>2, <1>3, <1>4, <1>6, <1>7, <1>8, TaskMoves
<1>9. CASE wsQueue' = Append(wsQueue, Stop)
  <2>1. WsTypeOK'
    <3>1. wsQueue \in Seq(WsItems \cup {Stop}) /\ Stop \in WsItems \cup {Stop}
      BY DEF WsInv, WsTypeOK
    <3>2. wsQueue' \in Seq(WsItems \cup {Stop})
      BY <1>9, <3>1
    <3>3. wsTask' \in [Conns -> TaskRecords]
      BY <1>1, <1>2, <1>3
    <3> QED BY <1>7, <3>2, <3>3 DEF WsInv, WsTypeOK
  <2>2. ASSUME NEW d \in Conns PROVE BacksOff(wsTask[d])'
    <3>1. BacksOff(wsTask'[d])
      BY <1>1, <1>2, <1>4 DEF WsInv
    <3> QED BY <3>1 DEF BacksOff, Reporting, InSession
  <2>3. ASSUME NEW d \in Conns, wsConsumer = "run" PROVE (QueueInOrder(d) /\ PutsInOrder(d, wsTask[d]))'
    <3>1. /\ QueuedOf(d)' = QueuedOf(d) /\ NumbersOf(d)' = NumbersOf(d) /\ Passed(d)' = Passed(d)
          /\ \A k \in QueuedOf(d) : wsQueue'[k] = wsQueue[k]
      BY <1>7, <1>9, Enqueued, StopIsNoItem DEF WsInv
    <3>2. QueueInOrder(d) /\ PutsInOrder(d, wsTask[d])
      BY <2>3 DEF WsInv
    <3>3. d # c => wsTask'[d] = wsTask[d]
      BY <1>1, <1>2
    <3> QED BY <1>3, <1>5, <1>7, <3>1, <3>2, <3>3, OrderKept
  <2> QED BY <1>7, <2>1, <2>2, <2>3 DEF WsInv
<1> QED BY <1>7, <1>8, <1>9

(* What has passed is numbered from what was consumed last to what was recorded last. *)
LEMMA PassedBounds ==
    ASSUME WsTypeOK, NEW c \in Conns, NEW t \in TaskRecords, PutsInOrder(c, t)
    PROVE  /\ \A x \in Passed(c) : x.n \in wsSeen[c].n .. (t.recorded - InPut(t))
           /\ wsSeen[c].n \in Nat /\ t.recorded \in Nat /\ InPut(t) \in {0, 1}
           /\ \A k \in QueuedOf(c) : wsQueue[k].n \in (wsSeen[c].n + 1) .. (t.recorded - InPut(t))
<1>1. wsSeen[c].n \in Nat /\ t.recorded \in Nat /\ InPut(t) \in {0, 1}
  BY DEF WsTypeOK, TaskRecords, InPut
<1>2. \A k \in QueuedOf(c) : wsQueue[k].n \in (wsSeen[c].n + 1) .. (t.recorded - InPut(t))
  BY DEF PutsInOrder, NumbersOf
<1>3. ASSUME NEW x \in Passed(c) PROVE x.n \in wsSeen[c].n .. (t.recorded - InPut(t))
  <2>1. CASE x = wsSeen[c]
    BY <1>1, <2>1 DEF PutsInOrder
  <2>2. CASE \E k \in QueuedOf(c) : x = [n |-> wsQueue[k].n, kind |-> wsQueue[k].kind]
    BY <1>1, <1>2, <2>2
  <2> QED BY <2>1, <2>2 DEF Passed
<1> QED BY <1>1, <1>2, <1>3

LEMMA PutItemStep ==
    ASSUME WsInv, NEW c \in Conns, PutItem(c)
    PROVE  WsInv'
<1> DEFINE t == wsTask[c]
           u == wsTask'[c]
           i == wsTask[c].item
<1>1. /\ t \in TaskRecords /\ t.pc = "put" /\ wsTask \in [Conns -> TaskRecords] /\ i \in WsItems \cup {Stop}
      /\ BacksOff(t) /\ t.recorded \in Nat /\ t.attempt \in Nat /\ t.since \in Nat
      /\ wsQueue' = Append(wsQueue, i) /\ UNCHANGED <<wsConsumer, wsSeen>>
  BY DEF WsInv, WsTypeOK, PutItem, TaskRecords
<1>2. PICK s \in Nat : /\ u = [[[[t EXCEPT !.pc = t.then] EXCEPT !.then = "none"] EXCEPT !.item = Stop] EXCEPT !.silence = s]
                       /\ wsTask' = [wsTask EXCEPT ![c] = u]
  <2>1. u = [[[[t EXCEPT !.pc = t.then] EXCEPT !.then = "none"] EXCEPT !.item = Stop]
                EXCEPT !.silence = IF i.kind # "frame" THEN 0 ELSE t.silence]
        /\ wsTask' = [wsTask EXCEPT ![c] = u]
    BY <1>1 DEF PutItem, TaskRecords
  <2>2. (IF i.kind # "frame" THEN 0 ELSE t.silence) \in Nat
    BY <1>1 DEF TaskRecords
  <2> QED BY <2>1, <2>2
<1>3. t.then # "none" /\ t.then \in {"recv", "after", "returned"}
  BY <1>1 DEF BacksOff, TaskRecords
<1>4. /\ u \in TaskRecords /\ u.pc = t.then /\ u.item = Stop /\ u.recorded = t.recorded
      /\ u.attempt = t.attempt /\ u.since = t.since /\ u.healthy = t.healthy
  <2> HIDE DEF t, u
  <2>1. u \in TaskRecords
    BY <1>1, <1>2, <1>3 DEF TaskRecords
  <2> QED BY <1>1, <1>2, <1>3, <2>1 DEF TaskRecords
<1>5. BacksOff(u)
  BY <1>1, <1>3, <1>4 DEF BacksOff, Reporting, InSession
<1>6. WsTypeOK'
  <2>1. wsQueue \in Seq(WsItems \cup {Stop}) /\ wsSeen' = wsSeen
    BY <1>1 DEF WsInv, WsTypeOK
  <2>2. wsQueue' \in Seq(WsItems \cup {Stop})
    BY <1>1, <2>1
  <2>3. wsTask' \in [Conns -> TaskRecords]
    BY <1>1, <1>2, <1>4
  <2> QED BY <2>1, <2>2, <2>3 DEF WsInv, WsTypeOK
<1>7. ASSUME NEW d \in Conns PROVE BacksOff(wsTask[d])'
  <2>1. BacksOff(wsTask'[d])
    BY <1>1, <1>2, <1>5 DEF WsInv
  <2> QED BY <2>1 DEF BacksOff, Reporting, InSession
<1>8. ASSUME NEW d \in Conns, i.conn # d, wsConsumer = "run" PROVE (QueueInOrder(d) /\ PutsInOrder(d, wsTask[d]))'
  <2>1. /\ QueuedOf(d)' = QueuedOf(d) /\ NumbersOf(d)' = NumbersOf(d) /\ Passed(d)' = Passed(d)
        /\ \A k \in QueuedOf(d) : wsQueue'[k] = wsQueue[k]
    BY <1>1, <1>8, Enqueued DEF WsInv
  <2>2. QueueInOrder(d) /\ PutsInOrder(d, wsTask[d])
    BY <1>8 DEF WsInv
  <2>3. d # c => wsTask'[d] = wsTask[d]
    BY <1>1, <1>2
  <2>4. d = c => i = Stop /\ InPut(t) = 0 /\ t.then = "returned"
    BY <1>1, <1>8, <2>2 DEF PutsInOrder, InPut
  <2> QED BY <1>1, <1>4, <2>1, <2>2, <2>3, <2>4, OrderKept, ZenonT(40)
<1>9. ASSUME i.conn = c, wsConsumer = "run" PROVE (QueueInOrder(c) /\ PutsInOrder(c, wsTask[c]))'
  <2> DEFINE r == t.recorded
             new == [n |-> i.n, kind |-> i.kind]
  <2>1. QueueInOrder(c) /\ PutsInOrder(c, t) /\ i # Stop /\ i.conn = c /\ i \in WsItems
    BY <1>1, <1>9, StopIsNoItem DEF WsInv
  <2>2. /\ QueuedOf(c)' = QueuedOf(c) \cup {Len(wsQueue) + 1}
        /\ NumbersOf(c)' = NumbersOf(c) \cup {i.n}
        /\ Passed(c)' = Passed(c) \cup {new}
        /\ \A k \in QueuedOf(c) : k <= Len(wsQueue) /\ k \in Nat /\ wsQueue'[k] = wsQueue[k]
        /\ wsQueue'[Len(wsQueue) + 1] = i
    BY <1>1, <1>9, Enqueued, ZenonT(40) DEF WsInv
  <2>3. /\ InPut(t) = 1 /\ InPut(u) = 0 /\ i.n = r
        /\ t.then = (IF i.kind = "disconnected" THEN "after" ELSE "recv")
        /\ \A x \in Passed(c) : x.n = r - 1 => Follows(x.kind, i.kind)
        /\ NumbersOf(c) = (wsSeen[c].n + 1) .. (r - 1) /\ wsSeen[c].n <= r - 1
    BY <1>1, <1>3, <1>4, <2>1 DEF PutsInOrder, InPut
  <2>4. /\ \A x \in Passed(c) : x.n \in Int /\ x.n <= r - 1
        /\ wsSeen[c].n \in Nat
        /\ \A k \in QueuedOf(c) : wsQueue[k].n \in Int /\ wsQueue[k].n <= r - 1
    BY <1>1, <2>1, <2>3, PassedBounds DEF WsInv
  <2>5. new.n = r /\ new.kind = i.kind
    BY <2>3
  <2> HIDE DEF new, r
  <2>r. r \in Nat
    BY <1>1 DEF r
  <2>6. NumbersOf(c)' = (wsSeen[c].n + 1) .. r
    BY <2>2, <2>3, <2>4, <2>r
  <2>7. ASSUME NEW j \in QueuedOf(c)', NEW k \in QueuedOf(c)', j < k PROVE wsQueue'[j].n < wsQueue'[k].n
    <3>1. Len(wsQueue) \in Nat
      BY DEF WsInv, WsTypeOK
    <3>2. CASE k \in QueuedOf(c)
      <4>1. j \in QueuedOf(c)
        BY <2>2, <2>7, <3>1, <3>2
      <4> QED BY <2>1, <2>2, <2>7, <3>2, <4>1 DEF QueueInOrder
    <3>3. CASE k = Len(wsQueue) + 1
      <4>1. j \in QueuedOf(c)
        BY <2>2, <2>7, <3>1, <3>3
      <4> QED BY <2>2, <2>3, <2>4, <2>r, <3>3, <4>1
    <3> QED BY <2>2, <3>2, <3>3
  <2>8. ASSUME NEW x \in Passed(c)', NEW y \in Passed(c)', y.n = x.n + 1 PROVE Follows(x.kind, y.kind)
    <3>1. CASE x = new
      BY <2>2, <2>4, <2>5, <2>8, <2>r, <3>1
    <3>2. CASE x \in Passed(c) /\ y = new
      <4>1. x.n = r - 1
        BY <2>4, <2>5, <2>8, <2>r, <3>2
      <4> QED BY <2>3, <2>5, <3>2, <4>1
    <3>3. CASE x \in Passed(c) /\ y \in Passed(c)
      BY <2>1, <2>8, <3>3 DEF QueueInOrder
    <3> QED BY <2>2, <3>1, <3>2, <3>3
  <2>9. \A x \in Passed(c)' : x.n = r => x.kind = i.kind
    BY <2>2, <2>4, <2>5, <2>r
  <2>10. QueueInOrder(c)'
    BY <2>7, <2>8 DEF QueueInOrder, Follows
  <2>11. u.recorded = r /\ u.pc = IF i.kind = "disconnected" THEN "after" ELSE "recv"
    BY <1>4, <2>3 DEF r
  <2>12. PutsInOrder(c, wsTask[c])'
    BY <1>1, <1>4, <2>3, <2>4, <2>6, <2>9, <2>11, <2>r DEF PutsInOrder, InPut
  <2> QED BY <2>10, <2>12
<1>10. ASSUME wsConsumer = "run" PROVE \A d \in Conns : i.conn = d => d = c
  <2>1. PutsInOrder(c, t)
    BY <1>10 DEF WsInv
  <2> QED BY <1>1, <2>1, StopIsNoItem DEF PutsInOrder
<1> QED BY <1>1, <1>6, <1>7, <1>8, <1>9, <1>10 DEF WsInv

LEMMA SilenceStep ==
    ASSUME WsInv, Tick
    PROVE  WsInv'
<1>1. ASSUME NEW c \in Conns
      PROVE  LET t == wsTask[c] u == wsTask'[c] IN
             /\ u \in TaskRecords /\ u.pc = t.pc /\ u.item = t.item /\ u.then = t.then /\ u.recorded = t.recorded
             /\ u.attempt = t.attempt /\ u.since = t.since /\ u.healthy = t.healthy /\ u.pause = t.pause
  <2> DEFINE t == wsTask[c]
             u == wsTask'[c]
  <2>1. t \in TaskRecords
    BY DEF WsInv, WsTypeOK
  <2>2. u = t \/ u = [t EXCEPT !.silence = @ + 1]
    BY DEF Tick
  <2> HIDE DEF t, u
  <2>3. t.silence + 1 \in Nat
    BY <2>1 DEF TaskRecords
  <2>4. /\ u \in TaskRecords /\ u.pc = t.pc /\ u.item = t.item /\ u.then = t.then /\ u.recorded = t.recorded
        /\ u.attempt = t.attempt /\ u.since = t.since /\ u.healthy = t.healthy /\ u.pause = t.pause
    BY <2>1, <2>2, <2>3 DEF TaskRecords
  <2> QED BY <2>4 DEF t, u
<1>2. UNCHANGED <<wsQueue, wsConsumer, wsSeen>> /\ DOMAIN wsTask' = Conns
  BY DEF Tick
<1>3. WsTypeOK'
  <2>1. wsTask' = [c \in Conns |-> wsTask'[c]]
    BY DEF Tick
  <2> QED BY <1>1, <1>2, <2>1 DEF WsInv, WsTypeOK
<1>4. ASSUME NEW c \in Conns PROVE BacksOff(wsTask[c])'
  BY <1>1 DEF WsInv, BacksOff, Reporting, InSession
<1>5. ASSUME NEW c \in Conns, wsConsumer = "run" PROVE (QueueInOrder(c) /\ PutsInOrder(c, wsTask[c]))'
  <2>1. QueueInOrder(c) /\ PutsInOrder(c, wsTask[c])
    BY <1>5 DEF WsInv
  <2>2. QueuedOf(c)' = QueuedOf(c) /\ NumbersOf(c)' = NumbersOf(c) /\ Passed(c)' = Passed(c)
    BY <1>2 DEF QueuedOf, NumbersOf, Passed
  <2> QED BY <1>1, <1>2, <2>1, <2>2, OrderKept
<1> QED BY <1>2, <1>3, <1>4, <1>5 DEF WsInv

(* The tasks of a client that is closed are over. *)
LEMMA ClosedTasks ==
    ASSUME WsInv, Close, wsConsumer' # "run", wsQueue' \in Seq(WsItems \cup {Stop}), UNCHANGED wsSeen
    PROVE  WsInv'
<1> DEFINE u == [NewTask EXCEPT !.pc = "done"]
<1>1. u \in TaskRecords /\ u.pc = "done"
  BY DEF NewTask, TaskRecords, CloseClass, Stop
<1>2. wsTask' = [c \in Conns |-> u]
  BY DEF Close
<1> HIDE DEF u
<1>3. WsTypeOK'
  BY <1>1, <1>2 DEF WsInv, WsTypeOK
<1>4. ASSUME NEW c \in Conns PROVE BacksOff(wsTask[c])'
  BY <1>1, <1>2 DEF BacksOff, Reporting, InSession
<1> QED BY <1>3, <1>4 DEF WsInv

(* What is left of a connection once the first item is taken. *)
LEMMA Dequeued ==
    ASSUME WsTypeOK, wsQueue # <<>>, wsQueue' = Tail(wsQueue), NEW c \in Conns
    PROVE  /\ Head(wsQueue) = wsQueue[1] /\ 1 \in DOMAIN wsQueue
           /\ wsQueue' \in Seq(WsItems \cup {Stop})
           /\ \A k \in QueuedOf(c)' : k \in Nat /\ k + 1 \in QueuedOf(c) /\ k + 1 # 1 /\ wsQueue'[k] = wsQueue[k + 1]
           /\ \A k \in QueuedOf(c) : k \in Nat /\ k # 0 /\ (k # 1 => k - 1 \in QueuedOf(c)' /\ wsQueue'[k - 1] = wsQueue[k])
<1> DEFINE n == Len(wsQueue)
<1>1. n \in Nat /\ n # 0 /\ DOMAIN wsQueue = 1 .. n /\ DOMAIN wsQueue' = 1 .. (n - 1)
      /\ \A k \in 1 .. (n - 1) : wsQueue'[k] = wsQueue[k + 1]
  BY DEF WsTypeOK
<1>2. Head(wsQueue) = wsQueue[1] /\ wsQueue' \in Seq(WsItems \cup {Stop})
  BY DEF WsTypeOK
<1> HIDE DEF n
<1>3. ASSUME NEW k \in QueuedOf(c)' PROVE k \in Nat /\ k + 1 \in QueuedOf(c) /\ k + 1 # 1 /\ wsQueue'[k] = wsQueue[k + 1]
  <2>1. k \in 1 .. (n - 1) /\ wsQueue'[k].conn = c
    BY <1>1 DEF QueuedOf
  <2> QED BY <1>1, <2>1 DEF QueuedOf
<1>4. ASSUME NEW k \in QueuedOf(c) PROVE k \in Nat /\ k # 0 /\ (k # 1 => k - 1 \in QueuedOf(c)' /\ wsQueue'[k - 1] = wsQueue[k])
  <2>1. k \in 1 .. n /\ wsQueue[k].conn = c
    BY <1>1 DEF QueuedOf
  <2>2. ASSUME k # 1 PROVE k - 1 \in 1 .. (n - 1) /\ wsQueue'[k - 1] = wsQueue[k]
    <3>1. k - 1 \in 1 .. (n - 1) /\ (k - 1) + 1 = k
      BY <1>1, <2>1, <2>2
    <3> QED BY <1>1, <3>1
  <2> QED BY <1>1, <2>1, <2>2 DEF QueuedOf
<1>5. 1 \in DOMAIN wsQueue
  BY <1>1
<1>6. \A k \in QueuedOf(c)' : k \in Nat /\ k + 1 \in QueuedOf(c) /\ k + 1 # 1 /\ wsQueue'[k] = wsQueue[k + 1]
  BY <1>3, Zenon
<1>7. \A k \in QueuedOf(c) : k \in Nat /\ k # 0 /\ (k # 1 => k - 1 \in QueuedOf(c)' /\ wsQueue'[k - 1] = wsQueue[k])
  BY <1>4, Zenon
<1> QED BY <1>2, <1>5, <1>6, <1>7, Zenon

(* The consumer takes the first item; the sessions stay bracketed. *)
LEMMA ConsumeStep ==
    ASSUME WsInv, Consume
    PROVE  /\ WsInv'
           /\ \A c \in Conns : wsSeen'[c] # wsSeen[c] => Follows(wsSeen[c].kind, wsSeen'[c].kind)
<1> DEFINE i == Head(wsQueue)
<1>1. /\ wsConsumer = "run" /\ wsQueue # <<>> /\ wsQueue' = Tail(wsQueue) /\ WsTypeOK
      /\ \A c \in Conns : QueueInOrder(c) /\ PutsInOrder(c, wsTask[c]) /\ wsTask[c] \in TaskRecords
  BY DEF Consume, WsInv, WsTypeOK
<1>2. /\ wsQueue' \in Seq(WsItems \cup {Stop})
      /\ i \in WsItems \cup {Stop}
  BY <1>1 DEF WsTypeOK
<1>3. CASE i = Stop /\ Ended # "run"
  <2>1. Close /\ wsConsumer' # "run" /\ UNCHANGED wsSeen
    BY <1>3 DEF Consume
  <2> QED BY <1>2, <2>1, ClosedTasks
<1>4. ASSUME NEW c \in Conns, i.conn # c, wsSeen'[c] = wsSeen[c], wsTask'[c] = wsTask[c]
      PROVE  (QueueInOrder(c) /\ PutsInOrder(c, wsTask[c]))'
  <2>1. /\ i = wsQueue[1]
        /\ \A k \in QueuedOf(c)' : k \in Nat /\ k + 1 \in QueuedOf(c) /\ wsQueue'[k] = wsQueue[k + 1]
        /\ \A k \in QueuedOf(c) : k \in Nat /\ k # 0 /\ (k # 1 => k - 1 \in QueuedOf(c)' /\ wsQueue'[k - 1] = wsQueue[k])
    BY <1>1, Dequeued
  <2>2. 1 \notin QueuedOf(c)
    BY <1>4, <2>1 DEF QueuedOf
  <2>3. NumbersOf(c)' = NumbersOf(c)
    <3>1. ASSUME NEW k \in QueuedOf(c)' PROVE wsQueue'[k].n \in NumbersOf(c)
      BY <2>1 DEF NumbersOf
    <3>2. ASSUME NEW k \in QueuedOf(c) PROVE wsQueue[k].n \in NumbersOf(c)'
      BY <2>1, <2>2 DEF NumbersOf
    <3> QED BY <3>1, <3>2 DEF NumbersOf
  <2>4. Passed(c)' = Passed(c)
    <3>1. ASSUME NEW k \in QueuedOf(c)' PROVE [n |-> wsQueue'[k].n, kind |-> wsQueue'[k].kind] \in Passed(c)
      BY <2>1 DEF Passed
    <3>2. ASSUME NEW k \in QueuedOf(c) PROVE [n |-> wsQueue[k].n, kind |-> wsQueue[k].kind] \in Passed(c)'
      BY <2>1, <2>2 DEF Passed
    <3>3. wsSeen[c] \in Passed(c) /\ wsSeen'[c] \in Passed(c)'
      BY DEF Passed
    <3> QED BY <1>4, <3>1, <3>2, <3>3 DEF Passed
  <2>5. ASSUME NEW j \in QueuedOf(c)', NEW k \in QueuedOf(c)', j < k PROVE wsQueue'[j].n < wsQueue'[k].n
    <3>1. j + 1 \in QueuedOf(c) /\ k + 1 \in QueuedOf(c) /\ j + 1 < k + 1
          /\ wsQueue'[j] = wsQueue[j + 1] /\ wsQueue'[k] = wsQueue[k + 1]
      BY <2>1, <2>5
    <3> QED BY <1>1, <3>1 DEF QueueInOrder
  <2>6. QueueInOrder(c)'
    BY <1>1, <2>4, <2>5 DEF QueueInOrder
  <2> QED BY <1>1, <1>4, <2>3, <2>4, <2>6 DEF PutsInOrder, InPut
<1>5. CASE i = Stop /\ Ended = "run"
  <2>1. UNCHANGED <<wsTask, wsSeen>>
    BY <1>5 DEF Consume
  <2>2. WsTypeOK' /\ \A c \in Conns : BacksOff(wsTask[c])'
    BY <1>1, <1>2, <2>1 DEF WsInv, WsTypeOK, BacksOff, Reporting, InSession
  <2>3. \A c \in Conns : (QueueInOrder(c) /\ PutsInOrder(c, wsTask[c]))'
    BY <1>4, <1>5, <2>1, StopIsNoItem
  <2> QED BY <2>1, <2>2, <2>3 DEF WsInv
<1>6. CASE i # Stop
  <2>0. PICK d \in Conns : i.conn = d
    BY <1>2, <1>6 DEF WsItems
  <2> DEFINE new == [n |-> i.n, kind |-> i.kind]
             old == wsSeen[d]
             t == wsTask[d]
             m == t.recorded - InPut(t)
  <2>1. i \in WsItems /\ d = i.conn /\ new \in [n : Nat, kind : WsKinds] /\ i.n \in Nat
    BY <1>2, <1>6, <2>0 DEF WsItems
  <2>2. UNCHANGED <<wsTask, wsConsumer>> /\ wsSeen' = [wsSeen EXCEPT ![d] = new] /\ wsSeen'[d] = new
    BY <1>1, <1>6, <2>1 DEF Consume, WsTypeOK
  <2>3. /\ i = wsQueue[1] /\ 1 \in DOMAIN wsQueue
        /\ \A k \in QueuedOf(d)' : k \in Nat /\ k + 1 \in QueuedOf(d) /\ k + 1 # 1 /\ wsQueue'[k] = wsQueue[k + 1]
        /\ \A k \in QueuedOf(d) : k \in Nat /\ k # 0 /\ (k # 1 => k - 1 \in QueuedOf(d)' /\ wsQueue'[k - 1] = wsQueue[k])
    BY <1>1, <2>1, Dequeued
  <2>4. 1 \in QueuedOf(d)
    BY <2>0, <2>3 DEF QueuedOf
  <2>5. /\ \A k \in QueuedOf(d) : wsQueue[k].n \in (old.n + 1) .. m
        /\ old.n \in Nat /\ m \in Int /\ old.n <= m
    BY <1>1, <2>1, PassedBounds DEF PutsInOrder
  <2>6. \A k \in QueuedOf(d) : k # 1 => i.n < wsQueue[k].n
    <3> SUFFICES ASSUME NEW k \in QueuedOf(d), k # 1 PROVE wsQueue[1].n < wsQueue[k].n
      BY <2>3
    <3>1. 1 < k /\ QueueInOrder(d)
      BY <1>1, <2>3
    <3> QED BY <2>4, <3>1 DEF QueueInOrder
  <2>7. i.n = old.n + 1 /\ i.n <= m
    <3>1. i.n \in (old.n + 1) .. m
      BY <2>3, <2>4, <2>5
    <3>2. old.n + 1 \in NumbersOf(d)
      BY <1>1, <2>1, <2>5, <3>1 DEF PutsInOrder
    <3>3. PICK k \in QueuedOf(d) : wsQueue[k].n = old.n + 1
      BY <3>2 DEF NumbersOf
    <3>4. k = 1
      BY <2>1, <2>5, <2>6, <3>1, <3>3
    <3> QED BY <2>1, <2>3, <2>5, <3>1, <3>3, <3>4
  <2>8. NumbersOf(d)' = (new.n + 1) .. m
    <3>1. ASSUME NEW k \in QueuedOf(d)' PROVE wsQueue'[k].n \in (i.n + 1) .. m
      BY <2>1, <2>3, <2>5, <2>6
    <3>2. ASSUME NEW x \in (i.n + 1) .. m PROVE x \in NumbersOf(d)'
      <4>1. x \in (old.n + 1) .. m /\ x # i.n
        BY <2>1, <2>5, <2>7
      <4>2. x \in NumbersOf(d)
        BY <1>1, <2>1, <4>1 DEF PutsInOrder
      <4>3. PICK k \in QueuedOf(d) : x = wsQueue[k].n
        BY <4>2 DEF NumbersOf
      <4>4. k - 1 \in QueuedOf(d)' /\ wsQueue'[k - 1].n = x
        BY <2>3, <4>1, <4>3
      <4> QED BY <4>4 DEF NumbersOf
    <3> QED BY <3>1, <3>2 DEF NumbersOf
  <2>9. new \in Passed(d) /\ old \in Passed(d)
    BY <2>3, <2>4 DEF Passed
  <2>10. Passed(d)' \subseteq Passed(d)
    <3>1. ASSUME NEW k \in QueuedOf(d)' PROVE [n |-> wsQueue'[k].n, kind |-> wsQueue'[k].kind] \in Passed(d)
      BY <2>3 DEF Passed
    <3> QED BY <2>2, <2>9, <3>1 DEF Passed
  <2>11. Follows(old.kind, new.kind)
    <3>1. new.n = old.n + 1
      BY <2>7
    <3> QED BY <1>1, <2>1, <2>9, <3>1 DEF QueueInOrder
  <2>12. ASSUME NEW j \in QueuedOf(d)', NEW k \in QueuedOf(d)', j < k PROVE wsQueue'[j].n < wsQueue'[k].n
    <3>1. j + 1 \in QueuedOf(d) /\ k + 1 \in QueuedOf(d) /\ j + 1 < k + 1
          /\ wsQueue'[j] = wsQueue[j + 1] /\ wsQueue'[k] = wsQueue[k + 1]
      BY <2>3, <2>12
    <3> QED BY <1>1, <2>1, <3>1 DEF QueueInOrder
  <2>13. QueueInOrder(d)'
    <3>1. \A x, y \in Passed(d)' : y.n = x.n + 1 => Follows(x.kind, y.kind)
      BY <1>1, <2>1, <2>10 DEF QueueInOrder
    <3> QED BY <2>12, <3>1 DEF QueueInOrder, Follows
  <2>14. PutsInOrder(d, wsTask[d])'
    <3>1. NumbersOf(d)' = (wsSeen'[d].n + 1) .. m /\ wsSeen'[d].n <= m
      BY <2>2, <2>7, <2>8
    <3>2. PutsInOrder(d, t)
      BY <1>1, <2>1
    <3> HIDE DEF new, old
    <3> QED BY <2>2, <2>10, <3>1, <3>2 DEF PutsInOrder, InPut, Follows
  <2>15. ASSUME NEW c \in Conns PROVE (QueueInOrder(c) /\ PutsInOrder(c, wsTask[c]))'
    <3>1. CASE c = d
      BY <2>13, <2>14, <3>1
    <3>2. CASE c # d
      <4>1. wsSeen'[c] = wsSeen[c]
        BY <1>1, <2>1, <2>2, <3>2 DEF WsTypeOK
      <4> QED BY <1>4, <2>0, <2>2, <3>2, <4>1
    <3> QED BY <3>1, <3>2
  <2>16. WsTypeOK' /\ \A c \in Conns : BacksOff(wsTask[c])'
    BY <1>1, <1>2, <2>1, <2>2 DEF WsInv, WsTypeOK, BacksOff, Reporting, InSession
  <2>17. ASSUME NEW c \in Conns, wsSeen'[c] # wsSeen[c] PROVE Follows(wsSeen[c].kind, wsSeen'[c].kind)
    <3>1. c = d
      BY <1>1, <2>1, <2>2, <2>17 DEF WsTypeOK
    <3> QED BY <2>2, <2>11, <3>1
  <2> QED BY <2>15, <2>16, <2>17 DEF WsInv
<1> QED BY <1>3, <1>5, <1>6

LEMMA WsStep ==
    ASSUME WsInv, [WsNext]_wsVars
    PROVE  /\ WsInv'
           /\ \A c \in Conns : wsSeen'[c] # wsSeen[c] => Follows(wsSeen[c].kind, wsSeen'[c].kind)
<1>1. CASE UNCHANGED wsVars
  <2>1. UNCHANGED <<wsTask, wsQueue, wsConsumer, wsSeen>>
    BY <1>1 DEF wsVars
  <2>2. WsTypeOK' /\ \A c \in Conns : BacksOff(wsTask[c])'
    BY <2>1 DEF WsInv, WsTypeOK, BacksOff, Reporting, InSession
  <2>3. ASSUME NEW c \in Conns, wsConsumer = "run" PROVE (QueueInOrder(c) /\ PutsInOrder(c, wsTask[c]))'
    <3>1. QueuedOf(c)' = QueuedOf(c) /\ NumbersOf(c)' = NumbersOf(c) /\ Passed(c)' = Passed(c)
      BY <2>1 DEF QueuedOf, NumbersOf, Passed
    <3>2. QueueInOrder(c) /\ PutsInOrder(c, wsTask[c])
      BY <2>3 DEF WsInv
    <3> QED BY <2>1, <3>1, <3>2, OrderKept
  <2> QED BY <2>1, <2>2, <2>3 DEF WsInv
<1>2. CASE Tick
  BY <1>2, SilenceStep DEF Tick
<1>3. CASE PutStop
  BY <1>3, StopQueued DEF PutStop
<1>4. CASE Consume
  BY <1>4, ConsumeStep
<1>5. CASE Leave
  BY <1>5, ClosedTasks DEF Leave, WsInv, WsTypeOK
<1>6. ASSUME NEW c \in Conns, TaskStep(c) PROVE WsInv' /\ wsSeen' = wsSeen
  <2>1. CASE Loop(c) \/ Crash(c) \/ ReceiveBad(c) \/ AfterLoss(c)
    BY <2>1, OtherTaskStep DEF Loop, Crash, ReceiveBad, AfterLoss, Step
  <2>2. CASE Connect(c)
    <3>1. HandshakeCloses \subseteq CloseClass
      BY DEF HandshakeCloses, ClassifyHttpStatus, CloseClass
    <3> QED BY <2>2, <3>1, ConnectedStep, LossStep DEF Connect, Step
  <2>3. CASE Receive(c)
    BY <2>3, FrameStep DEF Receive, Step
  <2>4. CASE Closed(c)
    <3>1. SessionCloses \subseteq CloseClass
      BY DEF SessionCloses, ClassifyCloseCode, CloseClass
    <3> QED BY <2>4, <3>1, LossStep DEF Closed, Step
  <2>5. CASE RecvTimeout(c)
    <3>1. "HEARTBEAT_TIMEOUT" \in CloseClass
      BY DEF CloseClass
    <3> QED BY <2>5, <3>1, LossStep DEF RecvTimeout, Step
  <2>6. CASE PutItem(c)
    BY <2>6, PutItemStep DEF PutItem
  <2>7. CASE OnTaskDone(c)
    BY <2>7, TaskDoneStep DEF OnTaskDone
  <2> QED BY <1>6, <2>1, <2>2, <2>3, <2>4, <2>5, <2>6, <2>7 DEF TaskStep
<1> QED BY <1>1, <1>2, <1>3, <1>4, <1>5, <1>6 DEF WsNext

(* A connection backs off, loses and reorders nothing of what it recorded, *)
(* and brackets its sessions: ConnectionsAreSound for any number of        *)
(* connections, size of the queue, frames and reconnects (ws_client.py     *)
(* _run_conn, _put, items).                                                *)
THEOREM ConnectionsSound == WsSpec => ConnectionsAreSound
<1>1. WsInit => WsInv
  <2> SUFFICES ASSUME WsInit PROVE WsInv
    OBVIOUS
  <2>1. NewTask \in TaskRecords /\ NewTask.pc = "start" /\ NewTask.since = 0 /\ NewTask.attempt = 0
        /\ NewTask.recorded = 0
    BY DEF NewTask, TaskRecords, CloseClass, Stop
  <2>2. WsTypeOK
    BY <2>1 DEF WsInit, WsTypeOK, WsKinds
  <2>3. ASSUME NEW c \in Conns PROVE BacksOff(wsTask[c]) /\ QueueInOrder(c) /\ PutsInOrder(c, wsTask[c])
    <3>1. wsTask[c] = NewTask /\ QueuedOf(c) = {} /\ wsSeen[c] = [n |-> 0, kind |-> "disconnected"]
      BY DEF WsInit, QueuedOf
    <3>2. NumbersOf(c) = {} /\ Passed(c) = {[n |-> 0, kind |-> "disconnected"]}
      BY <3>1 DEF NumbersOf, Passed
    <3>3. BacksOff(NewTask)
      BY <2>1 DEF BacksOff, Reporting, InSession
    <3>4. QueueInOrder(c)
      BY <3>1, <3>2 DEF QueueInOrder
    <3>5. PutsInOrder(c, NewTask)
      BY <2>1, <3>1, <3>2 DEF PutsInOrder, InPut
    <3> QED BY <3>1, <3>3, <3>4, <3>5
  <2> QED BY <2>2, <2>3 DEF WsInv
<1>2. WsInv /\ [WsNext]_wsVars => WsInv'
  BY WsStep
<1>3. WsInv => BackoffHolds /\ RecordedIsDelivered
  <2> SUFFICES ASSUME WsInv PROVE BackoffHolds /\ RecordedIsDelivered
    OBVIOUS
  <2>1. BackoffHolds
    <3> SUFFICES ASSUME NEW c \in Conns, wsTask[c].pc = "sleep", wsTask[c].since >= 2
                 PROVE  wsTask[c].pause >= Ceiling(wsTask[c].since - 1)
      BY DEF BackoffHolds
    <3>1. wsTask[c].pause = Ceiling(wsTask[c].since - 1) /\ wsTask[c].since - 1 \in Nat
      BY DEF WsInv, WsTypeOK, TaskRecords, BacksOff
    <3> QED BY <3>1, CeilingIsNat
  <2>2. RecordedIsDelivered
    BY DEF WsInv, QueueInOrder, PutsInOrder, QueuedOf, NumbersOf, InPut, RecordedIsDelivered
  <2> QED BY <2>1, <2>2
<1>4. WsInv /\ [WsNext]_wsVars =>
        [\A c \in Conns : wsSeen'[c] # wsSeen[c] =>
          \/ wsSeen[c].kind = "disconnected" /\ wsSeen'[c].kind # "frame"
          \/ wsSeen[c].kind # "disconnected" /\ wsSeen'[c].kind # "connected"]_wsVars
  BY WsStep DEF Follows
<1> QED BY <1>1, <1>2, <1>3, <1>4, PTL DEF WsSpec, ConnectionsAreSound, SessionsBracketed

-----------------------------------------------------------------------------
(* The recorded session: the file under the final name is whole, and a replay is
   that file, each record once, in the order asked for and at its pace. *)

FileRecords ==
    [kind : {"header", "footer", "frame", "control"}, stream : Streams \cup {"none"}, ts : Nat]

-----------------------------------------------------------------------------
(* The sort. *)
LEMMA EarlierFacts ==
    ASSUME NEW q \in Seq(FileRecords), NEW n, n = Len(q)
    PROVE  /\ n \in Nat /\ DOMAIN q = 1 .. n
           /\ \A i \in 1 .. n : /\ Earlier(q, i) \subseteq 1 .. n /\ i \notin Earlier(q, i)
                                /\ IsFiniteSet(Earlier(q, i))
                                /\ Cardinality(Earlier(q, i)) \in 0 .. (n - 1)
           /\ \A i, j \in 1 .. n : i # j => i \in Earlier(q, j) \/ j \in Earlier(q, i)
           /\ \A i, j \in 1 .. n : i \in Earlier(q, j) =>
                 /\ q[i].ts < q[j].ts \/ (q[i].ts = q[j].ts /\ i < j)
                 /\ Cardinality(Earlier(q, i)) < Cardinality(Earlier(q, j))
<1>1. n \in Nat /\ DOMAIN q = 1 .. n
  OBVIOUS
<1>2. \A i \in 1 .. n : q[i].ts \in Nat
  <2> TAKE i \in 1 .. n
  <2>1. q[i] \in FileRecords
    OBVIOUS
  <2> QED BY <2>1 DEF FileRecords
<1> DEFINE ts == [i \in 1 .. n |-> q[i].ts]
           E == [i \in 1 .. n |-> Earlier(q, i)]
<1>3. \A i \in 1 .. n : ts[i] \in Nat /\ ts[i] = q[i].ts /\ E[i] = Earlier(q, i)
  BY <1>2
<1>4. \A i \in 1 .. n : E[i] = {j \in 1 .. n : ts[j] < ts[i] \/ (ts[j] = ts[i] /\ j < i)}
  BY <1>1 DEF Earlier
<1> HIDE DEF ts, E
<1>5. \A i, j \in 1 .. n : i \in E[j] <=> ts[i] < ts[j] \/ (ts[i] = ts[j] /\ i < j)
  BY <1>4
<1>6. \A i \in 1 .. n : E[i] \subseteq 1 .. n /\ i \notin E[i]
  BY <1>1, <1>3, <1>4
<1>7. IsFiniteSet(1 .. n) /\ Cardinality(1 .. n) = n
  <2>1. 1 \in Int /\ n \in Int
    BY <1>1
  <2>2. IsFiniteSet(1 .. n) /\ Cardinality(1 .. n) = IF 1 > n THEN 0 ELSE n - 1 + 1
    BY <2>1, FS_Interval
  <2>3. (IF 1 > n THEN 0 ELSE n - 1 + 1) = n
    BY <1>1
  <2> QED BY <2>2, <2>3
<1>8. \A i \in 1 .. n : /\ IsFiniteSet(E[i]) /\ Cardinality(E[i]) \in 0 .. (n - 1)
  <2> TAKE i \in 1 .. n
  <2>1. /\ IsFiniteSet(E[i]) /\ Cardinality(E[i]) <= n /\ Cardinality(E[i]) # n
    BY <1>6, <1>7, FS_Subset
  <2>2. Cardinality(E[i]) \in Nat
    BY <2>1, FS_CardinalityType
  <2> QED BY <1>1, <2>1, <2>2
<1>9. \A i, j \in 1 .. n : i # j => i \in E[j] \/ j \in E[i]
  BY <1>1, <1>3, <1>5
<1>10. \A i, j \in 1 .. n : i \in E[j] => ts[i] < ts[j] \/ (ts[i] = ts[j] /\ i < j)
  BY <1>5
<1>11. \A i, j \in 1 .. n : i \in E[j] => Cardinality(E[i]) < Cardinality(E[j])
  <2> SUFFICES ASSUME NEW i \in 1 .. n, NEW j \in 1 .. n, i \in E[j]
               PROVE  Cardinality(E[i]) < Cardinality(E[j])
    OBVIOUS
  <2>1. E[i] \subseteq E[j]
    <3> SUFFICES ASSUME NEW k \in E[i] PROVE k \in E[j]
      OBVIOUS
    <3>1. k \in 1 .. n
      BY <1>6
    <3>2. ts[k] < ts[i] \/ (ts[k] = ts[i] /\ k < i)
      BY <1>5, <3>1
    <3>3. ts[i] < ts[j] \/ (ts[i] = ts[j] /\ i < j)
      BY <1>5
    <3>4. ts[k] < ts[j] \/ (ts[k] = ts[j] /\ k < j)
      BY <1>1, <1>3, <3>1, <3>2, <3>3
    <3> QED BY <1>5, <3>1, <3>4
  <2>2. E[i] # E[j]
    BY <1>6
  <2>3. IsFiniteSet(E[j]) /\ Cardinality(E[i]) \in 0 .. (n - 1) /\ Cardinality(E[j]) \in 0 .. (n - 1)
    BY <1>8
  <2>4. Cardinality(E[i]) <= Cardinality(E[j]) /\ Cardinality(E[j]) # Cardinality(E[i])
    BY <2>1, <2>2, <2>3, FS_Subset
  <2> QED BY <1>1, <2>3, <2>4
<1>12. \A i, j \in 1 .. n : i \in Earlier(q, j) =>
                 /\ q[i].ts < q[j].ts \/ (q[i].ts = q[j].ts /\ i < j)
                 /\ Cardinality(Earlier(q, i)) < Cardinality(Earlier(q, j))
  BY <1>3, <1>10, <1>11
<1>13. \A i, j \in 1 .. n : i # j => i \in Earlier(q, j) \/ j \in Earlier(q, i)
  BY <1>3, <1>9
<1>14. \A i \in 1 .. n : /\ Earlier(q, i) \subseteq 1 .. n /\ i \notin Earlier(q, i)
                         /\ IsFiniteSet(Earlier(q, i))
                         /\ Cardinality(Earlier(q, i)) \in 0 .. (n - 1)
  BY <1>3, <1>6, <1>8
<1> QED BY <1>1, <1>12, <1>13, <1>14

(* p puts q in order, equal stamps as they were: t is q read along p. *)
SortedAlong(t, q, p) ==
    /\ t = [k \in 1 .. Len(q) |-> q[p[k]]]
    /\ p \in [1 .. Len(q) -> 1 .. Len(q)]
    /\ \A i, j \in 1 .. Len(q) : i # j => p[i] # p[j]
    /\ \A a \in 1 .. Len(q) : \E j \in 1 .. Len(q) : p[j] = a
    /\ \A i, j \in 1 .. Len(q) : i < j =>
          q[p[i]].ts < q[p[j]].ts \/ (q[p[i]].ts = q[p[j]].ts /\ p[i] < p[j])

LEMMA Sorted ==
    ASSUME NEW q \in Seq(FileRecords)
    PROVE  \E p : SortedAlong(SortByStamp(q), q, p)
<1> DEFINE n == Len(q)
           c == [i \in 1 .. n |-> Cardinality(Earlier(q, i)) + 1]
           p == [k \in 1 .. n |-> CHOOSE i \in 1 .. n : Cardinality(Earlier(q, i)) = k - 1]
<1>1. /\ n \in Nat /\ DOMAIN q = 1 .. n
      /\ \A i \in 1 .. n : Cardinality(Earlier(q, i)) \in 0 .. (n - 1)
      /\ \A i, j \in 1 .. n : i # j => i \in Earlier(q, j) \/ j \in Earlier(q, i)
      /\ \A i, j \in 1 .. n : i \in Earlier(q, j) =>
            /\ q[i].ts < q[j].ts \/ (q[i].ts = q[j].ts /\ i < j)
            /\ Cardinality(Earlier(q, i)) < Cardinality(Earlier(q, j))
  BY EarlierFacts
<1>2. SortByStamp(q) = [k \in 1 .. n |-> q[p[k]]]
  BY <1>1 DEF SortByStamp
<1> HIDE DEF n
<1>3. /\ c \in [1 .. n -> 1 .. n]
      /\ \A i, j \in 1 .. n : i \in Earlier(q, j) => c[i] < c[j]
      /\ \A i \in 1 .. n, k \in 1 .. n : Cardinality(Earlier(q, i)) = k - 1 <=> c[i] = k
  BY <1>1, SMTT(20)
<1> HIDE DEF c
<1>4. \A i, j \in 1 .. n : i # j => c[i] # c[j]
  <2> SUFFICES ASSUME NEW i \in 1 .. n, NEW j \in 1 .. n, i # j PROVE c[i] # c[j]
    OBVIOUS
  <2>1. c[i] < c[j] \/ c[j] < c[i]
    BY <1>1, <1>3
  <2>2. c[i] \in 1 .. n /\ c[j] \in 1 .. n
    BY <1>3
  <2> QED BY <1>1, <2>1, <2>2
<1>5. \A k \in 1 .. n : \E i \in 1 .. n : c[i] = k
  <2>1. c \in Injection(1 .. n, 1 .. n)
    BY <1>3, <1>4, Zenon DEF Injection, IsInjective
  <2>2. 1 \in Int /\ n \in Int
    BY <1>1
  <2>3. IsFiniteSet(1 .. n)
    BY <2>2, FS_Interval
  <2>4. c \in Surjection(1 .. n, 1 .. n)
    BY <2>1, <2>3, FS_Injection
  <2> QED BY <2>4 DEF Surjection
<1>6. \A k \in 1 .. n : p[k] \in 1 .. n /\ c[p[k]] = k
  <2> TAKE k \in 1 .. n
  <2>1. \E i \in 1 .. n : Cardinality(Earlier(q, i)) = k - 1
    BY <1>3, <1>5
  <2>2. p[k] = CHOOSE i \in 1 .. n : Cardinality(Earlier(q, i)) = k - 1
    OBVIOUS
  <2>3. p[k] \in 1 .. n /\ Cardinality(Earlier(q, p[k])) = k - 1
    <3> HIDE DEF p
    <3> QED BY <2>1, <2>2
  <2> HIDE DEF p
  <2> QED BY <1>3, <2>3
<1>7. p \in [1 .. n -> 1 .. n]
  BY <1>6
<1> HIDE DEF p
<1>8. \A i, j \in 1 .. n : i # j => p[i] # p[j]
  BY <1>6
<1>9. \A a \in 1 .. n : \E j \in 1 .. n : p[j] = a
  <2> SUFFICES ASSUME NEW a \in 1 .. n PROVE p[c[a]] = a /\ c[a] \in 1 .. n
    OBVIOUS
  <2>1. c[a] \in 1 .. n
    BY <1>3
  <2>2. p[c[a]] \in 1 .. n /\ c[p[c[a]]] = c[a]
    BY <1>6, <2>1
  <2> QED BY <1>4, <2>1, <2>2
<1>10. ASSUME NEW i \in 1 .. n, NEW j \in 1 .. n, i < j
       PROVE  q[p[i]].ts < q[p[j]].ts \/ (q[p[i]].ts = q[p[j]].ts /\ p[i] < p[j])
  <2>1. /\ i # j /\ ~(j < i)
        /\ p[i] \in 1 .. n /\ p[j] \in 1 .. n /\ c[p[i]] = i /\ c[p[j]] = j
    BY <1>1, <1>6, <1>10
  <2>2. p[j] \notin Earlier(q, p[i])
    BY <1>3, <2>1, SMTT(20)
  <2>3. p[i] \in Earlier(q, p[j])
    BY <1>1, <1>8, <2>1, <2>2
  <2> QED BY <1>1, <2>1, <2>3
<1>11. SortedAlong(SortByStamp(q), q, p)
  BY <1>2, <1>7, <1>8, <1>9, <1>10 DEF SortedAlong, n
<1> QED BY <1>11

-----------------------------------------------------------------------------
(* What is handed on: the records of the file that are wanted, each once. *)
WantedPlaces(file, keep) == {a \in DOMAIN file : Wanted(file[a], keep)}

SourceOk(source, file, keep, order) ==
    /\ source \in Seq(FileRecords)
    /\ \E place \in [DOMAIN source -> WantedPlaces(file, keep)] :
          ReadAlong(place, source, file, keep, order)

LEMMA ItemsAreRecords ==
    ASSUME SessionFileAssumption
    PROVE  \A r \in Items : r \in FileRecords /\ r.kind \in {"frame", "control"}
  BY DEF SessionFileAssumption, Items, FileRecords

LEMMA IterOk ==
    ASSUME NEW file \in Seq(FileRecords), NEW keep
    PROVE  SourceOk(IterItems(file, keep), file, keep, "arrival")
<1> DEFINE K == {r \in ToSet(file) : Wanted(r, keep)}
           b == Kept(file, K)
<1>1. IterItems(file, keep) = b
  BY DEF IterItems
<1>2. /\ DOMAIN file = 1 .. Len(file)
      /\ \A a \in 1 .. Len(file) : file[a] \in K <=> Wanted(file[a], keep)
  BY DEF ToSet
<1> HIDE DEF K
<1>3. b \in Seq(FileRecords)
  BY KeptMembers
<1>4. SelectedFrom(file, b, K)
  BY KeptIsSelected
<1> HIDE DEF b
<1>5. DOMAIN b = 1 .. Len(b) /\ Len(b) \in Nat
  BY <1>3
<1>6. PICK m \in [1 .. Len(b) -> 1 .. Len(file)] :
        /\ \A j \in 1 .. Len(b) : b[j] = file[m[j]] /\ file[m[j]] \in K
        /\ \A i, j \in 1 .. Len(b) : i < j => m[i] < m[j]
        /\ \A a \in 1 .. Len(file) : file[a] \in K => \E j \in 1 .. Len(b) : m[j] = a
  BY <1>4 DEF SelectedFrom
<1>7. \A a : a \in WantedPlaces(file, keep) <=> a \in 1 .. Len(file) /\ file[a] \in K
  BY <1>2 DEF WantedPlaces
<1>8. m \in [DOMAIN b -> WantedPlaces(file, keep)]
  BY <1>5, <1>6, <1>7
<1>9. {m[j] : j \in DOMAIN b} = WantedPlaces(file, keep)
  BY <1>5, <1>6, <1>7, <1>8
<1>10. ReadAlong(m, b, file, keep, "arrival")
  BY <1>5, <1>6, <1>9 DEF ReadAlong, WantedPlaces
<1> QED BY <1>1, <1>3, <1>8, <1>10 DEF SourceOk

LEMMA SourceIsOk ==
    ASSUME NEW file \in Seq(FileRecords), NEW keep, NEW order \in {"arrival", "ingest_ts"}
    PROVE  SourceOk(Source(file, keep, order), file, keep, order)
<1> DEFINE b == IterItems(file, keep)
           t == SortByStamp(b)
           W == WantedPlaces(file, keep)
<1>1. SourceOk(b, file, keep, "arrival")
  BY IterOk
<1>2. CASE order = "arrival"
  BY <1>1, <1>2 DEF Source
<1>3. CASE order = "ingest_ts"
  <2>1. b \in Seq(FileRecords) /\ Source(file, keep, order) = t
    BY <1>1, <1>3 DEF SourceOk, Source
  <2>2. PICK m \in [DOMAIN b -> W] : ReadAlong(m, b, file, keep, "arrival")
    BY <1>1 DEF SourceOk
  <2> HIDE DEF b
  <2>3. PICK p : SortedAlong(t, b, p)
    BY <2>1, Sorted
  <2> DEFINE n == Len(b)
             k == [j \in 1 .. n |-> m[p[j]]]
  <2>4. /\ t = [j \in 1 .. n |-> b[p[j]]]
        /\ p \in [1 .. n -> 1 .. n]
        /\ \A a \in 1 .. n : \E j \in 1 .. n : p[j] = a
        /\ \A i, j \in 1 .. n : i < j =>
              b[p[i]].ts < b[p[j]].ts \/ (b[p[i]].ts = b[p[j]].ts /\ p[i] < p[j])
    BY <2>3, Zenon DEF SortedAlong
  <2> HIDE DEF t
  <2>5. DOMAIN b = 1 .. n /\ n \in Nat /\ \A i \in 1 .. n : b[i] \in FileRecords
    BY <2>1
  <2>6. /\ m \in [1 .. n -> W]
        /\ \A j \in 1 .. n : b[j] = file[m[j]]
        /\ {m[j] : j \in 1 .. n} = W
        /\ \A i, j \in 1 .. n : i < j => m[i] < m[j]
    BY <2>2, <2>5 DEF ReadAlong, WantedPlaces
  <2> HIDE DEF n, W
  <2>7. /\ DOMAIN t = 1 .. n
        /\ \A j \in 1 .. n : p[j] \in 1 .. n /\ t[j] = b[p[j]] /\ k[j] = m[p[j]]
    BY <2>4
  <2> HIDE DEF k
  <2>8. t \in Seq(FileRecords)
    <3>1. \A j \in 1 .. n : t[j] \in FileRecords
      BY <2>5, <2>7
    <3>2. t = [j \in 1 .. n |-> t[j]]
      BY <2>4, <2>7
    <3> QED BY <2>5, <3>1, <3>2
  <2>9. k \in [DOMAIN t -> W]
    BY <2>6, <2>7 DEF k
  <2>10. \A j \in DOMAIN t : t[j] = file[k[j]]
    BY <2>6, <2>7
  <2>11. {k[j] : j \in DOMAIN t} = W
    <3>1. \A w \in W : \E j \in 1 .. n : k[j] = w
      <4> SUFFICES ASSUME NEW w \in W PROVE \E j \in 1 .. n : k[j] = w
        OBVIOUS
      <4>1. PICK a \in 1 .. n : m[a] = w
        BY <2>6
      <4>2. PICK j \in 1 .. n : p[j] = a
        BY <2>4
      <4> QED BY <2>7, <4>1, <4>2
    <3> QED BY <2>7, <2>9, <3>1
  <2>12. ASSUME NEW i \in DOMAIN t, NEW j \in DOMAIN t, i < j
         PROVE  t[i].ts < t[j].ts \/ (t[i].ts = t[j].ts /\ k[i] < k[j])
    <3>1. i \in 1 .. n /\ j \in 1 .. n
      BY <2>7
    <3>2. b[p[i]].ts < b[p[j]].ts \/ (b[p[i]].ts = b[p[j]].ts /\ p[i] < p[j])
      BY <2>4, <2>12, <3>1
    <3>3. p[i] < p[j] => k[i] < k[j]
      BY <2>6, <2>7, <3>1
    <3> QED BY <2>7, <3>1, <3>2, <3>3
  <2>13. ReadAlong(k, t, file, keep, order)
    <3>1. {k[j] : j \in DOMAIN t} = {a \in DOMAIN file : Wanted(file[a], keep)}
      BY <2>11 DEF W, WantedPlaces
    <3> QED BY <1>3, <2>10, <2>12, <3>1 DEF ReadAlong
  <2> QED BY <2>1, <2>8, <2>9, <2>13 DEF SourceOk, W
<1> QED BY <1>2, <1>3

-----------------------------------------------------------------------------
(* The file as it grows. *)
FramesIn(f, n) == {i \in 2 .. n : f[i].kind = "frame"}

Begun(f, frames) ==
    /\ f \in Seq(FileRecords) /\ Len(f) >= 1 /\ f[1] = Header
    /\ \A i \in 2 .. Len(f) : f[i].kind \in {"frame", "control"}
    /\ frames = Cardinality(FramesIn(f, Len(f)))

WholeFile(f) ==
    /\ f \in Seq(FileRecords) /\ Len(f) >= 2 /\ f[1] = Header
    /\ \A i \in 2 .. (Len(f) - 1) : f[i].kind \in {"frame", "control"}
    /\ f[Len(f)] = Footer(Cardinality(FramesIn(f, Len(f) - 1)))

LEMMA FramesFinite ==
    ASSUME NEW f, NEW n \in Nat
    PROVE  IsFiniteSet(FramesIn(f, n)) /\ Cardinality(FramesIn(f, n)) \in Nat
<1>1. 2 \in Int /\ n \in Int
  OBVIOUS
<1>2. IsFiniteSet(2 .. n)
  BY <1>1, FS_Interval
<1>3. IsFiniteSet(FramesIn(f, n))
  BY <1>2, FS_Subset DEF FramesIn
<1> QED BY <1>3, FS_CardinalityType

LEMMA BegunGrows ==
    ASSUME NEW f, NEW frames, Begun(f, frames), NEW r \in FileRecords, r.kind \in {"frame", "control"}
    PROVE  Begun(Append(f, r), IF r.kind = "frame" THEN frames + 1 ELSE frames)
<1> DEFINE n == Len(f)
           g == Append(f, r)
<1>1. /\ f \in Seq(FileRecords) /\ n \in Nat /\ n >= 1 /\ f[1] = Header
      /\ \A i \in 2 .. n : f[i].kind \in {"frame", "control"}
      /\ frames = Cardinality(FramesIn(f, n))
  BY DEF Begun
<1>2. /\ g \in Seq(FileRecords) /\ Len(g) = n + 1 /\ g[n + 1] = r
      /\ \A i \in 1 .. n : g[i] = f[i]
  BY <1>1, AppendFacts
<1> HIDE DEF g, n
<1>3. g[1] = Header
  BY <1>1, <1>2
<1>4. \A i : i \in 2 .. (n + 1) <=> i \in 2 .. n \/ i = n + 1
  BY <1>1
<1>5. \A i \in 2 .. n : i \in 1 .. n /\ i # n + 1
  BY <1>1
<1>6. \A i \in 2 .. (n + 1) : g[i].kind \in {"frame", "control"}
  BY <1>1, <1>2, <1>4, <1>5
<1>7. IsFiniteSet(FramesIn(f, n)) /\ n + 1 \notin FramesIn(f, n)
  BY <1>1, <1>5, FramesFinite DEF FramesIn
<1>8. CASE r.kind = "frame"
  <2>1. FramesIn(g, n + 1) = FramesIn(f, n) \cup {n + 1}
    BY <1>2, <1>4, <1>5, <1>8 DEF FramesIn
  <2>2. Cardinality(FramesIn(g, n + 1)) = frames + 1
    BY <1>1, <1>7, <2>1, FS_AddElement
  <2>3. Begun(g, frames + 1)
    BY <1>1, <1>2, <1>3, <1>6, <2>2 DEF Begun
  <2> QED BY <1>8, <2>3 DEF g
<1>9. CASE r.kind # "frame"
  <2>1. FramesIn(g, n + 1) = FramesIn(f, n)
    BY <1>2, <1>4, <1>5, <1>9 DEF FramesIn
  <2>2. Begun(g, frames)
    BY <1>1, <1>2, <1>3, <1>6, <2>1 DEF Begun
  <2> QED BY <1>9, <2>2 DEF g
<1> QED BY <1>8, <1>9

LEMMA FooterMakesWhole ==
    ASSUME NEW f, NEW frames, Begun(f, frames)
    PROVE  WholeFile(Append(f, Footer(frames)))
<1> DEFINE n == Len(f)
           r == Footer(frames)
           g == Append(f, r)
<1>1. /\ f \in Seq(FileRecords) /\ n \in Nat /\ n >= 1 /\ f[1] = Header
      /\ \A i \in 2 .. n : f[i].kind \in {"frame", "control"}
      /\ frames = Cardinality(FramesIn(f, n))
  BY DEF Begun
<1>2. r \in FileRecords
  BY <1>1, FramesFinite DEF Footer, FileRecords
<1> HIDE DEF r
<1>3. /\ g \in Seq(FileRecords) /\ Len(g) = n + 1 /\ g[n + 1] = r
      /\ \A i \in 1 .. n : g[i] = f[i]
  BY <1>1, <1>2, AppendFacts
<1> HIDE DEF g, n
<1>4. g[1] = Header /\ n + 1 >= 2 /\ (n + 1) - 1 = n
  BY <1>1, <1>3
<1>5. \A i \in 2 .. n : g[i] = f[i]
  BY <1>1, <1>3
<1>6. FramesIn(g, n) = FramesIn(f, n)
  BY <1>5 DEF FramesIn
<1>7. g[n + 1] = Footer(Cardinality(FramesIn(g, n)))
  BY <1>1, <1>3, <1>6 DEF r
<1>8. \A i \in 2 .. n : g[i].kind \in {"frame", "control"}
  BY <1>1, <1>5
<1>9. WholeFile(g)
  BY <1>3, <1>4, <1>7, <1>8 DEF WholeFile
<1> QED BY <1>9 DEF g, r

-----------------------------------------------------------------------------
(* The feed. *)
Feeds ==
    [on : BOOLEAN, source : Seq(FileRecords), at : Nat, env : Nat, wall : Int, regressions : Int,
     keep : SUBSET Streams, order : {"arrival", "ingest_ts"}]

(* env is the latest stamp handed on, wall its distance from the first. *)
Paced(source, at, env, wall) ==
    IF at = 0 THEN wall = 0
    ELSE /\ \A i \in 1 .. at : source[i].ts <= env
         /\ \E i \in 1 .. at : source[i].ts = env
         /\ wall = env - source[1].ts

FeedOk(feed, file) ==
    /\ SourceOk(feed.source, file, feed.keep, feed.order)
    /\ feed.at \in 0 .. Len(feed.source)
    /\ Paced(feed.source, feed.at, feed.env, feed.wall)

LEMMA PaceKept ==
    ASSUME NEW source \in Seq(FileRecords), NEW at \in Nat, at < Len(source), NEW env \in Nat,
           NEW wall \in Int, Paced(source, at, env, wall), NEW ts, ts = source[at + 1].ts,
           NEW next, next = IF at = 0 THEN ts ELSE Wider(env, ts)
    PROVE  /\ ts \in Nat /\ next \in Nat /\ source[1].ts \in Nat /\ at + 1 \in 1 .. Len(source)
           /\ Paced(source, at + 1, next, Wider(wall, next - source[1].ts))
<1> DEFINE n == Len(source)
<1>1. n \in Nat /\ at + 1 \in 1 .. n /\ 1 \in 1 .. n
  OBVIOUS
<1>2. \A i \in 1 .. n : source[i].ts \in Nat
  <2> TAKE i \in 1 .. n
  <2>1. source[i] \in FileRecords
    OBVIOUS
  <2> QED BY <2>1 DEF FileRecords
<1> HIDE DEF n
<1>3. ts \in Nat /\ source[1].ts \in Nat /\ next \in Nat
  BY <1>1, <1>2 DEF Wider
<1>4. CASE at = 0
  <2>1. next = ts /\ ts = source[1].ts /\ wall = 0
    BY <1>4 DEF Paced
  <2>2. Wider(wall, next - source[1].ts) = 0 /\ next - source[1].ts = 0
    BY <1>3, <2>1 DEF Wider
  <2>3. \A i \in 1 .. 1 : i = 1
    OBVIOUS
  <2>4. Paced(source, 1, next, 0)
    BY <1>3, <2>1, <2>2, <2>3 DEF Paced
  <2> QED BY <1>1, <1>3, <1>4, <2>2, <2>4 DEF n
<1>5. CASE at # 0
  <2>1. /\ \A i \in 1 .. at : source[i].ts <= env
        /\ \E i \in 1 .. at : source[i].ts = env
        /\ wall = env - source[1].ts
    BY <1>5 DEF Paced
  <2>2. next = Wider(env, ts) /\ next >= env /\ next >= ts /\ (next = env \/ next = ts)
    BY <1>3, <1>5 DEF Wider
  <2>3. Wider(wall, next - source[1].ts) = next - source[1].ts
    BY <1>3, <2>1, <2>2, SMTT(20) DEF Wider
  <2>4. \A i : i \in 1 .. (at + 1) <=> i \in 1 .. at \/ i = at + 1
    OBVIOUS
  <2>5. \A i \in 1 .. (at + 1) : i \in 1 .. n
    BY <1>1
  <2>6. \A i \in 1 .. (at + 1) : source[i].ts <= next
    <3> TAKE i \in 1 .. (at + 1)
    <3>1. source[i].ts \in Nat
      BY <1>2, <2>5
    <3>2. source[i].ts <= env \/ source[i].ts = ts
      BY <2>1, <2>4
    <3> QED BY <1>3, <2>2, <3>1, <3>2
  <2>7. \E i \in 1 .. (at + 1) : source[i].ts = next
    BY <2>1, <2>2, <2>4
  <2>8. at + 1 # 0
    OBVIOUS
  <2>9. Paced(source, at + 1, next, next - source[1].ts)
    BY <2>6, <2>7, <2>8 DEF Paced
  <2> QED BY <1>1, <1>3, <2>3, <2>9 DEF n
<1> QED BY <1>4, <1>5

LEMMA DueOk ==
    ASSUME NEW feed \in Feeds, NEW file, FeedOk(feed, file), feed.at < Len(feed.source)
    PROVE  LET ts == feed.source[feed.at + 1].ts
               t == Due(feed, ts, IF feed.at = 0 THEN ts ELSE Wider(feed.env, ts))
           IN  t \in Feeds /\ t.on = feed.on /\ FeedOk(t, file)
<1> DEFINE source == feed.source
           ts == source[feed.at + 1].ts
           next == IF feed.at = 0 THEN ts ELSE Wider(feed.env, ts)
           t == Due(feed, ts, next)
<1>1. /\ source \in Seq(FileRecords) /\ feed.at \in Nat /\ feed.env \in Nat /\ feed.wall \in Int
      /\ feed.regressions \in Int
  BY DEF Feeds
<1>2. Paced(source, feed.at, feed.env, feed.wall) /\ feed.at < Len(source)
  BY DEF FeedOk
<1>3. /\ ts \in Nat /\ next \in Nat /\ source[1].ts \in Nat /\ feed.at + 1 \in 1 .. Len(source)
      /\ Paced(source, feed.at + 1, next, Wider(feed.wall, next - source[1].ts))
  <2> HIDE DEF source
  <2> QED BY <1>1, <1>2, PaceKept
<1> DEFINE wall == Wider(feed.wall, next - source[1].ts)
           back == IF feed.at > 0 /\ ts < source[feed.at].ts THEN feed.regressions + 1 ELSE feed.regressions
<1>4. wall \in Int /\ back \in Int
  <2> HIDE DEF next
  <2> QED BY <1>1, <1>3 DEF Wider
<1>5. t = [feed EXCEPT !.at = feed.at + 1, !.env = next, !.regressions = back, !.wall = wall]
  BY DEF Due
<1>P. Paced(source, feed.at + 1, next, wall)
  BY <1>3
<1> HIDE DEF wall, back, next, ts, source, t
<1>6. /\ t \in Feeds /\ t.on = feed.on /\ t.source = feed.source /\ t.at = feed.at + 1 /\ t.env = next
      /\ t.wall = wall /\ t.keep = feed.keep /\ t.order = feed.order
  <2>1. feed.at + 1 \in Nat /\ next \in Nat
    BY <1>1, <1>3
  <2> QED BY <1>4, <1>5, <2>1 DEF Feeds
<1>7. t.at \in 0 .. Len(t.source)
  <2> DEFINE n == Len(feed.source)
  <2>1. feed.at + 1 \in 1 .. n /\ n \in Nat
    BY <1>1, <1>3 DEF source
  <2> HIDE DEF n
  <2>2. feed.at + 1 \in 0 .. n
    BY <2>1, <1>1
  <2> QED BY <1>6, <2>2 DEF n
<1>8. FeedOk(t, file)
  BY <1>6, <1>7, <1>P DEF FeedOk, source
<1>9. t \in Feeds /\ t.on = feed.on /\ FeedOk(t, file)
  BY <1>6, <1>8
<1> QED BY <1>9 DEF t, next, ts, source

-----------------------------------------------------------------------------
(* A recording that is open is a beginning of a file; from its footer on   *)
(* it is whole, and only then can it get the final name.  Nothing is       *)
(* recorded under a replay.                                                *)
FileInv ==
    /\ sfRec \in {"closed", "open", "footer", "flushed"}
    /\ sfFinal \in Seq(FileRecords)
    /\ sfCount \in [frames : Nat, sessions : Nat, items : Nat]
    /\ sfFeed \in Feeds
    /\ sfRec = "open" => Begun(sfPart, sfCount.frames)
    /\ sfRec \in {"footer", "flushed"} => WholeFile(sfPart)
    /\ sfFinal # <<>> => WholeFile(sfFinal)
    /\ sfFeed.on => sfRec = "closed" /\ FeedOk(sfFeed, sfFinal)

LEMMA FileInitial == FileInit => FileInv
  BY DEF FileInit, FileInv, NoFeed, Feeds

LEMMA FileStep == FileInv /\ [FileNext]_sfVars => FileInv'
<1> SUFFICES ASSUME FileInv, [FileNext]_sfVars PROVE FileInv'
  OBVIOUS
<1>0. /\ sfRec \in {"closed", "open", "footer", "flushed"} /\ sfFinal \in Seq(FileRecords)
      /\ sfCount \in [frames : Nat, sessions : Nat, items : Nat] /\ sfFeed \in Feeds
      /\ sfRec = "open" => Begun(sfPart, sfCount.frames)
      /\ sfRec \in {"footer", "flushed"} => WholeFile(sfPart)
      /\ sfFinal # <<>> => WholeFile(sfFinal)
      /\ sfFeed.on => sfRec = "closed" /\ FeedOk(sfFeed, sfFinal)
  BY DEF FileInv
<1>1. CASE OpenFile
  <2>1. Begun(<<Header>>, 0)
    <3>1. Header \in FileRecords
      BY DEF Header, FileRecords
    <3>2. <<Header>> \in Seq(FileRecords) /\ Len(<<Header>>) = 1 /\ <<Header>>[1] = Header
      BY <3>1
    <3>3. FramesIn(<<Header>>, 1) = {}
      BY DEF FramesIn
    <3>4. Cardinality(FramesIn(<<Header>>, 1)) = 0
      BY <3>3, FS_EmptySet
    <3>5. \A i \in 2 .. 1 : FALSE
      OBVIOUS
    <3> QED BY <3>2, <3>4, <3>5 DEF Begun
  <2>2. sfCount' \in [frames : Nat, sessions : Nat, items : Nat] /\ sfCount'.frames = 0
    <3>1. sfCount' = [sfCount EXCEPT !.frames = 0, !.sessions = sfCount.sessions + 1]
      BY <1>1 DEF OpenFile
    <3>2. sfCount.sessions + 1 \in Nat
      BY <1>0
    <3> QED BY <1>0, <3>1, <3>2
  <2>3. sfRec' = "open" /\ sfPart' = <<Header>> /\ ~sfFeed.on /\ sfFinal' = sfFinal /\ sfFeed' = sfFeed
    BY <1>1 DEF OpenFile
  <2> QED BY <1>0, <2>1, <2>2, <2>3 DEF FileInv
<1>2. CASE WriteItem
  <2>1. PICK i \in Items :
           /\ sfPart' = Append(sfPart, i)
           /\ sfCount' = [sfCount EXCEPT !.items = @ + 1, !.frames = IF i.kind = "frame" THEN @ + 1 ELSE @]
    BY <1>2 DEF WriteItem
  <2>2. sfRec = "open" /\ sfRec' = "open" /\ sfFinal' = sfFinal /\ sfFeed' = sfFeed
    BY <1>2 DEF WriteItem
  <2>3. i \in FileRecords /\ i.kind \in {"frame", "control"}
    BY SessionFileAssumption, ItemsAreRecords
  <2>4. sfCount'.frames = (IF i.kind = "frame" THEN sfCount.frames + 1 ELSE sfCount.frames)
    BY <1>0, <2>1
  <2>5. sfCount' \in [frames : Nat, sessions : Nat, items : Nat]
    <3> DEFINE k == IF i.kind = "frame" THEN sfCount.frames + 1 ELSE sfCount.frames
    <3>1. sfCount' = [sfCount EXCEPT !.items = sfCount.items + 1, !.frames = k]
      BY <2>1
    <3>2. k \in Nat /\ sfCount.items + 1 \in Nat
      BY <1>0
    <3> HIDE DEF k
    <3> QED BY <1>0, <3>1, <3>2
  <2>6. Begun(Append(sfPart, i), IF i.kind = "frame" THEN sfCount.frames + 1 ELSE sfCount.frames)
    BY <1>0, <2>2, <2>3, BegunGrows
  <2>7. Begun(sfPart', sfCount'.frames)
    BY <2>1, <2>4, <2>6
  <2> QED BY <1>0, <2>2, <2>5, <2>7 DEF FileInv
<1>3. CASE WriteFooter
  <2>1. WholeFile(sfPart') /\ sfRec = "open" /\ sfRec' = "footer"
    BY <1>0, <1>3, FooterMakesWhole DEF WriteFooter
  <2> QED BY <1>0, <1>3, <2>1 DEF FileInv, WriteFooter
<1>4. CASE FlushFile
  BY <1>0, <1>4 DEF FlushFile, FileInv
<1>5. CASE RenameFile
  <2>1. WholeFile(sfFinal') /\ sfRec = "flushed" /\ sfRec' = "closed" /\ ~sfFeed.on
    BY <1>0, <1>5 DEF RenameFile
  <2>2. sfFinal' \in Seq(FileRecords)
    BY <2>1 DEF WholeFile
  <2> QED BY <1>0, <1>5, <2>1, <2>2 DEF FileInv, RenameFile
<1>6. CASE AbortFile
  BY <1>0, <1>6 DEF AbortFile, FileInv
<1>7. CASE CrashFile
  BY <1>0, <1>7 DEF CrashFile, FileInv
<1>8. CASE StartReplay
  <2>1. PICK keep \in SUBSET Streams, order \in {"arrival", "ingest_ts"} :
           sfFeed' = [NoFeed EXCEPT !.on = TRUE, !.keep = keep, !.order = order,
                                    !.source = Source(sfFinal, keep, order)]
    BY <1>8 DEF StartReplay
  <2> DEFINE source == Source(sfFinal, keep, order)
  <2>2. SourceOk(source, sfFinal, keep, order)
    BY <1>0, SourceIsOk
  <2>3. source \in Seq(FileRecords) /\ Len(source) \in Nat
    BY <2>2 DEF SourceOk
  <2> HIDE DEF source
  <2>4. NoFeed \in Feeds /\ NoFeed.at = 0 /\ NoFeed.wall = 0
    BY DEF NoFeed, Feeds
  <2>5. /\ sfFeed' \in Feeds /\ sfFeed'.source = source /\ sfFeed'.keep = keep /\ sfFeed'.order = order
        /\ sfFeed'.at = 0 /\ sfFeed'.wall = 0
    BY <2>1, <2>3, <2>4 DEF Feeds, source
  <2>6. 0 \in 0 .. Len(source)
    BY <2>3
  <2>7. FeedOk(sfFeed', sfFinal)
    BY <2>2, <2>5, <2>6 DEF FeedOk, Paced
  <2>8. sfRec = "closed" /\ UNCHANGED <<sfRec, sfPart, sfFinal, sfCount>>
    BY <1>8 DEF StartReplay
  <2> QED BY <1>0, <2>5, <2>7, <2>8 DEF FileInv
<1>9. CASE Replay
  <2>1. sfFeed.on /\ sfFeed.at < Len(sfFeed.source) /\ UNCHANGED <<sfRec, sfPart, sfFinal, sfCount>>
    BY <1>9 DEF Replay
  <2>2. FeedOk(sfFeed, sfFinal) /\ sfRec = "closed"
    BY <1>0, <2>1
  <2>3. sfFeed' \in Feeds /\ FeedOk(sfFeed', sfFinal)
    <3> DEFINE ts == sfFeed.source[sfFeed.at + 1].ts
               t == Due(sfFeed, ts, IF sfFeed.at = 0 THEN ts ELSE Wider(sfFeed.env, ts))
    <3>1. t \in Feeds /\ t.on = sfFeed.on /\ FeedOk(t, sfFinal)
      BY <1>0, <2>1, <2>2, DueOk
    <3>2. sfFeed' = t
      BY <1>9 DEF Replay
    <3> HIDE DEF t
    <3> QED BY <3>1, <3>2
  <2> QED BY <1>0, <2>1, <2>2, <2>3 DEF FileInv
<1>10. CASE UNCHANGED sfVars
  BY <1>10 DEF FileInv, sfVars
<1> QED BY <1>1, <1>2, <1>3, <1>4, <1>5, <1>6, <1>7, <1>8, <1>9, <1>10 DEF FileNext

LEMMA FileFaithful == FileInv => RecordingIsFaithful
<1> SUFFICES ASSUME FileInv PROVE RecordingIsFaithful
  OBVIOUS
<1>1. FinalIsComplete
  <2> SUFFICES ASSUME sfFinal # <<>> PROVE FinalIsComplete
    BY DEF FinalIsComplete
  <2>1. WholeFile(sfFinal)
    BY DEF FileInv
  <2> QED BY <2>1 DEF FinalIsComplete, WholeFile, FramesIn
<1>2. ASSUME sfFeed.on
      PROVE  /\ SourceOk(sfFeed.source, sfFinal, sfFeed.keep, sfFeed.order)
             /\ sfFeed.at \in 0 .. Len(sfFeed.source)
             /\ Paced(sfFeed.source, sfFeed.at, sfFeed.env, sfFeed.wall)
             /\ sfFeed \in Feeds
  BY <1>2 DEF FileInv, FeedOk
<1>3. ReplayIsRecording
  BY <1>2 DEF ReplayIsRecording, SourceOk, WantedPlaces
<1>4. ReplayKeepsPace
  <2> SUFFICES ASSUME sfFeed.on, sfFeed.at > 0
               PROVE  sfFeed.wall = Max({sfFeed.source[i].ts : i \in 1 .. sfFeed.at}) - sfFeed.source[1].ts
    BY DEF ReplayKeepsPace
  <2> DEFINE at == sfFeed.at
             env == sfFeed.env
             S == {sfFeed.source[i].ts : i \in 1 .. at}
  <2>1. Paced(sfFeed.source, at, env, sfFeed.wall) /\ at # 0 /\ env \in Nat
    BY <1>2 DEF Feeds
  <2>2. /\ \A i \in 1 .. at : sfFeed.source[i].ts <= env
        /\ \E i \in 1 .. at : sfFeed.source[i].ts = env
        /\ sfFeed.wall = env - sfFeed.source[1].ts
    BY <2>1 DEF Paced
  <2>3. \A y \in S : y <= env /\ y \in Nat
    <3>1. sfFeed.source \in Seq(FileRecords) /\ at \in 0 .. Len(sfFeed.source)
      BY <1>2 DEF Feeds
    <3>2. \A i \in 1 .. at : i \in 1 .. Len(sfFeed.source)
      BY <3>1
    <3>3. \A i \in 1 .. at : sfFeed.source[i] \in FileRecords
      BY <3>1, <3>2
    <3>4. \A i \in 1 .. at : sfFeed.source[i].ts \in Nat
      BY <3>3 DEF FileRecords
    <3> QED BY <2>2, <3>4
  <2>4. env \in S
    BY <2>2
  <2> HIDE DEF S, env
  <2>5. env \in S /\ \A y \in S : env >= y
    BY <2>1, <2>3, <2>4
  <2>6. \A x \in S : (\A y \in S : x >= y) => x = env
    BY <2>1, <2>3, <2>4
  <2>7. Max(S) = env
    BY <2>5, <2>6 DEF Max
  <2> QED BY <2>2, <2>7 DEF S
<1> QED BY <1>1, <1>3, <1>4 DEF RecordingIsFaithful

(* However a recording ends, by close, abort or the death of the process,  *)
(* what stands under the final name is a whole session, and its replay is  *)
(* that session, each record once, sorted and paced as asked               *)
(* (recorder.py close and abort, replay.py ReplayFeed).                    *)
THEOREM RecordingFaithful == FileSpec => []RecordingIsFaithful
<1>1. FileSpec => []FileInv
  BY FileInitial, FileStep, PTL DEF FileSpec
<1> QED BY <1>1, FileFaithful, PTL

-----------------------------------------------------------------------------
(* The candle table. *)

CandleTables == UNION {[D -> Candles] : D \in SUBSET TableMinutes}

(* The row of a minute, if any, and what an upsert of c makes of it. *)
RowOf(rows, m) == IF m \in DOMAIN rows THEN <<rows[m]>> ELSE <<>>
Judged(row, c) == IF row # <<>> /\ (row[1].closed \/ ~(c.src <= row[1].src)) THEN row ELSE <<c>>

LEMMA TableFacts ==
    ASSUME NEW rows \in CandleTables
    PROVE  /\ DOMAIN rows \subseteq TableMinutes /\ rows = [m \in DOMAIN rows |-> rows[m]]
           /\ \A m \in DOMAIN rows : rows[m] \in Candles
           /\ rows \in [DOMAIN rows -> Candles]
<1>1. PICK D \in SUBSET TableMinutes : rows \in [D -> Candles]
  BY DEF CandleTables
<1> QED BY <1>1

LEMMA IsTable ==
    ASSUME NEW rows, DOMAIN rows \subseteq TableMinutes, rows = [m \in DOMAIN rows |-> rows[m]],
           \A m \in DOMAIN rows : rows[m] \in Candles
    PROVE  rows \in CandleTables
<1>1. rows \in [DOMAIN rows -> Candles]
  OBVIOUS
<1> QED BY <1>1 DEF CandleTables

(* CandleTables with the same rows are the same. *)
LEMMA SameRows ==
    ASSUME NEW a \in CandleTables, NEW b \in CandleTables, \A m \in TableMinutes : RowOf(a, m) = RowOf(b, m)
    PROVE  a = b
<1>1. /\ DOMAIN a \subseteq TableMinutes /\ a = [m \in DOMAIN a |-> a[m]]
      /\ DOMAIN b \subseteq TableMinutes /\ b = [m \in DOMAIN b |-> b[m]]
  BY TableFacts
<1>2. \A m \in TableMinutes : m \in DOMAIN a <=> m \in DOMAIN b
  BY DEF RowOf
<1>3. DOMAIN a = DOMAIN b
  BY <1>1, <1>2
<1>4. \A m \in DOMAIN a : <<a[m]>> = <<b[m]>>
  BY <1>1, <1>3 DEF RowOf
<1>5. \A m \in DOMAIN a : a[m] = b[m]
  BY <1>4
<1> QED BY <1>1, <1>3, <1>5

LEMMA MinuteOf == \A c \in Candles : c.t \in TableMinutes
BY DEF TableMinutes

LEMMA UpsertedRow ==
    ASSUME NEW rows \in CandleTables, NEW c \in Candles
    PROVE  /\ Upserted(rows, c) \in CandleTables
           /\ DOMAIN Upserted(rows, c) = DOMAIN rows \cup {c.t}
           /\ RowOf(Upserted(rows, c), c.t) = Judged(RowOf(rows, c.t), c)
           /\ \A m \in TableMinutes \ {c.t} : RowOf(Upserted(rows, c), m) = RowOf(rows, m)
<1> DEFINE new == Upserted(rows, c)
<1>1. /\ DOMAIN rows \subseteq TableMinutes /\ rows = [m \in DOMAIN rows |-> rows[m]]
      /\ \A m \in DOMAIN rows : rows[m] \in Candles
  BY TableFacts
<1>2. c.t \in TableMinutes
  BY MinuteOf
<1>3. CASE Applies(rows, c)
  <2>1. new = [m \in DOMAIN rows \cup {c.t} |-> IF m = c.t THEN c ELSE rows[m]]
    BY <1>3 DEF Upserted, Put
  <2>2. /\ DOMAIN new = DOMAIN rows \cup {c.t} /\ new[c.t] = c
        /\ \A m \in DOMAIN rows : m # c.t => new[m] = rows[m]
        /\ new = [m \in DOMAIN new |-> new[m]]
    BY <2>1
  <2> HIDE DEF new
  <2>3. new \in CandleTables
    BY <1>1, <1>2, <2>2, IsTable
  <2>4. RowOf(new, c.t) = <<c>> /\ \A m \in TableMinutes \ {c.t} : RowOf(new, m) = RowOf(rows, m)
    BY <2>2 DEF RowOf
  <2>5. Judged(RowOf(rows, c.t), c) = <<c>>
    BY <1>3 DEF Judged, RowOf, Applies
  <2> QED BY <2>2, <2>3, <2>4, <2>5 DEF new
<1>4. CASE ~Applies(rows, c)
  <2>1. new = rows /\ c.t \in DOMAIN rows
    BY <1>4 DEF Upserted, Applies
  <2>2. Judged(RowOf(rows, c.t), c) = RowOf(rows, c.t)
    BY <1>4, <2>1 DEF Judged, RowOf, Applies
  <2> QED BY <1>1, <2>1, <2>2
<1> QED BY <1>3, <1>4

-----------------------------------------------------------------------------
(* A statement whose candles have different minutes judges each of them by *)
(* the row it finds.                                                       *)
StatementOk(rows, batch, round, s) ==
    /\ s.rows \in CandleTables /\ s.inserted \in Nat /\ s.updated \in Nat
    /\ \A m \in TableMinutes : (\A i \in round : batch[i].t # m) => RowOf(s.rows, m) = RowOf(rows, m)
    /\ \A i \in round : RowOf(s.rows, batch[i].t) = Judged(RowOf(rows, batch[i].t), batch[i])
    /\ DOMAIN rows \subseteq DOMAIN s.rows
    /\ IsFiniteSet(DOMAIN s.rows \ DOMAIN rows)
    /\ s.inserted = Cardinality(DOMAIN s.rows \ DOMAIN rows)
    /\ s.inserted + s.updated <= Cardinality(round)

LEMMA StatementRuns ==
    ASSUME NEW rows \in CandleTables, NEW batch \in Seq(Candles), NEW round \in SUBSET DOMAIN batch,
           \A i, j \in round : batch[i].t = batch[j].t => i = j
    PROVE  StatementOk(rows, batch, round, Statement(rows, batch, round))
<1> DEFINE won == {i \in round : Applies(rows, batch[i])}
           keys == {batch[i].t : i \in won}
           new == [m \in DOMAIN rows \cup keys |->
                      IF m \in keys THEN batch[CHOOSE i \in won : batch[i].t = m] ELSE rows[m]]
           s == Statement(rows, batch, round)
<1>1. /\ DOMAIN rows \subseteq TableMinutes /\ rows = [m \in DOMAIN rows |-> rows[m]]
      /\ \A m \in DOMAIN rows : rows[m] \in Candles
  BY TableFacts
<1>2. \A i \in round : batch[i] \in Candles /\ batch[i].t \in TableMinutes
  BY MinuteOf
<1>3. s.rows = new /\ s.inserted = Cardinality(keys \ DOMAIN rows) /\ s.updated = Cardinality(keys \cap DOMAIN rows)
  BY DEF Statement
<1>4. won \subseteq round /\ keys \subseteq TableMinutes
  BY <1>2
<1>5. \A i \in won : new[batch[i].t] = batch[i] /\ batch[i].t \in keys
  <2> TAKE i \in won
  <2>1. (CHOOSE j \in won : batch[j].t = batch[i].t) = i
    <3>1. \A j \in won : batch[j].t = batch[i].t => j = i
      BY <1>4
    <3> QED BY <3>1
  <2> QED BY <2>1
<1>6. \A m \in DOMAIN rows : m \notin keys => new[m] = rows[m]
  OBVIOUS
<1>7. DOMAIN new = DOMAIN rows \cup keys /\ new = [m \in DOMAIN new |-> new[m]]
  OBVIOUS
<1>8. \A m \in keys : \E i \in won : batch[i].t = m
  OBVIOUS
<1>K. keys = {batch[i].t : i \in won} /\ \A i \in round : i \in won <=> Applies(rows, batch[i])
  OBVIOUS
<1> HIDE DEF won, keys, new, s
<1>9. new \in CandleTables
  <2>1. \A m \in DOMAIN new : new[m] \in Candles
    BY <1>1, <1>2, <1>4, <1>5, <1>6, <1>7, <1>8
  <2> QED BY <1>1, <1>4, <1>7, <2>1, IsTable
<1>10. ASSUME NEW m \in TableMinutes, \A i \in round : batch[i].t # m PROVE RowOf(new, m) = RowOf(rows, m)
  <2>1. m \notin keys
    BY <1>4, <1>8, <1>10
  <2> QED BY <1>6, <1>7, <2>1 DEF RowOf
<1>11. ASSUME NEW i \in round PROVE RowOf(new, batch[i].t) = Judged(RowOf(rows, batch[i].t), batch[i])
  <2>1. CASE i \in won
    <3>1. RowOf(new, batch[i].t) = <<batch[i]>>
      BY <1>5, <1>7, <2>1 DEF RowOf
    <3>2. Applies(rows, batch[i])
      BY <1>K, <2>1
    <3>3. Judged(RowOf(rows, batch[i].t), batch[i]) = <<batch[i]>>
      BY <3>2 DEF Applies, Judged, RowOf
    <3> QED BY <3>1, <3>3
  <2>2. CASE i \notin won
    <3>1. ~Applies(rows, batch[i])
      BY <1>K, <2>2
    <3>2. batch[i].t \notin keys
      BY <1>4, <1>8, <2>2
    <3>3. RowOf(new, batch[i].t) = RowOf(rows, batch[i].t)
      BY <1>6, <1>7, <3>2 DEF RowOf
    <3>4. Judged(RowOf(rows, batch[i].t), batch[i]) = RowOf(rows, batch[i].t)
      BY <3>1 DEF Applies, Judged, RowOf
    <3> QED BY <3>3, <3>4
  <2> QED BY <2>1, <2>2
<1>12. /\ IsFiniteSet(keys) /\ IsFiniteSet(round)
       /\ Cardinality(keys) <= Cardinality(round)
       /\ Cardinality(keys) \in Nat /\ Cardinality(round) \in Nat
  <2>1. IsFiniteSet(DOMAIN batch)
    <3>1. DOMAIN batch = 1 .. Len(batch) /\ 1 \in Int /\ Len(batch) \in Int
      OBVIOUS
    <3> QED BY <3>1, FS_Interval
  <2>2. IsFiniteSet(round)
    BY <2>1, FS_Subset
  <2>3. IsFiniteSet(won) /\ Cardinality(won) <= Cardinality(round)
    BY <1>4, <2>2, FS_Subset
  <2> DEFINE f == [i \in won |-> batch[i].t]
  <2>4. f \in Surjection(won, keys)
    <3>1. f \in [won -> keys] /\ \A m \in keys : \E i \in won : f[i] = m
      BY <1>5, <1>8
    <3> QED BY <3>1 DEF Surjection
  <2>5. IsFiniteSet(keys) /\ Cardinality(keys) <= Cardinality(won)
    <3> HIDE DEF f
    <3> QED BY <2>3, <2>4, FS_Surjection
  <2>6. Cardinality(keys) \in Nat /\ Cardinality(round) \in Nat /\ Cardinality(won) \in Nat
    BY <2>2, <2>3, <2>5, FS_CardinalityType
  <2> QED BY <2>2, <2>3, <2>5, <2>6
<1>13. DOMAIN new \ DOMAIN rows = keys \ DOMAIN rows
  BY <1>7
<1>14. /\ IsFiniteSet(keys \ DOMAIN rows)
       /\ Cardinality(keys \ DOMAIN rows) + Cardinality(keys \cap DOMAIN rows) = Cardinality(keys)
       /\ Cardinality(keys \ DOMAIN rows) \in Nat /\ Cardinality(keys \cap DOMAIN rows) \in Nat
  <2> DEFINE A == keys \ DOMAIN rows
             B == keys \cap DOMAIN rows
  <2>1. IsFiniteSet(A) /\ IsFiniteSet(B) /\ A \cup B = keys /\ A \cap B = {}
    BY <1>12, FS_Subset
  <2>2. Cardinality(A) \in Nat /\ Cardinality(B) \in Nat
    BY <2>1, FS_CardinalityType
  <2>3. Cardinality(A \cup B) = Cardinality(A) + Cardinality(B) - Cardinality(A \cap B)
    BY <2>1, FS_Union
  <2>4. Cardinality(A \cap B) = 0
    BY <2>1, FS_EmptySet
  <2>5. Cardinality(A) + Cardinality(B) = Cardinality(keys)
    <3> HIDE DEF A, B
    <3>1. Cardinality(A \cup B) = Cardinality(keys)
      BY <2>1, Zenon
    <3> QED BY <2>2, <2>3, <2>4, <3>1
  <2> QED BY <2>1, <2>2, <2>5
<1>15. s.inserted + s.updated <= Cardinality(round)
  BY <1>3, <1>12, <1>14
<1>16. /\ s.rows \in CandleTables /\ s.inserted \in Nat /\ s.updated \in Nat
       /\ DOMAIN rows \subseteq DOMAIN s.rows
       /\ IsFiniteSet(DOMAIN s.rows \ DOMAIN rows)
       /\ s.inserted = Cardinality(DOMAIN s.rows \ DOMAIN rows)
  BY <1>3, <1>7, <1>9, <1>13, <1>14
<1>17. StatementOk(rows, batch, round, s)
  BY <1>3, <1>10, <1>11, <1>15, <1>16 DEF StatementOk
<1> QED BY <1>17 DEF s

(* How many of the first i candles are of the minute m. *)
Count(batch, m, i) == Cardinality({j \in 1 .. i : batch[j].t = m})

CountsOk(batch, m) ==
    /\ Count(batch, m, 0) = 0
    /\ \A i \in 0 .. Len(batch) : Count(batch, m, i) \in 0 .. i
    /\ \A i \in 1 .. Len(batch) :
          Count(batch, m, i) = IF batch[i].t = m THEN Count(batch, m, i - 1) + 1 ELSE Count(batch, m, i - 1)
    /\ \A i, j \in 0 .. Len(batch) : i <= j => Count(batch, m, i) <= Count(batch, m, j)

LEMMA Counting ==
    ASSUME NEW batch \in Seq(Candles), NEW m
    PROVE  CountsOk(batch, m)
<1> DEFINE n == Len(batch)
           S == [i \in 0 .. n |-> {j \in 1 .. i : batch[j].t = m}]
           c == [i \in 0 .. n |-> Cardinality(S[i])]
<1>1. n \in Nat /\ \A i \in 0 .. n : c[i] = Count(batch, m, i)
  BY DEF Count
<1>2. \A i \in 0 .. n : S[i] \subseteq 1 .. i
  OBVIOUS
<1>3. S[0] = {}
  OBVIOUS
<1>4. \A i \in 1 .. n : S[i] = IF batch[i].t = m THEN S[i - 1] \cup {i} ELSE S[i - 1]
  <2> TAKE i \in 1 .. n
  <2>1. i \in 0 .. n /\ i - 1 \in 0 .. n
    BY <1>1
  <2>2. \A j : j \in 1 .. i <=> j \in 1 .. (i - 1) \/ j = i
    BY <1>1
  <2> QED BY <2>1, <2>2
<1>5. \A i, j \in 0 .. n : i <= j => S[i] \subseteq S[j]
  <2> SUFFICES ASSUME NEW i \in 0 .. n, NEW j \in 0 .. n, i <= j, NEW k \in S[i] PROVE k \in S[j]
    OBVIOUS
  <2>1. k \in 1 .. i /\ batch[k].t = m
    OBVIOUS
  <2>2. k \in 1 .. j
    BY <1>1, <2>1
  <2> QED BY <2>1, <2>2
<1>D. \A i \in 0 .. n : c[i] = Cardinality(S[i])
  OBVIOUS
<1> HIDE DEF S, c
<1>6. \A i \in 0 .. n : IsFiniteSet(S[i]) /\ c[i] \in 0 .. i
  <2> TAKE i \in 0 .. n
  <2>1. 1 \in Int /\ i \in Int
    BY <1>1
  <2>2. IsFiniteSet(1 .. i) /\ Cardinality(1 .. i) = IF 1 > i THEN 0 ELSE i - 1 + 1
    BY <2>1, FS_Interval
  <2>3. Cardinality(1 .. i) = i
    BY <1>1, <2>2
  <2>4. IsFiniteSet(S[i]) /\ Cardinality(S[i]) <= Cardinality(1 .. i)
    BY <1>2, <2>2, FS_Subset
  <2>5. Cardinality(S[i]) \in Nat
    BY <2>4, FS_CardinalityType
  <2> QED BY <1>1, <1>D, <2>3, <2>4, <2>5
<1>7. c[0] = 0
  <2>1. 0 \in 0 .. n
    BY <1>1
  <2> QED BY <1>3, <1>D, <2>1, FS_EmptySet
<1>8. \A i \in 1 .. n : c[i] = IF batch[i].t = m THEN c[i - 1] + 1 ELSE c[i - 1]
  <2> TAKE i \in 1 .. n
  <2>1. i \in 0 .. n /\ i - 1 \in 0 .. n /\ i \notin 1 .. (i - 1)
    BY <1>1
  <2>2. i \notin S[i - 1]
    BY <1>2, <2>1
  <2>3. CASE batch[i].t = m
    <3>1. S[i] = S[i - 1] \cup {i}
      BY <1>4, <2>3
    <3>2. Cardinality(S[i - 1] \cup {i}) = Cardinality(S[i - 1]) + 1
      BY <1>6, <2>1, <2>2, FS_AddElement
    <3> QED BY <1>D, <2>1, <2>3, <3>1, <3>2
  <2>4. CASE batch[i].t # m
    BY <1>4, <1>D, <2>1, <2>4
  <2> QED BY <2>3, <2>4
<1>9. \A i, j \in 0 .. n : i <= j => c[i] <= c[j]
  BY <1>5, <1>6, <1>D, FS_Subset
<1>10. \A i \in 1 .. n : i \in 0 .. n /\ i - 1 \in 0 .. n
  BY <1>1
<1>11. 0 \in 0 .. n
  BY <1>1
<1>12. /\ Count(batch, m, 0) = 0
       /\ \A i \in 0 .. n : Count(batch, m, i) \in 0 .. i
       /\ \A i \in 1 .. n :
            Count(batch, m, i) = IF batch[i].t = m THEN Count(batch, m, i - 1) + 1 ELSE Count(batch, m, i - 1)
       /\ \A i, j \in 0 .. n : i <= j => Count(batch, m, i) <= Count(batch, m, j)
  BY <1>1, <1>6, <1>7, <1>8, <1>9, <1>10, <1>11
<1> QED BY <1>12 DEF CountsOk

(* A round holds a minute once. *)
LEMMA RoundFacts ==
    ASSUME NEW batch \in Seq(Candles), NEW r
    PROVE  /\ Round(batch, r) \in SUBSET DOMAIN batch
           /\ \A i, j \in Round(batch, r) : batch[i].t = batch[j].t => i = j
           /\ \A i \in 1 .. Len(batch) : i \in Round(batch, r) <=> Count(batch, batch[i].t, i) = r
<1> DEFINE n == Len(batch)
<1>1. n \in Nat /\ DOMAIN batch = 1 .. n
  OBVIOUS
<1>2. \A i \in 1 .. n : i \in Round(batch, r) <=> Count(batch, batch[i].t, i) = r
  BY DEF Round, Occurrence, Count
<1>3. Round(batch, r) \subseteq 1 .. n
  BY DEF Round
<1>4. ASSUME NEW i \in Round(batch, r), NEW j \in Round(batch, r), batch[i].t = batch[j].t, i < j
      PROVE  FALSE
  <2>1. i \in 1 .. n /\ j \in 1 .. n
    BY <1>3
  <2> DEFINE m == batch[i].t
  <2>2. Count(batch, m, i) = r /\ Count(batch, m, j) = r
    BY <1>2, <1>4, <2>1
  <2>3. /\ Count(batch, m, j) = Count(batch, m, j - 1) + 1
        /\ Count(batch, m, i) <= Count(batch, m, j - 1)
        /\ Count(batch, m, i) \in 0 .. i /\ Count(batch, m, j - 1) \in 0 .. (j - 1)
    <3>1. CountsOk(batch, m)
      BY Counting
    <3>2. j - 1 \in 0 .. n /\ i \in 0 .. n /\ i <= j - 1
      BY <1>1, <1>4, <2>1
    <3> HIDE DEF n
    <3> QED BY <1>4, <2>1, <3>1, <3>2 DEF CountsOk, n
  <2> HIDE DEF m
  <2> QED BY <1>1, <2>1, <2>2, <2>3
<1>5. \A i, j \in Round(batch, r) : batch[i].t = batch[j].t => i = j
  <2> SUFFICES ASSUME NEW i \in Round(batch, r), NEW j \in Round(batch, r), batch[i].t = batch[j].t, i # j
               PROVE  FALSE
    OBVIOUS
  <2>1. i < j \/ j < i
    BY <1>1, <1>3
  <2> QED BY <1>4, <2>1
<1> QED BY <1>1, <1>2, <1>3, <1>5

-----------------------------------------------------------------------------
(* The table after each candle alone, and after each round. *)
IsSolo(f, rows, batch) ==
    /\ f[0] = rows /\ OneAfterAnother(rows, batch) = f[Len(batch)]
    /\ \A k \in 0 .. Len(batch) : f[k] \in CandleTables
    /\ \A k \in 1 .. Len(batch) : f[k] = Upserted(f[k - 1], batch[k])

LEMMA SoloRuns ==
    ASSUME NEW rows \in CandleTables, NEW batch \in Seq(Candles)
    PROVE  \E f : IsSolo(f, rows, batch)
<1> DEFINE n == Len(batch)
           G == [k \in 0 .. n |-> CandleTables]
           F == [p \in (1 .. n) \X CandleTables |-> Upserted(p[2], batch[p[1]])]
           run == CHOOSE f : f = [k \in 0 .. n |-> IF k = 0 THEN rows ELSE Upserted(f[k - 1], batch[k])]
<1>0. n \in Nat
  OBVIOUS
<1>1. \A k \in 1 .. n, t \in CandleTables : Upserted(t, batch[k]) \in CandleTables
  <2>1. \A k \in 1 .. n : batch[k] \in Candles
    OBVIOUS
  <2> QED BY <2>1, UpsertedRow
<1>R. OneAfterAnother(rows, batch) = run[n]
  BY DEF OneAfterAnother
<1> HIDE DEF n
<1>2. PICK f : /\ f = [k \in 0 .. n |-> f[k]] /\ f[0] = rows
               /\ \A k \in 1 .. n : f[k] = F[<<k, f[k - 1]>>]
               /\ \A k \in 0 .. n : f[k] \in G[k]
  <2>1. StepsWithin(n, F, G) /\ rows \in G[0]
    <3>1. \A k \in 1 .. n, v \in CandleTables : F[<<k, v>>] = Upserted(v, batch[k])
      OBVIOUS
    <3>2. /\ \A k \in 1 .. n : k - 1 \in 0 .. n /\ k \in 0 .. n
          /\ 0 \in 0 .. n
      BY <1>0
    <3>3. \A k \in 0 .. n : G[k] = CandleTables
      OBVIOUS
    <3> HIDE DEF F, G
    <3> QED BY <1>1, <3>1, <3>2, <3>3 DEF StepsWithin
  <2> HIDE DEF F, G
  <2>2. \E g : IsRecursion(g, n, rows, F, G)
    BY <1>0, <2>1, RecursionExists, Zenon
  <2> QED BY <2>2 DEF IsRecursion
<1>3. f = [k \in 0 .. n |-> IF k = 0 THEN rows ELSE Upserted(f[k - 1], batch[k])]
  <2>1. ASSUME NEW k \in 0 .. n PROVE f[k] = IF k = 0 THEN rows ELSE Upserted(f[k - 1], batch[k])
    <3>1. CASE k = 0
      BY <1>0, <1>2, <3>1
    <3>2. CASE k # 0
      <4>1. k \in 1 .. n /\ k - 1 \in 0 .. n
        BY <1>0, <3>2
      <4>2. f[k - 1] \in CandleTables /\ f[k] = F[<<k, f[k - 1]>>]
        BY <1>2, <4>1
      <4> QED BY <3>2, <4>1, <4>2
    <3> QED BY <3>1, <3>2
  <2>2. f = [k \in 0 .. n |-> f[k]]
    BY <1>2
  <2> QED BY <2>1, <2>2
<1>4. run = [k \in 0 .. n |-> IF k = 0 THEN rows ELSE Upserted(run[k - 1], batch[k])]
  BY <1>3
<1> HIDE DEF run
<1>5. /\ run[0] = rows
      /\ \A k \in 1 .. n : run[k] = Upserted(run[k - 1], batch[k])
  <2>1. 0 \in 0 .. n /\ \A k \in 1 .. n : k \in 0 .. n /\ k # 0
    BY <1>0
  <2> QED BY <1>4, <2>1
<1>6. \A k \in 0 .. n : run[k] \in CandleTables
  <2> DEFINE S == {k \in 0 .. n : run[k] \in CandleTables}
  <2>1. 0 \in S
    BY <1>0, <1>5
  <2>2. \A k \in 0 .. (n - 1) : k \in S => k + 1 \in S
    <3> SUFFICES ASSUME NEW k \in 0 .. (n - 1), run[k] \in CandleTables PROVE k + 1 \in S
      OBVIOUS
    <3>1. k + 1 \in 1 .. n /\ k + 1 \in 0 .. n /\ (k + 1) - 1 = k
      BY <1>0
    <3>2. run[k + 1] = Upserted(run[k], batch[k + 1])
      BY <1>5, <3>1
    <3> QED BY <1>1, <3>1, <3>2
  <2> HIDE DEF S
  <2>3. 0 .. n \subseteq S
    BY <1>0, <2>1, <2>2, InductionUpTo
  <2> QED BY <2>3 DEF S
<1>7. IsSolo(run, rows, batch)
  BY <1>5, <1>6, <1>R DEF IsSolo, n
<1> QED BY <1>7

Tallies == [rows : CandleTables, inserted : Nat, updated : Nat]

AfterRound(acc, batch, r) ==
    LET s == Statement(acc.rows, batch, Round(batch, r))
    IN [rows |-> s.rows, inserted |-> acc.inserted + s.inserted, updated |-> acc.updated + s.updated]

IsRounds(g, rows, batch) ==
    /\ g[0] = [rows |-> rows, inserted |-> 0, updated |-> 0]
    /\ upsert_records(rows, batch) = g[Len(batch)]
    /\ \A k \in 0 .. Len(batch) : g[k] \in Tallies
    /\ \A k \in 1 .. Len(batch) : g[k] = AfterRound(g[k - 1], batch, k)

LEMMA RoundOk ==
    ASSUME NEW acc \in Tallies, NEW batch \in Seq(Candles), NEW r
    PROVE  /\ AfterRound(acc, batch, r) \in Tallies
           /\ StatementOk(acc.rows, batch, Round(batch, r), Statement(acc.rows, batch, Round(batch, r)))
<1> DEFINE s == Statement(acc.rows, batch, Round(batch, r))
<1>1. acc.rows \in CandleTables /\ acc.inserted \in Nat /\ acc.updated \in Nat
  BY DEF Tallies
<1>2. /\ Round(batch, r) \in SUBSET DOMAIN batch
      /\ \A i, j \in Round(batch, r) : batch[i].t = batch[j].t => i = j
  BY RoundFacts
<1>3. StatementOk(acc.rows, batch, Round(batch, r), s)
  BY <1>1, <1>2, StatementRuns
<1> HIDE DEF s
<1>4. s.rows \in CandleTables /\ s.inserted \in Nat /\ s.updated \in Nat
  BY <1>3 DEF StatementOk
<1>5. AfterRound(acc, batch, r) \in Tallies
  BY <1>1, <1>4 DEF AfterRound, Tallies, s
<1> QED BY <1>3, <1>5 DEF s

LEMMA RoundsRun ==
    ASSUME NEW rows \in CandleTables, NEW batch \in Seq(Candles)
    PROVE  \E g : IsRounds(g, rows, batch)
<1> DEFINE n == Len(batch)
           zero == [rows |-> rows, inserted |-> 0, updated |-> 0]
           G == [k \in 0 .. n |-> Tallies]
           F == [p \in (1 .. n) \X Tallies |-> AfterRound(p[2], batch, p[1])]
           run == CHOOSE f : f = [k \in 0 .. n |-> IF k = 0 THEN zero ELSE AfterRound(f[k - 1], batch, k)]
<1>0. n \in Nat /\ zero \in Tallies
  BY DEF Tallies
<1>1. \A k \in 1 .. n, t \in Tallies : AfterRound(t, batch, k) \in Tallies
  BY RoundOk
<1>R. upsert_records(rows, batch) = run[n]
  BY DEF upsert_records, AfterRound
<1> HIDE DEF n, zero
<1>2. PICK f : /\ f = [k \in 0 .. n |-> f[k]] /\ f[0] = zero
               /\ \A k \in 1 .. n : f[k] = F[<<k, f[k - 1]>>]
               /\ \A k \in 0 .. n : f[k] \in G[k]
  <2>1. StepsWithin(n, F, G) /\ zero \in G[0]
    <3>1. \A k \in 1 .. n, v \in Tallies : F[<<k, v>>] = AfterRound(v, batch, k)
      OBVIOUS
    <3>2. /\ \A k \in 1 .. n : k - 1 \in 0 .. n /\ k \in 0 .. n
          /\ 0 \in 0 .. n
      BY <1>0
    <3>3. \A k \in 0 .. n : G[k] = Tallies
      OBVIOUS
    <3> HIDE DEF F, G
    <3> QED BY <1>0, <1>1, <3>1, <3>2, <3>3 DEF StepsWithin
  <2> HIDE DEF F, G
  <2>2. \E g : IsRecursion(g, n, zero, F, G)
    BY <1>0, <2>1, RecursionExists, Zenon
  <2> QED BY <2>2 DEF IsRecursion
<1>3. f = [k \in 0 .. n |-> IF k = 0 THEN zero ELSE AfterRound(f[k - 1], batch, k)]
  <2>1. ASSUME NEW k \in 0 .. n PROVE f[k] = IF k = 0 THEN zero ELSE AfterRound(f[k - 1], batch, k)
    <3>1. CASE k = 0
      BY <1>0, <1>2, <3>1
    <3>2. CASE k # 0
      <4>1. k \in 1 .. n /\ k - 1 \in 0 .. n
        BY <1>0, <3>2
      <4>2. f[k - 1] \in Tallies /\ f[k] = F[<<k, f[k - 1]>>]
        BY <1>2, <4>1
      <4> QED BY <3>2, <4>1, <4>2
    <3> QED BY <3>1, <3>2
  <2>2. f = [k \in 0 .. n |-> f[k]]
    BY <1>2
  <2> QED BY <2>1, <2>2
<1>4. run = [k \in 0 .. n |-> IF k = 0 THEN zero ELSE AfterRound(run[k - 1], batch, k)]
  BY <1>3
<1> HIDE DEF run
<1>5. /\ run[0] = zero
      /\ \A k \in 1 .. n : run[k] = AfterRound(run[k - 1], batch, k)
  <2>1. 0 \in 0 .. n /\ \A k \in 1 .. n : k \in 0 .. n /\ k # 0
    BY <1>0
  <2> QED BY <1>4, <2>1
<1>6. \A k \in 0 .. n : run[k] \in Tallies
  <2> DEFINE S == {k \in 0 .. n : run[k] \in Tallies}
  <2>1. 0 \in S
    BY <1>0, <1>5
  <2>2. \A k \in 0 .. (n - 1) : k \in S => k + 1 \in S
    <3> SUFFICES ASSUME NEW k \in 0 .. (n - 1), run[k] \in Tallies PROVE k + 1 \in S
      OBVIOUS
    <3>1. k + 1 \in 1 .. n /\ k + 1 \in 0 .. n /\ (k + 1) - 1 = k
      BY <1>0
    <3>2. run[k + 1] = AfterRound(run[k], batch, k + 1)
      BY <1>5, <3>1
    <3> QED BY <1>1, <3>1, <3>2
  <2> HIDE DEF S
  <2>3. 0 .. n \subseteq S
    BY <1>0, <2>1, <2>2, InductionUpTo
  <2> QED BY <2>3 DEF S
<1>7. IsRounds(run, rows, batch)
  BY <1>5, <1>6, <1>R DEF IsRounds, n, zero
<1> QED BY <1>7

-----------------------------------------------------------------------------
(* The i-th candle alone does to its minute what the round does that holds *)
(* it: the r-th candle of a minute is in the r-th round.                   *)
LEMMA RoundByRound ==
    ASSUME NEW rows \in CandleTables, NEW batch \in Seq(Candles), NEW g, IsRounds(g, rows, batch),
           NEW k \in 1 .. Len(batch)
    PROVE  StatementOk(g[k - 1].rows, batch, Round(batch, k), [g[k] EXCEPT !.inserted = @ - g[k - 1].inserted,
                                                                         !.updated = @ - g[k - 1].updated])
<1> DEFINE acc == g[k - 1]
           s == Statement(acc.rows, batch, Round(batch, k))
           t == [g[k] EXCEPT !.inserted = @ - acc.inserted, !.updated = @ - acc.updated]
<1>1. acc \in Tallies /\ g[k] = AfterRound(acc, batch, k)
  <2>1. k - 1 \in 0 .. Len(batch)
    OBVIOUS
  <2> QED BY <2>1 DEF IsRounds
<1> HIDE DEF acc
<1>2. StatementOk(acc.rows, batch, Round(batch, k), s)
  BY <1>1, RoundOk
<1>3. g[k] = [rows |-> s.rows, inserted |-> acc.inserted + s.inserted, updated |-> acc.updated + s.updated]
  BY <1>1 DEF AfterRound
<1> HIDE DEF s
<1>4. s.inserted \in Nat /\ s.updated \in Nat /\ acc.inserted \in Nat /\ acc.updated \in Nat
  BY <1>1, <1>2 DEF StatementOk, Tallies
<1>5. t.rows = s.rows /\ t.inserted = s.inserted /\ t.updated = s.updated
  BY <1>3, <1>4
<1> HIDE DEF t
<1>6. StatementOk(acc.rows, batch, Round(batch, k), t)
  BY <1>2, <1>5 DEF StatementOk
<1> QED BY <1>6 DEF acc, t

LEMMA MinuteByMinute ==
    ASSUME NEW rows \in CandleTables, NEW batch \in Seq(Candles),
           NEW f, IsSolo(f, rows, batch), NEW g, IsRounds(g, rows, batch), NEW m \in TableMinutes
    PROVE  RowOf(f[Len(batch)], m) = RowOf(g[Len(batch)].rows, m)
<1> DEFINE n == Len(batch)
           c == [i \in 0 .. n |-> Count(batch, m, i)]
<1>1. n \in Nat
  OBVIOUS
<1>2. /\ c[0] = 0
      /\ \A i \in 0 .. n : c[i] \in 0 .. i
      /\ \A i \in 1 .. n : c[i] = IF batch[i].t = m THEN c[i - 1] + 1 ELSE c[i - 1]
      /\ \A i, j \in 0 .. n : i <= j => c[i] <= c[j]
  <2>1. CountsOk(batch, m)
    BY Counting
  <2>2. 0 \in 0 .. n /\ \A i \in 1 .. n : i \in 0 .. n /\ i - 1 \in 0 .. n
    BY <1>1
  <2>3. \A i \in 0 .. n : c[i] = Count(batch, m, i)
    OBVIOUS
  <2> HIDE DEF c
  <2> QED BY <2>1, <2>2, <2>3 DEF CountsOk
<1>3. \A i \in 1 .. n : batch[i].t = m => \A r : i \in Round(batch, r) <=> c[i] = r
  <2>1. \A i \in 1 .. n : i \in 0 .. n
    BY <1>1
  <2> QED BY <2>1, RoundFacts
<1> HIDE DEF c
<1>4. \A k \in 1 .. n :
        /\ (\A i \in Round(batch, k) : batch[i].t # m) => RowOf(g[k].rows, m) = RowOf(g[k - 1].rows, m)
        /\ \A i \in Round(batch, k) :
              batch[i].t = m => RowOf(g[k].rows, m) = Judged(RowOf(g[k - 1].rows, m), batch[i])
  <2> TAKE k \in 1 .. n
  <2> DEFINE t == [g[k] EXCEPT !.inserted = @ - g[k - 1].inserted, !.updated = @ - g[k - 1].updated]
  <2>1. StatementOk(g[k - 1].rows, batch, Round(batch, k), t)
    BY RoundByRound
  <2>2. t.rows = g[k].rows
    <3>1. k \in 0 .. n
      BY <1>1
    <3>2. g[k] \in Tallies
      BY <3>1 DEF IsRounds
    <3> QED BY <3>2 DEF Tallies
  <2> HIDE DEF t
  <2> QED BY <2>1, <2>2 DEF StatementOk
<1>5. ASSUME NEW i \in 1 .. n
      PROVE  RowOf(f[i], m) = IF batch[i].t = m THEN Judged(RowOf(f[i - 1], m), batch[i]) ELSE RowOf(f[i - 1], m)
  <2>1. i - 1 \in 0 .. n /\ batch[i] \in Candles
    BY <1>1
  <2>2. f[i - 1] \in CandleTables /\ f[i] = Upserted(f[i - 1], batch[i])
    BY <2>1 DEF IsSolo
  <2>3. /\ RowOf(Upserted(f[i - 1], batch[i]), batch[i].t) = Judged(RowOf(f[i - 1], batch[i].t), batch[i])
        /\ \A x \in TableMinutes \ {batch[i].t} : RowOf(Upserted(f[i - 1], batch[i]), x) = RowOf(f[i - 1], x)
    BY <2>1, <2>2, UpsertedRow
  <2> QED BY <2>2, <2>3
<1>6. \A i \in 0 .. n : RowOf(f[i], m) = RowOf(g[c[i]].rows, m)
  <2> DEFINE S == {i \in 0 .. n : RowOf(f[i], m) = RowOf(g[c[i]].rows, m)}
  <2>1. 0 \in S
    <3>1. f[0] = rows /\ g[0].rows = rows
      BY DEF IsSolo, IsRounds
    <3> QED BY <1>1, <1>2, <3>1
  <2>2. \A i \in 0 .. (n - 1) : i \in S => i + 1 \in S
    <3> SUFFICES ASSUME NEW i \in 0 .. (n - 1), RowOf(f[i], m) = RowOf(g[c[i]].rows, m)
                 PROVE  RowOf(f[i + 1], m) = RowOf(g[c[i + 1]].rows, m)
      BY <1>1
    <3>1. i + 1 \in 1 .. n /\ (i + 1) - 1 = i /\ i \in 0 .. n /\ i + 1 \in 0 .. n
      BY <1>1
    <3>2. CASE batch[i + 1].t = m
      <4>1. c[i + 1] = c[i] + 1 /\ c[i] \in 0 .. i
        BY <1>2, <3>1, <3>2
      <4>2. c[i + 1] \in 1 .. n /\ c[i + 1] - 1 = c[i]
        BY <1>1, <4>1
      <4>3. i + 1 \in Round(batch, c[i + 1])
        BY <1>3, <3>1, <3>2
      <4>4. RowOf(g[c[i + 1]].rows, m) = Judged(RowOf(g[c[i]].rows, m), batch[i + 1])
        BY <1>4, <3>2, <4>2, <4>3
      <4>5. RowOf(f[i + 1], m) = Judged(RowOf(f[i], m), batch[i + 1])
        BY <1>5, <3>1, <3>2
      <4> QED BY <4>4, <4>5
    <3>3. CASE batch[i + 1].t # m
      <4>1. c[i + 1] = c[i]
        BY <1>2, <3>1, <3>3
      <4>2. RowOf(f[i + 1], m) = RowOf(f[i], m)
        BY <1>5, <3>1, <3>3
      <4> QED BY <4>1, <4>2
    <3> QED BY <3>2, <3>3
  <2> HIDE DEF S
  <2>3. 0 .. n \subseteq S
    BY <1>1, <2>1, <2>2, InductionUpTo
  <2> QED BY <2>3 DEF S
<1>7. \A k \in 0 .. n : c[n] <= k => RowOf(g[k].rows, m) = RowOf(g[c[n]].rows, m)
  <2> DEFINE S == {k \in 0 .. n : c[n] <= k => RowOf(g[k].rows, m) = RowOf(g[c[n]].rows, m)}
  <2>0. c[n] \in 0 .. n
    BY <1>1, <1>2
  <2>1. 0 \in S
    BY <1>1, <2>0
  <2>2. \A k \in 0 .. (n - 1) : k \in S => k + 1 \in S
    <3> SUFFICES ASSUME NEW k \in 0 .. (n - 1), c[n] <= k => RowOf(g[k].rows, m) = RowOf(g[c[n]].rows, m),
                        c[n] <= k + 1
                 PROVE  RowOf(g[k + 1].rows, m) = RowOf(g[c[n]].rows, m)
      BY <1>1
    <3>1. k + 1 \in 1 .. n /\ (k + 1) - 1 = k
      BY <1>1
    <3>2. CASE c[n] = k + 1
      BY <3>2
    <3>3. CASE c[n] # k + 1
      <4>1. c[n] <= k
        BY <1>1, <2>0, <3>3
      <4>2. \A i \in Round(batch, k + 1) : batch[i].t # m
        <5> SUFFICES ASSUME NEW i \in Round(batch, k + 1), batch[i].t = m PROVE FALSE
          OBVIOUS
        <5>1. i \in 1 .. n
          BY RoundFacts
        <5>2. c[i] = k + 1
          BY <1>3, <5>1
        <5>3. i \in 0 .. n /\ n \in 0 .. n /\ i <= n
          BY <1>1, <5>1
        <5>4. c[i] <= c[n]
          BY <1>2, <5>3
        <5> QED BY <1>1, <4>1, <5>2, <5>4, <2>0
      <4>3. RowOf(g[k + 1].rows, m) = RowOf(g[k].rows, m)
        BY <1>4, <3>1, <4>2
      <4> QED BY <4>1, <4>3
    <3> QED BY <3>2, <3>3
  <2> HIDE DEF S
  <2>3. 0 .. n \subseteq S
    BY <1>1, <2>1, <2>2, InductionUpTo
  <2> QED BY <2>3 DEF S
<1>8. n \in 0 .. n /\ c[n] <= n
  BY <1>1, <1>2
<1> QED BY <1>6, <1>7, <1>8

BatchMinutes(batch) == {c.t : c \in Range(batch)}

(* What a batch does, in rounds. *)
UpsertOk(rows, batch, res) ==
    /\ res.rows = OneAfterAnother(rows, batch) /\ res.rows \in CandleTables
    /\ res.inserted \in Nat /\ res.updated \in Nat
    /\ DOMAIN res.rows = DOMAIN rows \cup BatchMinutes(batch)
    /\ IsFiniteSet(BatchMinutes(batch))
    /\ res.inserted = Cardinality(BatchMinutes(batch) \ DOMAIN rows)
    /\ res.inserted + res.updated <= Len(batch)
    /\ \A m \in DOMAIN rows : rows[m].closed => res.rows[m] = rows[m]

(* Minutes come and none goes, and a closed row stays. *)
LEMMA SoloKeeps ==
    ASSUME NEW rows \in CandleTables, NEW batch \in Seq(Candles), NEW f, IsSolo(f, rows, batch)
    PROVE  /\ DOMAIN f[Len(batch)] = DOMAIN rows \cup BatchMinutes(batch)
           /\ \A m \in DOMAIN rows : rows[m].closed => f[Len(batch)][m] = rows[m]
<1> DEFINE n == Len(batch)
           T(k) == {batch[j].t : j \in 1 .. k}
           S == {k \in 0 .. n : /\ DOMAIN f[k] = DOMAIN rows \cup T(k)
                                /\ \A m \in DOMAIN rows : rows[m].closed => RowOf(f[k], m) = RowOf(rows, m)}
<1>1. n \in Nat /\ DOMAIN batch = 1 .. n
  OBVIOUS
<1>2. T(n) = BatchMinutes(batch)
  <2>1. Range(batch) = {batch[j] : j \in 1 .. n}
    BY <1>1 DEF Range
  <2> QED BY <2>1 DEF BatchMinutes
<1>3. 0 \in S
  <2>1. f[0] = rows /\ T(0) = {}
    BY DEF IsSolo
  <2> QED BY <1>1, <2>1
<1>4. \A k \in 0 .. (n - 1) : k \in S => k + 1 \in S
  <2> SUFFICES ASSUME NEW k \in 0 .. (n - 1), k \in S PROVE k + 1 \in S
    OBVIOUS
  <2>1. k + 1 \in 1 .. n /\ (k + 1) - 1 = k /\ k \in 0 .. n /\ k + 1 \in 0 .. n
    BY <1>1
  <2> DEFINE c == batch[k + 1]
  <2>2. f[k] \in CandleTables /\ f[k + 1] = Upserted(f[k], c) /\ c \in Candles
    BY <2>1 DEF IsSolo
  <2>3. /\ DOMAIN f[k + 1] = DOMAIN f[k] \cup {c.t}
        /\ RowOf(f[k + 1], c.t) = Judged(RowOf(f[k], c.t), c)
        /\ \A m \in TableMinutes \ {c.t} : RowOf(f[k + 1], m) = RowOf(f[k], m)
    <3> HIDE DEF c
    <3>1. /\ DOMAIN Upserted(f[k], c) = DOMAIN f[k] \cup {c.t}
          /\ RowOf(Upserted(f[k], c), c.t) = Judged(RowOf(f[k], c.t), c)
          /\ \A m \in TableMinutes \ {c.t} : RowOf(Upserted(f[k], c), m) = RowOf(f[k], m)
      BY <2>2, UpsertedRow
    <3> QED BY <2>2, <3>1
  <2>4. T(k + 1) = T(k) \cup {c.t}
    <3>1. \A j : j \in 1 .. (k + 1) <=> j \in 1 .. k \/ j = k + 1
      BY <1>1
    <3> QED BY <3>1
  <2>5. DOMAIN f[k + 1] = DOMAIN rows \cup T(k + 1)
    BY <2>3, <2>4
  <2>6. ASSUME NEW m \in DOMAIN rows, rows[m].closed PROVE RowOf(f[k + 1], m) = RowOf(rows, m)
    <3>1. RowOf(f[k], m) = RowOf(rows, m) /\ RowOf(rows, m) = <<rows[m]>>
      BY <2>6 DEF RowOf
    <3>2. Judged(RowOf(f[k], m), c) = RowOf(f[k], m)
      BY <2>6, <3>1 DEF Judged
    <3>3. m \in TableMinutes
      BY TableFacts
    <3> QED BY <2>3, <3>1, <3>2, <3>3
  <2> QED BY <2>1, <2>5, <2>6
<1> HIDE DEF S
<1>5. n \in S
  <2>1. S \subseteq 0 .. n
    BY DEF S
  <2>2. 0 .. n \subseteq S
    BY <1>1, <1>3, <1>4, <2>1, InductionUpTo
  <2> QED BY <1>1, <2>2
<1>6. /\ DOMAIN f[n] = DOMAIN rows \cup T(n)
      /\ \A m \in DOMAIN rows : rows[m].closed => RowOf(f[n], m) = RowOf(rows, m)
  BY <1>5 DEF S
<1>7. ASSUME NEW m \in DOMAIN rows, rows[m].closed PROVE f[n][m] = rows[m]
  <2>1. m \in DOMAIN f[n] /\ RowOf(f[n], m) = RowOf(rows, m)
    BY <1>6, <1>7
  <2>2. <<f[n][m]>> = <<rows[m]>>
    BY <2>1 DEF RowOf
  <2> QED BY <2>2
<1> QED BY <1>2, <1>6, <1>7

(* What the rounds count: new minutes, and never more than they hold. *)
LEMMA RoundsCount ==
    ASSUME NEW rows \in CandleTables, NEW batch \in Seq(Candles), NEW g, IsRounds(g, rows, batch)
    PROVE  /\ g[Len(batch)].inserted = Cardinality(DOMAIN g[Len(batch)].rows \ DOMAIN rows)
           /\ g[Len(batch)].inserted + g[Len(batch)].updated <= Len(batch)
<1> DEFINE n == Len(batch)
           D(k) == DOMAIN g[k].rows
           P(k) == {i \in 1 .. n : Count(batch, batch[i].t, i) <= k}
           S == {k \in 0 .. n : /\ DOMAIN rows \subseteq D(k) /\ IsFiniteSet(D(k) \ DOMAIN rows)
                                /\ g[k].inserted = Cardinality(D(k) \ DOMAIN rows)
                                /\ g[k].inserted + g[k].updated <= Cardinality(P(k))}
<1>1. n \in Nat /\ DOMAIN batch = 1 .. n
  OBVIOUS
<1>2. IsFiniteSet(1 .. n) /\ Cardinality(1 .. n) = n
  <2>1. 1 \in Int /\ n \in Int
    BY <1>1
  <2>2. IsFiniteSet(1 .. n) /\ Cardinality(1 .. n) = IF 1 > n THEN 0 ELSE n - 1 + 1
    BY <2>1, FS_Interval
  <2> QED BY <1>1, <2>2
<1>3. \A k : P(k) \subseteq 1 .. n /\ IsFiniteSet(P(k)) /\ Cardinality(P(k)) \in Nat /\ Cardinality(P(k)) <= n
  <2> TAKE k
  <2>1. P(k) \subseteq 1 .. n
    OBVIOUS
  <2> HIDE DEF P
  <2>2. IsFiniteSet(P(k)) /\ Cardinality(P(k)) <= n
    BY <1>2, <2>1, FS_Subset
  <2> QED BY <2>1, <2>2, FS_CardinalityType
<1>4. \A k \in 0 .. n : g[k] \in Tallies
  BY DEF IsRounds
<1>5. 0 \in S
  <2>1. g[0].rows = rows /\ g[0].inserted = 0 /\ g[0].updated = 0
    BY DEF IsRounds
  <2>2. D(0) \ DOMAIN rows = {}
    BY <2>1
  <2>3. IsFiniteSet({}) /\ Cardinality({}) = 0
    BY FS_EmptySet
  <2>4. Cardinality(P(0)) \in Nat
    BY <1>3
  <2> HIDE DEF P
  <2>5. 0 + 0 <= Cardinality(P(0))
    BY <2>4
  <2>6. IsFiniteSet(D(0) \ DOMAIN rows) /\ Cardinality(D(0) \ DOMAIN rows) = 0
    BY <2>2, <2>3, Zenon
  <2>7. DOMAIN rows \subseteq D(0) /\ 0 \in 0 .. n
    BY <1>1, <2>1
  <2> QED BY <2>1, <2>5, <2>6, <2>7
<1>6. ASSUME NEW k \in 0 .. (n - 1), k \in S PROVE k + 1 \in S
  <2>1. k + 1 \in 1 .. n /\ (k + 1) - 1 = k /\ k \in 0 .. n /\ k + 1 \in 0 .. n
    BY <1>1
  <2> DEFINE round == Round(batch, k + 1)
             x == g[k]
             y == g[k + 1]
             s == [y EXCEPT !.inserted = @ - x.inserted, !.updated = @ - x.updated]
  <2>2. StatementOk(x.rows, batch, round, s)
    BY <2>1, RoundByRound
  <2>3. x \in Tallies /\ y \in Tallies
    BY <1>4, <2>1
  <2> HIDE DEF x, y
  <2>4. /\ s.rows = y.rows /\ s.inserted = y.inserted - x.inserted /\ s.updated = y.updated - x.updated
        /\ x.inserted \in Nat /\ x.updated \in Nat /\ y.inserted \in Nat /\ y.updated \in Nat
    BY <2>3 DEF Tallies
  <2> HIDE DEF s
  <2>5. /\ DOMAIN x.rows \subseteq DOMAIN y.rows
        /\ IsFiniteSet(DOMAIN y.rows \ DOMAIN x.rows)
        /\ y.inserted - x.inserted = Cardinality(DOMAIN y.rows \ DOMAIN x.rows)
        /\ (y.inserted - x.inserted) + (y.updated - x.updated) <= Cardinality(round)
    BY <2>2, <2>4 DEF StatementOk
  <2>6. /\ DOMAIN rows \subseteq DOMAIN x.rows /\ IsFiniteSet(DOMAIN x.rows \ DOMAIN rows)
        /\ x.inserted = Cardinality(DOMAIN x.rows \ DOMAIN rows)
        /\ x.inserted + x.updated <= Cardinality(P(k))
    BY <1>6 DEF x
  <2>7. /\ DOMAIN rows \subseteq DOMAIN y.rows /\ IsFiniteSet(DOMAIN y.rows \ DOMAIN rows)
        /\ y.inserted = Cardinality(DOMAIN y.rows \ DOMAIN rows)
    <3> DEFINE A == DOMAIN y.rows \ DOMAIN x.rows
               B == DOMAIN x.rows \ DOMAIN rows
               C == DOMAIN y.rows \ DOMAIN rows
    <3>1. A \cup B = C /\ A \cap B = {} /\ DOMAIN rows \subseteq DOMAIN y.rows
      BY <2>5, <2>6
    <3>2. IsFiniteSet(A) /\ IsFiniteSet(B) /\ Cardinality(A) = y.inserted - x.inserted /\ Cardinality(B) = x.inserted
      BY <2>5, <2>6
    <3> HIDE DEF A, B, C
    <3>3. /\ IsFiniteSet(A \cup B)
          /\ Cardinality(A \cup B) = Cardinality(A) + Cardinality(B) - Cardinality(A \cap B)
      BY <3>2, FS_Union
    <3>4. Cardinality(A \cap B) = 0
      BY <3>1, FS_EmptySet
    <3>5. IsFiniteSet(C) /\ Cardinality(C) = Cardinality(A \cup B)
      BY <3>1, <3>3, Zenon
    <3>6. Cardinality(C) = y.inserted
      BY <2>4, <3>2, <3>3, <3>4, <3>5
    <3> QED BY <3>1, <3>5, <3>6 DEF C
  <2>8. y.inserted + y.updated <= Cardinality(P(k + 1))
    <3> DEFINE Q == P(k)
               U == P(k + 1)
    <3>1. \A i \in 1 .. n : Count(batch, batch[i].t, i) \in Nat
      <4> TAKE i \in 1 .. n
      <4>1. CountsOk(batch, batch[i].t)
        BY Counting
      <4>2. i \in 0 .. n
        BY <1>1
      <4>3. Count(batch, batch[i].t, i) \in 0 .. i
        BY <4>1, <4>2 DEF CountsOk
      <4> QED BY <1>1, <4>3
    <3>2. \A i \in 1 .. n : i \in round <=> Count(batch, batch[i].t, i) = k + 1
      BY RoundFacts
    <3>3. round \subseteq 1 .. n
      BY RoundFacts
    <3>4. \A i \in 1 .. n : i \in U <=> i \in Q \/ i \in round
      BY <1>1, <3>1, <3>2
    <3>5. \A i \in 1 .. n : ~(i \in Q /\ i \in round)
      BY <1>1, <3>1, <3>2
    <3>6. /\ Q \subseteq 1 .. n /\ U \subseteq 1 .. n /\ IsFiniteSet(Q) /\ IsFiniteSet(U)
          /\ Cardinality(Q) \in Nat /\ Cardinality(U) \in Nat
      BY <1>3
    <3>7. x.inserted + x.updated <= Cardinality(Q)
      BY <2>6
    <3> HIDE DEF Q, U, round
    <3>8. Q \cup round = U /\ Q \cap round = {}
      BY <3>3, <3>4, <3>5, <3>6
    <3>9. IsFiniteSet(round)
      BY <1>2, <3>3, FS_Subset
    <3>10. Cardinality(Q \cup round) = Cardinality(Q) + Cardinality(round) - Cardinality(Q \cap round)
      BY <3>6, <3>9, FS_Union
    <3>11. Cardinality(Q \cap round) = 0
      BY <3>8, FS_EmptySet
    <3>12. Cardinality(Q \cup round) = Cardinality(U)
      BY <3>8, Zenon
    <3>13. Cardinality(round) \in Nat
      BY <3>9, FS_CardinalityType
    <3>14. y.inserted + y.updated <= Cardinality(U)
      <4>1. Cardinality(Q) + Cardinality(round) = Cardinality(U)
        BY <3>6, <3>10, <3>11, <3>12, <3>13
      <4>2. Cardinality(Q) \in Nat /\ Cardinality(U) \in Nat
        BY <3>6
      <4>3. /\ x.inserted \in Nat /\ x.updated \in Nat /\ y.inserted \in Nat /\ y.updated \in Nat
            /\ (y.inserted - x.inserted) + (y.updated - x.updated) <= Cardinality(round)
        BY <2>4, <2>5
      <4> QED BY <3>7, <3>13, <4>1, <4>2, <4>3
    <3> QED BY <3>14 DEF U
  <2> HIDE DEF P
  <2> QED BY <2>1, <2>7, <2>8 DEF y
<1>7. S \subseteq 0 .. n /\ \A k \in 0 .. (n - 1) : k \in S => k + 1 \in S
  BY <1>6
<1>8. n \in S
  <2> HIDE DEF S
  <2>1. 0 .. n \subseteq S
    BY <1>1, <1>5, <1>7, InductionUpTo
  <2> QED BY <1>1, <2>1
<1>9. /\ g[n].inserted = Cardinality(D(n) \ DOMAIN rows)
      /\ g[n].inserted + g[n].updated <= Cardinality(P(n))
  BY <1>8
<1>10. g[n].inserted \in Nat /\ g[n].updated \in Nat
  <2>1. g[n] \in Tallies
    BY <1>1, <1>4
  <2> QED BY <2>1 DEF Tallies
<1>11. Cardinality(P(n)) \in Nat /\ Cardinality(P(n)) <= n
  BY <1>3
<1> HIDE DEF P
<1> QED BY <1>1, <1>9, <1>10, <1>11

LEMMA UpsertRuns ==
    ASSUME NEW rows \in CandleTables, NEW batch \in Seq(Candles)
    PROVE  UpsertOk(rows, batch, upsert_records(rows, batch))
<1>1. PICK f : IsSolo(f, rows, batch)
  BY SoloRuns
<1>2. PICK g : IsRounds(g, rows, batch)
  BY RoundsRun
<1> DEFINE n == Len(batch)
           res == upsert_records(rows, batch)
<1>3. n \in Nat /\ n \in 0 .. n /\ DOMAIN batch = 1 .. n
  OBVIOUS
<1>4. g[n] = res /\ f[n] = OneAfterAnother(rows, batch)
  BY <1>1, <1>2 DEF IsSolo, IsRounds
<1>5. f[n] \in CandleTables /\ g[n] \in Tallies
  BY <1>1, <1>2, <1>3 DEF IsSolo, IsRounds
<1>6. res.rows \in CandleTables /\ res.inserted \in Nat /\ res.updated \in Nat
  BY <1>4, <1>5 DEF Tallies
<1>7. \A m \in TableMinutes : RowOf(f[n], m) = RowOf(g[n].rows, m)
  BY <1>1, <1>2, MinuteByMinute
<1> HIDE DEF res, n
<1>8. res.rows = f[n]
  BY <1>4, <1>5, <1>6, <1>7, SameRows
<1>9. /\ DOMAIN f[n] = DOMAIN rows \cup BatchMinutes(batch)
      /\ \A m \in DOMAIN rows : rows[m].closed => f[n][m] = rows[m]
  BY <1>1, SoloKeeps DEF n
<1>10. /\ g[n].inserted = Cardinality(DOMAIN g[n].rows \ DOMAIN rows)
       /\ g[n].inserted + g[n].updated <= n
  BY <1>2, RoundsCount DEF n
<1>11. IsFiniteSet(BatchMinutes(batch))
  <2> DEFINE f2 == [i \in 1 .. n |-> batch[i].t]
  <2>1. f2 \in Surjection(1 .. n, BatchMinutes(batch))
    <3>1. Range(batch) = {batch[j] : j \in 1 .. n}
      BY <1>3 DEF Range
    <3>2. BatchMinutes(batch) = {batch[j].t : j \in 1 .. n}
      BY <3>1 DEF BatchMinutes
    <3>3. f2 \in [1 .. n -> BatchMinutes(batch)] /\ \A m \in BatchMinutes(batch) : \E i \in 1 .. n : f2[i] = m
      BY <3>2
    <3> QED BY <3>3 DEF Surjection
  <2>2. 1 \in Int /\ n \in Int
    BY <1>3
  <2>3. IsFiniteSet(1 .. n)
    BY <2>2, FS_Interval
  <2> HIDE DEF f2
  <2> QED BY <2>1, <2>3, FS_Surjection
<1>12. DOMAIN res.rows \ DOMAIN rows = BatchMinutes(batch) \ DOMAIN rows
  BY <1>8, <1>9
<1>13. res.inserted = Cardinality(BatchMinutes(batch) \ DOMAIN rows) /\ res.inserted + res.updated <= n
  BY <1>4, <1>10, <1>12
<1>14. /\ DOMAIN res.rows = DOMAIN rows \cup BatchMinutes(batch)
       /\ \A m \in DOMAIN rows : rows[m].closed => res.rows[m] = rows[m]
       /\ res.rows = OneAfterAnother(rows, batch)
  BY <1>4, <1>8, <1>9
<1>15. UpsertOk(rows, batch, res)
  BY <1>6, <1>11, <1>13, <1>14 DEF UpsertOk, n
<1> QED BY <1>15 DEF res

LEMMA Extremes ==
    ASSUME NEW S \in SUBSET Int, IsFiniteSet(S), S # {}
    PROVE  /\ Max(S) \in S /\ Min(S) \in S
           /\ \A b \in S : Max(S) >= b /\ Min(S) <= b
<1>1. \E a \in S : \A b \in S : a >= b
  BY HasExtremes
<1>2. \E a \in S : \A b \in S : a =< b
  BY HasExtremes
<1>3. Max(S) \in S /\ \A b \in S : Max(S) >= b
  BY <1>1 DEF Max
<1>4. Min(S) \in S /\ \A b \in S : Min(S) =< b
  BY <1>2 DEF Min
<1> QED BY <1>3, <1>4

(* The gaps of any finite table are the minutes that are missing. *)
LEMMA GapsFound ==
    ASSUME DOMAIN candleTable \in SUBSET Int, IsFiniteSet(DOMAIN candleTable)
    PROVE  GapsAreWhole
<1> DEFINE D == DOMAIN candleTable
           pv == [m \in D |-> Prev(candleTable, m)]
           Heads == {k \in D : (\E p \in D : p < k) /\ k - pv[k] > 1}
           gaps == find_gaps(candleTable)
           span == IF D = {} THEN {} ELSE Min(D) .. Max(D)
<1>1. ASSUME NEW m \in D, \E p \in D : p < m
      PROVE  pv[m] \in D /\ pv[m] < m /\ \A p \in D : p < m => p <= pv[m]
  <2> DEFINE A == {p \in D : p < m}
  <2>1. A \in SUBSET Int /\ A # {} /\ A \subseteq D
    BY <1>1
  <2>2. \A p : p \in A <=> p \in D /\ p < m
    OBVIOUS
  <2>3. pv[m] = Max(A)
    BY DEF Prev
  <2> HIDE DEF A, pv
  <2>4. IsFiniteSet(A)
    BY <2>1, FS_Subset
  <2>5. Max(A) \in A /\ \A b \in A : Max(A) >= b
    BY <2>1, <2>4, Extremes
  <2>6. \A b \in A : b <= Max(A)
    BY <2>1, <2>5
  <2> QED BY <2>2, <2>3, <2>5, <2>6
<1>2. gaps = {<<pv[m] + 1, m, m - pv[m] - 1>> : m \in Heads}
  BY DEF find_gaps
<1>3. \A k \in D : k \in Heads <=> (\E p \in D : p < k) /\ k - pv[k] > 1
  OBVIOUS
<1>4. Heads \subseteq D /\ D \subseteq Int
  OBVIOUS
<1> HIDE DEF Heads, pv, gaps
<1>5. \A m \in Heads : /\ m \in Int /\ pv[m] \in D /\ pv[m] \in Int /\ pv[m] < m
                       /\ \A p \in D : p < m => p <= pv[m]
  BY <1>1, <1>3, <1>4
<1>6. \A g \in gaps : \E m \in Heads : g[1] = pv[m] + 1 /\ g[2] = m /\ g[3] = m - pv[m] - 1 /\ g = <<pv[m] + 1, m, m - pv[m] - 1>>
  BY <1>2
<1>7. \A m \in Heads : \E g \in gaps : g[1] = pv[m] + 1 /\ g[2] = m
  <2> TAKE m \in Heads
  <2> DEFINE g == <<pv[m] + 1, m, m - pv[m] - 1>>
  <2>1. g \in gaps
    BY <1>2
  <2>2. g[1] = pv[m] + 1 /\ g[2] = m
    OBVIOUS
  <2> QED BY <2>1, <2>2
<1>8. \A g \in gaps : g[3] = g[2] - g[1]
  BY <1>5, <1>6
<1>9. \A m, k \in Heads : m < k => m <= pv[k]
  BY <1>4, <1>5
<1>10. ASSUME NEW g \in gaps, NEW h \in gaps, g # h
       PROVE  (g[1] .. (g[2] - 1)) \cap (h[1] .. (h[2] - 1)) = {}
  <2>1. PICK m \in Heads : g[1] = pv[m] + 1 /\ g[2] = m /\ g = <<pv[m] + 1, m, m - pv[m] - 1>>
    BY <1>6
  <2>2. PICK k \in Heads : h[1] = pv[k] + 1 /\ h[2] = k /\ h = <<pv[k] + 1, k, k - pv[k] - 1>>
    BY <1>6
  <2>3. m # k
    BY <1>10, <2>1, <2>2
  <2>4. m \in Int /\ k \in Int /\ pv[m] \in Int /\ pv[k] \in Int /\ (m <= pv[k] \/ k <= pv[m])
    BY <1>5, <1>9, <2>3
  <2> QED BY <2>1, <2>2, <2>4
<1>11. UNION {g[1] .. (g[2] - 1) : g \in gaps} = span \ D
  <2>1. CASE D = {}
    <3>1. Heads = {}
      BY <1>4, <2>1
    <3>2. gaps = {}
      BY <1>6, <3>1
    <3> QED BY <2>1, <3>2
  <2>2. CASE D # {}
    <3>1. Min(D) \in D /\ Max(D) \in D /\ \A b \in D : Max(D) >= b /\ Min(D) <= b
      BY <2>2, Extremes
    <3> DEFINE lo == Min(D)
               hi == Max(D)
    <3>2. lo \in D /\ hi \in D /\ lo \in Int /\ hi \in Int /\ \A b \in D : hi >= b /\ lo <= b
      BY <1>4, <3>1
    <3>3. span = lo .. hi
      BY <2>2
    <3> HIDE DEF lo, hi, span
    <3>4. ASSUME NEW g \in gaps, NEW x \in g[1] .. (g[2] - 1) PROVE x \in span \ D
      <4>1. PICK m \in Heads : g[1] = pv[m] + 1 /\ g[2] = m
        BY <1>6
      <4>2. /\ m \in D /\ m \in Int /\ pv[m] \in D /\ pv[m] \in Int
            /\ \A p \in D : p < m => p <= pv[m]
        BY <1>4, <1>5
      <4>3. x \in Int /\ pv[m] < x /\ x < m
        BY <3>4, <4>1, <4>2
      <4>4. x \notin D
        BY <4>2, <4>3
      <4>5. lo <= pv[m] /\ hi >= m
        BY <3>2, <4>2
      <4>6. lo <= x /\ x <= hi
        BY <3>2, <4>2, <4>3, <4>5
      <4> QED BY <3>2, <3>3, <4>3, <4>4, <4>6
    <3>5. ASSUME NEW x \in span, x \notin D PROVE \E g \in gaps : x \in g[1] .. (g[2] - 1)
      <4> DEFINE A == {a \in D : a > x}
      <4>1. x \in Int /\ lo <= x /\ x <= hi
        BY <3>2, <3>3
      <4>2. x # hi /\ x # lo
        BY <3>2, <3>5
      <4>3. hi \in A
        BY <3>2, <4>1, <4>2
      <4>4. A \in SUBSET Int /\ A # {} /\ A \subseteq D
        BY <1>4, <4>3
      <4>5. \A a : a \in A <=> a \in D /\ a > x
        OBVIOUS
      <4> HIDE DEF A
      <4>6. IsFiniteSet(A)
        BY <4>4, FS_Subset
      <4>7. Min(A) \in A /\ \A b \in A : Min(A) <= b
        BY <4>4, <4>6, Extremes
      <4> DEFINE m == Min(A)
      <4>8. m \in D /\ m \in Int /\ m > x /\ \A b \in D : b > x => m <= b
        BY <4>4, <4>5, <4>7
      <4> HIDE DEF m
      <4>9. lo < m
        BY <3>2, <4>1, <4>2, <4>8
      <4>10. \E p \in D : p < m
        BY <3>2, <4>9
      <4>11. pv[m] \in D /\ pv[m] < m
        BY <1>1, <4>8, <4>10
      <4>12. pv[m] \in Int /\ ~(pv[m] > x) /\ pv[m] # x
        BY <1>4, <3>5, <4>8, <4>11
      <4>13. pv[m] < x
        BY <4>1, <4>12
      <4>14. m - pv[m] > 1
        BY <4>1, <4>8, <4>12, <4>13
      <4>15. m \in Heads
        BY <1>3, <4>8, <4>10, <4>14
      <4>16. PICK g \in gaps : g[1] = pv[m] + 1 /\ g[2] = m
        BY <1>7, <4>15
      <4>17. x \in g[1] .. (g[2] - 1)
        BY <4>1, <4>8, <4>12, <4>13, <4>16
      <4> QED BY <4>17
    <3> QED BY <3>4, <3>5
  <2> QED BY <2>1, <2>2
<1> QED BY <1>8, <1>10, <1>11 DEF GapsAreWhole, gaps

-----------------------------------------------------------------------------
(* a comes before b in the order of the read. *)
Sooner(r, a, b) == IF r.descending THEN a > b ELSE a < b

Hits(r, rows) == {m \in Selected(rows, r.closedOnly) : PastCursor(r, m)}

(* A page is the first hits in order: all of them, or PageSize of them and every *)
(* other comes later than the last one given.                                    *)
PageOk(r, hits, page) ==
    /\ page.items \in Seq(Int) /\ page.more \in BOOLEAN
    /\ \A i, j \in 1 .. Len(page.items) : i < j => Sooner(r, page.items[i], page.items[j])
    /\ \A i \in 1 .. Len(page.items) : page.items[i] \in hits
    /\ ~page.more => \A m \in hits : \E i \in 1 .. Len(page.items) : page.items[i] = m
    /\ page.more => /\ Len(page.items) = PageSize
                    /\ \A m \in hits : \/ \E i \in 1 .. Len(page.items) : page.items[i] = m
                                       \/ Sooner(r, page.items[PageSize], m)

LEMMA PageTurns ==
    ASSUME NEW r, NEW rows, DOMAIN rows \in SUBSET Int, IsFiniteSet(DOMAIN rows)
    PROVE  PageOk(r, Hits(r, rows), Page(r, rows))
<1> DEFINE hits == Hits(r, rows)
           N == Cardinality(hits)
           R == {p \in hits \X hits : Sooner(r, p[1], p[2])}
           c == [m \in hits |-> Cardinality(Ahead(r, hits, m))]
           n == Min({PageSize, N})
           bars == [k \in 1 .. n |-> CHOOSE m \in hits : Cardinality(Ahead(r, hits, m)) = k - 1]
           more == N > PageSize
<1>1. hits \subseteq DOMAIN rows /\ hits \subseteq Int
  BY DEF Hits, Selected
<1>2. Page(r, rows) = [items |-> bars, more |-> more]
  BY DEF Page, Hits
<1> HIDE DEF hits
<1>3. IsFiniteSet(hits) /\ N \in Nat
  <2>1. IsFiniteSet(hits)
    BY <1>1, FS_Subset
  <2> QED BY <2>1, FS_CardinalityType
<1>4. \A a, b \in hits : <<a, b>> \in R <=> Sooner(r, a, b)
  OBVIOUS
<1>5. \A a \in hits : InFront(R, hits, a) = Ahead(r, hits, a)
  BY <1>4 DEF InFront, Ahead, Sooner
<1> HIDE DEF R
<1>6. OrderedBy(R, hits)
  BY <1>1, <1>4 DEF OrderedBy, Sooner
<1>7. Ranked(R, hits)
  BY <1>3, <1>6, RankFacts
<1>8. \A a \in hits : c[a] = Cardinality(InFront(R, hits, a))
  BY <1>5
<1>9. \A k \in 1 .. n : bars[k] = CHOOSE m \in hits : c[m] = k - 1
  OBVIOUS
<1>10. bars = [k \in 1 .. n |-> bars[k]]
  OBVIOUS
<1> HIDE DEF c, bars
<1>11. /\ \A a \in hits : c[a] \in 0 .. (N - 1)
       /\ \A a, b \in hits : Sooner(r, a, b) <=> c[a] < c[b]
       /\ \A a, b \in hits : c[a] = c[b] => a = b
       /\ \A k \in 0 .. (N - 1) : \E a \in hits : c[a] = k
  <2> HIDE DEF N
  <2>1. /\ \A a \in hits : Cardinality(InFront(R, hits, a)) \in 0 .. (N - 1)
        /\ \A a, b \in hits : <<a, b>> \in R <=> Cardinality(InFront(R, hits, a)) < Cardinality(InFront(R, hits, b))
        /\ \A a, b \in hits : Cardinality(InFront(R, hits, a)) = Cardinality(InFront(R, hits, b)) => a = b
        /\ \A k \in 0 .. (N - 1) : \E a \in hits : Cardinality(InFront(R, hits, a)) = k
    BY <1>7 DEF Ranked, N
  <2> DEFINE d == [a \in hits |-> Cardinality(InFront(R, hits, a))]
  <2>2. \A a \in hits : c[a] = d[a]
    BY <1>8
  <2>3. /\ \A a \in hits : d[a] \in 0 .. (N - 1)
        /\ \A a, b \in hits : <<a, b>> \in R <=> d[a] < d[b]
        /\ \A a, b \in hits : d[a] = d[b] => a = b
        /\ \A k \in 0 .. (N - 1) : \E a \in hits : d[a] = k
    BY <2>1
  <2> HIDE DEF d
  <2> QED BY <1>4, <2>2, <2>3
<1>12. n \in Nat /\ n <= N /\ n = (IF N > PageSize THEN PageSize ELSE N)
  <2> HIDE DEF N
  <2>1. PageSize \in Nat
    BY CandleStoreAssumption
  <2>2. \E x \in {PageSize, N} : \A y \in {PageSize, N} : x =< y
    <3>1. CASE PageSize <= N
      BY <1>3, <2>1, <3>1
    <3>2. CASE ~(PageSize <= N)
      BY <1>3, <2>1, <3>2
    <3> QED BY <3>1, <3>2
  <2>3. n \in {PageSize, N} /\ \A y \in {PageSize, N} : n =< y
    <3> DEFINE W == {PageSize, N}
    <3> HIDE DEF W
    <3>1. (\E x \in W : \A y \in W : x =< y) => Min(W) \in W /\ \A y \in W : Min(W) =< y
      BY DEF Min
    <3> QED BY <2>2, <3>1 DEF W
  <2> HIDE DEF n
  <2> QED BY <1>3, <2>1, <2>3
<1> HIDE DEF n, N
<1>13. \A k \in 1 .. n : bars[k] \in hits /\ c[bars[k]] = k - 1
  <2> TAKE k \in 1 .. n
  <2>1. k - 1 \in 0 .. (N - 1)
    BY <1>3, <1>12
  <2>2. \E a \in hits : c[a] = k - 1
    BY <1>11, <2>1
  <2> QED BY <1>9, <2>2
<1>14. bars \in Seq(Int) /\ Len(bars) = n
  <2>1. bars \in [1 .. n -> Int]
    BY <1>1, <1>10, <1>13
  <2> QED BY <1>12, <2>1
<1>15. \A i, j \in 1 .. n : i < j => Sooner(r, bars[i], bars[j])
  <2> SUFFICES ASSUME NEW i \in 1 .. n, NEW j \in 1 .. n, i < j PROVE Sooner(r, bars[i], bars[j])
    OBVIOUS
  <2>1. c[bars[i]] < c[bars[j]] /\ bars[i] \in hits /\ bars[j] \in hits
    BY <1>12, <1>13
  <2> QED BY <1>11, <2>1
<1>16. ASSUME NEW m \in hits, c[m] < n PROVE \E i \in 1 .. n : bars[i] = m
  <2>1. c[m] + 1 \in 1 .. n /\ (c[m] + 1) - 1 = c[m]
    BY <1>3, <1>11, <1>12, <1>16
  <2>2. bars[c[m] + 1] \in hits /\ c[bars[c[m] + 1]] = c[m]
    BY <1>13, <2>1
  <2>3. bars[c[m] + 1] = m
    BY <1>11, <2>2
  <2> QED BY <2>1, <2>3
<1>17. ASSUME ~more, NEW m \in hits PROVE \E i \in 1 .. n : bars[i] = m
  <2>1. c[m] < n
    BY <1>3, <1>11, <1>12, <1>17, CandleStoreAssumption
  <2> QED BY <1>16, <2>1
<1>18. ASSUME more PROVE n = PageSize /\ \A m \in hits : \/ \E i \in 1 .. n : bars[i] = m
                                                         \/ Sooner(r, bars[PageSize], m)
  <2>1. n = PageSize /\ PageSize \in 1 .. n /\ PageSize \in Nat
    BY <1>12, <1>18, CandleStoreAssumption
  <2> SUFFICES ASSUME NEW m \in hits, ~(c[m] < n) PROVE Sooner(r, bars[PageSize], m)
    BY <1>16, <2>1
  <2>2. bars[PageSize] \in hits /\ c[bars[PageSize]] = PageSize - 1
    BY <1>13, <2>1
  <2>3. c[bars[PageSize]] < c[m]
    BY <1>3, <1>11, <2>1, <2>2
  <2> QED BY <1>11, <2>2, <2>3
<1> DEFINE page == [items |-> bars, more |-> more]
<1>19. page.items = bars /\ page.more = more /\ more \in BOOLEAN
  OBVIOUS
<1> HIDE DEF page, more
<1>20. PageOk(r, hits, page)
  BY <1>13, <1>14, <1>15, <1>17, <1>18, <1>19 DEF PageOk
<1> QED BY <1>2, <1>20 DEF hits, page

Readers ==
    [phase : {"idle", "reading", "done"}, descending : BOOLEAN, closedOnly : BOOLEAN,
     after : Seq(Int), out : Seq(Int), atStart : SUBSET Int]

(* What was read is in order, up to the cursor; what stood there at the start is *)
(* read or still in front of the cursor.                                         *)
ReaderOk(r, rows) ==
    /\ r \in Readers
    /\ \A i, j \in 1 .. Len(r.out) : i < j => Sooner(r, r.out[i], r.out[j])
    /\ \A i \in 1 .. Len(r.out) : r.out[i] \in Selected(rows, r.closedOnly)
    /\ r.atStart \subseteq Selected(rows, r.closedOnly)
    /\ r.phase = "reading" =>
         /\ IF r.after = <<>> THEN r.out = <<>> ELSE r.out # <<>> /\ r.after[1] = r.out[Len(r.out)]
         /\ \A m \in r.atStart : PastCursor(r, m) \/ \E i \in 1 .. Len(r.out) : r.out[i] = m
    /\ r.phase = "done" => \A m \in r.atStart : \E i \in 1 .. Len(r.out) : r.out[i] = m

Turned(r, page) ==
    [r EXCEPT !.out = @ \o page.items,
              !.phase = IF page.more THEN "reading" ELSE "done",
              !.after = IF page.more THEN <<page.items[PageSize]>> ELSE <<>>]

LEMMA PageKeeps ==
    ASSUME NEW r, NEW rows, ReaderOk(r, rows), r.phase = "reading",
           NEW page, PageOk(r, Hits(r, rows), page)
    PROVE  ReaderOk(Turned(r, page), rows)
<1> DEFINE x == Turned(r, page)
           o == r.out
           p == page.items
           y == o \o p
           hits == Hits(r, rows)
           sel == Selected(rows, r.closedOnly)
<1>1. /\ r \in Readers /\ o \in Seq(Int) /\ p \in Seq(Int) /\ page.more \in BOOLEAN
      /\ r.atStart \in SUBSET Int /\ r.descending \in BOOLEAN /\ r.closedOnly \in BOOLEAN
  BY DEF ReaderOk, Readers, PageOk
<1>2. /\ Len(o) \in Nat /\ Len(p) \in Nat /\ y \in Seq(Int) /\ Len(y) = Len(o) + Len(p)
      /\ \A i \in 1 .. Len(o) : y[i] = o[i] /\ o[i] \in Int
      /\ \A i \in 1 .. Len(p) : y[Len(o) + i] = p[i] /\ p[i] \in Int
  <2> HIDE DEF o, p
  <2> QED BY <1>1
<1>3. page.more => Len(p) = PageSize /\ PageSize \in 1 .. Len(p)
  BY CandleStoreAssumption DEF PageOk
<1>4. /\ x.out = y /\ x.phase = (IF page.more THEN "reading" ELSE "done")
      /\ x.after = (IF page.more THEN <<p[PageSize]>> ELSE <<>>)
      /\ x.descending = r.descending /\ x.closedOnly = r.closedOnly /\ x.atStart = r.atStart
      /\ x = [phase |-> x.phase, descending |-> x.descending, closedOnly |-> x.closedOnly,
              after |-> x.after, out |-> x.out, atStart |-> x.atStart]
  <2> DEFINE a == IF page.more THEN <<p[PageSize]>> ELSE <<>>
             s == IF page.more THEN "reading" ELSE "done"
  <2>1. x = [r EXCEPT !.out = y, !.phase = s, !.after = a]
    BY DEF Turned
  <2>2. r = [phase |-> r.phase, descending |-> r.descending, closedOnly |-> r.closedOnly,
             after |-> r.after, out |-> r.out, atStart |-> r.atStart]
    BY <1>1 DEF Readers
  <2> HIDE DEF a, s, x, y
  <2>3. x = [phase |-> s, descending |-> r.descending, closedOnly |-> r.closedOnly,
             after |-> a, out |-> y, atStart |-> r.atStart]
    BY <2>1, <2>2
  <2> QED BY <2>3 DEF a, s
<1> HIDE DEF x
<1>5. x \in Readers
  <2>1. x.after \in Seq(Int)
    BY <1>2, <1>3, <1>4
  <2> QED BY <1>1, <1>2, <1>4, <2>1 DEF Readers
<1>6. \A a, b : Sooner(x, a, b) <=> Sooner(r, a, b)
  BY <1>4 DEF Sooner
<1>7. \A m \in hits : m \in sel /\ PastCursor(r, m)
  BY DEF Hits
<1>8. /\ \A i \in 1 .. Len(p) : p[i] \in hits
      /\ \A i, j \in 1 .. Len(p) : i < j => Sooner(r, p[i], p[j])
      /\ ~page.more => \A m \in hits : \E i \in 1 .. Len(p) : p[i] = m
      /\ page.more => \A m \in hits : (\E i \in 1 .. Len(p) : p[i] = m) \/ Sooner(r, p[PageSize], m)
  BY DEF PageOk
<1>9. /\ \A i \in 1 .. Len(o) : o[i] \in sel
      /\ \A i, j \in 1 .. Len(o) : i < j => Sooner(r, o[i], o[j])
      /\ r.atStart \subseteq sel
      /\ IF r.after = <<>> THEN o = <<>> ELSE o # <<>> /\ r.after[1] = o[Len(o)]
      /\ \A m \in r.atStart : PastCursor(r, m) \/ \E i \in 1 .. Len(o) : o[i] = m
  BY DEF ReaderOk
<1>10. \A m \in r.atStart : m \in hits \/ \E i \in 1 .. Len(o) : o[i] = m
  BY <1>9 DEF Hits
<1> HIDE DEF o, p, y, hits, sel
<1>11. ASSUME NEW k \in 1 .. Len(y)
       PROVE  k \in 1 .. Len(o) \/ (k - Len(o) \in 1 .. Len(p) /\ y[k] = p[k - Len(o)])
  <2>1. CASE k <= Len(o)
    BY <1>2, <2>1
  <2>2. CASE ~(k <= Len(o))
    <3>1. k - Len(o) \in 1 .. Len(p) /\ Len(o) + (k - Len(o)) = k
      BY <1>2, <2>2
    <3> QED BY <1>2, <3>1
  <2> QED BY <2>1, <2>2
<1>12. \A k \in 1 .. Len(y) : y[k] \in sel
  BY <1>2, <1>7, <1>8, <1>9, <1>11
<1>13. ASSUME NEW i \in 1 .. Len(o), NEW m \in hits, m \in Int PROVE Sooner(r, o[i], m)
  <2>1. o # <<>>
    BY <1>1, <1>2
  <2>2. r.after # <<>> /\ r.after[1] = o[Len(o)]
    BY <1>9, <2>1
  <2>3. Sooner(r, o[Len(o)], m)
    BY <1>7, <2>2 DEF PastCursor, Sooner
  <2>4. CASE i = Len(o)
    BY <2>3, <2>4
  <2>5. CASE i # Len(o)
    <3>1. i < Len(o) /\ Len(o) \in 1 .. Len(o)
      BY <1>2, <2>5
    <3>2. Sooner(r, o[i], o[Len(o)]) /\ o[i] \in Int /\ o[Len(o)] \in Int
      BY <1>2, <1>9, <3>1
    <3> QED BY <1>13, <2>3, <3>2 DEF Sooner
  <2> QED BY <2>4, <2>5
<1>14. ASSUME NEW i \in 1 .. Len(y), NEW j \in 1 .. Len(y), i < j PROVE Sooner(r, y[i], y[j])
  <2>1. CASE i \in 1 .. Len(o) /\ j \in 1 .. Len(o)
    BY <1>2, <1>9, <1>14, <2>1
  <2>2. CASE i \in 1 .. Len(o) /\ j \notin 1 .. Len(o)
    <3>1. y[i] = o[i] /\ j - Len(o) \in 1 .. Len(p) /\ y[j] = p[j - Len(o)]
      BY <1>2, <1>11, <2>2
    <3>2. y[j] \in hits /\ y[j] \in Int
      BY <1>2, <1>8, <3>1
    <3> QED BY <1>13, <2>2, <3>1, <3>2
  <2>3. CASE i \notin 1 .. Len(o)
    <3>1. j \notin 1 .. Len(o)
      BY <1>2, <1>14, <2>3
    <3>2. /\ i - Len(o) \in 1 .. Len(p) /\ y[i] = p[i - Len(o)]
          /\ j - Len(o) \in 1 .. Len(p) /\ y[j] = p[j - Len(o)]
      BY <1>11, <2>3, <3>1
    <3>3. i - Len(o) < j - Len(o)
      BY <1>2, <1>14
    <3> QED BY <1>8, <3>2, <3>3
  <2> QED BY <2>1, <2>2, <2>3
<1>15. ASSUME NEW m, (\E i \in 1 .. Len(o) : o[i] = m) \/ \E i \in 1 .. Len(p) : p[i] = m
       PROVE  \E k \in 1 .. Len(y) : y[k] = m
  <2>1. CASE \E i \in 1 .. Len(o) : o[i] = m
    <3>1. PICK i \in 1 .. Len(o) : o[i] = m
      BY <2>1
    <3>2. i \in 1 .. Len(y) /\ y[i] = m
      BY <1>2, <3>1
    <3> QED BY <3>2
  <2>2. CASE \E i \in 1 .. Len(p) : p[i] = m
    <3>1. PICK i \in 1 .. Len(p) : p[i] = m
      BY <2>2
    <3>2. Len(o) + i \in 1 .. Len(y) /\ y[Len(o) + i] = m
      BY <1>2, <3>1
    <3> QED BY <3>2
  <2> QED BY <1>15, <2>1, <2>2
<1>16. ASSUME page.more
       PROVE  /\ x.after # <<>> /\ y # <<>> /\ x.after[1] = y[Len(y)]
              /\ \A m \in r.atStart : PastCursor(x, m) \/ \E k \in 1 .. Len(y) : y[k] = m
  <2>1. x.after = <<p[PageSize]>> /\ Len(p) = PageSize /\ PageSize \in 1 .. Len(p)
    BY <1>3, <1>4, <1>16
  <2>2. x.after # <<>> /\ x.after[1] = p[PageSize]
    BY <2>1
  <2>3. y[Len(o) + PageSize] = p[PageSize] /\ Len(o) + PageSize = Len(y) /\ y # <<>>
    BY <1>2, <2>1
  <2>4. \A m : Sooner(r, p[PageSize], m) => PastCursor(x, m)
    BY <1>4, <2>2 DEF PastCursor, Sooner
  <2> QED BY <1>8, <1>10, <1>15, <1>16, <2>2, <2>3, <2>4
<1>17. ASSUME ~page.more PROVE \A m \in r.atStart : \E k \in 1 .. Len(y) : y[k] = m
  BY <1>8, <1>10, <1>15, <1>17
<1>18. r.atStart \subseteq sel
  BY <1>9
<1>19. /\ x.phase = "reading" => page.more
       /\ x.phase = "done" => ~page.more
  BY <1>4
<1>20. ReaderOk(x, rows)
  BY <1>4, <1>5, <1>6, <1>12, <1>14, <1>16, <1>17, <1>18, <1>19 DEF ReaderOk, sel
<1> QED BY <1>20 DEF x

(* A read goes on as well over a table that has grown. *)
LEMMA GrowthKeeps ==
    ASSUME NEW r, NEW rows, NEW new, ReaderOk(r, rows), DOMAIN rows \subseteq DOMAIN new,
           \A m \in DOMAIN rows : rows[m].closed => new[m] = rows[m]
    PROVE  ReaderOk(r, new)
<1>1. Selected(rows, r.closedOnly) \subseteq Selected(new, r.closedOnly)
  BY DEF Selected
<1> QED BY <1>1 DEF ReaderOk

-----------------------------------------------------------------------------
ClosedMinutes(rows) == {m \in DOMAIN rows : rows[m].closed}

TableInv ==
    /\ candleTable \in CandleTables /\ IsFiniteSet(DOMAIN candleTable)
    /\ oneByOne = candleTable
    /\ firstClosed = [m \in ClosedMinutes(candleTable) |-> candleTable[m]]
    /\ lastUpsert.inserted = lastUpsert.new /\ lastUpsert.skipped >= 0

CandleTableInv == TableInv /\ ReaderOk(reader, candleTable)

LEMMA CandleMinutes == TableMinutes \subseteq Int
BY CandleStoreAssumption DEF TableMinutes

LEMMA InitCandles == CandleStoreInit => CandleTableInv
<1> SUFFICES ASSUME CandleStoreInit PROVE CandleTableInv
  OBVIOUS
<1>1. DOMAIN candleTable = {} /\ candleTable = [m \in DOMAIN candleTable |-> candleTable[m]]
  BY DEF CandleStoreInit
<1>2. candleTable \in CandleTables
  BY <1>1, IsTable
<1>3. IsFiniteSet(DOMAIN candleTable)
  BY <1>1, FS_EmptySet
<1>4. firstClosed = [m \in ClosedMinutes(candleTable) |-> candleTable[m]]
  <2>1. ClosedMinutes(candleTable) = {}
    BY <1>1 DEF ClosedMinutes
  <2>2. [m \in {} |-> candleTable[m]] = <<>>
    OBVIOUS
  <2>3. firstClosed = <<>>
    BY DEF CandleStoreInit
  <2> QED BY <2>1, <2>2, <2>3
<1>5. TableInv
  BY <1>2, <1>3, <1>4 DEF CandleStoreInit, TableInv
<1>6. /\ reader \in Readers /\ reader.out = <<>> /\ reader.atStart = {} /\ reader.phase = "idle"
  BY DEF CandleStoreInit, Idle, Readers
<1>7. ReaderOk(reader, candleTable)
  BY <1>6 DEF ReaderOk
<1> QED BY <1>5, <1>7 DEF CandleTableInv

LEMMA UpsertCandles ==
    ASSUME CandleTableInv, NEW batch \in Seq(Candles), Upsert(batch)
    PROVE  CandleTableInv'
<1> DEFINE res == upsert_records(candleTable, batch)
           D == DOMAIN candleTable
           new == BatchMinutes(batch)
<1>1. candleTable \in CandleTables /\ UpsertOk(candleTable, batch, res)
  BY UpsertRuns DEF CandleTableInv, TableInv
<1>2. /\ candleTable' = res.rows /\ oneByOne' = OneAfterAnother(oneByOne, batch) /\ reader' = reader
      /\ lastUpsert' = [inserted |-> res.inserted, updated |-> res.updated,
                        skipped |-> Len(batch) - res.inserted - res.updated,
                        new |-> Cardinality(new \ D)]
      /\ firstClosed' = [m \in {k \in DOMAIN res.rows : res.rows[k].closed} |->
                            IF m \in DOMAIN firstClosed THEN firstClosed[m] ELSE res.rows[m]]
  BY DEF Upsert, BatchMinutes
<1> HIDE DEF res
<1>3. /\ res.rows = OneAfterAnother(candleTable, batch) /\ res.rows \in CandleTables
      /\ res.inserted \in Nat /\ res.updated \in Nat
      /\ DOMAIN res.rows = D \cup new /\ IsFiniteSet(new)
      /\ res.inserted = Cardinality(new \ D)
      /\ res.inserted + res.updated <= Len(batch)
      /\ \A m \in D : candleTable[m].closed => res.rows[m] = candleTable[m]
  BY <1>1 DEF UpsertOk
<1> HIDE DEF new
<1>4. oneByOne' = candleTable'
  BY <1>2, <1>3 DEF CandleTableInv, TableInv
<1>5. IsFiniteSet(DOMAIN candleTable')
  <2>1. IsFiniteSet(D)
    BY DEF CandleTableInv, TableInv
  <2> HIDE DEF D
  <2>2. IsFiniteSet(D \cup new)
    BY <1>3, <2>1, FS_Union
  <2> QED BY <1>2, <1>3, <2>2
<1>6. firstClosed' = [m \in ClosedMinutes(candleTable') |-> candleTable'[m]]
  <2>1. DOMAIN firstClosed = ClosedMinutes(candleTable) /\ \A m \in ClosedMinutes(candleTable) : firstClosed[m] = candleTable[m]
    BY DEF CandleTableInv, TableInv
  <2>2. \A m \in DOMAIN firstClosed : firstClosed[m] = res.rows[m]
    BY <1>3, <2>1 DEF ClosedMinutes
  <2>3. firstClosed' = [m \in {k \in DOMAIN res.rows : res.rows[k].closed} |-> res.rows[m]]
    BY <1>2, <2>2
  <2> QED BY <1>2, <2>3 DEF ClosedMinutes
<1>7. lastUpsert'.inserted = lastUpsert'.new /\ lastUpsert'.skipped >= 0
  <2>1. lastUpsert'.inserted = res.inserted /\ lastUpsert'.new = Cardinality(new \ D)
        /\ lastUpsert'.skipped = Len(batch) - res.inserted - res.updated
    BY <1>2
  <2>2. Len(batch) \in Nat
    OBVIOUS
  <2> QED BY <1>3, <2>1, <2>2
<1>8. ReaderOk(reader, candleTable')
  <2>1. ReaderOk(reader, candleTable)
    BY DEF CandleTableInv
  <2>2. DOMAIN candleTable \subseteq DOMAIN res.rows
    BY <1>3
  <2>3. ReaderOk(reader, res.rows)
    BY <1>3, <2>1, <2>2, GrowthKeeps
  <2> QED BY <1>2, <2>3
<1>9. TableInv'
  BY <1>2, <1>3, <1>4, <1>5, <1>6, <1>7 DEF TableInv
<1> QED BY <1>2, <1>8, <1>9 DEF CandleTableInv

LEMMA StartReadCandles ==
    ASSUME CandleTableInv, NEW d \in BOOLEAN, NEW c \in BOOLEAN, StartRead(d, c)
    PROVE  CandleTableInv'
<1>1. /\ reader' = [phase |-> "reading", descending |-> d, closedOnly |-> c,
                    after |-> <<>>, out |-> <<>>, atStart |-> Selected(candleTable, c)]
      /\ candleTable' = candleTable /\ oneByOne' = oneByOne /\ firstClosed' = firstClosed
      /\ lastUpsert' = lastUpsert
  BY DEF StartRead
<1>2. TableInv'
  BY <1>1 DEF CandleTableInv, TableInv
<1>3. Selected(candleTable, c) \subseteq Int
  <2>1. DOMAIN candleTable \subseteq TableMinutes
    BY TableFacts DEF CandleTableInv, TableInv
  <2> QED BY <2>1, CandleMinutes DEF Selected
<1>4. /\ reader'.out = <<>> /\ reader'.after = <<>> /\ reader'.closedOnly = c /\ reader'.phase = "reading"
      /\ reader'.atStart = Selected(candleTable, c)
  BY <1>1
<1>5. reader' \in Readers
  BY <1>1, <1>3 DEF Readers
<1>6. ReaderOk(reader', candleTable)
  BY <1>4, <1>5 DEF ReaderOk, PastCursor
<1> QED BY <1>1, <1>2, <1>6 DEF CandleTableInv

LEMMA ReadPageCandles == ASSUME CandleTableInv, ReadPage PROVE CandleTableInv'
<1> DEFINE page == Page(reader, candleTable)
<1>1. /\ reader.phase = "reading" /\ reader' = Turned(reader, page)
      /\ candleTable' = candleTable /\ oneByOne' = oneByOne /\ firstClosed' = firstClosed
      /\ lastUpsert' = lastUpsert
  BY DEF ReadPage, Turned
<1>2. TableInv'
  BY <1>1 DEF CandleTableInv, TableInv
<1>3. DOMAIN candleTable \in SUBSET Int /\ IsFiniteSet(DOMAIN candleTable)
  <2>1. DOMAIN candleTable \subseteq TableMinutes
    BY TableFacts DEF CandleTableInv, TableInv
  <2> QED BY <2>1, CandleMinutes DEF CandleTableInv, TableInv
<1>4. PageOk(reader, Hits(reader, candleTable), page)
  BY <1>3, PageTurns
<1>5. ReaderOk(reader, candleTable)
  BY DEF CandleTableInv
<1> HIDE DEF page
<1>6. ReaderOk(Turned(reader, page), candleTable)
  BY <1>1, <1>4, <1>5, PageKeeps
<1> QED BY <1>1, <1>2, <1>6 DEF CandleTableInv

LEMMA CandlesFollow == CandleTableInv => CandlesAreKept
<1> SUFFICES ASSUME CandleTableInv PROVE CandlesAreKept
  OBVIOUS
<1>1. TableIsExact
  BY DEF CandleTableInv, TableInv, TableIsExact
<1>2. GapsAreWhole
  <2>1. DOMAIN candleTable \subseteq TableMinutes /\ IsFiniteSet(DOMAIN candleTable)
    BY TableFacts DEF CandleTableInv, TableInv
  <2>2. DOMAIN candleTable \in SUBSET Int
    BY <2>1, CandleMinutes
  <2> QED BY <2>1, <2>2, GapsFound
<1>3. PagesAreWhole
  <2>1. /\ reader.out \in Seq(Int)
        /\ \A i, j \in 1 .. Len(reader.out) : i < j => Sooner(reader, reader.out[i], reader.out[j])
        /\ \A i \in 1 .. Len(reader.out) : reader.out[i] \in Selected(candleTable, reader.closedOnly)
        /\ reader.phase = "done" => \A m \in reader.atStart : \E i \in 1 .. Len(reader.out) : reader.out[i] = m
    BY DEF CandleTableInv, ReaderOk, Readers
  <2>2. DOMAIN reader.out = 1 .. Len(reader.out)
    BY <2>1
  <2>3. \A m : m \in Range(reader.out) <=> \E i \in 1 .. Len(reader.out) : reader.out[i] = m
    BY <2>2 DEF Range
  <2> QED BY <2>1, <2>2, <2>3 DEF PagesAreWhole, Sooner
<1> QED BY <1>1, <1>2, <1>3 DEF CandlesAreKept

(* CandleRepo, for every set of candles, any size of a batch and of a page: the   *)
(* rounds of a batch leave what its candles would leave one by one, no closed     *)
(* candle is rewritten, an upsert counts the new minutes; a read in pages, with   *)
(* commits between them, gives every minute that was there, once and in order;    *)
(* and find_gaps names the missing minutes, each in one gap.                      *)
THEOREM CandlesKept == CandleStoreSpec => []CandlesAreKept
<1>1. CandleStoreInit => CandleTableInv
  BY InitCandles
<1>2. CandleTableInv /\ [CandleStoreNext]_csVars => CandleTableInv'
  <2> SUFFICES ASSUME CandleTableInv, [CandleStoreNext]_csVars PROVE CandleTableInv'
    OBVIOUS
  <2>1. ASSUME NEW n \in 1 .. MaxBatch, NEW batch \in [1 .. n -> Candles], Upsert(batch)
        PROVE  CandleTableInv'
    <3>1. batch \in Seq(Candles)
      <4>1. n \in Nat
        OBVIOUS
      <4> QED BY <4>1
    <3> QED BY <2>1, <3>1, UpsertCandles
  <2>2. ASSUME NEW d \in BOOLEAN, NEW c \in BOOLEAN, StartRead(d, c) PROVE CandleTableInv'
    BY <2>2, StartReadCandles
  <2>3. CASE ReadPage
    BY <2>3, ReadPageCandles
  <2>4. CASE UNCHANGED csVars
    BY <2>4 DEF csVars, CandleTableInv, TableInv
  <2> QED BY <2>1, <2>2, <2>3, <2>4 DEF CandleStoreNext
<1> QED BY <1>1, <1>2, CandlesFollow, PTL DEF CandleStoreSpec

-----------------------------------------------------------------------------
(* The candle aggregator and the pipeline. *)

Aggregators == [next : Int, held : SUBSET Nat, released : Seq(Nat), skipped : SUBSET Nat]

InOrder(q) == \A i, j \in 1 .. Len(q) : i < j => q[i] < q[j]

(* All of q is smaller than what is in S. *)
AllBelow(q, S) == \A i \in 1 .. Len(q) : \A m \in S : q[i] < m

Gone(a) == {a.released[i] : i \in 1 .. Len(a.released)}

(* Since the series began at from, every minute before next was released or is   *)
(* declared missing; what is held comes later, and what was released went in     *)
(* order.                                                                        *)
AggOk(from, a) ==
    /\ a \in Aggregators
    /\ IsFiniteSet(a.held) /\ IsFiniteSet(a.skipped)
    /\ \A m \in a.skipped : m \notin a.held /\ m \notin Gone(a)
    /\ InOrder(a.released)
    /\ a.next = Unset => a.held = {} /\ a.released = <<>>
    /\ a.next # Unset =>
         /\ from <= a.next
         /\ \A i \in 1 .. Len(a.released) : from <= a.released[i] /\ a.released[i] < a.next
         /\ \A m \in a.held : a.next <= m
         /\ \A m \in from .. (a.next - 1) : m \in Gone(a) \/ m \in a.skipped

(* The search of _drain ends: of the numbers from next on, one more than wait, not *)
(* all wait.                                                                      *)
LEMMA StopExists ==
    ASSUME NEW W \in SUBSET Int, IsFiniteSet(W), NEW lo \in Int
    PROVE  \E n \in lo .. (lo + Cardinality(W)) : n \notin W /\ lo .. (n - 1) \subseteq W
<1> DEFINE C == Cardinality(W)
           I == lo .. (lo + C)
           S == {k \in Nat : lo + k \in I /\ lo + k \notin W}
<1>1. C \in Nat
  BY FS_CardinalityType
<1>2. IsFiniteSet(I) /\ Cardinality(I) = C + 1
  <2>1. lo \in Int /\ lo + C \in Int
    BY <1>1
  <2>2. IsFiniteSet(I) /\ Cardinality(I) = IF lo > lo + C THEN 0 ELSE (lo + C) - lo + 1
    BY <2>1, FS_Interval
  <2> QED BY <1>1, <2>2
<1>3. ~(I \subseteq W)
  <2> SUFFICES ASSUME I \subseteq W PROVE FALSE
    OBVIOUS
  <2> HIDE DEF I, C
  <2>1. Cardinality(I) <= Cardinality(W)
    BY FS_Subset
  <2> QED BY <1>1, <1>2, <2>1 DEF C
<1>4. S \in SUBSET Nat /\ S # {}
  <2>1. PICK x \in I : x \notin W
    BY <1>3
  <2>2. x - lo \in Nat /\ lo + (x - lo) = x
    BY <1>1, <2>1
  <2>3. x - lo \in S
    BY <2>1, <2>2
  <2> QED BY <2>3
<1>5. PICK k \in S : \A j \in S : k <= j
  <2> HIDE DEF S
  <2> QED BY <1>4, LeastNat
<1>6. lo + k \in I /\ lo + k \notin W /\ k \in Nat
  OBVIOUS
<1>7. \A x \in lo .. ((lo + k) - 1) : x \in W
  <2> SUFFICES ASSUME NEW x \in lo .. ((lo + k) - 1), x \notin W PROVE FALSE
    OBVIOUS
  <2>1. x - lo \in Nat /\ lo + (x - lo) = x /\ x \in I /\ x - lo < k
    BY <1>1, <1>6
  <2>2. x - lo \in S
    BY <2>1
  <2> QED BY <1>5, <1>6, <2>1, <2>2
<1> QED BY <1>6, <1>7

(* _emit of what is held up to stop. *)
LEMMA EmitFacts ==
    ASSUME NEW a \in Aggregators, IsFiniteSet(a.held), NEW out, out \subseteq a.held
    PROVE  /\ Emit(a, out) \in Aggregators
           /\ Emit(a, out).held = a.held \ out /\ Emit(a, out).next = a.next
           /\ Emit(a, out).skipped = a.skipped
           /\ Emit(a, out).released = a.released \o Ascending(out)
           /\ Rising(out, Ascending(out)) /\ out \in SUBSET Nat
<1> DEFINE e == Emit(a, out)
           r == a.released \o Ascending(out)
<1>1. out \in SUBSET Nat /\ out \in SUBSET Int
  BY DEF Aggregators
<1>2. IsFiniteSet(out)
  BY FS_Subset
<1>3. Rising(out, Ascending(out))
  BY <1>1, <1>2, AscendingRises
<1>4. Ascending(out) \in Seq(Nat)
  BY <1>1, <1>3, SeqWider DEF Rising
<1>5. r \in Seq(Nat)
  <2>1. a.released \in Seq(Nat)
    BY DEF Aggregators
  <2> QED BY <1>4, <2>1
<1>6. e = [next |-> a.next, held |-> a.held \ out, released |-> r, skipped |-> a.skipped]
  <2>1. a = [next |-> a.next, held |-> a.held, released |-> a.released, skipped |-> a.skipped]
    BY DEF Aggregators
  <2>2. e = [a EXCEPT !.released = r, !.held = a.held \ out]
    BY DEF Emit
  <2> HIDE DEF r, e
  <2> QED BY <2>1, <2>2
<1> HIDE DEF r
<1>7. e \in Aggregators
  BY <1>5, <1>6 DEF Aggregators
<1> QED BY <1>1, <1>3, <1>6, <1>7 DEF r

(* The released minutes and what an emission adds to them. *)
Emitted(a, out, q, b) ==
    /\ a \in Aggregators /\ b \in Aggregators /\ out \in SUBSET Nat /\ Rising(out, q)
    /\ InOrder(a.released) /\ AllBelow(a.released, out)
    /\ b.released = a.released \o q

EmittedOk(a, out, b) == InOrder(b.released) /\ Gone(b) = Gone(a) \cup out

LEMMA EmitInOrder ==
    ASSUME NEW a, NEW out, NEW q, NEW b, Emitted(a, out, q, b)
    PROVE  EmittedOk(a, out, b)
<1> DEFINE r == a.released
           s == b.released
<1>1. r \in Seq(Nat) /\ s \in Seq(Nat) /\ q \in Seq(Nat)
  BY SeqWider DEF Aggregators, Rising, Emitted
<1>2. s = r \o q
  BY DEF Emitted
<1>3. /\ \A i, j \in 1 .. Len(q) : i < j => q[i] < q[j]
      /\ \A m \in out : \E i \in 1 .. Len(q) : q[i] = m
      /\ \A i \in 1 .. Len(q) : q[i] \in out
  BY DEF Rising, Emitted
<1>4. /\ \A i, j \in 1 .. Len(r) : i < j => r[i] < r[j]
      /\ \A i \in 1 .. Len(r) : \A m \in out : r[i] < m
  BY DEF InOrder, AllBelow, Emitted
<1>G. Gone(a) = {r[i] : i \in 1 .. Len(r)} /\ Gone(b) = {s[i] : i \in 1 .. Len(s)}
  BY DEF Gone
<1> HIDE DEF r, s
<1>5. /\ Len(r) \in Nat /\ Len(q) \in Nat /\ Len(s) = Len(r) + Len(q)
      /\ \A i \in 1 .. Len(r) : s[i] = r[i]
      /\ \A i \in 1 .. Len(q) : s[Len(r) + i] = q[i]
  BY <1>1, <1>2
<1>6. ASSUME NEW k \in 1 .. Len(s)
      PROVE  k \in 1 .. Len(r) \/ (k - Len(r) \in 1 .. Len(q) /\ s[k] = q[k - Len(r)])
  <2>1. CASE k <= Len(r)
    BY <1>5, <2>1
  <2>2. CASE ~(k <= Len(r))
    <3>1. k - Len(r) \in 1 .. Len(q) /\ Len(r) + (k - Len(r)) = k
      BY <1>5, <2>2
    <3> QED BY <1>5, <3>1
  <2> QED BY <2>1, <2>2
<1>7. ASSUME NEW i \in 1 .. Len(s), NEW j \in 1 .. Len(s), i < j PROVE s[i] < s[j]
  <2>1. CASE i \in 1 .. Len(r) /\ j \in 1 .. Len(r)
    BY <1>4, <1>5, <1>7, <2>1
  <2>2. CASE i \in 1 .. Len(r) /\ j \notin 1 .. Len(r)
    BY <1>3, <1>4, <1>5, <1>6, <2>2
  <2>3. CASE i \notin 1 .. Len(r)
    <3>1. j \notin 1 .. Len(r) /\ i - Len(r) < j - Len(r)
      BY <1>5, <1>7, <2>3
    <3>2. /\ i - Len(r) \in 1 .. Len(q) /\ s[i] = q[i - Len(r)]
          /\ j - Len(r) \in 1 .. Len(q) /\ s[j] = q[j - Len(r)]
      BY <1>6, <2>3, <3>1
    <3> QED BY <1>3, <3>1, <3>2
  <2> QED BY <2>1, <2>2, <2>3
<1>8. \A k \in 1 .. Len(s) : s[k] \in Gone(a) \cup out
  BY <1>3, <1>5, <1>6, <1>G
<1>9. \A m \in Gone(a) \cup out : \E k \in 1 .. Len(s) : s[k] = m
  <2> SUFFICES ASSUME NEW m \in Gone(a) \cup out PROVE \E k \in 1 .. Len(s) : s[k] = m
    OBVIOUS
  <2>1. CASE m \in Gone(a)
    <3>1. PICK i \in 1 .. Len(r) : r[i] = m
      BY <2>1, <1>G
    <3>2. i \in 1 .. Len(s) /\ s[i] = m
      BY <1>5, <3>1
    <3> QED BY <3>2
  <2>2. CASE m \in out
    <3>1. PICK i \in 1 .. Len(q) : q[i] = m
      BY <1>3, <2>2
    <3>2. Len(r) + i \in 1 .. Len(s) /\ s[Len(r) + i] = m
      BY <1>5, <3>1
    <3> QED BY <3>2
  <2> QED BY <2>1, <2>2
<1>10. Gone(b) = Gone(a) \cup out
  BY <1>8, <1>9, <1>G
<1> QED BY <1>7, <1>10 DEF s, InOrder, EmittedOk

(* What _drain leaves: nothing is lost, and the series goes on from a later minute. *)
DrainOk(from, a, b) ==
    /\ AggOk(from, b) /\ b.next # Unset
    /\ b.skipped = a.skipped
    /\ Gone(b) \cup b.held = Gone(a) \cup a.held

LEMMA DrainKeeps ==
    ASSUME NEW from \in Nat, NEW a, AggOk(from, a), a.next # Unset
    PROVE  DrainOk(from, a, Drain(a))
<1> DEFINE W == Waiting(a)
           stop == CHOOSE n \in a.next .. (a.next + Cardinality(W)) : n \notin W /\ a.next .. (n - 1) \subseteq W
           out == {m \in a.held : m < stop}
           e == Emit(a, out)
           b == Drain(a)
<1>1. /\ a \in Aggregators /\ IsFiniteSet(a.held) /\ IsFiniteSet(a.skipped)
      /\ a.next \in Int /\ a.held \in SUBSET Nat /\ a.skipped \in SUBSET Nat
      /\ \A m \in a.skipped : m \notin a.held /\ m \notin Gone(a)
      /\ InOrder(a.released)
      /\ from <= a.next
      /\ \A i \in 1 .. Len(a.released) : from <= a.released[i] /\ a.released[i] < a.next
      /\ \A m \in a.held : a.next <= m
      /\ \A m \in from .. (a.next - 1) : m \in Gone(a) \/ m \in a.skipped
  BY DEF AggOk, Aggregators
<1>2. W = a.held \cup a.skipped
  BY DEF Waiting
<1>3. b = [e EXCEPT !.next = stop]
  BY DEF Drain
<1>4. stop \in Int /\ a.next <= stop /\ stop \notin W /\ a.next .. (stop - 1) \subseteq W
  <2>1. W \in SUBSET Int /\ IsFiniteSet(W)
    <3>1. IsFiniteSet(a.held \cup a.skipped)
      BY <1>1, FS_Union
    <3> QED BY <1>1, <1>2, <3>1
  <2> HIDE DEF W
  <2>2. \E n \in a.next .. (a.next + Cardinality(W)) : n \notin W /\ a.next .. (n - 1) \subseteq W
    BY <1>1, <2>1, StopExists
  <2>3. stop \in a.next .. (a.next + Cardinality(W)) /\ stop \notin W /\ a.next .. (stop - 1) \subseteq W
    BY <2>2
  <2>4. Cardinality(W) \in Nat
    BY <2>1, FS_CardinalityType
  <2> HIDE DEF stop
  <2> QED BY <1>1, <2>3, <2>4
<1> HIDE DEF stop, W
<1>5. out \subseteq a.held
  OBVIOUS
<1>6. /\ e \in Aggregators /\ e.held = a.held \ out /\ e.next = a.next /\ e.skipped = a.skipped
      /\ e.released = a.released \o Ascending(out)
      /\ Rising(out, Ascending(out)) /\ out \in SUBSET Nat
  <2> HIDE DEF out
  <2> QED BY <1>1, <1>5, EmitFacts
<1> HIDE DEF e
<1>7. /\ b.next = stop /\ b.held = a.held \ out /\ b.skipped = a.skipped
      /\ b.released = a.released \o Ascending(out) /\ b \in Aggregators
  BY <1>3, <1>4, <1>6 DEF Aggregators
<1> HIDE DEF b
<1>R. \A i \in 1 .. Len(a.released) : a.released[i] \in Nat
  BY <1>1 DEF Aggregators
<1>8. \A m \in out : a.next <= m /\ m < stop /\ m \in Nat
  BY <1>1, <1>6
<1>9. AllBelow(a.released, out)
  BY <1>1, <1>8, <1>R DEF AllBelow
<1>10. /\ InOrder(b.released)
       /\ Gone(b) = Gone(a) \cup out
  <2> DEFINE q == Ascending(out)
  <2>1. Emitted(a, out, q, b)
    BY <1>1, <1>6, <1>7, <1>9 DEF Emitted
  <2> HIDE DEF out, q
  <2>2. EmittedOk(a, out, b)
    BY <2>1, EmitInOrder
  <2> QED BY <2>2 DEF EmittedOk
<1>11. \A m \in a.held : m \in out <=> m < stop
  OBVIOUS
<1> HIDE DEF out
<1>12. Gone(b) \cup b.held = Gone(a) \cup a.held
  BY <1>5, <1>7, <1>10
<1>13. \A m \in b.held : stop <= m
  BY <1>1, <1>4, <1>7, <1>11
<1>14. \A m \in b.skipped : m \notin b.held /\ m \notin Gone(b)
  BY <1>1, <1>5, <1>7, <1>10
<1>15. \A m \in Gone(b) : from <= m /\ m < stop
  <2>1. \A m \in Gone(a) : from <= m /\ m < stop
    BY <1>1, <1>4, <1>R DEF Gone
  <2>2. \A m \in out : from <= m /\ m < stop
    BY <1>1, <1>4, <1>8
  <2> QED BY <1>10, <2>1, <2>2, Zenon
<1>16. \A i \in 1 .. Len(b.released) : from <= b.released[i] /\ b.released[i] < b.next
  BY <1>7, <1>15 DEF Gone
<1>17. ASSUME NEW m \in from .. (stop - 1) PROVE m \in Gone(b) \/ m \in b.skipped
  <2>1. CASE m < a.next
    <3>1. m \in from .. (a.next - 1)
      BY <1>1, <1>4, <2>1
    <3> QED BY <1>1, <1>7, <1>10, <3>1
  <2>2. CASE ~(m < a.next)
    <3>1. m \in a.next .. (stop - 1)
      BY <1>1, <1>4, <2>2
    <3>2. m \in W /\ m < stop
      BY <1>1, <1>4, <3>1
    <3> QED BY <1>2, <1>7, <1>10, <1>11, <3>2
  <2> QED BY <2>1, <2>2
<1>18. IsFiniteSet(b.held) /\ IsFiniteSet(b.skipped)
  BY <1>1, <1>7, FS_Subset
<1>19. b.next # Unset /\ from <= b.next
  BY <1>1, <1>4, <1>7 DEF Unset
<1>20. AggOk(from, b)
  BY <1>7, <1>10, <1>13, <1>14, <1>16, <1>17, <1>18, <1>19 DEF AggOk
<1>21. DrainOk(from, a, b)
  BY <1>7, <1>12, <1>19, <1>20 DEF DrainOk
<1> QED BY <1>21 DEF b

LEMMA GoneIsReleased == ASSUME NEW a \in Aggregators PROVE ToSet(a.released) = Gone(a)
<1>1. a.released \in Seq(Nat)
  BY DEF Aggregators
<1>2. DOMAIN a.released = 1 .. Len(a.released)
  BY <1>1
<1> QED BY <1>2 DEF ToSet, Gone

(* A closed candle that belongs to the series is released or held, unless its minute *)
(* was declared missing.                                                             *)
OfferOk(from, a, o, closed, b) ==
    /\ AggOk(from, b) /\ b.next # Unset
    /\ b.skipped = a.skipped
    /\ Gone(a) \cup a.held \subseteq Gone(b) \cup b.held
    /\ closed /\ from <= o /\ o \notin a.skipped => o \in Gone(b) \cup b.held

LEMMA OfferKeeps ==
    ASSUME NEW from \in Nat, NEW o \in Nat, NEW closed \in BOOLEAN, NEW a, AggOk(from, a),
           a.next = Unset => from = o
    PROVE  OfferOk(from, a, o, closed, offer(a, o, closed))
<1> DEFINE n == IF a.next = Unset THEN o ELSE a.next
           x == [a EXCEPT !.next = n]
           y == [x EXCEPT !.held = @ \cup {o}]
<1>1. /\ a \in Aggregators /\ IsFiniteSet(a.held) /\ IsFiniteSet(a.skipped)
      /\ a.held \in SUBSET Nat /\ a.skipped \in SUBSET Nat /\ a.next \in Int /\ a.released \in Seq(Nat)
      /\ \A m \in a.skipped : m \notin a.held /\ m \notin Gone(a)
      /\ InOrder(a.released)
      /\ a.next = Unset => a.held = {} /\ a.released = <<>>
      /\ a.next # Unset =>
           /\ from <= a.next
           /\ \A i \in 1 .. Len(a.released) : from <= a.released[i] /\ a.released[i] < a.next
           /\ \A m \in a.held : a.next <= m
           /\ \A m \in from .. (a.next - 1) : m \in Gone(a) \/ m \in a.skipped
  BY DEF AggOk, Aggregators
<1>2. a = [next |-> a.next, held |-> a.held, released |-> a.released, skipped |-> a.skipped]
  BY <1>1 DEF Aggregators
<1>3. n \in Int /\ n # Unset
  BY <1>1 DEF Unset
<1>4. x = [next |-> n, held |-> a.held, released |-> a.released, skipped |-> a.skipped]
  <2> HIDE DEF n
  <2> QED BY <1>2
<1>5. x.next = n /\ x.held = a.held /\ x.released = a.released /\ x.skipped = a.skipped /\ Gone(x) = Gone(a)
  BY <1>4 DEF Gone
<1>6. y = [next |-> n, held |-> a.held \cup {o}, released |-> a.released, skipped |-> a.skipped]
  <2> HIDE DEF n, x
  <2> QED BY <1>4
<1>7. y.next = n /\ y.held = a.held \cup {o} /\ y.released = a.released /\ y.skipped = a.skipped /\ Gone(y) = Gone(a)
  BY <1>6 DEF Gone
<1>8. x \in Aggregators /\ y \in Aggregators
  <2> HIDE DEF n, x, y
  <2> QED BY <1>1, <1>3, <1>4, <1>6 DEF Aggregators
<1>9. offer(a, o, closed) = IF ~closed \/ Known(a, o) \/ o < n THEN x ELSE Drain(y)
  <2>1. x.next = n
    BY <1>5
  <2> QED BY <2>1 DEF offer
<1>N. /\ a.next # Unset => n = a.next
      /\ a.next = Unset => n = from
  OBVIOUS
<1>10. Known(a, o) <=> o \in Gone(a) \/ o \in a.held \/ o \in a.skipped
  BY <1>1, GoneIsReleased DEF Known, Waiting
<1> HIDE DEF n, x, y
<1>11. /\ from <= n
       /\ \A i \in 1 .. Len(a.released) : from <= a.released[i] /\ a.released[i] < n
       /\ \A m \in a.held : n <= m
       /\ \A m \in from .. (n - 1) : m \in Gone(a) \/ m \in a.skipped
  <2>1. CASE a.next # Unset
    BY <1>1, <1>N, <2>1
  <2>2. CASE a.next = Unset
    <3>1. n = from /\ a.held = {} /\ a.released = <<>>
      BY <1>1, <1>N, <2>2
    <3>2. Len(a.released) = 0 /\ 1 .. 0 = {} /\ from .. (n - 1) = {}
      BY <3>1
    <3> QED BY <3>1, <3>2
  <2> QED BY <2>1, <2>2
<1>12. AggOk(from, x)
  BY <1>1, <1>3, <1>5, <1>8, <1>11 DEF AggOk
<1>13. CASE ~closed \/ Known(a, o) \/ o < n
  <2>1. offer(a, o, closed) = x
    BY <1>9, <1>13
  <2>2. ASSUME closed, from <= o, o \notin a.skipped PROVE o \in Gone(a) \cup a.held
    <3>1. CASE Known(a, o)
      BY <1>10, <2>2, <3>1
    <3>2. CASE o < n
      <4>1. o \in from .. (n - 1)
        BY <1>3, <2>2, <3>2
      <4> QED BY <1>11, <2>2, <4>1
    <3> QED BY <1>13, <2>2, <3>1, <3>2
  <2> QED BY <1>3, <1>5, <1>12, <2>1, <2>2 DEF OfferOk
<1>14. CASE closed /\ ~Known(a, o) /\ ~(o < n)
  <2>1. offer(a, o, closed) = Drain(y)
    BY <1>9, <1>14
  <2>2. IsFiniteSet(y.held)
    <3>1. IsFiniteSet({o})
      BY FS_Singleton
    <3>2. IsFiniteSet(a.held)
      BY <1>1
    <3>3. IsFiniteSet(a.held \cup {o})
      BY <3>1, <3>2, FS_Union
    <3> QED BY <1>7, <3>3, Zenon
  <2>3. \A m \in y.held : n <= m
    BY <1>3, <1>7, <1>11, <1>14
  <2>4. \A m \in y.skipped : m \notin y.held /\ m \notin Gone(y)
    BY <1>1, <1>7, <1>10, <1>14
  <2>5. AggOk(from, y)
    BY <1>1, <1>3, <1>7, <1>8, <1>11, <2>2, <2>3, <2>4 DEF AggOk
  <2>6. DrainOk(from, y, Drain(y))
    BY <1>3, <1>7, <2>5, DrainKeeps
  <2> DEFINE b == Drain(y)
  <2>7. /\ AggOk(from, b) /\ b.next # Unset /\ b.skipped = a.skipped
        /\ Gone(b) \cup b.held = Gone(a) \cup (a.held \cup {o})
    BY <1>7, <2>6 DEF DrainOk
  <2> HIDE DEF b
  <2>8. OfferOk(from, a, o, closed, b)
    BY <2>7 DEF OfferOk
  <2> QED BY <2>1, <2>8 DEF b
<1> QED BY <1>13, <1>14

(* What is declared missing is in no candle of the series. *)
SkipOk(from, a, gone, b) ==
    /\ AggOk(from, b) /\ (b.next = Unset <=> a.next = Unset)
    /\ b.skipped \subseteq a.skipped \cup gone
    /\ Gone(b) \cup b.held = Gone(a) \cup a.held

LEMMA SkipKeeps ==
    ASSUME NEW from \in Nat, NEW a, AggOk(from, a), NEW gone \in SUBSET Nat, IsFiniteSet(gone)
    PROVE  SkipOk(from, a, gone, skip(a, gone))
<1> DEFINE new == {m \in gone : ~Known(a, m)}
           x == Declared(a, gone)
<1>1. /\ a \in Aggregators /\ IsFiniteSet(a.held) /\ IsFiniteSet(a.skipped)
      /\ a.held \in SUBSET Nat /\ a.skipped \in SUBSET Nat /\ a.next \in Int /\ a.released \in Seq(Nat)
      /\ \A m \in a.skipped : m \notin a.held /\ m \notin Gone(a)
      /\ InOrder(a.released)
      /\ a.next = Unset => a.held = {} /\ a.released = <<>>
      /\ a.next # Unset =>
           /\ from <= a.next
           /\ \A i \in 1 .. Len(a.released) : from <= a.released[i] /\ a.released[i] < a.next
           /\ \A m \in a.held : a.next <= m
           /\ \A m \in from .. (a.next - 1) : m \in Gone(a) \/ m \in a.skipped
  BY DEF AggOk, Aggregators
<1>2. a = [next |-> a.next, held |-> a.held, released |-> a.released, skipped |-> a.skipped]
  BY <1>1 DEF Aggregators
<1>3. x = [next |-> a.next, held |-> a.held, released |-> a.released, skipped |-> a.skipped \cup new]
  <2>1. x = [a EXCEPT !.skipped = a.skipped \cup new]
    BY DEF Declared
  <2> HIDE DEF new, x
  <2> QED BY <1>2, <2>1
<1>4. x.next = a.next /\ x.held = a.held /\ x.released = a.released /\ x.skipped = a.skipped \cup new /\ Gone(x) = Gone(a)
  BY <1>3 DEF Gone
<1>5. new \subseteq gone /\ \A m \in new : m \notin a.held /\ m \notin Gone(a)
  BY <1>1, GoneIsReleased DEF Known, Waiting
<1>S. skip(a, gone) = IF a.next = Unset THEN x ELSE Drain(x)
  BY DEF skip
<1> HIDE DEF new, x
<1>6. x \in Aggregators
  BY <1>1, <1>3, <1>5 DEF Aggregators
<1>7. IsFiniteSet(x.skipped)
  <2>1. IsFiniteSet(new)
    <3>1. new \in SUBSET gone
      BY <1>5
    <3> QED BY <3>1, FS_Subset
  <2>2. IsFiniteSet(a.skipped)
    BY <1>1
  <2>3. IsFiniteSet(a.skipped \cup new)
    BY <2>1, <2>2, FS_Union
  <2>4. x.skipped = a.skipped \cup new
    BY <1>4
  <2> QED BY <2>3, <2>4, Zenon
<1>8. AggOk(from, x)
  BY <1>1, <1>4, <1>5, <1>6, <1>7 DEF AggOk
<1>9. CASE a.next = Unset
  BY <1>4, <1>5, <1>8, <1>9, <1>S DEF SkipOk
<1>10. CASE a.next # Unset
  <2>1. DrainOk(from, x, Drain(x)) /\ skip(a, gone) = Drain(x)
    BY <1>4, <1>8, <1>10, <1>S, DrainKeeps
  <2> QED BY <1>4, <1>5, <1>10, <2>1 DEF DrainOk, SkipOk
<1> QED BY <1>9, <1>10

(* What is left at the end goes out behind the rest. *)
FlushOk(a, b) ==
    /\ b.released \in Seq(Nat) /\ InOrder(b.released)
    /\ Gone(a) \cup a.held \subseteq Gone(b) \cup b.held

LEMMA FlushKeeps ==
    ASSUME NEW from \in Nat, NEW a, AggOk(from, a)
    PROVE  FlushOk(a, flush(a))
<1>1. /\ a \in Aggregators /\ IsFiniteSet(a.held) /\ InOrder(a.released) /\ a.next \in Int
      /\ a.held \in SUBSET Nat /\ a.released \in Seq(Nat)
  BY DEF AggOk, Aggregators
<1>2. CASE a.held = {}
  BY <1>1, <1>2 DEF flush, FlushOk
<1>3. CASE a.held # {}
  <2> DEFINE e == Emit(a, a.held)
             b == flush(a)
  <2>1. /\ e \in Aggregators /\ e.held = a.held \ a.held /\ e.released = a.released \o Ascending(a.held)
        /\ Rising(a.held, Ascending(a.held))
    BY <1>1, EmitFacts
  <2>2. b = [e EXCEPT !.next = 1 + Max(a.held)]
    BY <1>3 DEF flush
  <2> HIDE DEF e, b
  <2>3. b.released = e.released /\ b.held = e.held
    BY <2>1, <2>2 DEF Aggregators
  <2>4. AllBelow(a.released, a.held)
    <3>1. a.next # Unset
      BY <1>3 DEF AggOk
    <3>2. /\ \A i \in 1 .. Len(a.released) : a.released[i] < a.next
          /\ \A m \in a.held : a.next <= m
      BY <3>1 DEF AggOk
    <3>3. \A i \in 1 .. Len(a.released) : a.released[i] \in Nat
      BY <1>1 DEF Aggregators
    <3> QED BY <1>1, <3>2, <3>3 DEF AllBelow
  <2>5. Emitted(a, a.held, Ascending(a.held), e)
    BY <1>1, <2>1, <2>4 DEF Emitted
  <2>6. EmittedOk(a, a.held, e)
    BY <2>5, EmitInOrder
  <2>7. InOrder(b.released) /\ Gone(b) = Gone(a) \cup a.held
    BY <2>3, <2>6 DEF EmittedOk, Gone
  <2>8. FlushOk(a, b)
    BY <2>1, <2>3, <2>7 DEF FlushOk, Aggregators
  <2> QED BY <2>8 DEF b
<1> QED BY <1>2, <1>3

(* The gap detector: its candidates and its gaps. *)
Holes == [missing : SUBSET Nat, created : Int]

GapRecords == [stream : {"KLINES", "TRADES"}, keys : SUBSET Nat, missing : SUBSET Nat,
               status : Statuses, filled : Int]

Detectors == [latest : Int, kLo : Int, kClosed : SUBSET Int, tLo : Int, tMax : Int,
              pending : Seq(Holes), gaps : Seq(GapRecords)]

(* A gap is finite, misses some of its keys, and is FILLED only when it misses none *)
(* and counts all; its minutes belong to the series that began at from.             *)
GapOk(from, g) ==
    /\ g \in GapRecords
    /\ IsFiniteSet(g.keys) /\ g.missing \subseteq g.keys
    /\ g.status = "FILLED" => g.missing = {} /\ g.filled = Cardinality(g.keys)
    /\ g.stream = "KLINES" => \A m \in g.keys : from <= m

Fresh(from, g) == GapOk(from, g) /\ g.missing = g.keys

DetOk(from, d) ==
    /\ d \in Detectors
    /\ d.kLo # Unset => from <= d.kLo
    /\ \A k \in 1 .. Len(d.gaps) : GapOk(from, d.gaps[k])
    /\ d.kLo = Unset => \A k \in 1 .. Len(d.gaps) : d.gaps[k].stream # "KLINES"
    /\ \A h \in ToSet(d.pending) : IsFiniteSet(h.missing)

(* From d to e the gaps are the same, but that the key of the stream may have come; *)
(* new ones stand behind them and miss all their keys.                              *)
DetStep(stream, key, d, e) ==
    /\ Len(d.gaps) <= Len(e.gaps)
    /\ \A k \in 1 .. Len(d.gaps) :
          \/ e.gaps[k] = d.gaps[k]
          \/ /\ d.gaps[k].stream = stream /\ key \in d.gaps[k].missing
             /\ e.gaps[k] = Arrived(d.gaps[k], key)
    /\ \A k \in 1 .. Len(e.gaps) : k \in 1 .. Len(d.gaps) \/ e.gaps[k].missing = e.gaps[k].keys

InGap(d, i) == \E k \in 1 .. Len(d.gaps) : d.gaps[k].stream = "TRADES" /\ i \in d.gaps[k].missing

(* The same to the trades. *)
TradesSame(d, e) ==
    /\ e.tLo = d.tLo /\ e.tMax = d.tMax /\ e.pending = d.pending
    /\ \A i \in Nat : InGap(e, i) <=> InGap(d, i)

LEMMA MembersAre == ASSUME NEW V, NEW q \in Seq(V) PROVE ToSet(q) = {q[i] : i \in 1 .. Len(q)}
<1>1. DOMAIN q = 1 .. Len(q)
  OBVIOUS
<1> QED BY <1>1 DEF ToSet

LEMMA KeptSet ==
    ASSUME NEW V, NEW q \in Seq(V), NEW K
    PROVE  Kept(q, K) \in Seq(V) /\ ToSet(Kept(q, K)) = ToSet(q) \cap K
<1> DEFINE t == Kept(q, K)
<1>1. /\ t \in Seq(V)
      /\ \A j \in 1 .. Len(t) : \E a \in 1 .. Len(q) : t[j] = q[a] /\ q[a] \in K
      /\ \A a \in 1 .. Len(q) : q[a] \in K => \E j \in 1 .. Len(t) : t[j] = q[a]
  BY KeptMembers
<1> HIDE DEF t
<1>2. ToSet(t) = {t[i] : i \in 1 .. Len(t)} /\ ToSet(q) = {q[i] : i \in 1 .. Len(q)}
  BY <1>1, MembersAre
<1>3. ToSet(t) = ToSet(q) \cap K
  BY <1>1, <1>2
<1> QED BY <1>1, <1>3 DEF t

LEMMA DetectorFields ==
    ASSUME NEW d \in Detectors
    PROVE  /\ d = [latest |-> d.latest, kLo |-> d.kLo, kClosed |-> d.kClosed, tLo |-> d.tLo,
                   tMax |-> d.tMax, pending |-> d.pending, gaps |-> d.gaps]
           /\ d.latest \in Int /\ d.kLo \in Int /\ d.kClosed \in SUBSET Int /\ d.tLo \in Int
           /\ d.tMax \in Int /\ d.pending \in Seq(Holes) /\ d.gaps \in Seq(GapRecords)
           /\ Len(d.gaps) \in Nat /\ DOMAIN d.gaps = 1 .. Len(d.gaps)
           /\ Len(d.pending) \in Nat /\ DOMAIN d.pending = 1 .. Len(d.pending)
BY DEF Detectors

(* A step that leaves the gaps. *)
LEMMA SameGaps ==
    ASSUME NEW d, NEW e, e.gaps = d.gaps, d.gaps \in Seq(GapRecords), NEW stream, NEW key
    PROVE  DetStep(stream, key, d, e)
<1>1. Len(d.gaps) \in Nat
  OBVIOUS
<1> QED BY <1>1 DEF DetStep

(* One step after another. *)
LEMMA DetStepsCompose ==
    ASSUME NEW c \in Detectors, NEW d \in Detectors, NEW e \in Detectors, NEW stream, NEW key,
           DetStep(stream, key, c, d), DetStep("none", 0, d, e),
           \A k \in 1 .. Len(d.gaps) : d.gaps[k].stream \in {"KLINES", "TRADES"}
    PROVE  DetStep(stream, key, c, e)
<1>1. Len(c.gaps) \in Nat /\ Len(d.gaps) \in Nat /\ Len(e.gaps) \in Nat
  BY DetectorFields
<1>2. \A k \in 1 .. Len(d.gaps) : e.gaps[k] = d.gaps[k]
  BY DEF DetStep
<1>3. 1 .. Len(c.gaps) \subseteq 1 .. Len(d.gaps) /\ Len(c.gaps) <= Len(e.gaps)
  BY <1>1 DEF DetStep
<1>4. \A k \in 1 .. Len(c.gaps) :
          \/ e.gaps[k] = c.gaps[k]
          \/ /\ c.gaps[k].stream = stream /\ key \in c.gaps[k].missing
             /\ e.gaps[k] = Arrived(c.gaps[k], key)
  BY <1>2, <1>3 DEF DetStep
<1>5. \A k \in 1 .. Len(e.gaps) : k \in 1 .. Len(c.gaps) \/ e.gaps[k].missing = e.gaps[k].keys
  BY <1>2, <1>3 DEF DetStep
<1> QED BY <1>3, <1>4, <1>5 DEF DetStep

-----------------------------------------------------------------------------
(* Gaps for sets of keys. *)
KeySetsOk(from, d, stream, keySets) ==
    /\ keySets \in Seq(SUBSET Nat) /\ stream \in {"KLINES", "TRADES"}
    /\ \A k \in 1 .. Len(keySets) : IsFiniteSet(keySets[k])
    /\ stream = "KLINES" => /\ d.kLo # Unset
                            /\ \A k \in 1 .. Len(keySets) : \A m \in keySets[k] : from <= m

Opened(from, d, stream, keySets, e) ==
    /\ DetOk(from, e) /\ DetStep("none", 0, d, e)
    /\ e.latest = d.latest /\ e.kLo = d.kLo /\ e.kClosed = d.kClosed /\ e.tLo = d.tLo
    /\ e.tMax = d.tMax /\ e.pending = d.pending
    /\ \A i \in Nat : InGap(e, i) <=> InGap(d, i) \/ (stream = "TRADES" /\ \E k \in 1 .. Len(keySets) : i \in keySets[k])

LEMMA OpenFacts ==
    ASSUME NEW from, NEW d, DetOk(from, d), NEW stream, NEW keySets, KeySetsOk(from, d, stream, keySets)
    PROVE  Opened(from, d, stream, keySets, Open(d, stream, keySets))
<1> DEFINE new == [k \in DOMAIN keySets |-> Gap(stream, keySets[k])]
           G == d.gaps
           H == d.gaps \o new
           e == Open(d, stream, keySets)
<1>1. /\ d \in Detectors /\ keySets \in Seq(SUBSET Nat) /\ stream \in {"KLINES", "TRADES"}
      /\ \A k \in 1 .. Len(keySets) : IsFiniteSet(keySets[k])
  BY DEF DetOk, KeySetsOk
<1>2. DOMAIN keySets = 1 .. Len(keySets) /\ Len(keySets) \in Nat /\ \A k \in 1 .. Len(keySets) : keySets[k] \in SUBSET Nat
  BY <1>1
<1>3. \A k \in 1 .. Len(keySets) :
          /\ new[k] = Gap(stream, keySets[k]) /\ new[k] \in GapRecords
          /\ new[k].stream = stream /\ new[k].missing = keySets[k] /\ new[k].keys = keySets[k]
          /\ new[k].status = "OPEN"
  BY <1>1, <1>2 DEF Gap, GapRecords, Statuses
<1>4. new \in Seq(GapRecords) /\ Len(new) = Len(keySets)
  <2>1. new \in [1 .. Len(keySets) -> GapRecords]
    BY <1>2, <1>3
  <2> HIDE DEF new
  <2> QED BY <1>2, <2>1
<1>5. /\ d = [latest |-> d.latest, kLo |-> d.kLo, kClosed |-> d.kClosed, tLo |-> d.tLo,
              tMax |-> d.tMax, pending |-> d.pending, gaps |-> d.gaps]
      /\ d.latest \in Int /\ d.kLo \in Int /\ d.kClosed \in SUBSET Int /\ d.tLo \in Int
      /\ d.tMax \in Int /\ d.pending \in Seq(Holes) /\ d.gaps \in Seq(GapRecords)
      /\ Len(d.gaps) \in Nat
  BY <1>1, DetectorFields
<1>6. e = [d EXCEPT !.gaps = H]
  BY DEF Open
<1> HIDE DEF new
<1>7. /\ H \in Seq(GapRecords) /\ Len(H) = Len(G) + Len(keySets)
      /\ \A k \in 1 .. Len(G) : H[k] = G[k]
      /\ \A k \in 1 .. Len(keySets) : H[Len(G) + k] = new[k]
  <2>1. G \in Seq(GapRecords) /\ Len(G) \in Nat /\ H = G \o new
    BY <1>5
  <2> HIDE DEF G, H
  <2>a. new \in Seq(GapRecords) /\ G \in Seq(GapRecords)
    BY <1>4, <2>1
  <2>b. G \o new \in Seq(GapRecords)
    BY <2>a
  <2>c. Len(G \o new) = Len(G) + Len(new)
    BY <2>a
  <2>2. H \in Seq(GapRecords) /\ Len(H) = Len(G) + Len(new)
    BY <2>1, <2>b, <2>c
  <2>3. \A k \in 1 .. Len(G) : H[k] = G[k]
    BY <1>4, <2>1
  <2>4. \A k \in 1 .. Len(new) : H[Len(G) + k] = new[k]
    BY <1>4, <2>1
  <2> QED BY <1>4, <2>2, <2>3, <2>4
<1> HIDE DEF H
<1>8. e = [latest |-> d.latest, kLo |-> d.kLo, kClosed |-> d.kClosed, tLo |-> d.tLo,
           tMax |-> d.tMax, pending |-> d.pending, gaps |-> H]
  <2> HIDE DEF e
  <2> QED BY <1>5, <1>6
<1> HIDE DEF e
<1>9. /\ e.latest = d.latest /\ e.kLo = d.kLo /\ e.kClosed = d.kClosed /\ e.tLo = d.tLo
      /\ e.tMax = d.tMax /\ e.pending = d.pending /\ e.gaps = H
  BY <1>8
<1>10. e \in Detectors
  BY <1>5, <1>7, <1>8 DEF Detectors
<1>11. \A k \in 1 .. Len(H) : k \in 1 .. Len(G) \/ \E j \in 1 .. Len(keySets) : k = Len(G) + j /\ H[k] = new[j]
  <2> TAKE k \in 1 .. Len(H)
  <2>1. CASE k <= Len(G)
    BY <1>5, <1>7, <2>1
  <2>2. CASE ~(k <= Len(G))
    <3>1. k - Len(G) \in 1 .. Len(keySets) /\ Len(G) + (k - Len(G)) = k
      BY <1>2, <1>5, <1>7, <2>2
    <3> QED BY <1>7, <3>1
  <2> QED BY <2>1, <2>2
<1>12. \A j \in 1 .. Len(keySets) : GapOk(from, new[j])
  BY <1>1, <1>3 DEF GapOk, KeySetsOk
<1>13. \A k \in 1 .. Len(G) : GapOk(from, G[k])
  BY DEF DetOk
<1>14. \A k \in 1 .. Len(H) : GapOk(from, H[k])
  BY <1>7, <1>11, <1>12, <1>13
<1>15. d.kLo = Unset => \A k \in 1 .. Len(H) : H[k].stream # "KLINES"
  <2> SUFFICES ASSUME d.kLo = Unset, NEW k \in 1 .. Len(H) PROVE H[k].stream # "KLINES"
    OBVIOUS
  <2>1. stream # "KLINES" /\ \A j \in 1 .. Len(G) : G[j].stream # "KLINES"
    BY DEF DetOk, KeySetsOk
  <2>2. CASE k \in 1 .. Len(G)
    BY <1>7, <2>1, <2>2
  <2>3. ASSUME NEW j \in 1 .. Len(keySets), H[k] = new[j] PROVE H[k].stream # "KLINES"
    BY <1>3, <2>1, <2>3
  <2> QED BY <1>11, <2>2, <2>3
<1>16. DetOk(from, e)
  BY <1>9, <1>10, <1>14, <1>15 DEF DetOk
<1>17. DetStep("none", 0, d, e)
  <2>1. Len(G) <= Len(H)
    BY <1>2, <1>5, <1>7
  <2>2. \A k \in 1 .. Len(H) : k \in 1 .. Len(G) \/ H[k].missing = H[k].keys
    <3>1. \A j \in 1 .. Len(keySets) : new[j].missing = new[j].keys
      BY <1>3
    <3> HIDE DEF G
    <3> QED BY <1>11, <3>1
  <2> QED BY <1>7, <1>9, <2>1, <2>2 DEF DetStep
<1>18. ASSUME NEW i \in Nat
       PROVE  InGap(e, i) <=> InGap(d, i) \/ (stream = "TRADES" /\ \E k \in 1 .. Len(keySets) : i \in keySets[k])
  <2>1. InGap(e, i) <=> \E k \in 1 .. Len(H) : H[k].stream = "TRADES" /\ i \in H[k].missing
    BY <1>9 DEF InGap
  <2>2. InGap(d, i) <=> \E k \in 1 .. Len(G) : G[k].stream = "TRADES" /\ i \in G[k].missing
    BY DEF InGap
  <2>3. \A k \in 1 .. Len(G) : k \in 1 .. Len(H)
    BY <1>2, <1>5, <1>7
  <2>4. \A k \in 1 .. Len(keySets) : Len(G) + k \in 1 .. Len(H)
    BY <1>2, <1>5, <1>7
  <2>5. \A k \in 1 .. Len(keySets) : new[k].stream = stream /\ new[k].missing = keySets[k]
    BY <1>3
  <2> HIDE DEF G
  <2>6. ASSUME NEW k \in 1 .. Len(H), H[k].stream = "TRADES", i \in H[k].missing
        PROVE  InGap(d, i) \/ (stream = "TRADES" /\ \E j \in 1 .. Len(keySets) : i \in keySets[j])
    <3>1. CASE k \in 1 .. Len(G)
      BY <1>7, <2>2, <2>6, <3>1
    <3>2. CASE \E j \in 1 .. Len(keySets) : k = Len(G) + j /\ H[k] = new[j]
      <4>1. PICK j \in 1 .. Len(keySets) : H[k] = new[j]
        BY <3>2
      <4> QED BY <2>5, <2>6, <4>1
    <3> QED BY <1>11, <3>1, <3>2
  <2>7. ASSUME InGap(d, i) PROVE InGap(e, i)
    <3>1. PICK k \in 1 .. Len(G) : G[k].stream = "TRADES" /\ i \in G[k].missing
      BY <2>2, <2>7
    <3>2. k \in 1 .. Len(H) /\ H[k] = G[k]
      BY <1>7, <2>3
    <3> QED BY <2>1, <3>1, <3>2
  <2>8. ASSUME stream = "TRADES", NEW k \in 1 .. Len(keySets), i \in keySets[k] PROVE InGap(e, i)
    <3>1. Len(G) + k \in 1 .. Len(H) /\ H[Len(G) + k] = new[k]
      BY <1>7, <2>4
    <3> QED BY <2>1, <2>5, <2>8, <3>1
  <2> QED BY <2>1, <2>6, <2>7, <2>8
<1> QED BY <1>9, <1>16, <1>17, <1>18 DEF Opened, e

-----------------------------------------------------------------------------
(* The clock, the sweep and the confirmation. *)
DetMoves(from, d, e) ==
    /\ DetOk(from, e) /\ DetStep("none", 0, d, e)
    /\ e.kLo = Unset <=> d.kLo = Unset

LEMMA AdvanceKeeps ==
    ASSUME NEW from, NEW d, DetOk(from, d), NEW ts \in Int
    PROVE  DetMoves(from, d, Advance(d, ts)) /\ TradesSame(d, Advance(d, ts))
           /\ Advance(d, ts).kLo = d.kLo /\ Advance(d, ts).gaps = d.gaps
<1> DEFINE l == IF ts > d.latest THEN ts ELSE d.latest
           e == Advance(d, ts)
<1>1. /\ d \in Detectors
      /\ d = [latest |-> d.latest, kLo |-> d.kLo, kClosed |-> d.kClosed, tLo |-> d.tLo,
              tMax |-> d.tMax, pending |-> d.pending, gaps |-> d.gaps]
      /\ d.latest \in Int /\ d.gaps \in Seq(GapRecords)
  BY DetectorFields DEF DetOk
<1>2. e = [d EXCEPT !.latest = l]
  BY DEF Advance
<1>3. l \in Int
  BY <1>1
<1> HIDE DEF l
<1>4. e = [latest |-> l, kLo |-> d.kLo, kClosed |-> d.kClosed, tLo |-> d.tLo,
           tMax |-> d.tMax, pending |-> d.pending, gaps |-> d.gaps]
  <2> HIDE DEF e
  <2> QED BY <1>1, <1>2
<1> HIDE DEF e
<1>5. e \in Detectors /\ e.kLo = d.kLo /\ e.gaps = d.gaps /\ e.pending = d.pending /\ e.tLo = d.tLo /\ e.tMax = d.tMax
  BY <1>1, <1>3, <1>4 DEF Detectors
<1>6. DetOk(from, e) /\ DetStep("none", 0, d, e)
  BY <1>1, <1>5, SameGaps DEF DetOk
<1>7. TradesSame(d, e)
  BY <1>5 DEF TradesSame, InGap
<1> QED BY <1>5, <1>6, <1>7 DEF DetMoves, e

LEMMA RunsAre ==
    ASSUME NEW S \in SUBSET Nat, IsFiniteSet(S)
    PROVE  /\ Runs(S) \in Seq(SUBSET Nat)
           /\ \A k \in 1 .. Len(Runs(S)) : Runs(S)[k] \subseteq S /\ IsFiniteSet(Runs(S)[k])
<1> DEFINE first == {m \in S : m - 1 \notin S}
           starts == Ascending(first)
           r == [k \in DOMAIN starts |-> {m \in S : m >= starts[k] /\ starts[k] .. m \subseteq S}]
<1>1. Runs(S) = r
  BY DEF Runs
<1>2. Len(starts) \in Nat /\ DOMAIN starts = 1 .. Len(starts)
  <2>0. first \subseteq S
    OBVIOUS
  <2> HIDE DEF first
  <2>a. first \in SUBSET S /\ first \in SUBSET Int
    BY <2>0
  <2>b. IsFiniteSet(first)
    BY <2>a, FS_Subset
  <2>1. IsFiniteSet(first) /\ first \in SUBSET Int
    BY <2>a, <2>b
  <2>2. starts \in Seq(first)
    BY <2>1, AscendingRises DEF Rising
  <2> QED BY <2>2
<1> HIDE DEF starts
<1>3. \A k \in 1 .. Len(starts) : r[k] \subseteq S
  BY <1>2
<1>4. r \in [1 .. Len(starts) -> SUBSET Nat]
  BY <1>2, <1>3
<1> HIDE DEF r
<1>5. r \in Seq(SUBSET Nat) /\ Len(r) = Len(starts)
  BY <1>2, <1>4
<1>6. \A k \in 1 .. Len(starts) : IsFiniteSet(r[k])
  BY <1>3, FS_Subset
<1> QED BY <1>1, <1>3, <1>5, <1>6

LEMMA SweepKeeps ==
    ASSUME PipelineAssumption, NEW from \in Nat, NEW d, DetOk(from, d)
    PROVE  DetMoves(from, d, Sweep(d)) /\ TradesSame(d, Sweep(d))
<1>1. /\ d \in Detectors /\ d.latest \in Int /\ d.kLo \in Int /\ d.gaps \in Seq(GapRecords)
      /\ d.kClosed \in SUBSET Int
  BY DetectorFields DEF DetOk
<1>2. CASE d.kLo = Unset \/ d.latest = Unset
  <2>1. Sweep(d) = d
    BY <1>2 DEF Sweep
  <2>2. DetStep("none", 0, d, d)
    BY <1>1, SameGaps
  <2> QED BY <2>1, <2>2 DEF DetMoves, TradesSame
<1>3. CASE ~(d.kLo = Unset \/ d.latest = Unset)
  <2> DEFINE n == SettledUpTo(d)
             settled == d.kLo .. (n - 1)
             lost == settled \ d.kClosed
             keySets == Runs(lost)
             x == Open(d, "KLINES", keySets)
             closed == d.kClosed \ settled
             e == Sweep(d)
  <2>1. n \in Int /\ d.kLo <= n
    <3>1. Grace \in Nat /\ TF \in Nat /\ TF > 0
      BY DEF PipelineAssumption
    <3>2. (d.latest - Grace) \div TF \in Int
      BY <1>1, <3>1
    <3> QED BY <1>1, <3>2 DEF SettledUpTo
  <2>2. e = [x EXCEPT !.kLo = n, !.kClosed = x.kClosed \ settled]
    BY <1>3 DEF Sweep
  <2> HIDE DEF n
  <2>3. from <= d.kLo
    BY <1>3 DEF DetOk
  <2>4. lost \in SUBSET Nat /\ IsFiniteSet(lost) /\ \A m \in lost : from <= m
    <3>1. IsFiniteSet(settled)
      BY <1>1, <2>1, FS_Interval
    <3>2. IsFiniteSet(lost)
      BY <3>1, FS_Subset
    <3> QED BY <1>1, <2>1, <2>3, <3>2
  <2> HIDE DEF settled, lost
  <2>5. keySets \in Seq(SUBSET Nat)
        /\ \A k \in 1 .. Len(keySets) : keySets[k] \subseteq lost /\ IsFiniteSet(keySets[k])
    BY <2>4, RunsAre
  <2> HIDE DEF keySets
  <2>6. KeySetsOk(from, d, "KLINES", keySets)
    BY <1>3, <2>4, <2>5 DEF KeySetsOk
  <2>7. Opened(from, d, "KLINES", keySets, x)
    BY <2>6, OpenFacts
  <2> HIDE DEF x, e
  <2>8. /\ DetOk(from, x) /\ DetStep("none", 0, d, x)
        /\ x.kLo = d.kLo /\ x.kClosed = d.kClosed /\ x.tLo = d.tLo
        /\ x.tMax = d.tMax /\ x.pending = d.pending
        /\ \A i \in Nat : InGap(x, i) <=> InGap(d, i)
    BY <2>7 DEF Opened
  <2>9. x \in Detectors /\ x.gaps \in Seq(GapRecords)
        /\ x = [latest |-> x.latest, kLo |-> x.kLo, kClosed |-> x.kClosed, tLo |-> x.tLo,
                tMax |-> x.tMax, pending |-> x.pending, gaps |-> x.gaps]
        /\ x.kClosed \ settled \in SUBSET Int
    BY <1>1, <2>8, DetectorFields DEF DetOk
  <2>10. e = [latest |-> x.latest, kLo |-> n, kClosed |-> x.kClosed \ settled, tLo |-> x.tLo,
              tMax |-> x.tMax, pending |-> x.pending, gaps |-> x.gaps]
    BY <2>2, <2>9
  <2>11. e \in Detectors
    BY <2>1, <2>9, <2>10 DEF Detectors
  <2>12. e.kLo = n /\ e.gaps = x.gaps /\ e.tLo = x.tLo /\ e.tMax = x.tMax /\ e.pending = x.pending
    BY <2>10
  <2>13. n # Unset /\ from <= n
    BY <1>1, <2>1, <2>3 DEF Unset
  <2>14. DetOk(from, e)
    BY <2>8, <2>11, <2>12, <2>13 DEF DetOk
  <2>15. DetStep("none", 0, d, e)
    BY <2>8, <2>12 DEF DetStep
  <2>16. TradesSame(d, e)
    BY <2>8, <2>12 DEF TradesSame, InGap
  <2> QED BY <1>3, <2>12, <2>13, <2>14, <2>15, <2>16 DEF DetMoves, e
<1> QED BY <1>2, <1>3

(* The candidates of S are gaps now, and no candidates. *)
Confirmed(d, S, e) ==
    /\ e.tLo = d.tLo /\ e.tMax = d.tMax
    /\ ToSet(e.pending) = ToSet(d.pending) \ S
    /\ \A i \in Nat : InGap(e, i) <=> InGap(d, i) \/ \E h \in ToSet(d.pending) \cap S : i \in h.missing

LEMMA ConfirmMoves ==
    ASSUME NEW from \in Nat, NEW d, DetOk(from, d), NEW force
    PROVE  DetMoves(from, d, Confirm(d, force)) /\ Confirmed(d, Sure(d, force), Confirm(d, force))
<1> DEFINE S == Sure(d, force)
           q == d.pending
           sure == Kept(q, S)
           keySets == [k \in DOMAIN sure |-> sure[k].missing]
           x == Open(d, "TRADES", keySets)
           e == Confirm(d, force)
<1>1. d \in Detectors /\ q \in Seq(Holes) /\ \A h \in ToSet(q) : IsFiniteSet(h.missing)
  BY DetectorFields DEF DetOk
<1>2. e = [x EXCEPT !.pending = Kept(x.pending, ToSet(x.pending) \ S)]
  BY DEF Confirm
<1> HIDE DEF S, q
<1>3. sure \in Seq(Holes) /\ ToSet(sure) = ToSet(q) \cap S
  BY <1>1, KeptSet
<1> HIDE DEF sure
<1>4. /\ Len(sure) \in Nat /\ DOMAIN sure = 1 .. Len(sure)
      /\ ToSet(sure) = {sure[k] : k \in 1 .. Len(sure)}
      /\ \A k \in 1 .. Len(sure) : sure[k] \in Holes
  BY <1>3, MembersAre
<1>5. \A k \in 1 .. Len(sure) : keySets[k] = sure[k].missing /\ keySets[k] \in SUBSET Nat
  BY <1>4 DEF Holes
<1>6. keySets \in Seq(SUBSET Nat) /\ Len(keySets) = Len(sure)
  <2>1. keySets \in [1 .. Len(sure) -> SUBSET Nat]
    BY <1>4, <1>5
  <2> HIDE DEF keySets
  <2> QED BY <1>4, <2>1
<1> HIDE DEF keySets
<1>7. \A k \in 1 .. Len(keySets) : IsFiniteSet(keySets[k])
  BY <1>1, <1>3, <1>4, <1>5, <1>6
<1>8. KeySetsOk(from, d, "TRADES", keySets)
  BY <1>6, <1>7 DEF KeySetsOk
<1>9. Opened(from, d, "TRADES", keySets, x)
  BY <1>8, OpenFacts
<1> HIDE DEF x, e
<1>10. /\ DetOk(from, x) /\ DetStep("none", 0, d, x)
       /\ x.kLo = d.kLo /\ x.tLo = d.tLo /\ x.tMax = d.tMax /\ x.pending = q
       /\ \A i \in Nat : InGap(x, i) <=> InGap(d, i) \/ \E k \in 1 .. Len(keySets) : i \in keySets[k]
  BY <1>9 DEF Opened, q
<1>11. /\ x \in Detectors
       /\ x = [latest |-> x.latest, kLo |-> x.kLo, kClosed |-> x.kClosed, tLo |-> x.tLo,
               tMax |-> x.tMax, pending |-> x.pending, gaps |-> x.gaps]
  BY <1>10, DetectorFields DEF DetOk
<1> DEFINE p == Kept(q, ToSet(q) \ S)
<1>12. p \in Seq(Holes) /\ ToSet(p) = ToSet(q) \ S
  <2>1. p \in Seq(Holes) /\ ToSet(p) = ToSet(q) \cap (ToSet(q) \ S)
    BY <1>1, KeptSet
  <2> HIDE DEF p
  <2> QED BY <2>1
<1>13. e = [x EXCEPT !.pending = p]
  BY <1>2, <1>10
<1> HIDE DEF p
<1>14. e = [latest |-> x.latest, kLo |-> x.kLo, kClosed |-> x.kClosed, tLo |-> x.tLo,
            tMax |-> x.tMax, pending |-> p, gaps |-> x.gaps]
  BY <1>11, <1>13
<1>15. /\ e \in Detectors /\ e.kLo = x.kLo /\ e.gaps = x.gaps /\ e.tLo = x.tLo /\ e.tMax = x.tMax
       /\ e.pending = p
  BY <1>11, <1>12, <1>14 DEF Detectors
<1>16. \A h \in ToSet(p) : IsFiniteSet(h.missing)
  BY <1>1, <1>12
<1>17. DetOk(from, e)
  BY <1>10, <1>15, <1>16 DEF DetOk
<1>18. DetStep("none", 0, d, e)
  BY <1>10, <1>15 DEF DetStep
<1>19. \A i \in Nat : (\E k \in 1 .. Len(keySets) : i \in keySets[k]) <=> \E h \in ToSet(q) \cap S : i \in h.missing
  BY <1>3, <1>4, <1>5, <1>6
<1>20. \A i \in Nat : InGap(e, i) <=> InGap(x, i)
  BY <1>15 DEF InGap
<1>21. Confirmed(d, S, e)
  BY <1>10, <1>12, <1>15, <1>19, <1>20 DEF Confirmed, q
<1> QED BY <1>10, <1>15, <1>17, <1>18, <1>21 DEF DetMoves, e, S

(* A key that came. *)
LEMMA ArrivedFacts ==
    ASSUME NEW from, NEW g, GapOk(from, g), NEW key, key \in g.missing
    PROVE  /\ GapOk(from, Arrived(g, key))
           /\ Arrived(g, key).stream = g.stream /\ Arrived(g, key).keys = g.keys
           /\ Arrived(g, key).missing = g.missing \ {key}
<1> DEFINE left == g.missing \ {key}
           h == [g EXCEPT !.missing = left]
           a == Arrived(g, key)
           c == Cardinality(g.keys) - Cardinality(left)
<1>1. g = [stream |-> g.stream, keys |-> g.keys, missing |-> g.missing, status |-> g.status, filled |-> g.filled]
  BY DEF GapOk, GapRecords
<1>2. /\ g.stream \in {"KLINES", "TRADES"} /\ g.keys \in SUBSET Nat /\ g.missing \in SUBSET Nat
      /\ g.status \in Statuses /\ g.filled \in Int /\ IsFiniteSet(g.keys) /\ g.missing \subseteq g.keys
      /\ g.status # "FILLED" /\ (g.stream = "KLINES" => \A m \in g.keys : from <= m)
  BY DEF GapOk, GapRecords
<1>3. left \in SUBSET g.keys /\ left \in SUBSET Nat
  BY <1>2
<1> HIDE DEF left
<1>4. h = [stream |-> g.stream, keys |-> g.keys, missing |-> left, status |-> g.status, filled |-> g.filled]
  <2> HIDE DEF h
  <2>1. h = [g EXCEPT !.missing = left]
    BY DEF h
  <2> QED BY <1>1, <2>1
<1>5. IsFiniteSet(left) /\ Cardinality(g.keys) \in Nat /\ Cardinality(left) \in Nat
  BY <1>2, <1>3, FS_Subset, FS_CardinalityType
<1>6. c \in Int
  BY <1>5
<1>7. a = IF h.status = "FILLING" THEN [h EXCEPT !.filled = Counted(h)]
          ELSE IF h.missing = {} THEN [h EXCEPT !.status = "FILLED", !.filled = Counted(h)]
          ELSE h
  BY DEF Arrived, left
<1>8. Counted(h) = c
  BY <1>4 DEF Counted
<1> HIDE DEF h, a
<1>9. left = {} => c = Cardinality(g.keys)
  BY <1>5, FS_EmptySet
<1> HIDE DEF c
<1>10. CASE h.status = "FILLING"
  <2>1. a = [stream |-> g.stream, keys |-> g.keys, missing |-> left, status |-> "FILLING", filled |-> c]
    <3>1. a = [h EXCEPT !.filled = c]
      BY <1>7, <1>8, <1>10
    <3> QED BY <1>4, <1>10, <3>1
  <2> QED BY <1>2, <1>3, <1>6, <2>1 DEF GapOk, GapRecords, Statuses, left, a
<1>11. CASE h.status # "FILLING" /\ h.missing = {}
  <2>0. left = {}
    BY <1>4, <1>11
  <2>1. a = [stream |-> g.stream, keys |-> g.keys, missing |-> left, status |-> "FILLED", filled |-> c]
    <3>1. a = [h EXCEPT !.status = "FILLED", !.filled = c]
      BY <1>7, <1>8, <1>11
    <3> QED BY <1>4, <3>1
  <2>2. a \in GapRecords
    BY <1>2, <1>3, <1>6, <2>1 DEF GapRecords, Statuses
  <2>3. a.stream = g.stream /\ a.keys = g.keys /\ a.missing = left /\ a.filled = c
    BY <2>1
  <2>4. GapOk(from, a)
    BY <1>2, <1>3, <1>9, <2>0, <2>2, <2>3 DEF GapOk
  <2> QED BY <2>3, <2>4 DEF left, a
<1>12. CASE h.status # "FILLING" /\ h.missing # {}
  <2>1. a = h
    BY <1>7, <1>12
  <2> QED BY <1>2, <1>3, <1>4, <2>1 DEF GapOk, GapRecords, left, a
<1> QED BY <1>10, <1>11, <1>12

Filled(from, stream, key, d, e) ==
    /\ DetOk(from, e) /\ DetStep(stream, key, d, e)
    /\ e.kLo = d.kLo /\ e.tLo = d.tLo /\ e.tMax = d.tMax /\ e.pending = d.pending
    /\ \A i \in Nat : InGap(e, i) <=> InGap(d, i) /\ ~(stream = "TRADES" /\ i = key)
    /\ \A k \in 1 .. Len(e.gaps) : e.gaps[k].stream = stream => key \notin e.gaps[k].missing

LEMMA FillKeeps ==
    ASSUME NEW from, NEW d, DetOk(from, d), NEW stream, NEW key
    PROVE  Filled(from, stream, key, d, Fill(d, stream, key))
<1> DEFINE G == d.gaps
           O == OwnerOf(d, stream, key)
           H == [k \in DOMAIN G |-> IF k \in O THEN Arrived(G[k], key) ELSE G[k]]
           e == Fill(d, stream, key)
<1>1. /\ d \in Detectors
      /\ d = [latest |-> d.latest, kLo |-> d.kLo, kClosed |-> d.kClosed, tLo |-> d.tLo,
              tMax |-> d.tMax, pending |-> d.pending, gaps |-> d.gaps]
      /\ G \in Seq(GapRecords) /\ Len(G) \in Nat /\ DOMAIN G = 1 .. Len(G)
      /\ \A k \in 1 .. Len(G) : GapOk(from, G[k])
  BY DetectorFields DEF DetOk
<1>2. e = [d EXCEPT !.gaps = H]
  BY DEF Fill
<1>3. \A k \in 1 .. Len(G) : k \in O <=> G[k].stream = stream /\ key \in G[k].missing
  BY <1>1 DEF OwnerOf
<1> HIDE DEF O, G
<1>4. \A k \in 1 .. Len(G) :
          IF G[k].stream = stream /\ key \in G[k].missing
          THEN /\ H[k] = Arrived(G[k], key) /\ GapOk(from, H[k]) /\ H[k].stream = G[k].stream
               /\ H[k].missing = G[k].missing \ {key}
          ELSE H[k] = G[k]
  BY <1>1, <1>3, ArrivedFacts
<1>5. H \in Seq(GapRecords) /\ Len(H) = Len(G)
  <2>1. \A k \in 1 .. Len(G) : H[k] \in GapRecords
    BY <1>1, <1>4 DEF GapOk
  <2>2. H \in [1 .. Len(G) -> GapRecords]
    BY <1>1, <2>1
  <2> HIDE DEF H
  <2> QED BY <1>1, <2>2
<1> HIDE DEF H, e
<1>6. e = [latest |-> d.latest, kLo |-> d.kLo, kClosed |-> d.kClosed, tLo |-> d.tLo,
           tMax |-> d.tMax, pending |-> d.pending, gaps |-> H]
  BY <1>1, <1>2
<1>7. /\ e.kLo = d.kLo /\ e.tLo = d.tLo /\ e.tMax = d.tMax /\ e.pending = d.pending /\ e.gaps = H
      /\ e \in Detectors
  BY <1>1, <1>5, <1>6 DEF Detectors
<1>8. \A k \in 1 .. Len(H) : GapOk(from, H[k]) /\ H[k].stream = G[k].stream
  BY <1>1, <1>4, <1>5
<1>9. DetOk(from, e)
  BY <1>5, <1>7, <1>8 DEF DetOk, G
<1>10. DetStep(stream, key, d, e)
  <2>1. Len(d.gaps) = Len(e.gaps) /\ Len(e.gaps) \in Nat
    BY <1>1, <1>5, <1>7 DEF G
  <2>2. \A k \in 1 .. Len(d.gaps) :
          \/ e.gaps[k] = d.gaps[k]
          \/ /\ d.gaps[k].stream = stream /\ key \in d.gaps[k].missing
             /\ e.gaps[k] = Arrived(d.gaps[k], key)
    BY <1>4, <1>7 DEF G
  <2> QED BY <2>1, <2>2 DEF DetStep
<1>11. \A k \in 1 .. Len(G) : \A i \in Nat : G[k].stream = "TRADES" =>
          (i \in H[k].missing <=> i \in G[k].missing /\ ~(stream = "TRADES" /\ i = key))
  BY <1>4
<1>12. \A i \in Nat : InGap(e, i) <=> InGap(d, i) /\ ~(stream = "TRADES" /\ i = key)
  <2>1. \A i \in Nat : InGap(e, i) <=> \E k \in 1 .. Len(G) : G[k].stream = "TRADES" /\ i \in H[k].missing
    BY <1>5, <1>7, <1>8 DEF InGap
  <2>2. \A i \in Nat : InGap(d, i) <=> \E k \in 1 .. Len(G) : G[k].stream = "TRADES" /\ i \in G[k].missing
    BY DEF InGap, G
  <2> QED BY <1>11, <2>1, <2>2
<1>13. \A k \in 1 .. Len(e.gaps) : e.gaps[k].stream = stream => key \notin e.gaps[k].missing
  BY <1>4, <1>5, <1>7, <1>8
<1> QED BY <1>7, <1>9, <1>10, <1>12, <1>13 DEF Filled, e

(* A candidate is seen after all. *)
Healed(i, d, e) ==
    /\ e.kLo = d.kLo /\ e.tLo = d.tLo /\ e.tMax = d.tMax /\ e.gaps = d.gaps
    /\ \A h \in ToSet(e.pending) : \E o \in ToSet(d.pending) : h = [o EXCEPT !.missing = o.missing \ {i}]
    /\ \A o \in ToSet(d.pending) : \A j \in o.missing : j # i =>
          \E h \in ToSet(e.pending) : h = [o EXCEPT !.missing = o.missing \ {i}]

LEMMA HealKeeps ==
    ASSUME NEW from, NEW d, DetOk(from, d), NEW i
    PROVE  DetOk(from, Heal(d, i)) /\ Healed(i, d, Heal(d, i))
<1> DEFINE q == d.pending
           r == [k \in DOMAIN q |-> [q[k] EXCEPT !.missing = q[k].missing \ {i}]]
           K == {h \in ToSet(r) : h.missing # {}}
           p == Kept(r, K)
           e == Heal(d, i)
<1>1. /\ d \in Detectors
      /\ d = [latest |-> d.latest, kLo |-> d.kLo, kClosed |-> d.kClosed, tLo |-> d.tLo,
              tMax |-> d.tMax, pending |-> d.pending, gaps |-> d.gaps]
      /\ q \in Seq(Holes) /\ Len(q) \in Nat /\ DOMAIN q = 1 .. Len(q) /\ \A h \in ToSet(q) : IsFiniteSet(h.missing)
  BY DetectorFields DEF DetOk
<1>2. e = [d EXCEPT !.pending = p]
  BY DEF Heal
<1>3. ToSet(q) = {q[k] : k \in 1 .. Len(q)}
  BY <1>1, MembersAre
<1>Q. \A k \in 1 .. Len(q) : q[k] \in Holes
  BY <1>1
<1>4. \A k \in 1 .. Len(q) : r[k] = [q[k] EXCEPT !.missing = q[k].missing \ {i}]
  BY <1>1
<1>5. \A h \in Holes : [h EXCEPT !.missing = h.missing \ {i}] \in Holes
                       /\ [h EXCEPT !.missing = h.missing \ {i}].missing = h.missing \ {i}
  BY DEF Holes
<1> HIDE DEF q
<1>6. r \in Seq(Holes) /\ Len(r) = Len(q)
  <2>1. \A k \in 1 .. Len(q) : r[k] \in Holes
    BY <1>4, <1>5, <1>Q
  <2>2. r \in [1 .. Len(q) -> Holes]
    BY <1>1, <2>1
  <2> HIDE DEF r
  <2> QED BY <1>1, <2>2
<1> HIDE DEF r
<1>7. ToSet(r) = {r[k] : k \in 1 .. Len(q)}
  BY <1>6, MembersAre
<1>8. p \in Seq(Holes) /\ ToSet(p) = ToSet(r) \cap K
  <2> HIDE DEF K
  <2> QED BY <1>6, KeptSet
<1> HIDE DEF p, e
<1>9. e = [latest |-> d.latest, kLo |-> d.kLo, kClosed |-> d.kClosed, tLo |-> d.tLo,
           tMax |-> d.tMax, pending |-> p, gaps |-> d.gaps]
  BY <1>1, <1>2
<1>10. /\ e.kLo = d.kLo /\ e.tLo = d.tLo /\ e.tMax = d.tMax /\ e.pending = p /\ e.gaps = d.gaps
       /\ e \in Detectors
  BY <1>1, <1>8, <1>9 DEF Detectors
<1>11. \A h \in ToSet(p) : \E o \in ToSet(q) : h = [o EXCEPT !.missing = o.missing \ {i}]
  <2> TAKE h \in ToSet(p)
  <2>1. h \in ToSet(r)
    BY <1>8
  <2>2. PICK k \in 1 .. Len(q) : h = r[k]
    BY <1>7, <2>1
  <2>3. q[k] \in ToSet(q)
    BY <1>3
  <2>4. h = [q[k] EXCEPT !.missing = q[k].missing \ {i}]
    BY <1>4, <2>2
  <2> QED BY <2>3, <2>4
<1>12. \A o \in ToSet(q) : o \in Holes
  BY <1>3, <1>Q
<1>13. \A h \in ToSet(p) : IsFiniteSet(h.missing)
  <2> TAKE h \in ToSet(p)
  <2>1. PICK o \in ToSet(q) : h = [o EXCEPT !.missing = o.missing \ {i}]
    BY <1>11
  <2>2. h.missing = o.missing \ {i} /\ IsFiniteSet(o.missing)
    BY <1>1, <1>5, <1>12, <2>1
  <2>3. h.missing \in SUBSET o.missing
    BY <2>2
  <2> QED BY <2>2, <2>3, FS_Subset
<1>14. ASSUME NEW o \in ToSet(q), NEW j \in o.missing, j # i
       PROVE  \E h \in ToSet(p) : h = [o EXCEPT !.missing = o.missing \ {i}]
  <2>1. PICK k \in 1 .. Len(q) : q[k] = o
    BY <1>3
  <2>2. r[k] \in ToSet(r) /\ r[k] = [o EXCEPT !.missing = o.missing \ {i}]
    BY <1>4, <1>7, <2>1
  <2>3. j \in r[k].missing
    BY <1>5, <1>12, <1>14, <2>2
  <2> QED BY <1>8, <2>2, <2>3
<1>15. DetOk(from, e)
  BY <1>10, <1>13 DEF DetOk
<1>16. Healed(i, d, e)
  BY <1>10, <1>11, <1>14 DEF Healed, q
<1> QED BY <1>15, <1>16 DEF e

(* Of the trade ids up to the newest each is seen, in a candidate or missing in a gap, *)
(* never two of these, and no two candidates share one.                                *)
TradesOk(S, d) ==
    /\ d.tMax = Unset => S = {} /\ ToSet(d.pending) = {} /\ \A i \in Nat : ~InGap(d, i)
    /\ d.tMax # Unset => /\ d.tLo \in Nat /\ d.tMax \in Nat
                         /\ \A i \in d.tLo .. d.tMax :
                               i \in S \/ InGap(d, i) \/ \E h \in ToSet(d.pending) : i \in h.missing
    /\ \A i \in S : i <= d.tMax
    /\ \A i \in Nat : InGap(d, i) => i <= d.tMax /\ i \notin S
    /\ \A h \in ToSet(d.pending) : \A i \in h.missing : i <= d.tMax /\ i \notin S /\ ~InGap(d, i)
    /\ \A g, h \in ToSet(d.pending) : \A i \in g.missing : i \in h.missing => g = h

TradesMove(d, e) == \A S \in SUBSET Nat : TradesOk(S, d) => TradesOk(S, e)

LEMMA HolesTyped ==
    ASSUME NEW d \in Detectors
    PROVE  \A h \in ToSet(d.pending) : h \in Holes /\ h.missing \in SUBSET Nat
<1>1. d.pending \in Seq(Holes) /\ ToSet(d.pending) = {d.pending[k] : k \in 1 .. Len(d.pending)}
  BY DetectorFields, MembersAre
<1>2. \A k \in 1 .. Len(d.pending) : d.pending[k] \in Holes
  BY <1>1
<1>3. \A h \in Holes : h.missing \in SUBSET Nat
  BY DEF Holes
<1> QED BY <1>1, <1>2, <1>3

LEMMA TradesSameMove == ASSUME NEW d \in Detectors, NEW e, TradesSame(d, e) PROVE TradesMove(d, e)
<1> SUFFICES ASSUME NEW S \in SUBSET Nat, TradesOk(S, d) PROVE TradesOk(S, e)
  BY DEF TradesMove
<1>1. /\ e.tLo = d.tLo /\ e.tMax = d.tMax /\ e.pending = d.pending
      /\ \A i \in Nat : InGap(e, i) <=> InGap(d, i)
  BY DEF TradesSame
<1>2. d.tMax # Unset => /\ d.tLo \in Nat /\ d.tMax \in Nat
                        /\ \A i \in d.tLo .. d.tMax :
                              i \in S \/ InGap(e, i) \/ \E h \in ToSet(d.pending) : i \in h.missing
  BY <1>1 DEF TradesOk
<1>3. \A h \in ToSet(d.pending) : \A i \in h.missing : i <= d.tMax /\ i \notin S /\ ~InGap(d, i)
  BY DEF TradesOk
<1>4. \A h \in ToSet(d.pending) : \A i \in h.missing : ~InGap(e, i)
  BY <1>1, <1>3, HolesTyped
<1>5. /\ d.tMax = Unset => S = {} /\ ToSet(d.pending) = {} /\ \A i \in Nat : ~InGap(e, i)
      /\ \A i \in S : i <= d.tMax
      /\ \A i \in Nat : InGap(e, i) => i <= d.tMax /\ i \notin S
  BY <1>1 DEF TradesOk
<1>6. \A g, h \in ToSet(d.pending) : \A i \in g.missing : i \in h.missing => g = h
  BY DEF TradesOk
<1> QED BY <1>1, <1>2, <1>3, <1>4, <1>5, <1>6, Zenon DEF TradesOk

LEMMA ConfirmedMove ==
    ASSUME NEW d \in Detectors, NEW e, NEW K, Confirmed(d, K, e)
    PROVE  TradesMove(d, e)
<1> SUFFICES ASSUME NEW S \in SUBSET Nat, TradesOk(S, d) PROVE TradesOk(S, e)
  BY DEF TradesMove
<1> DEFINE P == ToSet(d.pending)
           Q == ToSet(e.pending)
<1>1. /\ e.tLo = d.tLo /\ e.tMax = d.tMax /\ Q = P \ K
      /\ \A i \in Nat : InGap(e, i) <=> InGap(d, i) \/ \E h \in P \cap K : i \in h.missing
  BY DEF Confirmed
<1>2. /\ d.tMax = Unset => S = {} /\ P = {} /\ \A i \in Nat : ~InGap(d, i)
      /\ d.tMax # Unset => /\ d.tLo \in Nat /\ d.tMax \in Nat
                           /\ \A i \in d.tLo .. d.tMax :
                                 i \in S \/ InGap(d, i) \/ \E h \in P : i \in h.missing
      /\ \A i \in S : i <= d.tMax
      /\ \A i \in Nat : InGap(d, i) => i <= d.tMax /\ i \notin S
      /\ \A h \in P : \A i \in h.missing : i <= d.tMax /\ i \notin S /\ ~InGap(d, i)
      /\ \A g, h \in P : \A i \in g.missing : i \in h.missing => g = h
  BY DEF TradesOk
<1>3. \A h \in P : h.missing \in SUBSET Nat
  BY HolesTyped
<1> HIDE DEF P, Q
<1>4. d.tMax # Unset => \A i \in d.tLo .. d.tMax :
          i \in S \/ InGap(e, i) \/ \E h \in Q : i \in h.missing
  <2> SUFFICES ASSUME d.tMax # Unset, NEW i \in d.tLo .. d.tMax
               PROVE  i \in S \/ InGap(e, i) \/ \E h \in Q : i \in h.missing
    OBVIOUS
  <2>1. i \in Nat
    BY <1>2
  <2>2. i \in S \/ InGap(d, i) \/ \E h \in P : i \in h.missing
    BY <1>2
  <2> QED BY <1>1, <2>1, <2>2
<1>5. \A i \in Nat : InGap(e, i) => i <= d.tMax /\ i \notin S
  BY <1>1, <1>2
<1>6. \A h \in Q : \A i \in h.missing : i <= d.tMax /\ i \notin S /\ ~InGap(e, i)
  <2> SUFFICES ASSUME NEW h \in Q, NEW i \in h.missing PROVE i <= d.tMax /\ i \notin S /\ ~InGap(e, i)
    OBVIOUS
  <2>1. h \in P /\ h \notin K /\ i \in Nat
    BY <1>1, <1>3
  <2>2. i <= d.tMax /\ i \notin S /\ ~InGap(d, i)
    BY <1>2, <2>1
  <2>3. \A g \in P \cap K : i \notin g.missing
    BY <1>2, <2>1
  <2> QED BY <1>1, <2>1, <2>2, <2>3
<1>7. \A g, h \in Q : \A i \in g.missing : i \in h.missing => g = h
  BY <1>1, <1>2
<1>8. d.tMax = Unset => S = {} /\ Q = {} /\ \A i \in Nat : ~InGap(e, i)
  BY <1>1, <1>2
<1> QED BY <1>1, <1>2, <1>4, <1>5, <1>6, <1>7, <1>8 DEF TradesOk, Q

-----------------------------------------------------------------------------
(* The handlers. *)
LEMMA MovesCompose ==
    ASSUME NEW from, NEW c, NEW d, NEW e, DetOk(from, c), DetMoves(from, c, d), DetMoves(from, d, e)
    PROVE  DetMoves(from, c, e)
<1>1. /\ c \in Detectors /\ d \in Detectors /\ e \in Detectors
      /\ \A k \in 1 .. Len(d.gaps) : d.gaps[k].stream \in {"KLINES", "TRADES"}
  BY DEF DetOk, DetMoves, GapOk, GapRecords
<1>2. DetStep("none", 0, c, e)
  BY <1>1, DetStepsCompose DEF DetMoves
<1> QED BY <1>2 DEF DetMoves

(* A step of the detector's own, and what it does to the trades. *)
DetTurns(from, d, e) == DetMoves(from, d, e) /\ TradesMove(d, e)

LEMMA TurnsCompose ==
    ASSUME NEW from, NEW c, NEW d, NEW e, DetOk(from, c), DetTurns(from, c, d), DetTurns(from, d, e)
    PROVE  DetTurns(from, c, e)
<1>1. DetMoves(from, c, e)
  BY MovesCompose DEF DetTurns
<1> QED BY <1>1 DEF DetTurns, TradesMove

LEMMA AdvanceTurns ==
    ASSUME NEW from, NEW d, DetOk(from, d), NEW ts \in Int
    PROVE  /\ DetTurns(from, d, Advance(d, ts))
           /\ Advance(d, ts).kLo = d.kLo /\ Advance(d, ts).gaps = d.gaps
<1>1. /\ DetMoves(from, d, Advance(d, ts)) /\ TradesSame(d, Advance(d, ts))
      /\ Advance(d, ts).kLo = d.kLo /\ Advance(d, ts).gaps = d.gaps
  BY AdvanceKeeps
<1>2. d \in Detectors
  BY DEF DetOk
<1> QED BY <1>1, <1>2, TradesSameMove DEF DetTurns

LEMMA SweepTurns ==
    ASSUME PipelineAssumption, NEW from \in Nat, NEW d, DetOk(from, d)
    PROVE  DetTurns(from, d, Sweep(d))
<1>1. DetMoves(from, d, Sweep(d)) /\ TradesSame(d, Sweep(d))
  BY SweepKeeps
<1>2. d \in Detectors
  BY DEF DetOk
<1> QED BY <1>1, <1>2, TradesSameMove DEF DetTurns

LEMMA ConfirmTurns ==
    ASSUME NEW from \in Nat, NEW d, DetOk(from, d), NEW force
    PROVE  DetTurns(from, d, Confirm(d, force))
<1>1. DetMoves(from, d, Confirm(d, force)) /\ Confirmed(d, Sure(d, force), Confirm(d, force))
  BY ConfirmMoves
<1>2. d \in Detectors
  BY DEF DetOk
<1>3. TradesMove(d, Confirm(d, force))
  BY <1>1, <1>2, ConfirmedMove
<1> QED BY <1>1, <1>3 DEF DetTurns

LEMMA OnTimeTurns ==
    ASSUME PipelineAssumption, NEW from \in Nat, NEW d, DetOk(from, d), NEW ts \in Int
    PROVE  DetTurns(from, d, on_time(d, ts))
<1> DEFINE a == Advance(d, ts)
           b == Sweep(a)
           c == Confirm(b, FALSE)
<1>0. on_time(d, ts) = c
  BY DEF on_time
<1>1. DetTurns(from, d, a)
  BY AdvanceTurns
<1> HIDE DEF a
<1>2. DetTurns(from, a, b)
  BY <1>1, SweepTurns DEF DetTurns, DetMoves
<1> HIDE DEF b
<1>3. DetTurns(from, b, c)
  BY <1>2, ConfirmTurns DEF DetTurns, DetMoves
<1> HIDE DEF c
<1>4. DetTurns(from, d, b)
  BY <1>1, <1>2, TurnsCompose
<1> QED BY <1>0, <1>3, <1>4, TurnsCompose

(* A candle, closed or forming. *)
KlineStream(closed) == IF closed THEN "KLINES" ELSE "none"

OnKlineOk(from, d, m, closed, e) ==
    /\ DetOk(from, e) /\ e.kLo # Unset
    /\ DetStep(KlineStream(closed), m, d, e)
    /\ TradesMove(d, e)

LEMMA TurnsAfter ==
    ASSUME NEW from, NEW stream, NEW key, NEW c \in Detectors, NEW d, NEW e, DetOk(from, d),
           DetStep(stream, key, c, d), DetTurns(from, d, e)
    PROVE  DetStep(stream, key, c, e)
<1>1. /\ d \in Detectors /\ e \in Detectors /\ DetStep("none", 0, d, e)
      /\ \A k \in 1 .. Len(d.gaps) : d.gaps[k].stream \in {"KLINES", "TRADES"}
  BY DEF DetOk, DetTurns, DetMoves, GapOk, GapRecords
<1> QED BY <1>1, DetStepsCompose

LEMMA OnKlineKeeps ==
    ASSUME PipelineAssumption, NEW from \in Nat, NEW d, DetOk(from, d), NEW m \in Nat, NEW closed \in BOOLEAN,
           NEW ts \in Int, d.kLo = Unset => from = m
    PROVE  OnKlineOk(from, d, m, closed, on_kline(d, m, closed, ts))
<1> DEFINE a == Advance(d, ts)
           lo == IF a.kLo = Unset THEN m ELSE a.kLo
           b == [a EXCEPT !.kLo = lo]
           c == IF ~closed THEN b
                ELSE IF m < b.kLo THEN Fill(b, "KLINES", m)
                ELSE [b EXCEPT !.kClosed = b.kClosed \cup {m}]
           x == Sweep(c)
           e == Confirm(x, FALSE)
           stream == KlineStream(closed)
<1>0. on_kline(d, m, closed, ts) = e
  BY DEF on_kline
<1>1. DetTurns(from, d, a) /\ a.kLo = d.kLo /\ a.gaps = d.gaps
  BY AdvanceTurns
<1> HIDE DEF a
<1>2. /\ a \in Detectors /\ DetOk(from, a)
      /\ a = [latest |-> a.latest, kLo |-> a.kLo, kClosed |-> a.kClosed, tLo |-> a.tLo,
              tMax |-> a.tMax, pending |-> a.pending, gaps |-> a.gaps]
      /\ a.kLo \in Int /\ a.kClosed \in SUBSET Int /\ a.gaps \in Seq(GapRecords) /\ d \in Detectors
  BY <1>1, DetectorFields DEF DetTurns, DetMoves, DetOk
<1>3. lo \in Int /\ lo # Unset /\ from <= lo
  <2>1. a.kLo # Unset => from <= a.kLo
    BY <1>2 DEF DetOk
  <2> QED BY <1>1, <1>2, <2>1 DEF Unset
<1>4. b = [a EXCEPT !.kLo = lo]
  OBVIOUS
<1> HIDE DEF lo, b
<1>5. b = [latest |-> a.latest, kLo |-> lo, kClosed |-> a.kClosed, tLo |-> a.tLo,
           tMax |-> a.tMax, pending |-> a.pending, gaps |-> a.gaps]
  BY <1>2, <1>4
<1>6. /\ b \in Detectors /\ b.kLo = lo /\ b.kClosed = a.kClosed /\ b.tLo = a.tLo /\ b.tMax = a.tMax
      /\ b.pending = a.pending /\ b.gaps = a.gaps
  BY <1>2, <1>3, <1>5 DEF Detectors
<1>7. DetOk(from, b) /\ TradesSame(a, b)
  BY <1>2, <1>3, <1>6 DEF DetOk, TradesSame, InGap
<1>8. DetStep(stream, m, d, b)
  BY <1>1, <1>2, <1>6, SameGaps
<1>T. TradesMove(d, b)
  BY <1>1, <1>2, <1>7, TradesSameMove DEF DetTurns, TradesMove
<1>9. DetOk(from, c) /\ c.kLo = lo /\ TradesMove(b, c) /\ DetStep(stream, m, d, c)
  <2>1. CASE ~closed
    <3>1. c = b
      BY <2>1
    <3> QED BY <1>6, <1>7, <1>8, <3>1 DEF TradesMove
  <2>2. CASE closed /\ m < b.kLo
    <3>1. c = Fill(b, "KLINES", m) /\ stream = "KLINES"
      BY <2>2 DEF KlineStream
    <3>2. Filled(from, "KLINES", m, b, c)
      BY <1>7, <3>1, FillKeeps
    <3> HIDE DEF c
    <3>3. TradesSame(b, c)
      BY <3>2 DEF Filled, TradesSame
    <3>4. DetStep("KLINES", m, b, c) /\ DetOk(from, c) /\ c.kLo = lo
      BY <1>6, <3>2 DEF Filled
    <3>5. DetStep("KLINES", m, d, c)
      BY <1>1, <1>6, <3>4 DEF DetStep
    <3> QED BY <1>6, <3>1, <3>3, <3>4, <3>5, TradesSameMove
  <2>3. CASE closed /\ ~(m < b.kLo)
    <3> DEFINE kc == b.kClosed \cup {m}
    <3>1. c = [b EXCEPT !.kClosed = kc]
      BY <2>3
    <3>2. kc \in SUBSET Int
      BY <1>2, <1>6
    <3> HIDE DEF kc, c
    <3>3. c = [latest |-> a.latest, kLo |-> lo, kClosed |-> kc, tLo |-> a.tLo,
               tMax |-> a.tMax, pending |-> a.pending, gaps |-> a.gaps]
      BY <1>5, <3>1
    <3>4. /\ c \in Detectors /\ c.kLo = lo /\ c.tLo = b.tLo /\ c.tMax = b.tMax
          /\ c.pending = b.pending /\ c.gaps = b.gaps
      BY <1>2, <1>3, <1>6, <3>2, <3>3 DEF Detectors
    <3>5. DetOk(from, c) /\ TradesSame(b, c)
      BY <1>6, <1>7, <3>4 DEF DetOk, TradesSame, InGap
    <3>6. DetStep(stream, m, d, c)
      BY <1>8, <3>4 DEF DetStep
    <3> QED BY <1>6, <3>4, <3>5, <3>6, TradesSameMove
  <2> QED BY <2>1, <2>2, <2>3
<1> HIDE DEF c, stream
<1>10. DetTurns(from, c, x)
  BY <1>9, SweepTurns
<1> HIDE DEF x
<1>11. DetTurns(from, x, e)
  BY <1>10, ConfirmTurns DEF DetTurns, DetMoves
<1> HIDE DEF e
<1>12. DetTurns(from, c, e)
  BY <1>9, <1>10, <1>11, TurnsCompose
<1>13. DetStep(stream, m, d, e)
  BY <1>2, <1>9, <1>12, TurnsAfter
<1>14. DetOk(from, e) /\ e.kLo # Unset
  BY <1>3, <1>9, <1>12 DEF DetTurns, DetMoves
<1>15. TradesMove(d, e)
  BY <1>9, <1>12, <1>T DEF DetTurns, TradesMove
<1> QED BY <1>0, <1>13, <1>14, <1>15 DEF OnKlineOk, stream

(* A trade that was not seen before. *)
OnTradeOk(from, S, d, i, e) ==
    /\ DetOk(from, e) /\ (e.kLo = Unset <=> d.kLo = Unset)
    /\ DetStep("TRADES", i, d, e)
    /\ TradesOk(S \cup {i}, e)

(* What the handler notes of it before the candidates and the minutes are looked at. *)
Noted(from, S, d, i, c) ==
    /\ DetOk(from, c) /\ c.kLo = d.kLo
    /\ DetStep("TRADES", i, d, c)
    /\ TradesOk(S \cup {i}, c)

(* The trades of a detector, without the rest. *)
LEMMA TradesOkParts ==
    ASSUME NEW S \in SUBSET Nat, NEW d \in Detectors, TradesOk(S, d)
    PROVE  /\ d.tMax = Unset => S = {} /\ ToSet(d.pending) = {} /\ \A i \in Nat : ~InGap(d, i)
           /\ d.tMax # Unset => /\ d.tLo \in Nat /\ d.tMax \in Nat
                                /\ \A i \in d.tLo .. d.tMax :
                                      i \in S \/ InGap(d, i) \/ \E h \in ToSet(d.pending) : i \in h.missing
           /\ \A i \in S : i <= d.tMax
           /\ \A i \in Nat : InGap(d, i) => i <= d.tMax /\ i \notin S
           /\ \A h \in ToSet(d.pending) : \A i \in h.missing : i <= d.tMax /\ i \notin S /\ ~InGap(d, i)
           /\ \A g, h \in ToSet(d.pending) : \A i \in g.missing : i \in h.missing => g = h
           /\ \A h \in ToSet(d.pending) : h \in Holes /\ h.missing \in SUBSET Nat
  BY HolesTyped DEF TradesOk

LEMMA NewestNoted ==
    ASSUME NEW from \in Nat, NEW S \in SUBSET Nat, NEW d, DetOk(from, d), TradesOk(S, d),
           NEW i \in Nat, d.tMax = Unset \/ i > d.tMax,
           NEW c \in Detectors, c.kLo = d.kLo, c.gaps = d.gaps, c.tMax = i,
           NEW t \in Int,
           d.tMax = Unset => c.tLo = i /\ c.pending = d.pending,
           d.tMax # Unset =>
              /\ c.tLo = d.tLo
              /\ c.pending = IF (d.tMax + 1) .. (i - 1) = {} THEN d.pending
                             ELSE Append(d.pending, [missing |-> (d.tMax + 1) .. (i - 1), created |-> t])
    PROVE  Noted(from, S, d, i, c)
<1> DEFINE P == ToSet(d.pending)
           Q == ToSet(c.pending)
           lost == (d.tMax + 1) .. (i - 1)
           hole == [missing |-> lost, created |-> t]
           R == S \cup {i}
<1>1. d \in Detectors
  BY DEF DetOk
<1>2. /\ d.tMax = Unset => S = {} /\ P = {} /\ \A j \in Nat : ~InGap(d, j)
      /\ d.tMax # Unset => /\ d.tLo \in Nat /\ d.tMax \in Nat
                           /\ \A j \in d.tLo .. d.tMax :
                                 j \in S \/ InGap(d, j) \/ \E h \in P : j \in h.missing
      /\ \A j \in S : j <= d.tMax
      /\ \A j \in Nat : InGap(d, j) => j <= d.tMax /\ j \notin S
      /\ \A h \in P : \A j \in h.missing : j <= d.tMax /\ j \notin S /\ ~InGap(d, j)
      /\ \A g, h \in P : \A j \in g.missing : j \in h.missing => g = h
      /\ \A h \in P : h \in Holes /\ h.missing \in SUBSET Nat
  BY <1>1, TradesOkParts
<1>3. d.tMax \in Int /\ d.pending \in Seq(Holes) /\ d.gaps \in Seq(GapRecords)
      /\ \A h \in P : IsFiniteSet(h.missing)
  BY <1>1, DetectorFields DEF DetOk
<1>G. \A j \in Nat : InGap(c, j) <=> InGap(d, j)
  BY DEF InGap
<1>4. d.tMax # Unset /\ lost # {} => Q = P \cup {hole} /\ hole.missing = lost
  <2> SUFFICES ASSUME d.tMax # Unset, lost # {} PROVE Q = P \cup {hole}
    OBVIOUS
  <2>1. hole \in Holes
    <3>1. lost \in SUBSET Nat
      BY <1>2
    <3> HIDE DEF lost
    <3> QED BY <3>1 DEF Holes
  <2>2. c.pending = Append(d.pending, hole)
    OBVIOUS
  <2> HIDE DEF hole, lost
  <2>3. /\ Len(d.pending) \in Nat /\ c.pending \in Seq(Holes) /\ Len(c.pending) = Len(d.pending) + 1
        /\ c.pending[Len(d.pending) + 1] = hole
        /\ \A k \in 1 .. Len(d.pending) : c.pending[k] = d.pending[k]
    BY <1>3, <2>1, <2>2, AppendFacts
  <2>4. P = {d.pending[k] : k \in 1 .. Len(d.pending)} /\ Q = {c.pending[k] : k \in 1 .. Len(c.pending)}
    BY <1>3, <2>3, MembersAre
  <2>5. \A k \in 1 .. Len(c.pending) : k \in 1 .. Len(d.pending) \/ k = Len(d.pending) + 1
    BY <2>3
  <2>6. \A k \in 1 .. Len(d.pending) : k \in 1 .. Len(c.pending)
    BY <2>3
  <2>7. Len(d.pending) + 1 \in 1 .. Len(c.pending)
    BY <2>3
  <2> HIDE DEF P, Q
  <2>8. Q \subseteq P \cup {hole}
    BY <2>3, <2>4, <2>5
  <2>9. P \subseteq Q
    BY <2>3, <2>4, <2>6
  <2>10. hole \in Q
    BY <2>3, <2>4, <2>7
  <2> QED BY <2>8, <2>9, <2>10
<1>5. d.tMax = Unset \/ lost = {} => Q = P
  OBVIOUS
<1> HIDE DEF P, Q, hole
<1>6. i # Unset /\ c.tMax = i
  BY DEF Unset
<1>7. \A j \in R : j <= i
  <2> SUFFICES ASSUME NEW j \in S PROVE j <= i
    OBVIOUS
  <2>1. d.tMax # Unset /\ j <= d.tMax /\ j \in Nat
    BY <1>2
  <2>2. i > d.tMax
    BY <2>1
  <2> QED BY <1>3, <2>1, <2>2
<1>8. \A h \in Q : h \in P \/ (h = hole /\ d.tMax # Unset /\ h.missing = lost)
  BY <1>4, <1>5
<1>L. d.tMax # Unset => lost \in SUBSET Nat /\ IsFiniteSet(lost) /\ \A j \in lost : d.tMax < j /\ j < i
  <2> SUFFICES ASSUME d.tMax # Unset PROVE lost \in SUBSET Nat /\ IsFiniteSet(lost) /\ \A j \in lost : d.tMax < j /\ j < i
    OBVIOUS
  <2>1. d.tMax + 1 \in Int /\ i - 1 \in Int
    BY <1>3
  <2>2. IsFiniteSet(lost)
    BY <2>1, FS_Interval
  <2> QED BY <1>2, <2>2
<1>9. \A h \in Q : h.missing \in SUBSET Nat /\ IsFiniteSet(h.missing)
  BY <1>2, <1>3, <1>8, <1>L
<1>10. ASSUME NEW h \in Q, NEW j \in h.missing
       PROVE  j <= i /\ j \notin R /\ ~InGap(c, j) /\ j < i
  <2>1. CASE h \in P
    <3>1. j \in Nat /\ j <= d.tMax /\ j \notin S /\ ~InGap(d, j)
      BY <1>2, <2>1
    <3>2. d.tMax # Unset
      BY <1>2, <2>1
    <3>3. j < i
      BY <1>3, <3>1, <3>2
    <3> QED BY <1>G, <3>1, <3>3
  <2>2. CASE h = hole /\ d.tMax # Unset /\ h.missing = lost
    <3>1. j \in Nat /\ d.tMax < j /\ j < i
      BY <1>L, <2>2
    <3>2. j \notin S /\ ~InGap(d, j)
      BY <1>2, <1>3, <2>2, <3>1
    <3> QED BY <1>G, <3>1, <3>2
  <2> QED BY <1>8, <2>1, <2>2
<1>11. \A g, h \in Q : \A j \in g.missing : j \in h.missing => g = h
  <2> SUFFICES ASSUME NEW g \in Q, NEW h \in Q, NEW j \in g.missing, j \in h.missing PROVE g = h
    OBVIOUS
  <2>1. CASE g \in P /\ h \in P
    BY <1>2, <2>1
  <2>2. CASE g = hole /\ h = hole
    BY <2>2
  <2>3. CASE g \in P /\ h = hole /\ d.tMax # Unset /\ h.missing = lost
    <3>1. j <= d.tMax /\ d.tMax < j /\ j \in Nat
      BY <1>2, <1>L, <2>3
    <3> QED BY <1>3, <3>1
  <2>4. CASE h \in P /\ g = hole /\ d.tMax # Unset /\ g.missing = lost
    <3>1. j <= d.tMax /\ d.tMax < j /\ j \in Nat
      BY <1>2, <1>L, <2>4
    <3> QED BY <1>3, <3>1
  <2> QED BY <1>8, <2>1, <2>2, <2>3, <2>4
<1>12. \A j \in Nat : InGap(c, j) => j <= i /\ j \notin R
  <2> SUFFICES ASSUME NEW j \in Nat, InGap(c, j) PROVE j <= i /\ j \notin R
    OBVIOUS
  <2>1. j <= d.tMax /\ j \notin S /\ d.tMax # Unset
    BY <1>2, <1>G
  <2> QED BY <1>3, <2>1
<1>13. c.tLo \in Nat /\ \A j \in c.tLo .. i : j \in R \/ InGap(c, j) \/ \E h \in Q : j \in h.missing
  <2>1. CASE d.tMax = Unset
    <3>1. c.tLo = i /\ i .. i = {i}
      BY <2>1
    <3> QED BY <3>1
  <2>2. CASE d.tMax # Unset
    <3>1. c.tLo = d.tLo /\ d.tLo \in Nat /\ d.tMax \in Nat
      BY <1>2, <2>2
    <3> SUFFICES ASSUME NEW j \in d.tLo .. i PROVE j \in R \/ InGap(c, j) \/ \E h \in Q : j \in h.missing
      BY <3>1
    <3>2. CASE j <= d.tMax
      <4>1. j \in d.tLo .. d.tMax /\ j \in Nat
        BY <3>1, <3>2
      <4>2. j \in S \/ InGap(d, j) \/ \E h \in P : j \in h.missing
        BY <1>2, <2>2, <4>1
      <4>3. P \subseteq Q
        BY <1>4, <1>5
      <4> QED BY <1>G, <4>1, <4>2, <4>3
    <3>3. CASE j = i
      BY <3>3
    <3>4. CASE d.tMax < j /\ j # i
      <4>1. j \in lost
        BY <3>1, <3>4
      <4> QED BY <1>4, <2>2, <4>1
    <3> QED BY <3>1, <3>2, <3>3, <3>4
  <2> QED BY <2>1, <2>2
<1>14. TradesOk(R, c)
  BY <1>6, <1>7, <1>10, <1>11, <1>12, <1>13 DEF TradesOk, Q
<1>15. DetOk(from, c)
  BY <1>9 DEF DetOk, Q
<1>16. DetStep("TRADES", i, d, c)
  BY <1>3, SameGaps
<1> QED BY <1>14, <1>15, <1>16 DEF Noted

LEMMA OlderNoted ==
    ASSUME NEW from \in Nat, NEW S \in SUBSET Nat, NEW d, DetOk(from, d), TradesOk(S, d),
           NEW i \in Nat, i \notin S, d.tMax # Unset, i <= d.tMax, NEW c,
           \/ /\ \E h \in ToSet(d.pending) : i \in h.missing
              /\ DetOk(from, c) /\ Healed(i, d, c)
           \/ /\ ~\E h \in ToSet(d.pending) : i \in h.missing
              /\ Filled(from, "TRADES", i, d, c)
    PROVE  Noted(from, S, d, i, c)
<1> DEFINE P == ToSet(d.pending)
           Q == ToSet(c.pending)
           R == S \cup {i}
<1>1. d \in Detectors /\ c \in Detectors
  BY DEF DetOk, Filled
<1>2. /\ d.tLo \in Nat /\ d.tMax \in Nat
      /\ \A j \in d.tLo .. d.tMax : j \in S \/ InGap(d, j) \/ \E h \in P : j \in h.missing
      /\ \A j \in S : j <= d.tMax
      /\ \A j \in Nat : InGap(d, j) => j <= d.tMax /\ j \notin S
      /\ \A h \in P : \A j \in h.missing : j <= d.tMax /\ j \notin S /\ ~InGap(d, j)
      /\ \A g, h \in P : \A j \in g.missing : j \in h.missing => g = h
      /\ \A h \in P : h \in Holes /\ h.missing \in SUBSET Nat
  BY <1>1, TradesOkParts
<1>C. \A h \in Q : h \in Holes /\ h.missing \in SUBSET Nat
  BY <1>1, HolesTyped
<1>3. CASE /\ \E h \in P : i \in h.missing
           /\ DetOk(from, c) /\ Healed(i, d, c)
  <2>1. /\ c.kLo = d.kLo /\ c.tLo = d.tLo /\ c.tMax = d.tMax /\ c.gaps = d.gaps
        /\ \A h \in Q : \E o \in P : h = [o EXCEPT !.missing = o.missing \ {i}]
        /\ \A o \in P : \A j \in o.missing : j # i => \E h \in Q : h = [o EXCEPT !.missing = o.missing \ {i}]
    BY <1>3 DEF Healed
  <2>2. \A j \in Nat : InGap(c, j) <=> InGap(d, j)
    BY <2>1 DEF InGap
  <2>3. \A o \in P : [o EXCEPT !.missing = o.missing \ {i}].missing = o.missing \ {i}
    BY <1>2 DEF Holes
  <2>4. DetStep("TRADES", i, d, c)
    <3>1. d.gaps \in Seq(GapRecords)
      BY <1>1, DetectorFields
    <3> QED BY <2>1, <3>1, SameGaps
  <2> HIDE DEF P, Q
  <2>5. ~InGap(d, i)
    BY <1>2, <1>3
  <2>6. \A h \in Q : \A j \in h.missing : j # i /\ \E o \in P : j \in o.missing
    BY <2>1, <2>3
  <2>7. \A h \in Q : \A j \in h.missing : j <= d.tMax /\ j \notin R /\ ~InGap(c, j)
    <3> SUFFICES ASSUME NEW h \in Q, NEW j \in h.missing PROVE j <= d.tMax /\ j \notin R /\ ~InGap(c, j)
      OBVIOUS
    <3>1. PICK o \in P : j \in o.missing
      BY <2>6
    <3>2. j # i /\ j \in Nat
      BY <1>C, <2>6
    <3> QED BY <1>2, <2>2, <3>1, <3>2
  <2>8. \A g, h \in Q : \A j \in g.missing : j \in h.missing => g = h
    <3> SUFFICES ASSUME NEW g \in Q, NEW h \in Q, NEW j \in g.missing, j \in h.missing PROVE g = h
      OBVIOUS
    <3>1. PICK o \in P : g = [o EXCEPT !.missing = o.missing \ {i}]
      BY <2>1
    <3>2. PICK p \in P : h = [p EXCEPT !.missing = p.missing \ {i}]
      BY <2>1
    <3>3. j \in o.missing /\ j \in p.missing
      BY <2>3, <3>1, <3>2
    <3>4. o = p
      BY <1>2, <3>3
    <3> QED BY <3>1, <3>2, <3>4
  <2>9. \A j \in Nat : InGap(c, j) => j <= d.tMax /\ j \notin R
    BY <1>2, <2>2, <2>5
  <2>10. \A j \in d.tLo .. d.tMax : j \in R \/ InGap(c, j) \/ \E h \in Q : j \in h.missing
    <3> SUFFICES ASSUME NEW j \in d.tLo .. d.tMax, j \notin R, ~InGap(c, j) PROVE \E h \in Q : j \in h.missing
      OBVIOUS
    <3>1. j \in Nat
      BY <1>2
    <3>2. PICK o \in P : j \in o.missing
      BY <1>2, <2>2, <3>1
    <3>3. PICK h \in Q : h = [o EXCEPT !.missing = o.missing \ {i}]
      BY <2>1, <3>2
    <3> QED BY <2>3, <3>2, <3>3
  <2>11. TradesOk(R, c)
    BY <1>2, <2>1, <2>7, <2>8, <2>9, <2>10 DEF TradesOk, Q
  <2> QED BY <1>3, <2>1, <2>4, <2>11 DEF Noted
<1>4. CASE /\ ~\E h \in P : i \in h.missing
           /\ Filled(from, "TRADES", i, d, c)
  <2>1. /\ DetOk(from, c) /\ DetStep("TRADES", i, d, c)
        /\ c.kLo = d.kLo /\ c.tLo = d.tLo /\ c.tMax = d.tMax /\ c.pending = d.pending
        /\ \A j \in Nat : InGap(c, j) <=> InGap(d, j) /\ j # i
    BY <1>4 DEF Filled
  <2>2. Q = P
    BY <2>1
  <2> HIDE DEF P, Q
  <2>3. \A h \in Q : \A j \in h.missing : j <= d.tMax /\ j \notin R /\ ~InGap(c, j)
    <3> SUFFICES ASSUME NEW h \in Q, NEW j \in h.missing PROVE j <= d.tMax /\ j \notin R /\ ~InGap(c, j)
      OBVIOUS
    <3>1. j \in Nat /\ h \in P /\ j # i
      BY <1>4, <1>C, <2>2
    <3> QED BY <1>2, <2>1, <3>1
  <2>4. \A j \in d.tLo .. d.tMax : j \in R \/ InGap(c, j) \/ \E h \in Q : j \in h.missing
    <3> SUFFICES ASSUME NEW j \in d.tLo .. d.tMax, j \notin R, ~InGap(c, j) PROVE \E h \in Q : j \in h.missing
      OBVIOUS
    <3>1. j \in Nat
      BY <1>2
    <3> QED BY <1>2, <2>1, <2>2, <3>1
  <2>5. \A j \in Nat : InGap(c, j) => j <= d.tMax /\ j \notin R
    BY <1>2, <2>1
  <2>6. \A j \in R : j <= d.tMax
    BY <1>2
  <2>7. \A g, h \in Q : \A j \in g.missing : j \in h.missing => g = h
    BY <1>2, <2>2
  <2>8. TradesOk(R, c)
    BY <1>2, <2>1, <2>3, <2>4, <2>5, <2>6, <2>7 DEF TradesOk, Q
  <2> QED BY <2>1, <2>8 DEF Noted
<1> QED BY <1>3, <1>4

LEMMA OnTradeKeeps ==
    ASSUME PipelineAssumption, NEW from \in Nat, NEW S \in SUBSET Nat, NEW d, DetOk(from, d), TradesOk(S, d),
           NEW i \in Nat, i \notin S, NEW ts \in Int
    PROVE  OnTradeOk(from, S, d, i, on_trade(d, i, ts))
<1> DEFINE a == Advance(d, ts)
           lost == (d.tMax + 1) .. (i - 1)
           hole == [missing |-> lost, created |-> a.latest]
           more == IF lost = {} THEN a.pending ELSE Append(a.pending, hole)
           c == IF d.tMax = Unset THEN [a EXCEPT !.tLo = i, !.tMax = i]
                ELSE IF i > d.tMax THEN [a EXCEPT !.tMax = i, !.pending = more]
                ELSE IF InHole(d, i) THEN Heal(a, i)
                ELSE Fill(a, "TRADES", i)
           x == Confirm(c, FALSE)
           e == Sweep(x)
<1>0. on_trade(d, i, ts) = e
  BY DEF on_trade
<1>1. DetTurns(from, d, a) /\ a.kLo = d.kLo /\ a.gaps = d.gaps /\ TradesSame(d, a)
  BY AdvanceTurns, AdvanceKeeps
<1> HIDE DEF a
<1>2. /\ d \in Detectors /\ d.tMax \in Int /\ d.gaps \in Seq(GapRecords)
      /\ a \in Detectors /\ DetOk(from, a) /\ TradesOk(S, a) /\ a.latest \in Int
      /\ a = [latest |-> a.latest, kLo |-> a.kLo, kClosed |-> a.kClosed, tLo |-> a.tLo,
              tMax |-> a.tMax, pending |-> a.pending, gaps |-> a.gaps]
      /\ a.pending \in Seq(Holes)
      /\ a.tLo = d.tLo /\ a.tMax = d.tMax /\ a.pending = d.pending
  BY <1>1, DetectorFields DEF DetTurns, DetMoves, DetOk, TradesMove, TradesSame
<1>3. InHole(d, i) <=> \E h \in ToSet(a.pending) : i \in h.missing
  <2>1. d.pending \in Seq(Holes) /\ DOMAIN d.pending = 1 .. Len(d.pending)
    BY <1>2, DetectorFields
  <2>2. ToSet(a.pending) = {d.pending[k] : k \in 1 .. Len(d.pending)}
    BY <1>2, <2>1, MembersAre
  <2> QED BY <2>1, <2>2 DEF InHole
<1> HIDE DEF hole
<1>4. Noted(from, S, a, i, c)
  <2>1. CASE a.tMax = Unset
    <3>1. c = [a EXCEPT !.tLo = i, !.tMax = i]
      BY <1>2, <2>1
    <3> HIDE DEF c
    <3>2. c = [latest |-> a.latest, kLo |-> a.kLo, kClosed |-> a.kClosed, tLo |-> i,
               tMax |-> i, pending |-> a.pending, gaps |-> a.gaps]
      BY <1>2, <3>1
    <3>3. c \in Detectors /\ c.kLo = a.kLo /\ c.gaps = a.gaps /\ c.tMax = i /\ c.tLo = i /\ c.pending = a.pending
      BY <1>2, <3>2 DEF Detectors
    <3> QED BY <1>2, <2>1, <3>3, NewestNoted
  <2>2. CASE a.tMax # Unset /\ i > a.tMax
    <3>1. c = [a EXCEPT !.tMax = i, !.pending = more]
      BY <1>2, <2>2
    <3>2. more \in Seq(Holes)
      <4>1. a.tMax \in Nat
        BY <1>2, <2>2 DEF TradesOk
      <4>2. lost \in SUBSET Nat
        BY <1>2, <4>1
      <4> HIDE DEF lost
      <4>3. hole \in Holes
        BY <1>2, <4>2 DEF hole, Holes
      <4> QED BY <1>2, <4>3
    <3>3. more = IF (a.tMax + 1) .. (i - 1) = {} THEN a.pending
                 ELSE Append(a.pending, [missing |-> (a.tMax + 1) .. (i - 1), created |-> a.latest])
      BY <1>2 DEF hole
    <3> HIDE DEF more, c
    <3>4. c = [latest |-> a.latest, kLo |-> a.kLo, kClosed |-> a.kClosed, tLo |-> a.tLo,
               tMax |-> i, pending |-> more, gaps |-> a.gaps]
      BY <1>2, <3>1
    <3>5. /\ c \in Detectors /\ c.kLo = a.kLo /\ c.gaps = a.gaps /\ c.tMax = i /\ c.tLo = a.tLo
          /\ c.pending = more
      BY <1>2, <3>2, <3>4 DEF Detectors
    <3> QED BY <1>2, <2>2, <3>3, <3>5, NewestNoted
  <2>3. CASE a.tMax # Unset /\ ~(i > a.tMax) /\ InHole(d, i)
    <3>1. c = Heal(a, i) /\ i <= a.tMax
      BY <1>2, <2>3
    <3>2. DetOk(from, c) /\ Healed(i, a, c)
      BY <1>2, <3>1, HealKeeps
    <3> HIDE DEF c
    <3> QED BY <1>2, <1>3, <2>3, <3>1, <3>2, OlderNoted
  <2>4. CASE a.tMax # Unset /\ ~(i > a.tMax) /\ ~InHole(d, i)
    <3>1. c = Fill(a, "TRADES", i) /\ i <= a.tMax
      BY <1>2, <2>4
    <3>2. Filled(from, "TRADES", i, a, c)
      BY <1>2, <3>1, FillKeeps
    <3> HIDE DEF c
    <3> QED BY <1>2, <1>3, <2>4, <3>1, <3>2, OlderNoted
  <2> QED BY <2>1, <2>2, <2>3, <2>4
<1> HIDE DEF c
<1>5. DetOk(from, c) /\ c.kLo = d.kLo /\ TradesOk(S \cup {i}, c) /\ DetStep("TRADES", i, d, c)
  BY <1>1, <1>4 DEF Noted, DetStep
<1>6. DetTurns(from, c, x)
  BY <1>5, ConfirmTurns
<1> HIDE DEF x
<1>7. DetTurns(from, x, e)
  BY <1>6, SweepTurns DEF DetTurns, DetMoves
<1> HIDE DEF e
<1>8. DetTurns(from, c, e)
  BY <1>5, <1>6, <1>7, TurnsCompose
<1>9. DetStep("TRADES", i, d, e)
  BY <1>2, <1>5, <1>8, TurnsAfter
<1>10. TradesOk(S \cup {i}, e)
  <2>1. S \cup {i} \in SUBSET Nat
    OBVIOUS
  <2> QED BY <1>5, <1>8, <2>1 DEF DetTurns, TradesMove
<1>11. DetOk(from, e) /\ (e.kLo = Unset <=> d.kLo = Unset)
  BY <1>5, <1>8 DEF DetTurns, DetMoves
<1> QED BY <1>0, <1>9, <1>10, <1>11 DEF OnTradeOk

-----------------------------------------------------------------------------
(* The pipeline. *)
PipeStates == [best : [Minutes -> 0 .. 3], seen : SUBSET Nat, det : Detectors, agg : Aggregators]

(* What a gap no longer misses was delivered. *)
Delivered(s, g) ==
    \A key \in g.keys : key \notin g.missing =>
        IF g.stream = "KLINES" THEN key \in Gone(s.agg) \cup s.agg.held ELSE key \in s.seen

(* A minute given up stays on record as missing. *)
OnRecord(d, m) == \E k \in 1 .. Len(d.gaps) : d.gaps[k].stream = "KLINES" /\ m \in d.gaps[k].missing

SeriesOk(from, s) ==
    /\ AggOk(from, s.agg) /\ DetOk(from, s.det)
    /\ s.agg.next = Unset <=> s.det.kLo = Unset
    /\ \A k \in 1 .. Len(s.det.gaps) : Delivered(s, s.det.gaps[k])
    /\ \A m \in s.agg.skipped : OnRecord(s.det, m)

PipeOk(from, s) == s \in PipeStates /\ SeriesOk(from, s) /\ TradesOk(s.seen, s.det)

(* A step in which the key of the stream may have come. *)
Progress(from, stream, key, s, t) ==
    /\ AggOk(from, t.agg) /\ DetOk(from, t.det) /\ DetStep(stream, key, s.det, t.det)
    /\ t.agg.next = Unset <=> t.det.kLo = Unset
    /\ t.agg.skipped = s.agg.skipped
    /\ Gone(s.agg) \cup s.agg.held \subseteq Gone(t.agg) \cup t.agg.held
    /\ s.seen \subseteq t.seen
    /\ stream = "KLINES" => /\ key \notin s.agg.skipped
                            /\ from <= key => key \in Gone(t.agg) \cup t.agg.held
    /\ stream = "TRADES" => key \in t.seen

LEMMA ProgressKeeps ==
    ASSUME NEW from, NEW s, SeriesOk(from, s), NEW t, NEW stream, NEW key, Progress(from, stream, key, s, t)
    PROVE  SeriesOk(from, t) /\ Len(s.det.gaps) <= Len(t.det.gaps)
<1> DEFINE G == s.det.gaps
           H == t.det.gaps
<1>1. /\ s.det \in Detectors /\ t.det \in Detectors
      /\ \A k \in 1 .. Len(G) : GapOk(from, G[k]) /\ Delivered(s, G[k])
      /\ \A m \in s.agg.skipped : OnRecord(s.det, m)
  BY DEF SeriesOk, DetOk, Progress
<1>2. Len(G) \in Nat /\ Len(H) \in Nat
  BY <1>1, DetectorFields
<1>3. /\ Len(G) <= Len(H)
      /\ \A k \in 1 .. Len(G) : \/ H[k] = G[k]
                                \/ G[k].stream = stream /\ key \in G[k].missing /\ H[k] = Arrived(G[k], key)
      /\ \A k \in 1 .. Len(H) : k \in 1 .. Len(G) \/ H[k].missing = H[k].keys
  BY DEF Progress, DetStep
<1>4. \A k \in 1 .. Len(G) : \/ H[k] = G[k]
                             \/ /\ G[k].stream = stream /\ key \in G[k].missing
                                /\ H[k].stream = G[k].stream /\ H[k].keys = G[k].keys
                                /\ H[k].missing = G[k].missing \ {key}
  BY <1>1, <1>3, ArrivedFacts
<1> HIDE DEF G, H
<1>5. \A g : Delivered(s, g) => Delivered(t, g)
  BY DEF Delivered, Progress
<1>6. ASSUME NEW k \in 1 .. Len(H) PROVE Delivered(t, H[k])
  <2>1. CASE k \in 1 .. Len(G) /\ H[k] = G[k]
    BY <1>1, <1>5, <2>1
  <2>2. CASE /\ k \in 1 .. Len(G) /\ G[k].stream = stream /\ key \in G[k].missing
             /\ H[k].stream = G[k].stream /\ H[k].keys = G[k].keys
             /\ H[k].missing = G[k].missing \ {key}
    <3>1. Delivered(t, G[k])
      BY <1>1, <1>5, <2>2
    <3>2. key \in G[k].keys /\ (G[k].stream = "KLINES" => from <= key) /\ G[k].stream \in {"KLINES", "TRADES"}
      BY <1>1, <2>2 DEF GapOk, GapRecords
    <3>3. IF stream = "KLINES" THEN key \in Gone(t.agg) \cup t.agg.held ELSE key \in t.seen
      BY <2>2, <3>2 DEF Progress
    <3>4. ASSUME NEW o \in H[k].keys, o \notin H[k].missing
          PROVE  IF H[k].stream = "KLINES" THEN o \in Gone(t.agg) \cup t.agg.held ELSE o \in t.seen
      <4>1. CASE o = key
        BY <2>2, <3>3, <4>1
      <4>2. CASE o # key
        <5>1. o \in G[k].keys /\ o \notin G[k].missing
          BY <2>2, <3>4, <4>2
        <5> QED BY <2>2, <3>1, <5>1 DEF Delivered
      <4> QED BY <4>1, <4>2
    <3> QED BY <3>4 DEF Delivered
  <2>3. CASE k \notin 1 .. Len(G)
    BY <1>3, <2>3 DEF Delivered
  <2> QED BY <1>4, <2>1, <2>2, <2>3
<1>7. ASSUME NEW m \in t.agg.skipped PROVE OnRecord(t.det, m)
  <2>1. m \in s.agg.skipped
    BY DEF Progress
  <2>2. PICK k \in 1 .. Len(G) : G[k].stream = "KLINES" /\ m \in G[k].missing
    BY <1>1, <2>1 DEF OnRecord, G
  <2>3. k \in 1 .. Len(H)
    BY <1>2, <1>3
  <2>4. H[k].stream = "KLINES" /\ m \in H[k].missing
    <3>1. stream = "KLINES" => m # key
      BY <2>1 DEF Progress
    <3> QED BY <1>4, <2>2, <3>1
  <2> QED BY <2>3, <2>4 DEF OnRecord, H
<1>8. SeriesOk(from, t)
  BY <1>6, <1>7 DEF SeriesOk, Progress, H
<1> QED BY <1>3, <1>8 DEF G, H

-----------------------------------------------------------------------------
(* _accept. *)
LEMMA PipeFields ==
    ASSUME NEW s \in PipeStates
    PROVE  /\ s = [best |-> s.best, seen |-> s.seen, det |-> s.det, agg |-> s.agg]
           /\ s.best \in [Minutes -> 0 .. 3] /\ s.seen \in SUBSET Nat /\ s.det \in Detectors /\ s.agg \in Aggregators
BY DEF PipeStates

Accepted(from, s, t) ==
    /\ PipeOk(from, t) /\ Len(s.det.gaps) <= Len(t.det.gaps)
    /\ s.agg.next # Unset => t.agg.next # Unset

LEMMA AcceptedSame ==
    ASSUME NEW from, NEW s, PipeOk(from, s)
    PROVE  Accepted(from, s, s)
<1>1. Len(s.det.gaps) \in Nat
  BY PipeFields, DetectorFields DEF PipeOk
<1> QED BY <1>1 DEF Accepted

LEMMA AcceptCandleKeeps ==
    ASSUME PipelineAssumption, NEW from \in Nat, NEW s, PipeOk(from, s), NEW m \in Nat, NEW rank \in 1 .. 3,
           NEW ts \in Int, s.agg.next = Unset => from = m
    PROVE  Accepted(from, s, AcceptCandle(s, m, rank, ts))
<1> DEFINE best1 == [s.best EXCEPT ![m] = rank]
           e == Observe(s, m, rank, ts)
           closed == rank > 1
           b == offer(s.agg, m, closed)
           t == [s EXCEPT !.best[m] = rank, !.det = e, !.agg = b]
           late == closed /\ is_skipped(s.agg, m)
           stream == IF late THEN "none" ELSE KlineStream(closed)
           key == IF late THEN 0 ELSE m
<1>1. /\ s \in PipeStates /\ SeriesOk(from, s) /\ TradesOk(s.seen, s.det)
      /\ AggOk(from, s.agg) /\ DetOk(from, s.det) /\ (s.agg.next = Unset <=> s.det.kLo = Unset)
      /\ s = [best |-> s.best, seen |-> s.seen, det |-> s.det, agg |-> s.agg]
      /\ s.best \in [Minutes -> 0 .. 3] /\ s.seen \in SUBSET Nat /\ s.det \in Detectors /\ s.agg \in Aggregators
      /\ Len(s.det.gaps) \in Nat
  BY PipeFields, DetectorFields DEF PipeOk, SeriesOk
<1>2. CASE rank <= s.best[m]
  BY <1>2, AcceptedSame DEF AcceptCandle
<1>3. CASE ~(rank <= s.best[m])
  <2>1. AcceptCandle(s, m, rank, ts) = t
    BY <1>3 DEF AcceptCandle
  <2>2. closed \in BOOLEAN
    OBVIOUS
  <2>3. late <=> closed /\ m \in s.agg.skipped
    <3>1. ToSet(s.agg.released) = Gone(s.agg)
      BY <1>1, GoneIsReleased
    <3>2. \A o \in s.agg.skipped : o \notin Gone(s.agg)
      BY <1>1 DEF AggOk
    <3> QED BY <3>1, <3>2 DEF is_skipped
  <2>4. late => s.det.kLo # Unset
    <3> SUFFICES ASSUME late, s.det.kLo = Unset PROVE FALSE
      OBVIOUS
    <3>1. OnRecord(s.det, m)
      BY <1>1, <2>3 DEF SeriesOk
    <3> QED BY <1>1, <3>1 DEF OnRecord, DetOk
  <2>5. e = IF late THEN on_time(s.det, ts) ELSE on_kline(s.det, m, closed, ts)
    BY DEF Observe
  <2> HIDE DEF late
  <2>6. OfferOk(from, s.agg, m, closed, b)
    <3> HIDE DEF closed
    <3> QED BY <1>1, <2>2, OfferKeeps
  <2>7. DetOk(from, e) /\ e.kLo # Unset /\ DetStep(stream, key, s.det, e) /\ TradesMove(s.det, e)
    <3>1. CASE late
      <4>1. DetTurns(from, s.det, e)
        BY <1>1, <2>5, <3>1, OnTimeTurns
      <4> HIDE DEF e
      <4> QED BY <2>4, <3>1, <4>1 DEF DetTurns, DetMoves
    <3>2. CASE ~late
      <4>1. e = on_kline(s.det, m, closed, ts)
        BY <2>5, <3>2
      <4>2. s.det.kLo = Unset => from = m
        BY <1>1
      <4> HIDE DEF e, closed
      <4>3. OnKlineOk(from, s.det, m, closed, e)
        BY <1>1, <2>2, <4>1, <4>2, OnKlineKeeps
      <4> QED BY <3>2, <4>3 DEF OnKlineOk
    <3> QED BY <3>1, <3>2
  <2>8. t = [best |-> best1, seen |-> s.seen, det |-> e, agg |-> b]
    <3>1. s = [best |-> s.best, seen |-> s.seen, det |-> s.det, agg |-> s.agg]
      BY <1>1
    <3> HIDE DEF e, b
    <3>2. t = [s EXCEPT !.best = best1, !.det = e, !.agg = b]
      BY <3>1
    <3> HIDE DEF best1, t
    <3> QED BY <3>1, <3>2
  <2>9. best1 \in [Minutes -> 0 .. 3]
    <3>1. s.best \in [Minutes -> 0 .. 3]
      BY <1>1
    <3>2. rank \in 0 .. 3
      OBVIOUS
    <3> QED BY <3>1, <3>2
  <2>S. /\ stream = "KLINES" => closed /\ ~late /\ key = m
        /\ stream # "TRADES"
    BY DEF KlineStream
  <2> HIDE DEF e, b, t, best1, stream, key, closed
  <2>10. /\ AggOk(from, b) /\ b.next # Unset /\ b.skipped = s.agg.skipped
         /\ Gone(s.agg) \cup s.agg.held \subseteq Gone(b) \cup b.held
         /\ closed /\ from <= m /\ m \notin s.agg.skipped => m \in Gone(b) \cup b.held
    BY <2>6 DEF OfferOk
  <2>11. t.best = best1 /\ t.seen = s.seen /\ t.det = e /\ t.agg = b
    BY <2>8
  <2>12. t \in PipeStates
    BY <1>1, <2>7, <2>8, <2>9, <2>10 DEF PipeStates, DetOk, AggOk
  <2>13. Progress(from, stream, key, s, t)
    BY <2>3, <2>7, <2>10, <2>11, <2>S DEF Progress
  <2>14. SeriesOk(from, t) /\ Len(s.det.gaps) <= Len(t.det.gaps)
    BY <1>1, <2>13, ProgressKeeps
  <2>15. TradesOk(t.seen, t.det)
    BY <1>1, <2>7, <2>11 DEF TradesMove
  <2> QED BY <2>1, <2>10, <2>11, <2>12, <2>14, <2>15 DEF Accepted, PipeOk
<1> QED BY <1>2, <1>3

LEMMA AcceptTradeKeeps ==
    ASSUME PipelineAssumption, NEW from \in Nat, NEW s, PipeOk(from, s), NEW i \in Nat
    PROVE  Accepted(from, s, AcceptTrade(s, i))
<1> DEFINE e == on_trade(s.det, i, i)
           t == [s EXCEPT !.seen = s.seen \cup {i}, !.det = e]
<1>1. /\ s \in PipeStates /\ SeriesOk(from, s) /\ TradesOk(s.seen, s.det)
      /\ AggOk(from, s.agg) /\ DetOk(from, s.det) /\ (s.agg.next = Unset <=> s.det.kLo = Unset)
      /\ s = [best |-> s.best, seen |-> s.seen, det |-> s.det, agg |-> s.agg]
      /\ s.best \in [Minutes -> 0 .. 3] /\ s.seen \in SUBSET Nat /\ s.det \in Detectors /\ s.agg \in Aggregators
  BY PipeFields DEF PipeOk, SeriesOk
<1>2. CASE i \in s.seen
  BY <1>2, AcceptedSame DEF AcceptTrade
<1>3. CASE i \notin s.seen
  <2>1. AcceptTrade(s, i) = t
    BY <1>3 DEF AcceptTrade
  <2>2. OnTradeOk(from, s.seen, s.det, i, e)
    BY <1>1, <1>3, OnTradeKeeps
  <2> HIDE DEF e
  <2>3. t = [best |-> s.best, seen |-> s.seen \cup {i}, det |-> e, agg |-> s.agg]
    <3>1. s = [best |-> s.best, seen |-> s.seen, det |-> s.det, agg |-> s.agg]
      BY <1>1
    <3>2. t = [s EXCEPT !.seen = s.seen \cup {i}, !.det = e]
      OBVIOUS
    <3> HIDE DEF t
    <3> QED BY <3>1, <3>2
  <2> HIDE DEF t
  <2>4. t.best = s.best /\ t.seen = s.seen \cup {i} /\ t.det = e /\ t.agg = s.agg
    BY <2>3
  <2>5. t \in PipeStates
    <3>1. s.seen \cup {i} \in SUBSET Nat
      BY <1>1
    <3> QED BY <1>1, <2>2, <2>3, <3>1 DEF PipeStates, OnTradeOk, DetOk
  <2>6. Progress(from, "TRADES", i, s, t)
    BY <1>1, <2>2, <2>4 DEF Progress, OnTradeOk
  <2>7. SeriesOk(from, t) /\ Len(s.det.gaps) <= Len(t.det.gaps)
    BY <1>1, <2>6, ProgressKeeps
  <2> QED BY <2>1, <2>2, <2>4, <2>5, <2>7 DEF Accepted, PipeOk, OnTradeOk
<1> QED BY <1>2, <1>3

(* _fill_loop, step by step. *)
Restated(s, g, h) ==
    [best |-> s.best, seen |-> s.seen,
     det |-> [latest |-> s.det.latest, kLo |-> s.det.kLo, kClosed |-> s.det.kClosed, tLo |-> s.det.tLo,
              tMax |-> s.det.tMax, pending |-> s.det.pending, gaps |-> [s.det.gaps EXCEPT ![g] = h]],
     agg |-> s.agg]

SameKeys(from, g, h) ==
    GapOk(from, h) /\ h.stream = g.stream /\ h.keys = g.keys /\ h.missing = g.missing

LEMMA RestatedKeeps ==
    ASSUME NEW from, NEW s, PipeOk(from, s), NEW g \in 1 .. Len(s.det.gaps), NEW h,
           SameKeys(from, s.det.gaps[g], h)
    PROVE  Accepted(from, s, Restated(s, g, h)) /\ Len(Restated(s, g, h).det.gaps) = Len(s.det.gaps)
<1> DEFINE G == s.det.gaps
           H == [G EXCEPT ![g] = h]
           d == [latest |-> s.det.latest, kLo |-> s.det.kLo, kClosed |-> s.det.kClosed, tLo |-> s.det.tLo,
                 tMax |-> s.det.tMax, pending |-> s.det.pending, gaps |-> H]
           t == Restated(s, g, h)
<1>1. /\ s \in PipeStates /\ SeriesOk(from, s) /\ TradesOk(s.seen, s.det) /\ DetOk(from, s.det)
      /\ s.best \in [Minutes -> 0 .. 3] /\ s.seen \in SUBSET Nat /\ s.det \in Detectors /\ s.agg \in Aggregators
  BY PipeFields DEF PipeOk, SeriesOk
<1>2. /\ s.det.latest \in Int /\ s.det.kLo \in Int /\ s.det.kClosed \in SUBSET Int /\ s.det.tLo \in Int
      /\ s.det.tMax \in Int /\ s.det.pending \in Seq(Holes) /\ G \in Seq(GapRecords)
      /\ Len(G) \in Nat
  BY <1>1, DetectorFields
<1>3. t = [best |-> s.best, seen |-> s.seen, det |-> d, agg |-> s.agg]
  BY DEF Restated
<1> HIDE DEF G
<1>4. h \in GapRecords
  BY DEF SameKeys, GapOk
<1>5. /\ H \in Seq(GapRecords) /\ Len(H) = Len(G) /\ H[g] = h
      /\ \A k \in 1 .. Len(G) : k # g => H[k] = G[k]
  BY <1>2, <1>4 DEF G
<1> HIDE DEF H
<1>6. d \in Detectors
  BY <1>2, <1>5 DEF Detectors
<1>7. d.kLo = s.det.kLo /\ d.tLo = s.det.tLo /\ d.tMax = s.det.tMax /\ d.pending = s.det.pending /\ d.gaps = H
  OBVIOUS
<1> HIDE DEF d, t
<1>8. t.best = s.best /\ t.seen = s.seen /\ t.det = d /\ t.agg = s.agg
  BY <1>3
<1>9. t \in PipeStates
  BY <1>1, <1>3, <1>6 DEF PipeStates
<1>10. \A k \in 1 .. Len(G) : SameKeys(from, G[k], H[k])
  <2> TAKE k \in 1 .. Len(G)
  <2>1. GapOk(from, G[k])
    BY <1>1 DEF DetOk, G
  <2>2. SameKeys(from, G[k], G[k])
    BY <2>1 DEF SameKeys
  <2> QED BY <1>5, <2>2 DEF G
<1>11. DetOk(from, d)
  BY <1>1, <1>5, <1>6, <1>7, <1>10 DEF DetOk, SameKeys, G
<1>12. \A k \in 1 .. Len(H) : Delivered(t, H[k])
  <2> TAKE k \in 1 .. Len(H)
  <2>1. Delivered(s, G[k])
    BY <1>1, <1>5 DEF SeriesOk, G
  <2> QED BY <1>5, <1>8, <1>10, <2>1 DEF Delivered, SameKeys
<1>13. \A m \in s.agg.skipped : OnRecord(d, m)
  <2> TAKE m \in s.agg.skipped
  <2>1. PICK k \in 1 .. Len(G) : G[k].stream = "KLINES" /\ m \in G[k].missing
    BY <1>1 DEF SeriesOk, OnRecord, G
  <2>2. k \in 1 .. Len(H) /\ H[k].stream = "KLINES" /\ m \in H[k].missing
    BY <1>5, <1>10, <2>1 DEF SameKeys
  <2> QED BY <1>7, <2>2 DEF OnRecord
<1>14. SeriesOk(from, t)
  BY <1>1, <1>7, <1>8, <1>11, <1>12, <1>13 DEF SeriesOk
<1>15. TradesSame(s.det, d)
  <2>1. \A k \in 1 .. Len(G) : H[k].stream = G[k].stream /\ H[k].missing = G[k].missing
    BY <1>10 DEF SameKeys
  <2> QED BY <1>5, <1>7, <2>1 DEF TradesSame, InGap, G
<1>16. TradesOk(t.seen, t.det)
  <2>1. TradesMove(s.det, d)
    BY <1>1, <1>15, TradesSameMove
  <2> QED BY <1>1, <1>8, <2>1 DEF TradesMove
<1>17. Len(t.det.gaps) = Len(s.det.gaps)
  BY <1>5, <1>7, <1>8 DEF G
<1>18. Accepted(from, s, t)
  BY <1>2, <1>8, <1>9, <1>14, <1>16, <1>17 DEF Accepted, PipeOk, G
<1> QED BY <1>17, <1>18 DEF t

LEMMA AcceptedCompose ==
    ASSUME NEW from, NEW r, NEW s, NEW t, PipeOk(from, r), Accepted(from, r, s), Accepted(from, s, t)
    PROVE  Accepted(from, r, t)
<1>1. Len(r.det.gaps) \in Nat /\ Len(s.det.gaps) \in Nat /\ Len(t.det.gaps) \in Nat
  BY PipeFields, DetectorFields DEF PipeOk, Accepted
<1> QED BY <1>1 DEF Accepted

LEMMA GapFields ==
    ASSUME NEW from, NEW s, PipeOk(from, s), NEW g \in 1 .. Len(s.det.gaps)
    PROVE  /\ GapOk(from, s.det.gaps[g]) /\ IsFiniteSet(s.det.gaps[g].missing)
           /\ s.det.gaps[g].missing \in SUBSET Nat
           /\ s.det.gaps[g] = [stream |-> s.det.gaps[g].stream, keys |-> s.det.gaps[g].keys,
                               missing |-> s.det.gaps[g].missing, status |-> s.det.gaps[g].status,
                               filled |-> s.det.gaps[g].filled]
           /\ s.det.gaps[g].stream \in {"KLINES", "TRADES"}
           /\ s.det.gaps[g].stream = "KLINES" => s.agg.next # Unset
<1> DEFINE h == s.det.gaps[g]
<1>1. GapOk(from, h) /\ (s.det.kLo = Unset => h.stream # "KLINES") /\ (s.agg.next = Unset <=> s.det.kLo = Unset)
  BY DEF PipeOk, SeriesOk, DetOk
<1> HIDE DEF h
<1>2. h \in GapRecords /\ IsFiniteSet(h.keys) /\ h.missing \in SUBSET h.keys
  BY <1>1 DEF GapOk
<1>3. IsFiniteSet(h.missing)
  BY <1>2, FS_Subset
<1>4. /\ h.missing \in SUBSET Nat /\ h.stream \in {"KLINES", "TRADES"}
      /\ h = [stream |-> h.stream, keys |-> h.keys, missing |-> h.missing, status |-> h.status, filled |-> h.filled]
  BY <1>2 DEF GapRecords
<1> QED BY <1>1, <1>3, <1>4 DEF h

Started(s, g) == [s EXCEPT !.det.gaps[g].status = "FILLING"]

LEMMA StartedKeeps ==
    ASSUME NEW from, NEW s, PipeOk(from, s), NEW g \in 1 .. Len(s.det.gaps)
    PROVE  Accepted(from, s, Started(s, g))
<1> DEFINE G == s.det.gaps
           h == [G[g] EXCEPT !.status = "FILLING"]
<1>1. /\ s = [best |-> s.best, seen |-> s.seen, det |-> s.det, agg |-> s.agg]
      /\ s.det = [latest |-> s.det.latest, kLo |-> s.det.kLo, kClosed |-> s.det.kClosed, tLo |-> s.det.tLo,
                  tMax |-> s.det.tMax, pending |-> s.det.pending, gaps |-> G]
      /\ G \in Seq(GapRecords) /\ DOMAIN G = 1 .. Len(G)
  BY PipeFields, DetectorFields DEF PipeOk
<1>2. /\ GapOk(from, G[g])
      /\ G[g] = [stream |-> G[g].stream, keys |-> G[g].keys, missing |-> G[g].missing,
                 status |-> G[g].status, filled |-> G[g].filled]
  BY GapFields
<1>3. SameKeys(from, G[g], h)
  <2> HIDE DEF G
  <2>1. h = [stream |-> G[g].stream, keys |-> G[g].keys, missing |-> G[g].missing,
             status |-> "FILLING", filled |-> G[g].filled]
    BY <1>2
  <2>2. h \in GapRecords
    BY <1>2, <2>1 DEF GapOk, GapRecords, Statuses
  <2> HIDE DEF h
  <2> QED BY <1>2, <2>1, <2>2 DEF SameKeys, GapOk
<1>4. Started(s, g) = Restated(s, g, h)
  <2> DEFINE H == [G EXCEPT ![g] = h]
             d == [s.det EXCEPT !.gaps = H]
  <2>1. Started(s, g) = [s EXCEPT !.det = d]
    BY DEF Started
  <2> HIDE DEF H
  <2>2. d = [latest |-> s.det.latest, kLo |-> s.det.kLo, kClosed |-> s.det.kClosed, tLo |-> s.det.tLo,
             tMax |-> s.det.tMax, pending |-> s.det.pending, gaps |-> H]
    BY <1>1
  <2> HIDE DEF d
  <2>3. [s EXCEPT !.det = d] = [best |-> s.best, seen |-> s.seen, det |-> d, agg |-> s.agg]
    BY <1>1
  <2> HIDE DEF h
  <2> QED BY <2>1, <2>2, <2>3 DEF Restated, H
<1> HIDE DEF h
<1> QED BY <1>3, <1>4, RestatedKeeps

LEMMA ResolvedKeeps ==
    ASSUME NEW from, NEW s, PipeOk(from, s), NEW g \in 1 .. Len(s.det.gaps)
    PROVE  Accepted(from, s, Resolved(s, g)) /\ Len(Resolved(s, g).det.gaps) = Len(s.det.gaps)
<1> DEFINE G == s.det.gaps
           st == Resolution(G[g])
           n == Counted(G[g])
           h == [G[g] EXCEPT !.status = st, !.filled = n]
<1>1. /\ s = [best |-> s.best, seen |-> s.seen, det |-> s.det, agg |-> s.agg]
      /\ s.det = [latest |-> s.det.latest, kLo |-> s.det.kLo, kClosed |-> s.det.kClosed, tLo |-> s.det.tLo,
                  tMax |-> s.det.tMax, pending |-> s.det.pending, gaps |-> G]
      /\ G \in Seq(GapRecords) /\ DOMAIN G = 1 .. Len(G)
  BY PipeFields, DetectorFields DEF PipeOk
<1>2. /\ GapOk(from, G[g]) /\ IsFiniteSet(G[g].missing)
      /\ G[g] = [stream |-> G[g].stream, keys |-> G[g].keys, missing |-> G[g].missing,
                 status |-> G[g].status, filled |-> G[g].filled]
  BY GapFields
<1>3. /\ st \in Statuses /\ n \in Int
      /\ st = "FILLED" => G[g].missing = {} /\ n = Cardinality(G[g].keys)
  <2> HIDE DEF G
  <2>1. IsFiniteSet(G[g].keys)
    BY <1>2 DEF GapOk
  <2>2. Cardinality(G[g].keys) \in Nat /\ Cardinality(G[g].missing) \in Nat
    BY <1>2, <2>1, FS_CardinalityType
  <2>3. G[g].missing = {} => Cardinality(G[g].missing) = 0
    BY FS_EmptySet
  <2>4. n = Cardinality(G[g].keys) - Cardinality(G[g].missing)
    BY DEF Counted
  <2>5. st \in Statuses /\ (st = "FILLED" => G[g].missing = {})
    BY DEF Resolution, Statuses
  <2> HIDE DEF n, st
  <2> QED BY <2>2, <2>3, <2>4, <2>5
<1>4. Resolved(s, g) = [s EXCEPT !.det.gaps[g].status = st, !.det.gaps[g].filled = n]
  BY DEF Resolved
<1> HIDE DEF st, n
<1>5. SameKeys(from, G[g], h)
  <2> HIDE DEF G
  <2>1. h = [stream |-> G[g].stream, keys |-> G[g].keys, missing |-> G[g].missing, status |-> st, filled |-> n]
    <3>1. h = [G[g] EXCEPT !.status = st, !.filled = n]
      OBVIOUS
    <3> HIDE DEF h
    <3> QED BY <1>2, <3>1
  <2>2. h \in GapRecords
    BY <1>2, <1>3, <2>1 DEF GapOk, GapRecords
  <2> HIDE DEF h
  <2> QED BY <1>2, <1>3, <2>1, <2>2 DEF SameKeys, GapOk
<1>6. Resolved(s, g) = Restated(s, g, h)
  <2> DEFINE h1 == [G[g] EXCEPT !.status = st]
             H1 == [G EXCEPT ![g] = h1]
             d1 == [s.det EXCEPT !.gaps = H1]
             s1 == [s EXCEPT !.det = d1]
             H == [G EXCEPT ![g] = h]
             d == [s.det EXCEPT !.gaps = H]
  <2>1. Resolved(s, g) = [s1 EXCEPT !.det.gaps[g].filled = n]
    BY <1>4
  <2>2. s1.det = d1
    BY <1>1
  <2>3. d1.gaps = H1
    BY <1>1
  <2>4. H1[g] = h1
    BY <1>1
  <2>5. Resolved(s, g) = [s1 EXCEPT !.det = [s1.det EXCEPT !.gaps = [s1.det.gaps EXCEPT ![g] = [s1.det.gaps[g] EXCEPT !.filled = n]]]]
    <3> HIDE DEF s1
    <3> QED BY <2>1
  <2>6. [H1[g] EXCEPT !.filled = n] = h
    BY <2>4
  <2>7. [H1 EXCEPT ![g] = h] = H
    <3> HIDE DEF h, h1
    <3> QED BY <1>1
  <2>8. Resolved(s, g) = [s1 EXCEPT !.det = [d1 EXCEPT !.gaps = H]]
    <3> HIDE DEF s1, d1, H1, H, h
    <3> QED BY <2>2, <2>3, <2>5, <2>6, <2>7
  <2> HIDE DEF h1, H1, H, h
  <2>9. [d1 EXCEPT !.gaps = H] = d
    BY <1>1
  <2>10. d = [latest |-> s.det.latest, kLo |-> s.det.kLo, kClosed |-> s.det.kClosed, tLo |-> s.det.tLo,
              tMax |-> s.det.tMax, pending |-> s.det.pending, gaps |-> H]
    BY <1>1
  <2>11. [s1 EXCEPT !.det = d] = [best |-> s.best, seen |-> s.seen, det |-> d, agg |-> s.agg]
    <3> HIDE DEF d, d1
    <3>1. s = [best |-> s.best, seen |-> s.seen, det |-> s.det, agg |-> s.agg]
      BY <1>1
    <3>2. s1 = [s EXCEPT !.det = d1]
      OBVIOUS
    <3> HIDE DEF s1
    <3>3. s1 = [best |-> s.best, seen |-> s.seen, det |-> d1, agg |-> s.agg]
      BY <3>1, <3>2
    <3> QED BY <3>3
  <2> HIDE DEF d, d1, s1
  <2> QED BY <2>8, <2>9, <2>10, <2>11 DEF Restated, H
<1> HIDE DEF h
<1> QED BY <1>5, <1>6, RestatedKeeps

LEMMA SkipUnfilledKeeps ==
    ASSUME NEW from \in Nat, NEW s, PipeOk(from, s), NEW g \in 1 .. Len(s.det.gaps)
    PROVE  Accepted(from, s, SkipUnfilled(s, g))
<1> DEFINE gone == s.det.gaps[g].missing
           b == skip(s.agg, gone)
           t == [s EXCEPT !.agg = b]
<1>1. /\ s \in PipeStates /\ SeriesOk(from, s) /\ TradesOk(s.seen, s.det)
      /\ AggOk(from, s.agg) /\ DetOk(from, s.det) /\ (s.agg.next = Unset <=> s.det.kLo = Unset)
      /\ s = [best |-> s.best, seen |-> s.seen, det |-> s.det, agg |-> s.agg]
      /\ s.best \in [Minutes -> 0 .. 3] /\ s.seen \in SUBSET Nat /\ s.det \in Detectors /\ s.agg \in Aggregators
  BY PipeFields DEF PipeOk, SeriesOk
<1>2. CASE s.det.gaps[g].status = "FILLED" \/ s.det.gaps[g].stream # "KLINES"
  <2>1. SkipUnfilled(s, g) = s
    BY <1>2 DEF SkipUnfilled, SkipMissing
  <2> QED BY <2>1, AcceptedSame
<1>3. CASE s.det.gaps[g].status # "FILLED" /\ s.det.gaps[g].stream = "KLINES"
  <2>1. SkipUnfilled(s, g) = t
    BY <1>3 DEF SkipUnfilled, SkipMissing
  <2>2. gone \in SUBSET Nat /\ IsFiniteSet(gone)
    BY GapFields
  <2>G. \A m \in gone : OnRecord(s.det, m)
    BY <1>3 DEF OnRecord
  <2> HIDE DEF gone
  <2>3. SkipOk(from, s.agg, gone, b)
    BY <1>1, <2>2, SkipKeeps
  <2> HIDE DEF b
  <2>4. t = [best |-> s.best, seen |-> s.seen, det |-> s.det, agg |-> b]
    <3>1. s = [best |-> s.best, seen |-> s.seen, det |-> s.det, agg |-> s.agg]
      BY <1>1
    <3> QED BY <3>1
  <2> HIDE DEF t
  <2>5. t.best = s.best /\ t.seen = s.seen /\ t.det = s.det /\ t.agg = b
    BY <2>4
  <2>6. /\ AggOk(from, b) /\ (b.next = Unset <=> s.agg.next = Unset)
        /\ b.skipped \subseteq s.agg.skipped \cup gone
        /\ Gone(b) \cup b.held = Gone(s.agg) \cup s.agg.held
    BY <2>3 DEF SkipOk
  <2>7. t \in PipeStates
    BY <1>1, <2>4, <2>6 DEF PipeStates, AggOk
  <2>8. \A h : Delivered(s, h) => Delivered(t, h)
    BY <2>5, <2>6 DEF Delivered
  <2>9. \A m \in b.skipped : OnRecord(s.det, m)
    BY <1>1, <2>6, <2>G DEF SeriesOk
  <2>10. SeriesOk(from, t)
    BY <1>1, <2>5, <2>6, <2>8, <2>9 DEF SeriesOk
  <2>11. Len(s.det.gaps) \in Nat
    BY <1>1, DetectorFields
  <2> QED BY <1>1, <2>1, <2>5, <2>6, <2>7, <2>10, <2>11 DEF Accepted, PipeOk
<1> QED BY <1>2, <1>3

LEMMA AcceptRestKeeps ==
    ASSUME PipelineAssumption, NEW from \in Nat, NEW s, PipeOk(from, s), NEW stream, NEW key \in Nat,
           stream = "KLINES" => s.agg.next # Unset
    PROVE  Accepted(from, s, AcceptRest(s, stream, key))
<1>1. CASE stream = "KLINES"
  <2>1. EventTime(key, 2) \in Int
    <3>1. TF \in Int
      BY DEF PipelineAssumption
    <3> QED BY <3>1 DEF EventTime
  <2>2. AcceptRest(s, stream, key) = AcceptCandle(s, key, 2, EventTime(key, 2))
    BY <1>1 DEF AcceptRest
  <2>3. 2 \in 1 .. 3
    OBVIOUS
  <2> QED BY <1>1, <2>1, <2>2, <2>3, AcceptCandleKeeps
<1>2. CASE stream # "KLINES"
  <2>1. AcceptRest(s, stream, key) = AcceptTrade(s, key)
    BY <1>2 DEF AcceptRest
  <2> QED BY <2>1, AcceptTradeKeeps
<1> QED BY <1>1, <1>2

LEMMA BackfilledKeeps ==
    ASSUME PipelineAssumption, NEW from \in Nat, NEW s, PipeOk(from, s), NEW g \in 1 .. Len(s.det.gaps),
           NEW got, got \subseteq s.det.gaps[g].missing
    PROVE  Accepted(from, s, Backfilled(s, g, got))
<1> DEFINE keys == Ascending(got)
           n == Len(keys)
           stream == s.det.gaps[g].stream
           zero == Started(s, g)
           OK == {t \in PipeStates : Accepted(from, s, t)}
           G == [k \in 0 .. n |-> OK]
           F == [p \in (1 .. n) \X OK |-> AcceptRest(p[2], stream, keys[p[1]])]
           run == CHOOSE f : f = [k \in 0 .. n |-> IF k = 0 THEN zero ELSE AcceptRest(f[k - 1], stream, keys[k])]
<1>1. n \in Nat /\ \A k \in 1 .. n : keys[k] \in Nat
  <2>1. got \in SUBSET Int /\ IsFiniteSet(got) /\ got \in SUBSET Nat
    <3>1. s.det.gaps[g].missing \in SUBSET Nat /\ IsFiniteSet(s.det.gaps[g].missing)
      BY GapFields
    <3> QED BY <3>1, FS_Subset
  <2>2. Rising(got, keys)
    BY <2>1, AscendingRises
  <2> HIDE DEF keys
  <2>3. keys \in Seq(got)
    BY <2>2 DEF Rising
  <2>4. keys \in Seq(Nat)
    BY <2>1, <2>3, SeqWider
  <2> QED BY <2>4
<1>2. zero \in OK
  <2>1. Accepted(from, s, zero)
    BY StartedKeeps
  <2> HIDE DEF zero
  <2> QED BY <2>1 DEF Accepted, PipeOk
<1>3. stream = "KLINES" => s.agg.next # Unset
  BY GapFields
<1>R. Backfilled(s, g, got) = run[n]
  BY DEF Backfilled, Started
<1> HIDE DEF keys, n, stream, zero
<1>4. \A k \in 1 .. n, t \in OK : AcceptRest(t, stream, keys[k]) \in OK
  <2> SUFFICES ASSUME NEW k \in 1 .. n, NEW t \in OK PROVE AcceptRest(t, stream, keys[k]) \in OK
    OBVIOUS
  <2> DEFINE u == AcceptRest(t, stream, keys[k])
  <2>1. Accepted(from, s, t) /\ PipeOk(from, t) /\ (stream = "KLINES" => t.agg.next # Unset)
    BY <1>3 DEF Accepted
  <2>2. Accepted(from, t, u)
    BY <1>1, <2>1, AcceptRestKeeps
  <2> HIDE DEF u
  <2>3. Accepted(from, s, u)
    BY <2>1, <2>2, AcceptedCompose
  <2>4. u \in PipeStates
    BY <2>2 DEF Accepted, PipeOk
  <2> QED BY <2>3, <2>4 DEF u
<1> HIDE DEF OK
<1>5. PICK f : /\ f = [k \in 0 .. n |-> f[k]] /\ f[0] = zero
               /\ \A k \in 1 .. n : f[k] = F[<<k, f[k - 1]>>]
               /\ \A k \in 0 .. n : f[k] \in G[k]
  <2>1. StepsWithin(n, F, G) /\ zero \in G[0]
    <3>1. \A k \in 1 .. n, v \in OK : F[<<k, v>>] = AcceptRest(v, stream, keys[k])
      OBVIOUS
    <3>2. /\ \A k \in 1 .. n : k - 1 \in 0 .. n /\ k \in 0 .. n
          /\ 0 \in 0 .. n
      BY <1>1
    <3>3. \A k \in 0 .. n : G[k] = OK
      OBVIOUS
    <3> HIDE DEF F, G
    <3> QED BY <1>2, <1>4, <3>1, <3>2, <3>3 DEF StepsWithin
  <2> HIDE DEF F, G
  <2>2. \E h : IsRecursion(h, n, zero, F, G)
    BY <1>1, <2>1, RecursionExists, Zenon
  <2> QED BY <2>2 DEF IsRecursion
<1>6. f = [k \in 0 .. n |-> IF k = 0 THEN zero ELSE AcceptRest(f[k - 1], stream, keys[k])]
  <2>1. ASSUME NEW k \in 0 .. n PROVE f[k] = IF k = 0 THEN zero ELSE AcceptRest(f[k - 1], stream, keys[k])
    <3>1. CASE k = 0
      BY <1>5, <3>1
    <3>2. CASE k # 0
      <4>1. k \in 1 .. n /\ k - 1 \in 0 .. n
        BY <1>1, <3>2
      <4>2. f[k - 1] \in OK /\ f[k] = F[<<k, f[k - 1]>>]
        BY <1>5, <4>1
      <4> QED BY <3>2, <4>1, <4>2
    <3> QED BY <3>1, <3>2
  <2>2. f = [k \in 0 .. n |-> f[k]]
    BY <1>5
  <2> QED BY <2>1, <2>2
<1>7. run = [k \in 0 .. n |-> IF k = 0 THEN zero ELSE AcceptRest(run[k - 1], stream, keys[k])]
  BY <1>6
<1> HIDE DEF run
<1>8. run[0] = zero /\ \A k \in 1 .. n : run[k] = AcceptRest(run[k - 1], stream, keys[k])
  <2>1. 0 \in 0 .. n /\ \A k \in 1 .. n : k \in 0 .. n /\ k # 0
    BY <1>1
  <2> QED BY <1>7, <2>1
<1>9. run[n] \in OK
  <2> DEFINE S == {k \in 0 .. n : run[k] \in OK}
  <2>1. 0 \in S
    BY <1>1, <1>2, <1>8
  <2>2. \A k \in 0 .. (n - 1) : k \in S => k + 1 \in S
    <3> SUFFICES ASSUME NEW k \in 0 .. (n - 1), run[k] \in OK PROVE k + 1 \in S
      OBVIOUS
    <3>1. k + 1 \in 1 .. n /\ k + 1 \in 0 .. n /\ (k + 1) - 1 = k
      BY <1>1
    <3>2. run[k + 1] = AcceptRest(run[k], stream, keys[k + 1])
      BY <1>8, <3>1
    <3> QED BY <1>4, <3>1, <3>2
  <2> HIDE DEF S
  <2>3. 0 .. n \subseteq S
    BY <1>1, <2>1, <2>2, InductionUpTo
  <2>4. n \in 0 .. n
    BY <1>1
  <2> QED BY <2>3, <2>4 DEF S
<1> QED BY <1>9, <1>R DEF OK

(* While no candle has come, the series may begin anywhere. *)
LEMMA FromAnew ==
    ASSUME NEW from \in Nat, NEW s, PipeOk(from, s), NEW m \in Nat
    PROVE  \E lo \in Nat : PipeOk(lo, s) /\ (s.agg.next = Unset => lo = m)
<1>1. CASE s.agg.next # Unset
  BY <1>1
<1>2. CASE s.agg.next = Unset
  <2>1. /\ AggOk(from, s.agg) /\ DetOk(from, s.det) /\ s.det.kLo = Unset
        /\ \A k \in 1 .. Len(s.det.gaps) : GapOk(from, s.det.gaps[k]) /\ s.det.gaps[k].stream # "KLINES"
    BY <1>2 DEF PipeOk, SeriesOk, DetOk
  <2>2. AggOk(m, s.agg)
    BY <1>2, <2>1 DEF AggOk
  <2>3. DetOk(m, s.det)
    BY <2>1 DEF DetOk, GapOk
  <2>4. PipeOk(m, s)
    BY <2>2, <2>3 DEF PipeOk, SeriesOk
  <2> QED BY <2>4
<1> QED BY <1>1, <1>2

(* The detector alone takes a step. *)
LEMMA DetectorTurn ==
    ASSUME NEW from, NEW s, PipeOk(from, s), NEW e, DetTurns(from, s.det, e), NEW t,
           t = [best |-> s.best, seen |-> s.seen, det |-> e, agg |-> s.agg]
    PROVE  Accepted(from, s, t)
<1>1. /\ s \in PipeStates /\ SeriesOk(from, s) /\ TradesOk(s.seen, s.det)
      /\ AggOk(from, s.agg) /\ (s.agg.next = Unset <=> s.det.kLo = Unset)
      /\ s.best \in [Minutes -> 0 .. 3] /\ s.seen \in SUBSET Nat /\ s.agg \in Aggregators
  BY PipeFields DEF PipeOk, SeriesOk
<1>2. t.best = s.best /\ t.seen = s.seen /\ t.det = e /\ t.agg = s.agg
  OBVIOUS
<1>3. /\ DetOk(from, e) /\ DetStep("none", 0, s.det, e) /\ (e.kLo = Unset <=> s.det.kLo = Unset)
      /\ TradesOk(s.seen, e)
  BY <1>1 DEF DetTurns, DetMoves, TradesMove
<1>4. t \in PipeStates
  BY <1>1, <1>3 DEF PipeStates, DetOk
<1>5. Progress(from, "none", 0, s, t)
  BY <1>1, <1>2, <1>3 DEF Progress
<1>6. SeriesOk(from, t) /\ Len(s.det.gaps) <= Len(t.det.gaps)
  BY <1>1, <1>5, ProgressKeeps
<1> QED BY <1>2, <1>3, <1>4, <1>6 DEF Accepted, PipeOk

-----------------------------------------------------------------------------
(* When finish has released what was held: no candle is owed any more. *)
Closing(from, s) ==
    /\ DetOk(from, s.det) /\ s.seen \in SUBSET Nat
    /\ s.agg.released \in Seq(Nat) /\ InOrder(s.agg.released)
    /\ \A k \in 1 .. Len(s.det.gaps) : Delivered(s, s.det.gaps[k])
    /\ TradesOk(s.seen, s.det)

PipeInv ==
    /\ ipStage \in {"run", "drain", "done"} /\ taken \in 0 .. Len(det.gaps)
    /\ ipStage # "done" => \E from \in Nat : PipeOk(from, State)
    /\ ipStage = "done" => taken = Len(det.gaps) /\ \E from \in Nat : Closing(from, State)

LEMMA StateFields ==
    /\ State.best = best /\ State.seen = seen /\ State.det = det /\ State.agg = agg
    /\ State.best' = best' /\ State.seen' = seen' /\ State.det' = det' /\ State.agg' = agg'
    /\ State' = [best |-> best', seen |-> seen', det |-> det', agg |-> agg']
BY DEF State

(* A handler of a running pipeline. *)
LEMMA Handled ==
    ASSUME PipeInv, ipStage # "done", ipStage' \in {"run", "drain"}, NEW from \in Nat,
           Accepted(from, State, State'), taken' \in taken .. Len(State.det.gaps)
    PROVE  PipeInv'
<1>1. /\ PipeOk(from, State') /\ Len(det.gaps) <= Len(det'.gaps)
  BY StateFields DEF Accepted
<1>2. Len(det'.gaps) \in Nat
  <2>1. State' \in PipeStates
    BY <1>1 DEF PipeOk
  <2>2. State'.det \in Detectors
    BY <2>1 DEF PipeStates
  <2> QED BY <2>2, StateFields, DetectorFields
<1>3. taken \in 0 .. Len(det.gaps) /\ taken' \in taken .. Len(det.gaps)
  BY StateFields DEF PipeInv
<1>4. Len(det.gaps) \in Nat
  <2>1. PICK lo \in Nat : PipeOk(lo, State)
    BY DEF PipeInv
  <2>2. State.det \in Detectors
    BY <2>1 DEF PipeOk, PipeStates
  <2> QED BY <2>2, StateFields, DetectorFields
<1>5. taken' \in 0 .. Len(det'.gaps)
  BY <1>1, <1>2, <1>3, <1>4
<1> QED BY <1>1, <1>5 DEF PipeInv

LEMMA BecomesState ==
    ASSUME NEW s \in PipeStates, Becomes(s)
    PROVE  State' = s
<1>1. s = [best |-> s.best, seen |-> s.seen, det |-> s.det, agg |-> s.agg]
  BY PipeFields
<1>2. State' = [best |-> s.best, seen |-> s.seen, det |-> s.det, agg |-> s.agg]
  BY StateFields DEF Becomes
<1> QED BY <1>1, <1>2

(* The handler leaves s. *)
LEMMA Becoming ==
    ASSUME NEW from, NEW s, Accepted(from, State, s), Becomes(s)
    PROVE  Accepted(from, State, State')
<1>1. s \in PipeStates
  BY DEF Accepted, PipeOk
<1>2. State' = s
  BY <1>1, BecomesState
<1> QED BY <1>2

LEMMA PipeInit == Init /\ PipelineAssumption => PipeInv
<1> SUFFICES ASSUME Init, PipelineAssumption PROVE PipeInv
  OBVIOUS
<1>1. /\ ipStage = "run" /\ taken = 0 /\ seen = {} /\ det = EmptyDetector /\ agg = EmptyAggregator
      /\ best = [m \in Minutes |-> 0]
  BY DEF Init
<1>2. /\ det.latest = Unset /\ det.kLo = Unset /\ det.kClosed = {} /\ det.tLo = Unset /\ det.tMax = Unset
      /\ det.pending = <<>> /\ det.gaps = <<>>
      /\ agg.next = Unset /\ agg.held = {} /\ agg.released = <<>> /\ agg.skipped = {}
  BY <1>1 DEF EmptyDetector, EmptyAggregator
<1>3. det \in Detectors /\ agg \in Aggregators
  BY <1>1 DEF EmptyDetector, EmptyAggregator, Detectors, Aggregators, Unset
<1>4. Len(det.gaps) = 0 /\ 1 .. 0 = {} /\ Len(agg.released) = 0 /\ ToSet(det.pending) = {}
  <2>1. Len(det.gaps) = 0 /\ 1 .. 0 = {} /\ Len(agg.released) = 0
    BY <1>2
  <2>2. ToSet(det.pending) = {det.pending[k] : k \in 1 .. Len(det.pending)} /\ Len(det.pending) = 0
    BY <1>2, <1>3, DetectorFields, MembersAre
  <2> QED BY <2>1, <2>2
<1>5. AggOk(0, agg)
  BY <1>2, <1>3, <1>4, FS_EmptySet DEF AggOk, InOrder
<1>6. DetOk(0, det)
  BY <1>2, <1>3, <1>4 DEF DetOk
<1>7. TradesOk(seen, det)
  BY <1>1, <1>2, <1>4 DEF TradesOk, InGap
<1>8. State \in PipeStates
  <2>1. best \in [Minutes -> 0 .. 3]
    BY <1>1
  <2> QED BY <1>1, <1>3, <2>1 DEF State, PipeStates
<1>9. SeriesOk(0, State)
  BY <1>2, <1>4, <1>5, <1>6, StateFields DEF SeriesOk
<1>10. PipeOk(0, State)
  BY <1>7, <1>8, <1>9, StateFields DEF PipeOk
<1> QED BY <1>1, <1>4, <1>10 DEF PipeInv

LEMMA PipeStep ==
    ASSUME PipelineAssumption, PipeInv, [Next]_vars
    PROVE  PipeInv'
<1>1. CASE UNCHANGED vars
  <2>1. State' = State /\ ipStage' = ipStage /\ taken' = taken /\ det' = det
    BY <1>1 DEF vars, State
  <2> QED BY <2>1 DEF PipeInv
<1>R. ASSUME ipStage # "done" PROVE /\ \E from \in Nat : PipeOk(from, State)
                                     /\ taken \in Nat /\ Len(State.det.gaps) \in Nat /\ taken <= Len(State.det.gaps)
                                     /\ taken \in taken .. Len(State.det.gaps)
  <2>1. PICK from \in Nat : PipeOk(from, State)
    BY <1>R DEF PipeInv
  <2>2. Len(State.det.gaps) \in Nat
    BY <2>1, PipeFields, DetectorFields DEF PipeOk
  <2> QED BY <2>1, <2>2, StateFields DEF PipeInv
<1>2. ASSUME NEW m \in Minutes, NEW rank \in {1, 3}, OnCandle(m, rank) PROVE PipeInv'
  <2> DEFINE ts == EventTime(m, rank)
             s == AcceptCandle(State, m, rank, ts)
  <2>1. ipStage = "run" /\ ipStage' = "run" /\ taken' = taken /\ Becomes(s)
    BY <1>2 DEF OnCandle, Listening
  <2>2. m \in Nat /\ rank \in 1 .. 3 /\ ts \in Int
    BY DEF PipelineAssumption, EventTime
  <2> HIDE DEF ts
  <2>3. PICK lo \in Nat : PipeOk(lo, State)
    BY <1>R, <2>1
  <2>4. PICK from \in Nat : PipeOk(from, State) /\ (State.agg.next = Unset => from = m)
    BY <2>2, <2>3, FromAnew
  <2>5. Accepted(from, State, s)
    BY <2>2, <2>4, AcceptCandleKeeps
  <2> HIDE DEF s
  <2>6. Accepted(from, State, State')
    BY <2>1, <2>5, Becoming
  <2> QED BY <1>R, <2>1, <2>6, Handled
<1>3. ASSUME NEW i \in Trades, OnTrade(i) PROVE PipeInv'
  <2> DEFINE s == AcceptTrade(State, i)
  <2>1. ipStage = "run" /\ ipStage' = "run" /\ taken' = taken /\ Becomes(s)
    BY <1>3 DEF OnTrade, Listening
  <2>2. i \in Nat
    BY DEF PipelineAssumption
  <2>3. PICK from \in Nat : PipeOk(from, State)
    BY <1>R, <2>1
  <2>4. Accepted(from, State, s)
    BY <2>2, <2>3, AcceptTradeKeeps
  <2> HIDE DEF s
  <2>5. Accepted(from, State, State')
    BY <2>1, <2>4, Becoming
  <2> QED BY <1>R, <2>1, <2>5, Handled
<1>4. ASSUME NEW e, det' = e, UNCHANGED <<hook, best, seen, agg, taken>>, ipStage = "run", ipStage' \in {"run", "drain"},
             \A from \in Nat : DetOk(from, det) => DetTurns(from, det, e)
      PROVE  PipeInv'
  <2>1. PICK from \in Nat : PipeOk(from, State)
    BY <1>R, <1>4
  <2>2. DetTurns(from, State.det, e)
    BY <1>4, <2>1, StateFields DEF PipeOk, SeriesOk
  <2>3. State' = [best |-> State.best, seen |-> State.seen, det |-> e, agg |-> State.agg]
    BY <1>4, StateFields
  <2>4. Accepted(from, State, State')
    BY <2>1, <2>2, <2>3, DetectorTurn
  <2>5. ipStage # "done" /\ taken' = taken
    BY <1>4
  <2>6. taken' \in taken .. Len(State.det.gaps)
    BY <1>R, <2>5
  <2> QED BY <1>4, <2>4, <2>5, <2>6, Handled
<1>5. ASSUME NEW ts \in 0 .. MaxTime, OnTime(ts) PROVE PipeInv'
  <2>1. \A from \in Nat : DetOk(from, det) => DetTurns(from, det, on_time(det, ts))
    BY OnTimeTurns
  <2>2. det' = on_time(det, ts) /\ UNCHANGED <<hook, best, seen, agg, taken>> /\ ipStage = "run" /\ ipStage' \in {"run", "drain"}
    BY <1>5 DEF OnTime, Listening
  <2> QED BY <1>4, <2>1, <2>2
<1>6. ASSUME Disconnect \/ Finish PROVE PipeInv'
  <2>1. \A from \in Nat : DetOk(from, det) => DetTurns(from, det, Confirm(det, TRUE))
    BY ConfirmTurns
  <2>2. det' = Confirm(det, TRUE) /\ UNCHANGED <<hook, best, seen, agg, taken>> /\ ipStage = "run" /\ ipStage' \in {"run", "drain"}
    BY <1>6 DEF Disconnect, Finish, Listening
  <2> QED BY <1>4, <2>1, <2>2
<1>7. ASSUME FillGap PROVE PipeInv'
  <2> DEFINE g == taken + 1
  <2>1. /\ Queued /\ taken' = g /\ ipStage' = ipStage
        /\ \/ UNCHANGED <<best, seen, det, agg>>
           \/ Becomes(SkipUnfilled(State, g))
           \/ \E got \in SUBSET det.gaps[g].missing :
                 Becomes(SkipUnfilled(Resolved(Backfilled(State, g, got), g), g))
    BY <1>7 DEF FillGap, Fetched
  <2>2. ipStage # "done"
    BY <2>1 DEF PipeInv, Queued
  <2>3. PICK from \in Nat : PipeOk(from, State)
    BY <1>R, <2>2
  <2>4. Len(State.det.gaps) \in Nat /\ taken \in Nat /\ g \in 1 .. Len(State.det.gaps)
    BY <1>R, <2>1, <2>2, StateFields DEF Queued
  <2>G. g \in taken .. Len(State.det.gaps)
    BY <2>4
  <2> HIDE DEF g
  <2>5. Accepted(from, State, State')
    <3>1. CASE UNCHANGED <<best, seen, det, agg>>
      <4>1. State' = State
        BY <3>1 DEF State
      <4>2. Accepted(from, State, State)
        BY <2>3, AcceptedSame
      <4> QED BY <4>1, <4>2
    <3>2. CASE Becomes(SkipUnfilled(State, g))
      <4>1. Accepted(from, State, SkipUnfilled(State, g))
        BY <2>3, <2>4, SkipUnfilledKeeps
      <4> QED BY <3>2, <4>1, Becoming
    <3>3. CASE \E got \in SUBSET det.gaps[g].missing :
                 Becomes(SkipUnfilled(Resolved(Backfilled(State, g, got), g), g))
      <4>1. PICK got \in SUBSET det.gaps[g].missing :
                 Becomes(SkipUnfilled(Resolved(Backfilled(State, g, got), g), g))
        BY <3>3
      <4> DEFINE a == Backfilled(State, g, got)
                 b == Resolved(a, g)
                 c == SkipUnfilled(b, g)
      <4>2. Becomes(c)
        BY <4>1
      <4>3. got \subseteq State.det.gaps[g].missing
        BY StateFields
      <4>4. Accepted(from, State, a)
        BY <2>3, <2>4, <4>3, BackfilledKeeps
      <4> HIDE DEF a
      <4>5. PipeOk(from, a) /\ g \in 1 .. Len(a.det.gaps)
        <5>1. PipeOk(from, a) /\ Len(State.det.gaps) <= Len(a.det.gaps)
          BY <4>4 DEF Accepted
        <5>2. Len(a.det.gaps) \in Nat
          BY <5>1, PipeFields, DetectorFields DEF PipeOk
        <5> QED BY <2>4, <5>1, <5>2
      <4>6. Accepted(from, a, b) /\ Len(b.det.gaps) = Len(a.det.gaps)
        BY <4>5, ResolvedKeeps
      <4> HIDE DEF b
      <4>7. PipeOk(from, b) /\ g \in 1 .. Len(b.det.gaps)
        BY <4>5, <4>6 DEF Accepted
      <4>8. Accepted(from, b, c)
        BY <4>7, SkipUnfilledKeeps
      <4> HIDE DEF c
      <4>9. Accepted(from, State, b)
        BY <2>3, <4>4, <4>6, AcceptedCompose
      <4>10. Accepted(from, State, c)
        BY <2>3, <4>8, <4>9, AcceptedCompose
      <4> QED BY <4>2, <4>10, Becoming
    <3> QED BY <2>1, <3>1, <3>2, <3>3
  <2>6. ipStage' \in {"run", "drain"}
    BY <2>1, <2>2 DEF PipeInv
  <2> QED BY <2>1, <2>2, <2>5, <2>6, <2>G, Handled
<1>8. ASSUME FinishFlush PROVE PipeInv'
  <2>1. ipStage = "drain" /\ ~Queued /\ ipStage' = "done" /\ agg' = flush(agg) /\ UNCHANGED <<best, seen, det, taken>>
    BY <1>8 DEF FinishFlush
  <2>2. PICK from \in Nat : PipeOk(from, State)
    BY <1>R, <2>1
  <2>3. /\ AggOk(from, agg) /\ DetOk(from, det) /\ seen \in SUBSET Nat /\ TradesOk(seen, det)
        /\ \A k \in 1 .. Len(det.gaps) : Delivered(State, det.gaps[k])
    BY <2>2, StateFields, PipeFields DEF PipeOk, SeriesOk
  <2>4. FlushOk(agg, agg')
    BY <2>1, <2>3, FlushKeeps
  <2>5. \A h : Delivered(State, h) => Delivered(State', h)
    <3>1. State'.seen = seen /\ State'.agg = agg'
      BY <2>1, StateFields
    <3> QED BY <2>4, <3>1, StateFields DEF FlushOk, Delivered
  <2>6. Closing(from, State')
    <3>1. State'.seen = seen /\ State'.agg = agg' /\ State'.det = det
      BY <2>1, StateFields
    <3>2. agg'.released \in Seq(Nat) /\ InOrder(agg'.released)
      BY <2>4 DEF FlushOk
    <3> QED BY <2>3, <2>5, <3>1, <3>2 DEF Closing
  <2>7. taken' = Len(det'.gaps)
    <3>1. taken \in Nat /\ taken <= Len(det.gaps) /\ Len(det.gaps) \in Nat
      BY <1>R, <2>1, StateFields
    <3> QED BY <2>1, <3>1 DEF Queued
  <2>8. taken' \in 0 .. Len(det'.gaps)
    BY <2>1 DEF PipeInv
  <2> QED BY <2>1, <2>6, <2>7, <2>8 DEF PipeInv
<1> QED BY <1>1, <1>2, <1>3, <1>5, <1>6, <1>7, <1>8 DEF Next

-----------------------------------------------------------------------------
LEMMA PipeSeries == PipeInv => SeriesIsAccounted
<1> SUFFICES ASSUME PipeInv PROVE SeriesIsAccounted
  OBVIOUS
<1>1. PICK from \in Nat : Closing(from, State) \/ (ipStage # "done" /\ PipeOk(from, State))
  BY DEF PipeInv
<1>2. Closing(from, State)
  BY <1>1, StateFields, PipeFields DEF PipeOk, SeriesOk, AggOk, Aggregators, Closing
<1>3. /\ DetOk(from, det) /\ agg.released \in Seq(Nat) /\ InOrder(agg.released)
      /\ \A k \in 1 .. Len(det.gaps) : Delivered(State, det.gaps[k]) /\ GapOk(from, det.gaps[k])
      /\ DOMAIN det.gaps = 1 .. Len(det.gaps)
  BY <1>2, StateFields, DetectorFields DEF Closing, DetOk
<1>4. ToSet(agg.released) = Gone(agg)
  BY <1>3, MembersAre DEF Gone
<1>5. ReleasedInOrder
  <2> SUFFICES ASSUME NEW k \in 2 .. Len(agg.released) PROVE agg.released[k - 1] < agg.released[k]
    BY DEF ReleasedInOrder
  <2>1. Len(agg.released) \in Nat
    BY <1>3
  <2>2. k - 1 \in 1 .. Len(agg.released) /\ k \in 1 .. Len(agg.released) /\ k - 1 < k
    BY <2>1
  <2> QED BY <1>3, <2>2 DEF InOrder
<1>6. FilledIsDelivered
  <2> SUFFICES ASSUME NEW k \in DOMAIN det.gaps, det.gaps[k].status = "FILLED"
               PROVE  /\ det.gaps[k].filled = Cardinality(det.gaps[k].keys)
                      /\ det.gaps[k].keys \subseteq IF det.gaps[k].stream = "KLINES"
                                                    THEN ToSet(agg.released) \cup agg.held ELSE seen
    BY DEF FilledIsDelivered
  <2> DEFINE h == det.gaps[k]
  <2>1. GapOk(from, h) /\ Delivered(State, h) /\ h.status = "FILLED"
    BY <1>3
  <2> HIDE DEF h
  <2>2. h.missing = {} /\ h.filled = Cardinality(h.keys)
    BY <2>1 DEF GapOk
  <2>3. \A key \in h.keys : IF h.stream = "KLINES" THEN key \in Gone(agg) \cup agg.held ELSE key \in seen
    BY <2>1, <2>2, StateFields DEF Delivered
  <2>4. h.keys \subseteq IF h.stream = "KLINES" THEN ToSet(agg.released) \cup agg.held ELSE seen
    BY <1>4, <2>3
  <2> QED BY <2>2, <2>4 DEF h
<1>7. NoSilentHole
  <2> SUFFICES ASSUME ipStage # "done", NEW m \in Minutes, agg.released # <<>>, agg.released[1] <= m, m < agg.next
               PROVE  m \in ToSet(agg.released) \/ Unfilled(m)
    BY DEF NoSilentHole
  <2>1. PICK lo \in Nat : PipeOk(lo, State)
    BY DEF PipeInv
  <2>2. AggOk(lo, agg) /\ DetOk(lo, det) /\ \A o \in agg.skipped : OnRecord(det, o)
    BY <2>1, StateFields DEF PipeOk, SeriesOk
  <2>3. Len(agg.released) \in Nat /\ 1 \in 1 .. Len(agg.released) /\ agg.released[1] \in Nat
    BY <1>3
  <2>4. /\ agg.next \in Int /\ agg.next # Unset
        /\ lo <= agg.released[1]
        /\ \A o \in lo .. (agg.next - 1) : o \in Gone(agg) \/ o \in agg.skipped
    BY <2>2, <2>3 DEF AggOk, Aggregators
  <2>5. m \in Int
    BY PipelineAssumption DEF PipelineAssumption
  <2>6. m \in lo .. (agg.next - 1)
    BY <2>3, <2>4, <2>5
  <2>7. CASE m \in Gone(agg)
    BY <1>4, <2>7
  <2>8. CASE m \in agg.skipped
    <3>1. PICK k \in 1 .. Len(det.gaps) : det.gaps[k].stream = "KLINES" /\ m \in det.gaps[k].missing
      BY <2>2, <2>8 DEF OnRecord
    <3>2. det.gaps[k].status # "FILLED"
      <4>1. GapOk(from, det.gaps[k])
        BY <1>3
      <4> QED BY <3>1, <4>1 DEF GapOk
    <3> QED BY <1>3, <3>1, <3>2 DEF Unfilled
  <2> QED BY <2>4, <2>6, <2>7, <2>8
<1> QED BY <1>5, <1>6, <1>7 DEF SeriesIsAccounted

LEMMA PipeTrades == PipeInv => TradesAccounted
<1> SUFFICES ASSUME PipeInv, det.tMax # Unset, NEW i \in det.tLo .. det.tMax
             PROVE  Cardinality({x \in {"seen", "hole", "gap"} :
                                    CASE x = "seen" -> i \in seen
                                      [] x = "hole" -> InHole(det, i)
                                      [] x = "gap"  -> OwnerOf(det, "TRADES", i) # {}}) = 1
  BY DEF TradesAccounted
<1> DEFINE P(x) == CASE x = "seen" -> i \in seen
                     [] x = "hole" -> InHole(det, i)
                     [] x = "gap"  -> OwnerOf(det, "TRADES", i) # {}
           X == {x \in {"seen", "hole", "gap"} : P(x)}
<1>1. PICK from \in Nat : Closing(from, State) \/ PipeOk(from, State)
  BY DEF PipeInv
<1>2. DetOk(from, det) /\ TradesOk(seen, det) /\ seen \in SUBSET Nat
  BY <1>1, StateFields, PipeFields DEF PipeOk, SeriesOk, Closing
<1>3. /\ det \in Detectors /\ DOMAIN det.pending = 1 .. Len(det.pending) /\ DOMAIN det.gaps = 1 .. Len(det.gaps)
      /\ ToSet(det.pending) = {det.pending[k] : k \in 1 .. Len(det.pending)}
  BY <1>2, DetectorFields, MembersAre DEF DetOk
<1>4. InHole(det, i) <=> \E h \in ToSet(det.pending) : i \in h.missing
  BY <1>3 DEF InHole
<1>5. OwnerOf(det, "TRADES", i) # {} <=> InGap(det, i)
  BY <1>3 DEF OwnerOf, InGap
<1>6. /\ i \in Nat
      /\ i \in seen \/ InGap(det, i) \/ InHole(det, i)
      /\ ~(i \in seen /\ InGap(det, i)) /\ ~(InHole(det, i) /\ i \in seen) /\ ~(InHole(det, i) /\ InGap(det, i))
  <2>1. det.tLo \in Nat /\ det.tMax \in Nat
    BY <1>2 DEF TradesOk
  <2>2. i \in Nat
    BY <2>1
  <2> QED BY <1>2, <1>4, <2>2 DEF TradesOk
<1>7. /\ P("seen") <=> i \in seen
      /\ P("hole") <=> InHole(det, i)
      /\ P("gap") <=> InGap(det, i)
  BY <1>5
<1> HIDE DEF P
<1>8. X = {"seen"} \/ X = {"hole"} \/ X = {"gap"}
  BY <1>6, <1>7
<1> HIDE DEF X
<1>9. Cardinality(X) = 1
  BY <1>8, FS_Singleton
<1> QED BY <1>9 DEF X, P

(* Whatever the transport loses, repeats or reorders and whatever a backfill brings,     *)
(* candles are released once and in ascending order, a minute passed over stays missing  *)
(* in a gap that is not FILLED until the session ends, and what a FILLED gap missed was   *)
(* delivered and counted in full (pipeline.py _accept and _fill_loop, candles.py          *)
(* CandleAggregator, gap_detector.py GapDetector).                                        *)
THEOREM SeriesAccounted == Spec => []SeriesIsAccounted
<1>1. Init => PipeInv
  BY PipelineAssumption, PipeInit
<1>2. PipeInv /\ [Next]_vars => PipeInv'
  BY PipelineAssumption, PipeStep
<1>3. PipeInv => SeriesIsAccounted
  BY PipeSeries
<1> QED BY <1>1, <1>2, <1>3, PTL DEF Spec

(* Every trade id between the first and the newest was seen, is a candidate or is missing *)
(* in a gap, and never two of these at once, for any ids, any reordering and any moment   *)
(* at which candidates are confirmed (gap_detector.py on_trade, _confirm_holes, _fill).   *)
THEOREM TradesCounted == Spec => []TradesAccounted
<1>1. Init => PipeInv
  BY PipelineAssumption, PipeInit
<1>2. PipeInv /\ [Next]_vars => PipeInv'
  BY PipelineAssumption, PipeStep
<1>3. PipeInv => TradesAccounted
  BY PipeTrades
<1> QED BY <1>1, <1>2, <1>3, PTL DEF Spec

=============================================================================

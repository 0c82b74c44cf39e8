----------------------------- MODULE Pagination -----------------------------
(***************************************************************************)
(* The three loops that fetch a range from the exchange page by page:      *)
(* closed bars with one bar of overlap (backfill_klines), funding rates    *)
(* (fetch_funding_history) and trades by id (fetch_agg_trades), and the    *)
(* gaps, or the fill of one, that the fetched bars leave.                  *)
(*                                                                         *)
(* Source: ingest/backfill.py, ingest/funding.py, ingest/pipeline.py       *)
(* (fetch_agg_trades).                                                     *)
(*                                                                         *)
(* A row is a key (open time, funding time, trade id) with a version: the  *)
(* exchange may revise a row between two pages.  It may also answer with   *)
(* fewer rows than it has, or with its last page again.                    *)
(***************************************************************************)
EXTENDS Integers, Sequences, FiniteSetsExt, SequencesExt

CONSTANTS
    LastKey,     \* the keys are 0 .. LastKey
    PageLimit    \* limit, at least 2 for bars: one of each page is the overlap

ASSUME PaginationAssumption == LastKey \in Nat /\ PageLimit \in Nat /\ PageLimit >= 2

VARIABLES
    pgJob,      \* what is fetched: kind, first and last key, keys below now are closed
    pgData,     \* the exchange: the rows it has, as key :> version
    pgCursor,   \* cursor
    pgPrev,     \* the last page: prev_last is its last row
    pgGot,      \* by_open, and the rows of the other two loops
    pgSeams,    \* the seams seen, of every page but the first
    pgMismatches, \* overlap_mismatches
    pgSeen,     \* history: the rows seen so far, with their versions
    pgRequests, \* requests, modulo 2: no page is a step that changes nothing
    pgStatus,   \* "run", "done" or "conflict"
    pgFault     \* history: the exchange held back rows, repeated or revised one

pgVars == <<pgJob, pgData, pgCursor, pgPrev, pgGot, pgSeams, pgMismatches, pgSeen, pgRequests, pgStatus, pgFault>>

Keys == 0..LastKey

Rows == {[key |-> k, ver |-> v] : k \in Keys, v \in 0..1}

PageInit ==
    /\ pgJob \in {[kind |-> kind, lo |-> lo, hi |-> hi, now |-> now] :
                     kind \in {"klines", "funding", "trades"}, lo \in 0..1,
                     hi \in {LastKey - 1, LastKey}, now \in {LastKey, LastKey + 1}}
    /\ pgJob.kind # "klines" => pgJob.now = LastKey + 1
    /\ pgData \in {{[key |-> k, ver |-> 0] : k \in have} : have \in SUBSET Keys}
    /\ pgCursor = pgJob.lo
    /\ pgPrev = <<>>
    /\ pgGot = <<>>
    /\ pgSeams = {}
    /\ pgMismatches = <<>>
    /\ pgSeen = {}
    /\ pgRequests = 0
    /\ pgStatus = "run"
    /\ pgFault = FALSE

(* What the exchange holds for a request, in order, and what it may answer.*)
Held(cursor) ==
    SetToSortSeq({r \in pgData : r.key >= cursor /\ (pgJob.kind = "trades" \/ r.key <= pgJob.hi)},
                 LAMBDA a, b : a.key < b.key)

Want ==
    IF pgJob.kind = "trades" /\ pgJob.hi - pgCursor + 1 < PageLimit
      THEN pgJob.hi - pgCursor + 1 ELSE PageLimit

FirstOf(s, n) == SubSeq(s, 1, IF Len(s) < n THEN Len(s) ELSE n)

Honest == FirstOf(Held(pgCursor), Want)

Answers == {Honest, FirstOf(Honest, Len(Honest) - 1), pgPrev}

-----------------------------------------------------------------------------
Last1 == pgPrev[Len(pgPrev)]

(* The seam of a page with the one before it. *)
Seam(page) ==
    IF page = <<>> \/ Head(page).key # Last1.key THEN "MISSING"
    ELSE IF Head(page) = Last1 THEN "OK" ELSE "MISMATCH"

(* Fault: the newer version takes its place without a word. *)
FaultyMismatches(page) == <<>>

(* The mismatch that is noted for a page: its key, the version before and the *)
(* version now.                                                            *)
Mismatches(page) ==
    IF pgPrev # <<>> /\ Seam(page) = "MISMATCH"
      THEN <<[key |-> Head(page).key, previous |-> Last1.ver, current |-> Head(page).ver]>>
      ELSE <<>>

(* The rows that are new on a page: the overlap is left out where it is    *)
(* the same, and replaces the older version where it is not.               *)
NewRows(page) ==
    IF pgPrev # <<>> /\ Seam(page) = "OK" THEN Tail(page) ELSE page

(* by_open after a page: closed bars from the first expected one on, the   *)
(* later version in the place of the earlier.                              *)
Keep(got, rows) ==
    LET fresh == SelectSeq(rows, LAMBDA r : r.key < pgJob.now /\ pgJob.lo <= r.key)
        keys == {fresh[i].key : i \in DOMAIN fresh}
    IN SelectSeq(got, LAMBDA r : r.key \notin keys) \o fresh

LastExpected == IF pgJob.now - 1 < pgJob.hi THEN pgJob.now - 1 ELSE pgJob.hi
KlinesStop(page) ==
    \/ page = <<>>
    \/ Len(page) < PageLimit
    \/ page[Len(page)].key >= LastExpected
    \/ pgPrev # <<>> /\ page[Len(page)].key <= Last1.key

(* One page of bars. *)
KlinesPage(page) ==
    /\ pgGot' = Keep(pgGot, NewRows(page))
    /\ pgSeams' = IF pgPrev = <<>> THEN pgSeams ELSE pgSeams \cup {Seam(page)}
    /\ pgMismatches' = pgMismatches \o Mismatches(page)
    /\ IF KlinesStop(page)
         THEN pgStatus' = "done" /\ UNCHANGED pgCursor
         ELSE pgCursor' = page[Len(page)].key /\ UNCHANGED pgStatus

InRange(rows) == SelectSeq(rows, LAMBDA r : pgJob.lo <= r.key /\ r.key <= pgJob.hi)

(* normalize_funding_rates: two different rates of one moment are an error.*)
Conflict(rows) == \E i, j \in DOMAIN rows : rows[i].key = rows[j].key /\ rows[i] # rows[j]

(* One page of funding rates, or of trades; both go on from the last key   *)
(* plus one, and stop when the exchange did not move or gave too few rows. *)
CursorPage(page) ==
    LET last == page[Len(page)].key
        stop == Len(page) < Want \/ last < pgCursor
        next == IF stop THEN pgCursor ELSE last + 1
    IN /\ pgGot' = pgGot \o page
       /\ pgCursor' = next
       /\ pgStatus' = IF ~stop /\ next <= pgJob.hi THEN "run"
                      ELSE IF pgJob.kind = "funding" /\ Conflict(pgGot \o page) THEN "conflict"
                      ELSE "done"
       /\ UNCHANGED <<pgSeams, pgMismatches>>

Page ==
    /\ pgStatus = "run"
    /\ \E page \in Answers :
         /\ IF pgJob.kind = "klines" THEN KlinesPage(page) ELSE CursorPage(page)
         /\ pgPrev' = page
         /\ pgSeen' = pgSeen \cup ToSet(page)
         /\ pgRequests' = (pgRequests + 1) % 2
         /\ pgFault' = (pgFault \/ page # Honest)
    /\ UNCHANGED <<pgJob, pgData>>

(* The exchange revises a row it has. *)
Revise ==
    /\ pgStatus = "run" /\ ~pgFault
    /\ \E r \in pgData : pgData' = (pgData \ {r}) \cup {[r EXCEPT !.ver = 1]}
    /\ pgFault' = TRUE
    /\ UNCHANGED <<pgJob, pgCursor, pgPrev, pgGot, pgSeams, pgMismatches, pgSeen, pgRequests, pgStatus>>

PageNext == Page \/ Revise
PageFairness == WF_pgVars(Page)

-----------------------------------------------------------------------------
(* The result of a loop. *)

(* The sorted series of the bars, or the rows in range. *)
Series ==
    IF pgJob.kind = "klines" THEN SetToSortSeq(ToSet(pgGot), LAMBDA a, b : a.key < b.key)
    ELSE InRange(pgGot)

(* detect_gaps over the expected range: a gap is opened in front of each   *)
(* bar that does not follow the one before it, and one at the end.         *)
DetectGaps(opens, from, to) ==
    LET Before(i) == IF i = 1 THEN from - 1 ELSE opens[i - 1]
        inner == {[lo |-> Before(i) + 1, hi |-> opens[i] - 1] :
                    i \in {j \in DOMAIN opens : opens[j] - Before(j) > 1}}
        last == IF opens = <<>> THEN from - 1 ELSE opens[Len(opens)]
    IN IF to > last THEN inner \cup {[lo |-> last + 1, hi |-> to]} ELSE inner

Gaps ==
    IF LastExpected < pgJob.lo THEN {}
    ELSE DetectGaps([i \in DOMAIN Series |-> Series[i].key], pgJob.lo, LastExpected)

(* BackfillResult.ok. *)
Ok == Gaps = {} /\ pgMismatches = <<>> /\ pgSeams \subseteq {"OK"}

(* fill_gaps: the status a gap is given by the rows fetched for it.        *)
FillStatus ==
    LET n == Len(InRange(Series))
    IN IF n = pgJob.hi - pgJob.lo + 1 THEN "FILLED" ELSE IF n > 0 THEN "PARTIAL" ELSE "UNFILLABLE"

(* With an exchange that answers in full and revises nothing, a loop       *)
(* fetches every row of the range it has, each one once: page borders, the *)
(* overlap and the stop conditions lose and repeat nothing.                *)
PagesAreComplete ==
    pgStatus # "run" /\ ~pgFault =>
        /\ pgStatus = "done"
        /\ ToSet(Series) = {r \in pgData : pgJob.lo <= r.key /\ r.key <= pgJob.hi /\ r.key < pgJob.now}
        /\ IsInjective(Series)
        /\ pgSeams \subseteq {"OK"}

(* Whatever the exchange answered, the gaps reported for a backfill are    *)
(* exactly the maximal runs of expected bars it did not return, and a gap  *)
(* that counts as filled has every one of its bars.                        *)
GapsAreTheMissing ==
    pgStatus = "done" /\ pgJob.kind = "klines" =>
        LET keys == {pgGot[i].key : i \in DOMAIN pgGot}
            missing == (pgJob.lo .. LastExpected) \ keys
        IN /\ UNION {g.lo .. g.hi : g \in Gaps} = missing
           /\ \A g \in Gaps : g.lo <= g.hi /\ g.lo - 1 \notin missing /\ g.hi + 1 \notin missing
           /\ FillStatus = "FILLED" <=> (pgJob.lo .. pgJob.hi) \subseteq keys

(* A bar that was revised between two pages is kept in the version that    *)
(* came last, in one place.                                                *)
LatestVersionKept ==
    pgJob.kind = "klines" =>
        /\ \A i, j \in DOMAIN pgGot : i # j => pgGot[i].key # pgGot[j].key
        /\ \A i \in DOMAIN pgPrev : pgPrev[i].key < pgJob.now /\ pgPrev[i].key >= pgJob.lo =>
             pgPrev[i] \in ToSet(pgGot)

(* The bars that the exchange showed in two versions are exactly those     *)
(* named in overlap_mismatches, each with the version that was replaced    *)
(* and the one that replaced it, and their seams are marked.  A result     *)
(* that calls itself ok holds every expected bar, and each of them in the  *)
(* only version that was shown.                                            *)
RevisionsReported ==
    pgJob.kind = "klines" =>
        /\ ToSet(pgMismatches) = {[key |-> r.key, previous |-> 0, current |-> 1] :
                                     r \in {x \in pgSeen : x.ver = 0 /\ [x EXCEPT !.ver = 1] \in pgSeen}}
        /\ "MISMATCH" \in pgSeams <=> pgMismatches # <<>>
        /\ pgStatus = "done" /\ Ok =>
             \A k \in pgJob.lo .. LastExpected :
                 \E r \in ToSet(pgGot) : {x \in pgSeen : x.key = k} = {r}

(* What a loop over pages returns is right, with a faithful exchange and   *)
(* with one that repeats, withholds and revises.                           *)
PagesAreRight == PagesAreComplete /\ GapsAreTheMissing /\ LatestVersionKept /\ RevisionsReported

(* A loop ends whatever the exchange answers, the same page again and      *)
(* again included.                                                         *)
PagingEnds == pgStatus = "run" ~> pgStatus # "run"

=============================================================================

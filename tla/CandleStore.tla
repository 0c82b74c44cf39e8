----------------------------- MODULE CandleStore ----------------------------
(***************************************************************************)
(* The candle table and its repository                                     *)
(* (storage/repositories/candle.py): batches are split into rounds of      *)
(* distinct keys and upserted round by round in one transaction, readers   *)
(* walk the table page by page, each page in its own snapshot, while       *)
(* writers commit between the pages, and gaps are found from neighbouring  *)
(* rows.  A candle is [t, closed, src, body]: the minute it opens at, its  *)
(* source (a smaller number is a better source) and what it says.          *)
(***************************************************************************)
EXTENDS Integers, Sequences, FiniteSetsExt, SequencesExt

CONSTANTS
    Candles,        \* the candles writers may hold
    MaxBatch,       \* bound: candles in a batch
    MaxUpserts,     \* bound: batches
    PageSize        \* limit of a page

ASSUME CandleStoreAssumption ==
    /\ PageSize \in Nat \ {0}
    /\ \A c \in Candles : c.t \in Int /\ c.src \in Int /\ c.closed \in BOOLEAN

VARIABLES
    candleTable,    \* the rows, by minute
    oneByOne,       \* ghost: the rows had every candle been upserted alone
    firstClosed,    \* ghost: the row of each minute as it was first closed
    upserts,        \* batches committed
    lastUpsert,     \* what the last upsert reported; ghost: its new minutes
    reader          \* an iter_range in progress

csVars == <<candleTable, oneByOne, firstClosed, upserts, lastUpsert, reader>>

TableMinutes == {c.t : c \in Candles}
Put(rows, c) == [m \in DOMAIN rows \cup {c.t} |-> IF m = c.t THEN c ELSE rows[m]]

-----------------------------------------------------------------------------
\* ON CONFLICT DO UPDATE ... WHERE NOT is_closed AND excluded.src <= src
Applies(rows, c) ==
    c.t \in DOMAIN rows => ~rows[c.t].closed /\ c.src <= rows[c.t].src

Upserted(rows, c) == IF Applies(rows, c) THEN Put(rows, c) ELSE rows

\* split_unique_rounds: round r holds the r-th candle of every key, here by
\* its place in the batch; a round beyond the last is empty.
Occurrence(batch, i) == Cardinality({j \in 1..i : batch[j].t = batch[i].t})
Round(batch, r) == {i \in DOMAIN batch : Occurrence(batch, i) = r}

\* One statement: every row is judged by the table before the statement.
\* PostgreSQL refuses a statement that would touch a row twice.
Statement(rows, batch, round) ==
    LET taken == {i \in round : Applies(rows, batch[i])}
        keys  == {batch[i].t : i \in taken}
    IN [rows |-> [m \in DOMAIN rows \cup keys |->
                     IF m \in keys THEN batch[CHOOSE i \in taken : batch[i].t = m]
                     ELSE rows[m]],
        inserted |-> Cardinality(keys \ DOMAIN rows),
        updated  |-> Cardinality(keys \cap DOMAIN rows)]

\* upsert_records: the rounds in order, in the transaction of the caller.
upsert_records(rows, batch) ==
    LET after[r \in 0..Len(batch)] ==
            IF r = 0 THEN [rows |-> rows, inserted |-> 0, updated |-> 0]
            ELSE LET acc == after[r - 1]
                     s == Statement(acc.rows, batch, Round(batch, r))
                 IN [rows |-> s.rows, inserted |-> acc.inserted + s.inserted,
                     updated |-> acc.updated + s.updated]
    IN after[Len(batch)]

\* What the batch would leave if every candle of it were upserted alone.
OneAfterAnother(rows, batch) ==
    LET solo[i \in 0..Len(batch)] == IF i = 0 THEN rows ELSE Upserted(solo[i - 1], batch[i])
    IN solo[Len(batch)]

\* find_gaps: neighbouring rows more than a minute apart.
Prev(rows, m) == Max({p \in DOMAIN rows : p < m})
find_gaps(rows) ==
    {<<Prev(rows, m) + 1, m, m - Prev(rows, m) - 1>> :
        m \in {k \in DOMAIN rows : /\ \E p \in DOMAIN rows : p < k
                                   /\ k - Prev(rows, k) > 1}}

-----------------------------------------------------------------------------
Idle == [phase |-> "idle", descending |-> FALSE, closedOnly |-> FALSE,
         after |-> <<>>, out |-> <<>>, atStart |-> {}]

CandleStoreInit ==
    /\ candleTable = <<>>
    /\ oneByOne = <<>>
    /\ firstClosed = <<>>
    /\ upserts = 0
    /\ lastUpsert = [inserted |-> 0, updated |-> 0, skipped |-> 0, new |-> 0]
    /\ reader = Idle

\* upsert and its commit.
Upsert(batch) ==
    /\ upserts < MaxUpserts
    /\ \E res \in {upsert_records(candleTable, batch)} :
        /\ candleTable' = res.rows
        /\ lastUpsert' = [inserted |-> res.inserted, updated |-> res.updated,
                          skipped |-> Len(batch) - res.inserted - res.updated,
                          new |-> Cardinality({c.t : c \in Range(batch)} \ DOMAIN candleTable)]
        /\ firstClosed' =
             [m \in {k \in DOMAIN res.rows : res.rows[k].closed} |->
                 IF m \in DOMAIN firstClosed THEN firstClosed[m] ELSE res.rows[m]]
    /\ oneByOne' = OneAfterAnother(oneByOne, batch)
    /\ upserts' = upserts + 1
    /\ UNCHANGED reader

\* The rows a query selects, and a page of them from the cursor on.
Selected(rows, closedOnly) == {m \in DOMAIN rows : closedOnly => rows[m].closed}

StartRead(descending, closedOnly) ==
    /\ reader.phase = "idle"
    /\ reader' = [phase |-> "reading", descending |-> descending, closedOnly |-> closedOnly,
                  after |-> <<>>, out |-> <<>>,
                  atStart |-> Selected(candleTable, closedOnly)]
    /\ UNCHANGED <<candleTable, oneByOne, firstClosed, upserts, lastUpsert>>

\* range(limit): one row more than the page tells whether there is a next.
(* Fault: the row at the cursor is given again. *)
FaultyPastCursor(r, m) ==
    r.after = <<>> \/ IF r.descending THEN m <= r.after[1] ELSE m >= r.after[1]

PastCursor(r, m) ==
    r.after = <<>> \/ IF r.descending THEN m < r.after[1] ELSE m > r.after[1]

\* The rows of S in front of m in the order of the read.
Ahead(r, S, m) == {k \in S : IF r.descending THEN k > m ELSE k < m}

Page(r, rows) ==
    LET hits == {m \in Selected(rows, r.closedOnly) : PastCursor(r, m)}
    IN [items |-> [k \in 1..Min({PageSize, Cardinality(hits)}) |->
                      CHOOSE m \in hits : Cardinality(Ahead(r, hits, m)) = k - 1],
        more |-> Cardinality(hits) > PageSize]

\* One turn of iter_range's loop.
ReadPage ==
    /\ reader.phase = "reading"
    /\ \E page \in {Page(reader, candleTable)} :
        reader' = [reader EXCEPT
            !.out = @ \o page.items,
            !.phase = IF page.more THEN "reading" ELSE "done",
            !.after = IF page.more THEN <<page.items[PageSize]>> ELSE <<>>]
    /\ UNCHANGED <<candleTable, oneByOne, firstClosed, upserts, lastUpsert>>

CandleStoreNext ==
    \/ \E n \in 1..MaxBatch : \E batch \in [1..n -> Candles] : Upsert(batch)
    \/ \E descending, closedOnly \in BOOLEAN : StartRead(descending, closedOnly)
    \/ ReadPage

CandleStoreSpec == CandleStoreInit /\ [][CandleStoreNext]_csVars

-----------------------------------------------------------------------------
\* The table is what candle-by-candle upserts would have made of it, a
\* minute once closed keeps the row it was closed with, and an upsert
\* reports exactly the minutes that are new.
TableIsExact ==
    /\ candleTable = oneByOne
    /\ \A m \in DOMAIN firstClosed : candleTable[m] = firstClosed[m]
    /\ lastUpsert.inserted = lastUpsert.new /\ lastUpsert.skipped >= 0

\* A read in pages gives every minute at most once, in order, and every
\* minute that was there when it began, whatever was written meanwhile.
PagesAreWhole ==
    /\ \A i, j \in DOMAIN reader.out : i < j =>
         IF reader.descending THEN reader.out[i] > reader.out[j]
         ELSE reader.out[i] < reader.out[j]
    /\ Range(reader.out) \subseteq Selected(candleTable, reader.closedOnly)
    /\ reader.phase = "done" => reader.atStart \subseteq Range(reader.out)

\* find_gaps names every missing minute between the first and the last row
\* once, with its count.
GapsAreWhole ==
    LET gaps == find_gaps(candleTable)
        span == IF DOMAIN candleTable = {} THEN {}
                ELSE Min(DOMAIN candleTable)..Max(DOMAIN candleTable)
    IN /\ UNION {g[1]..g[2] - 1 : g \in gaps} = span \ DOMAIN candleTable
       /\ \A g \in gaps : g[3] = g[2] - g[1]
       /\ \A g, h \in gaps : g # h => (g[1]..g[2] - 1) \cap (h[1]..h[2] - 1) = {}

\* CandleRepo: splitting a batch into rounds changes nothing of the outcome
\* and no closed candle is rewritten; reading in pages while writers commit
\* neither repeats nor loses a row; the gaps are the missing minutes.
CandlesAreKept == TableIsExact /\ PagesAreWhole /\ GapsAreWhole
=============================================================================

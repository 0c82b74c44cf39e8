----------------------- MODULE TradingSession_proofs -----------------------
(***************************************************************************)
(* Proofs about a run of the trading worker: what is stored is a prefix of *)
(* what was appended, every minute is in the journal once, a waiting       *)
(* session has saved all it did, and a run that ends is closed.            *)
(***************************************************************************)
EXTENDS TradingSession, FiniteSetTheorems, SequenceTheorems, TLAPS

Entries ==
    [kind : {"start", "limits", "release", "denied", "candle", "gap", "end"}, lo : Int, hi : Int]

Memories == [bars : Seq(Int), releases : Nat, held : Int, halted : BOOLEAN]

Databases ==
    [journal : Seq(Entries), run : {"none", "RUNNING", "DONE", "FAILED"}, head : Nat, bars : Seq(Int),
     releases : Nat, open : SUBSET Int]

SessionTypeOK ==
    /\ pc \in {"new", "idle", "poll", "commands", "gap", "fill", "step", "failing", "ended"}
    /\ cur \in Int /\ nextOpen \in Nat /\ handed \in Nat /\ todo \in Seq(Int)
    /\ log \in Seq(Entries)
    /\ mem \in Memories
    /\ rows \in SUBSET Int
    /\ db \in Databases
    /\ error \in BOOLEAN /\ lost \in BOOLEAN

(* No exception so far. *)
Working == pc \notin {"failing", "ended"}

-----------------------------------------------------------------------------
(* The chain. *)

(* The entries of j are the first ones of l. *)
FirstOf(j, l) == Len(j) <= Len(l) /\ \A i \in 1 .. Len(j) : j[i] = l[i]

ChainInv ==
    /\ FirstOf(db.journal, log)
    /\ Working => Len(db.journal) = handed
    /\ db.run = "DONE" => db.head = Len(db.journal) /\ ~Working
    /\ pc = "new" => log = <<>> /\ nextOpen = 0

LEMMA GrownChain ==
    ASSUME NEW S, NEW j \in Seq(S), NEW l \in Seq(S), NEW e \in S, FirstOf(j, l)
    PROVE  Append(l, e) \in Seq(S) /\ Len(Append(l, e)) = Len(l) + 1 /\ FirstOf(j, Append(l, e))
BY DEF FirstOf

LEMMA FlushedChain ==
    ASSUME NEW S, NEW j \in Seq(S), NEW l \in Seq(S), FirstOf(j, l)
    PROVE  j \o SubSeq(l, Len(j) + 1, Len(l)) = l
<1> DEFINE n == Len(j)
           t == SubSeq(l, n + 1, Len(l))
<1>1. n \in Nat /\ Len(l) \in Nat /\ n <= Len(l)
  BY DEF FirstOf
<1>2. t \in Seq(S) /\ Len(t) = Len(l) - n /\ \A i \in 1 .. (Len(l) - n) : t[i] = l[n + i]
  BY <1>1
<1> HIDE DEF t
<1>3. (j \o t) \in Seq(S) /\ Len(j \o t) = Len(l)
  BY <1>1, <1>2
<1>4. ASSUME NEW i \in 1 .. Len(l) PROVE (j \o t)[i] = l[i]
  <2>1. CASE i <= n
    BY <1>1, <1>2, <2>1 DEF FirstOf
  <2>2. CASE i > n
    <3>1. i - n \in 1 .. (Len(l) - n) /\ n + (i - n) = i
      BY <1>1, <2>2
    <3>2. (j \o t)[i] = t[i - n]
      BY <1>1, <1>2, <2>2
    <3> QED BY <1>2, <3>1, <3>2
  <2>3. i <= n \/ i > n
    BY <1>1
  <2> QED BY <2>1, <2>2, <2>3, Zenon
<1>5. j \o t = l
  BY <1>3, <1>4, SeqEqual
<1> QED BY <1>5 DEF t

LEMMA FirstOfItself ==
    ASSUME NEW S, NEW l \in Seq(S)
    PROVE  FirstOf(l, l)
BY DEF FirstOf

LEMMA FirstIsPrefix ==
    ASSUME NEW S, NEW j \in Seq(S), NEW l \in Seq(S), FirstOf(j, l)
    PROVE  IsPrefix(j, l)
<1>1. Len(j) \in Nat /\ Len(l) \in Nat /\ Len(j) <= Len(l)
  BY DEF FirstOf
<1>2. SubSeq(j, 1, Len(j)) = SubSeq(l, 1, Len(j))
  BY <1>1 DEF FirstOf
<1> QED BY <1>1, <1>2 DEF IsPrefix

-----------------------------------------------------------------------------
(* The minutes. *)

Spans(e) == e.kind \in {"candle", "gap"}
Covers(l, b) == {i \in DOMAIN l : Spans(l[i]) /\ b \in l[i].lo .. l[i].hi}

(* Every minute before n is in l once, and none from n on. *)
Counted(l, n) ==
    /\ \A i \in DOMAIN l : Spans(l[i]) => l[i].lo >= 0
    /\ \A b \in 0 .. (n - 1) : \E i : Covers(l, b) = {i}

Accounted(l, n) == Counted(l, n) /\ \A i \in DOMAIN l : Spans(l[i]) => l[i].hi < n

(* In the middle of a candle the minutes up to it are on record. *)
Reached == IF pc = "step" THEN cur ELSE nextOpen

MinutesInv ==
    /\ Counted(log, nextOpen)
    /\ Working => Accounted(log, Reached)
    /\ pc \in {"gap", "fill", "step"} => nextOpen <= cur
    /\ pc = "gap" => nextOpen < cur
    /\ pc = "fill" => \A k \in 1 .. Len(todo) : todo[k] = nextOpen + k - 1 /\ todo[k] < cur

LEMMA AppendedEntry ==
    ASSUME NEW l \in Seq(Entries), NEW e \in Entries
    PROVE  /\ DOMAIN Append(l, e) = DOMAIN l \cup {Len(l) + 1} /\ Len(l) + 1 \notin DOMAIN l
           /\ Append(l, e)[Len(l) + 1] = e /\ \A i \in DOMAIN l : Append(l, e)[i] = l[i]
           /\ \A i \in DOMAIN l : l[i] \in Entries
<1> HIDE DEF Entries
<1> QED OBVIOUS

LEMMA CoversAppended ==
    ASSUME NEW l \in Seq(Entries), NEW e \in Entries, NEW b \in Int
    PROVE  Covers(Append(l, e), b) =
               IF Spans(e) /\ b \in e.lo .. e.hi THEN Covers(l, b) \cup {Len(l) + 1} ELSE Covers(l, b)
BY AppendedEntry DEF Covers

(* An entry of another kind changes no count. *)
LEMMA OtherEntry ==
    ASSUME NEW l \in Seq(Entries), NEW e \in Entries, ~Spans(e), NEW n \in Nat
    PROVE  /\ Counted(l, n) => Counted(Append(l, e), n)
           /\ Accounted(l, n) => Accounted(Append(l, e), n)
<1>1. \A b \in 0 .. (n - 1) : Covers(Append(l, e), b) = Covers(l, b)
  BY CoversAppended
<1>2. /\ (\A i \in DOMAIN l : Spans(l[i]) => l[i].lo >= 0)
            => \A i \in DOMAIN Append(l, e) : Spans(Append(l, e)[i]) => Append(l, e)[i].lo >= 0
      /\ (\A i \in DOMAIN l : Spans(l[i]) => l[i].hi < n)
            => \A i \in DOMAIN Append(l, e) : Spans(Append(l, e)[i]) => Append(l, e)[i].hi < n
  BY AppendedEntry
<1>3. Counted(l, n) => Counted(Append(l, e), n)
  BY <1>1, <1>2 DEF Counted
<1> QED BY <1>2, <1>3 DEF Accounted

(* A candle or a discontinuity that begins where the record ends. *)
LEMMA NextSpan ==
    ASSUME NEW l \in Seq(Entries), NEW e \in Entries, Spans(e), NEW n \in Nat, Accounted(l, n),
           e.lo = n, e.hi >= n
    PROVE  Accounted(Append(l, e), e.hi + 1)
<1>1. e.hi \in Int /\ e.lo \in Int
  BY DEF Entries
<1>2. \A i \in DOMAIN l : l[i] \in Entries /\ l[i].hi \in Int /\ l[i].lo \in Int
  BY AppendedEntry DEF Entries
<1>3. ASSUME NEW b \in 0 .. e.hi PROVE \E i : Covers(Append(l, e), b) = {i}
  <2>1. CASE b < n
    <3>1. b \in Int /\ b \in 0 .. (n - 1) /\ ~(b \in e.lo .. e.hi)
      BY <1>1, <2>1
    <3>2. PICK i : Covers(l, b) = {i}
      BY <3>1 DEF Accounted, Counted
    <3>3. Covers(Append(l, e), b) = Covers(l, b)
      BY <3>1, CoversAppended
    <3> QED BY <3>2, <3>3
  <2>2. CASE b >= n
    <3>1. b \in Int /\ b \in e.lo .. e.hi
      BY <1>1, <2>2
    <3>2. Covers(l, b) = {}
      BY <1>2, <2>2, <3>1 DEF Accounted, Covers
    <3>3. Covers(Append(l, e), b) = Covers(l, b) \cup {Len(l) + 1}
      BY <3>1, CoversAppended
    <3>4. Covers(Append(l, e), b) = {Len(l) + 1}
      BY <3>2, <3>3, Zenon
    <3> QED BY <3>4, Zenon
  <2>3. b < n \/ b >= n
    BY <1>1
  <2> QED BY <2>1, <2>2, <2>3, Zenon
<1>4. \A i \in DOMAIN Append(l, e) :
          Spans(Append(l, e)[i]) => Append(l, e)[i].lo >= 0 /\ Append(l, e)[i].hi < e.hi + 1
  <2>1. \A i \in DOMAIN l : Spans(l[i]) => l[i].lo >= 0 /\ l[i].hi < e.hi + 1
    BY <1>1, <1>2 DEF Accounted, Counted
  <2>2. e.lo >= 0 /\ e.hi < e.hi + 1
    BY <1>1
  <2> QED BY <2>1, <2>2, AppendedEntry
<1>5. (e.hi + 1) - 1 = e.hi
  BY <1>1
<1> QED BY <1>3, <1>4, <1>5 DEF Accounted, Counted

LEMMA CountedSooner ==
    ASSUME NEW l \in Seq(Entries), NEW n \in Nat, NEW m \in Nat, m <= n, Accounted(l, n)
    PROVE  Counted(l, m)
<1>1. \A b \in 0 .. (m - 1) : b \in 0 .. (n - 1)
  OBVIOUS
<1>2. \A b \in 0 .. (m - 1) : \E i : Covers(l, b) = {i}
  BY <1>1, Zenon DEF Accounted, Counted
<1> QED BY <1>2 DEF Accounted, Counted

-----------------------------------------------------------------------------
(* What is saved, and how a run ends. *)

SavedInv ==
    Working =>
        /\ db.bars = mem.bars /\ db.releases = mem.releases
        /\ db.open = {mem.held} \ {None} /\ rows = db.open
        /\ mem.held < nextOpen

EndInv ==
    /\ Working => ~error /\ ~lost
    /\ pc = "failing" => error
    /\ EndedIsClosed

SessionInv == SessionTypeOK /\ ChainInv /\ MinutesInv /\ SavedInv /\ EndInv

-----------------------------------------------------------------------------
(* A transaction that writes the journal out. *)

LEMMA Written ==
    ASSUME SessionInv, Working, NEW l \in Seq(Entries), FirstOf(db.journal, l)
    PROVE  db.journal \o Buffered(l) = l
BY FlushedChain DEF SessionInv, SessionTypeOK, ChainInv, Buffered, Databases

LEMMA Grown ==
    ASSUME SessionInv, NEW e \in Entries
    PROVE  /\ Append(log, e) \in Seq(Entries) /\ Len(Append(log, e)) = Len(log) + 1
           /\ FirstOf(db.journal, Append(log, e))
BY GrownChain DEF SessionInv, SessionTypeOK, ChainInv, Databases

LEMMA Committed ==
    ASSUME SessionInv, Working, NEW new \in Databases, NEW l \in Seq(Entries),
           NEW next \in {"idle", "commands", "fill", "ended"},
           FirstOf(db.journal, l), log' = l, handed' = Len(l), new.journal = l,
           new.run = "DONE" => new.head = Len(l) /\ next = "ended",
           Transaction(new, next)
    PROVE  /\ db' \in Databases /\ log' \in Seq(Entries) /\ handed' \in Nat /\ error' \in BOOLEAN
           /\ pc' \in {"idle", "commands", "fill", "ended", "failing"}
           /\ ChainInv'
           /\ (pc' = next /\ db' = new /\ error' = error) \/ (pc' = "failing" /\ error')
<1>1. /\ db \in Databases /\ error \in BOOLEAN /\ Len(l) \in Nat
      /\ db.run # "DONE"
  BY DEF SessionInv, SessionTypeOK, ChainInv
<1>2. FirstOf(l, l)
  BY FirstOfItself
<1>3. (pc' = next /\ db' = new /\ error' = error) \/ (db' \in {db, new} /\ pc' = "failing" /\ error')
  BY DEF Transaction
<1>4. FirstOf(db'.journal, l)
  BY <1>2, <1>3
<1>5. (Working => Len(db.journal) = handed)'
  BY <1>3 DEF Working
<1>6. (db.run = "DONE" => db.head = Len(db.journal) /\ ~Working)'
  BY <1>1, <1>3 DEF Working
<1>7. pc' # "new"
  BY <1>3
<1>8. ChainInv'
  BY <1>4, <1>5, <1>6, <1>7 DEF ChainInv
<1> QED BY <1>1, <1>3, <1>8

-----------------------------------------------------------------------------
(* Initially. *)

LEMMA InitSession == Init => SessionInv
<1> SUFFICES ASSUME Init PROVE SessionInv
  OBVIOUS
<1>1. SessionTypeOK
  <2>1. <<>> \in Seq(Int) /\ <<>> \in Seq(Entries)
    OBVIOUS
  <2>2. mem \in Memories
    BY <2>1 DEF Init, Memories, None
  <2>3. db \in Databases
    <3> HIDE DEF Entries
    <3> QED BY <2>1 DEF Init, Databases
  <2>4. pc = "new" /\ cur \in Int /\ nextOpen \in Nat /\ handed \in Nat
    BY DEF Init, None
  <2>5. todo \in Seq(Int) /\ log \in Seq(Entries)
    BY <2>1, Zenon DEF Init
  <2>6. rows \in SUBSET Int /\ error \in BOOLEAN /\ lost \in BOOLEAN
    BY DEF Init
  <2> QED BY <2>2, <2>3, <2>4, <2>5, <2>6 DEF SessionTypeOK
<1>2. ChainInv
  BY DEF Init, ChainInv, FirstOf, Working
<1>3. Accounted(<<>>, 0)
  BY DEF Accounted, Counted
<1>4. MinutesInv
  BY <1>3 DEF Init, MinutesInv, Accounted, Reached
<1>5. SavedInv
  BY DEF Init, SavedInv, None
<1>6. EndInv
  BY DEF Init, EndInv, EndedIsClosed
<1> QED BY <1>1, <1>2, <1>4, <1>5, <1>6 DEF SessionInv

LEMMA BeginKeeps == ASSUME SessionInv, Begin PROVE SessionInv'
<1> DEFINE e == Entry("start", 0, 0)
<1>1. e \in Entries /\ ~Spans(e)
  BY DEF Entries, Entry, Spans
<1>2. log = <<>> /\ nextOpen = 0 /\ pc = "new" /\ db \in Databases /\ db.run # "DONE"
  BY DEF SessionInv, ChainInv, SessionTypeOK, Begin, Working
<1>3. log' = Append(log, e) /\ handed' = 1
  BY <1>2 DEF Begin
<1> HIDE DEF e
<1>4. /\ log' \in Seq(Entries) /\ Len(log') = 1 /\ FirstOf(db.journal, log')
      /\ FirstOf(log', log')
  <2>1. Len(log) = 0
    BY <1>2
  <2>2. log' \in Seq(Entries) /\ Len(log') = Len(log) + 1 /\ FirstOf(db.journal, log')
    BY <1>1, <1>3, Grown, Zenon
  <2> QED BY <2>1, <2>2, FirstOfItself
<1>5. PICK new \in {Started(log')} :
          \/ db' = new /\ pc' = "idle" /\ UNCHANGED <<error, lost>>
          \/ db' \in {db, new} /\ pc' = "ended" /\ error' = TRUE /\ lost' = TRUE
  BY DEF Begin
<1>6. /\ new \in Databases /\ new.journal = log' /\ new.run = "RUNNING"
      /\ new.bars = db.bars /\ new.releases = db.releases /\ new.open = db.open
  BY <1>2, <1>4, <1>5 DEF Started, Databases
<1>7. UNCHANGED <<cur, seen, todo, nextOpen, queue, issued, mem, rows>>
  BY DEF Begin
<1>8. SessionTypeOK'
  BY <1>2, <1>3, <1>4, <1>5, <1>6, <1>7 DEF SessionInv, SessionTypeOK
<1>9. ChainInv'
  BY <1>2, <1>3, <1>4, <1>5, <1>6 DEF ChainInv, Working
<1>10. Accounted(log', 0)
  BY <1>1, <1>2, <1>3, OtherEntry DEF SessionInv, SessionTypeOK, MinutesInv, Working, Reached
<1>11. MinutesInv'
  BY <1>2, <1>5, <1>7, <1>10 DEF MinutesInv, Accounted, Reached
<1>12. SavedInv'
  BY <1>2, <1>5, <1>6, <1>7 DEF SessionInv, SavedInv, Working
<1>13. EndInv'
  BY <1>2, <1>5 DEF SessionInv, EndInv, EndedIsClosed, Working
<1> QED BY <1>8, <1>9, <1>11, <1>12, <1>13 DEF SessionInv

-----------------------------------------------------------------------------
(* Steps that leave the record, the loop and the database alone. *)

Recorded == <<log, handed, nextOpen, mem, rows, db, error>>

LEMMA QuietStep ==
    ASSUME SessionInv, Working, UNCHANGED Recorded, UNCHANGED lost,
           pc' \in {"idle", "poll", "commands", "gap", "fill", "step"},
           Reached' = Reached, cur' \in Int, todo' \in Seq(Int),
           pc' \in {"gap", "fill", "step"} => nextOpen <= cur',
           pc' = "gap" => nextOpen < cur',
           pc' = "fill" => \A k \in 1 .. Len(todo') :
                               todo'[k] = nextOpen + k - 1 /\ todo'[k] < cur'
    PROVE  SessionInv'
<1>1. SessionTypeOK'
  BY DEF SessionInv, SessionTypeOK, Recorded
<1>2. ChainInv'
  BY DEF SessionInv, ChainInv, Recorded, Working
<1>3. (Working => Accounted(log, Reached))' /\ Counted(log', nextOpen')
  BY DEF SessionInv, MinutesInv, Recorded
<1>4. MinutesInv'
  BY <1>3 DEF MinutesInv, Recorded
<1>5. SavedInv'
  BY DEF SessionInv, SavedInv, Recorded
<1>6. EndInv'
  BY DEF SessionInv, EndInv, EndedIsClosed, Recorded, Working
<1> QED BY <1>1, <1>2, <1>4, <1>5, <1>6 DEF SessionInv

LEMMA FeedKeeps ==
    ASSUME SessionInv, Linger \/ (\E c \in -1..MaxBar : OnCandle(c)) \/ (\E cmds : Poll(cmds))
                       \/ Proceed
    PROVE  SessionInv'
<1>1. /\ Working /\ UNCHANGED <<todo, nextOpen, log, handed, mem, rows, db, error, lost>>
      /\ pc \in {"idle", "poll", "commands"}
      /\ cur' \in Int
  BY SessionAssumption DEF SessionInv, SessionTypeOK, Working, Linger, OnCandle, Poll, Proceed, None
<1>2. cur \in Int /\ nextOpen \in Nat /\ todo \in Seq(Int)
  BY DEF SessionInv, SessionTypeOK
<1>3. CASE pc' \in {"idle", "poll", "commands"}
  <2>1. Reached' = Reached
    BY <1>1, <1>3 DEF Reached
  <2> QED BY <1>1, <1>2, <1>3, <2>1, QuietStep DEF Recorded
<1>4. CASE pc' \notin {"idle", "poll", "commands"}
  <2>1. Proceed
    BY <1>4 DEF Linger, OnCandle, Poll
  <2>2. cur' = cur /\ pc' \in {"gap", "step"} /\ nextOpen <= cur /\ (pc' = "gap" => nextOpen < cur)
        /\ (pc' = "step" => cur = nextOpen)
    BY <1>2, <1>4, <2>1 DEF Proceed, AfterCommands
  <2>3. Reached' = Reached
    BY <1>1, <2>2 DEF Reached
  <2> QED BY <1>1, <1>2, <2>2, <2>3, QuietStep DEF Recorded
<1> QED BY <1>3, <1>4

-----------------------------------------------------------------------------
(* Commands. *)

LEMMA ReleaseKeeps ==
    ASSUME SessionInv, pc = "commands", NEW kind \in {"release", "denied"}, ApplyRelease(kind),
           UNCHANGED <<cur, todo, nextOpen, rows, lost>>
    PROVE  SessionInv'
<1> DEFINE e == Entry(kind, 0, 0)
           l == Append(log, e)
           done == IF kind = "release" /\ mem.halted
                   THEN [mem EXCEPT !.halted = FALSE, !.releases = @ + 1] ELSE mem
           new == [db EXCEPT !.journal = @ \o Buffered(l), !.releases = done.releases]
<1>1. e \in Entries /\ ~Spans(e)
  BY DEF Entries, Entry, Spans
<1>2. /\ Working /\ db \in Databases /\ mem \in Memories /\ db.run # "DONE"
      /\ log \in Seq(Entries) /\ nextOpen \in Nat
  BY DEF SessionInv, SessionTypeOK, ChainInv, Working
<1>3. log' = l /\ handed' = Len(l) /\ mem' = done /\ Transaction(new, "commands")
  BY DEF ApplyRelease
<1> HIDE DEF e
<1>4. l \in Seq(Entries) /\ FirstOf(db.journal, l) /\ db.journal \o Buffered(l) = l
  BY <1>1, <1>2, Grown, Written
<1>5. done \in Memories /\ done.bars = mem.bars /\ done.held = mem.held
  <2>1. CASE kind = "release" /\ mem.halted
    <3> DEFINE m == [mem EXCEPT !.halted = FALSE, !.releases = @ + 1]
    <3>1. m.bars = mem.bars /\ m.releases = mem.releases + 1 /\ m.held = mem.held
      BY <1>2 DEF Memories
    <3>2. m \in Memories
      <4>1. mem.releases + 1 \in Nat
        BY <1>2 DEF Memories
      <4> QED BY <1>2, <4>1, Zenon DEF Memories
    <3>3. done = m
      BY <2>1
    <3> QED BY <3>1, <3>2, <3>3
  <2>2. CASE ~(kind = "release" /\ mem.halted)
    BY <1>2, <2>2
  <2> QED BY <2>1, <2>2
<1>6. /\ new \in Databases /\ new.journal = l /\ new.run = db.run /\ new.bars = db.bars
      /\ new.releases = done.releases /\ new.open = db.open
  <2> HIDE DEF Entries, l
  <2>1. done.releases \in Nat
    BY <1>5 DEF Memories
  <2> HIDE DEF done
  <2> QED BY <1>2, <1>4, <2>1 DEF Databases
<1> HIDE DEF l, done, new
<1>7. /\ db' \in Databases /\ log' \in Seq(Entries) /\ handed' \in Nat /\ error' \in BOOLEAN
      /\ pc' \in {"idle", "commands", "fill", "ended", "failing"}
      /\ ChainInv'
      /\ (pc' = "commands" /\ db' = new /\ error' = error) \/ (pc' = "failing" /\ error')
  BY <1>2, <1>3, <1>4, <1>6, Committed
<1>8. SessionTypeOK'
  BY <1>3, <1>5, <1>7 DEF SessionInv, SessionTypeOK
<1>9. Accounted(l, nextOpen) /\ Counted(l, nextOpen)
  <2>1. Accounted(log, nextOpen)
    BY <1>2 DEF SessionInv, MinutesInv, Reached
  <2>2. Accounted(l, nextOpen)
    BY <1>1, <1>2, <2>1, OtherEntry DEF l
  <2> QED BY <2>2 DEF Accounted
<1>10. MinutesInv'
  BY <1>3, <1>7, <1>9 DEF MinutesInv, Reached, Working
<1>11. SavedInv'
  BY <1>2, <1>3, <1>5, <1>6, <1>7 DEF SessionInv, SavedInv, Working
<1>12. EndInv'
  BY <1>2, <1>7 DEF SessionInv, EndInv, EndedIsClosed, Working
<1> QED BY <1>7, <1>8, <1>10, <1>11, <1>12 DEF SessionInv

LEMMA ReloadedLog ==
    ASSUME SessionInv, NEW changed \in BOOLEAN, NEW n \in Nat
    PROVE  /\ Reloaded(changed) \in Seq(Entries) /\ Len(Reloaded(changed)) \in Nat
           /\ FirstOf(db.journal, Reloaded(changed))
           /\ Accounted(log, n) => Accounted(Reloaded(changed), n)
<1> DEFINE e == Entry("limits", 0, 0)
<1>1. e \in Entries /\ ~Spans(e)
  BY DEF Entries, Entry, Spans
<1>2. log \in Seq(Entries) /\ FirstOf(db.journal, log)
  BY DEF SessionInv, SessionTypeOK, ChainInv
<1>3. Reloaded(changed) = Append(log, e) \/ Reloaded(changed) = log
  BY DEF Reloaded
<1> HIDE DEF e
<1>4. CASE Reloaded(changed) = Append(log, e)
  BY <1>1, <1>2, <1>4, Grown, OtherEntry
<1>5. CASE Reloaded(changed) = log
  BY <1>2, <1>5
<1> QED BY <1>3, <1>4, <1>5

LEMMA ApplyKeeps ==
    ASSUME SessionInv, NEW changed \in BOOLEAN, Apply(changed)
    PROVE  SessionInv'
<1>1. pc = "commands" /\ UNCHANGED <<cur, todo, nextOpen, rows, lost>> /\ Working
  BY DEF Apply, Working
<1>2. CASE Head(queue) \in {"release", "denied"} /\ ApplyRelease(Head(queue))
  BY <1>1, <1>2, ReleaseKeeps
<1>3. CASE Head(queue) = "limits" /\ ReloadLimits(changed)
  <2>1. log' = Reloaded(changed) /\ UNCHANGED <<handed, mem, db, pc, error>>
    BY <1>3 DEF ReloadLimits
  <2>2. nextOpen \in Nat /\ Accounted(log, nextOpen)
    BY <1>1 DEF SessionInv, SessionTypeOK, MinutesInv, Reached
  <2>3. /\ log' \in Seq(Entries) /\ FirstOf(db.journal, log') /\ Accounted(log', nextOpen)
    BY <2>1, <2>2, ReloadedLog
  <2>4. SessionTypeOK'
    BY <1>1, <2>1, <2>3 DEF SessionInv, SessionTypeOK
  <2>5. ChainInv'
    BY <1>1, <2>1, <2>3 DEF SessionInv, ChainInv, Working
  <2>6. MinutesInv'
    BY <1>1, <2>1, <2>3 DEF MinutesInv, Reached, Accounted
  <2>7. SavedInv' /\ EndInv'
    BY <1>1, <2>1 DEF SessionInv, SavedInv, EndInv, EndedIsClosed, Working
  <2> QED BY <2>4, <2>5, <2>6, <2>7 DEF SessionInv
<1>4. CASE Head(queue) = "foreign" /\ UNCHANGED <<log, handed, mem, db, pc, error>>
  <2>1. Reached' = Reached /\ UNCHANGED Recorded /\ UNCHANGED lost
    BY <1>1, <1>4 DEF Reached, Recorded
  <2>2. cur' \in Int /\ todo' \in Seq(Int)
    BY <1>1 DEF SessionInv, SessionTypeOK
  <2> QED BY <1>1, <1>4, <2>1, <2>2, QuietStep
<1> QED BY <1>2, <1>3, <1>4 DEF Apply

-----------------------------------------------------------------------------
(* A hole. *)

LEMMA FetchKeeps ==
    ASSUME SessionInv, NEW got \in Histories, Fetch(got)
    PROVE  SessionInv'
<1> DEFINE S == {b \in got : nextOpen..b \subseteq got}
           n == Cardinality(S)
<1>1. /\ pc = "gap" /\ pc' = "fill" /\ todo' = Usable(got)
      /\ UNCHANGED <<cur, lost>> /\ UNCHANGED Recorded /\ Working
  BY DEF Fetch, Recorded, Working
<1>2. nextOpen \in Nat /\ cur \in Int /\ nextOpen < cur
  BY <1>1 DEF SessionInv, SessionTypeOK, MinutesInv
<1>3. n \in Nat /\ n <= cur - nextOpen
  <2>1. S \subseteq nextOpen .. (cur - 1)
    BY DEF Histories
  <2>2. IsFiniteSet(nextOpen .. (cur - 1)) /\ Cardinality(nextOpen .. (cur - 1)) = cur - nextOpen
    BY <1>2, FS_Interval
  <2> DEFINE range == nextOpen .. (cur - 1)
  <2> HIDE DEF S
  <2>3. IsFiniteSet(S) /\ Cardinality(S) <= cur - nextOpen
    <3>1. S \in SUBSET range /\ IsFiniteSet(range) /\ Cardinality(range) = cur - nextOpen
      BY <2>1, <2>2
    <3> HIDE DEF range
    <3>2. IsFiniteSet(S) /\ Cardinality(S) <= Cardinality(range)
      BY <3>1, FS_Subset, Zenon
    <3> QED BY <3>1, <3>2
  <2>4. Cardinality(S) \in Nat
    BY <2>3, FS_CardinalityType
  <2> QED BY <2>3, <2>4
<1>4. todo' = [k \in 1 .. n |-> nextOpen + k - 1]
  BY <1>1 DEF Usable
<1> HIDE DEF n
<1>5. /\ todo' \in Seq(Int) /\ Len(todo') = n
      /\ \A k \in 1 .. n : todo'[k] = nextOpen + k - 1 /\ todo'[k] < cur
  BY <1>2, <1>3, <1>4
<1>6. Reached' = Reached
  BY <1>1 DEF Reached, Recorded
<1> QED BY <1>1, <1>2, <1>5, <1>6, QuietStep

LEMMA FilledKeeps ==
    ASSUME SessionInv, Filled
    PROVE  SessionInv'
<1> DEFINE e == Entry("gap", nextOpen, cur - 1)
<1>1. /\ pc = "fill" /\ pc' = "step" /\ log' = Hole /\ Working
      /\ UNCHANGED <<cur, todo, nextOpen, handed, mem, rows, db, error, lost>>
  BY DEF Filled, Working
<1>2. /\ nextOpen \in Nat /\ cur \in Int /\ cur \in Nat /\ nextOpen <= cur /\ Accounted(log, nextOpen)
      /\ log \in Seq(Entries) /\ FirstOf(db.journal, log)
  BY <1>1 DEF SessionInv, SessionTypeOK, MinutesInv, ChainInv, Reached
<1>3. log' \in Seq(Entries) /\ FirstOf(db.journal, log') /\ Accounted(log', cur)
  <2>1. CASE nextOpen < cur
    <3>1. e \in Entries /\ Spans(e) /\ e.lo = nextOpen /\ e.hi = cur - 1 /\ e.hi >= nextOpen
          /\ e.hi + 1 = cur
      BY <1>2, <2>1 DEF Entries, Entry, Spans
    <3>2. log' = Append(log, e)
      BY <1>1, <2>1 DEF Hole
    <3> HIDE DEF e
    <3>3. Accounted(Append(log, e), e.hi + 1)
      BY <1>2, <3>1, NextSpan
    <3> QED BY <3>1, <3>2, <3>3, Grown
  <2>2. CASE ~(nextOpen < cur)
    BY <1>1, <1>2, <2>2 DEF Hole
  <2> QED BY <2>1, <2>2
<1>4. Counted(log', nextOpen)
  BY <1>2, <1>3, CountedSooner
<1>5. SessionTypeOK'
  BY <1>1, <1>3 DEF SessionInv, SessionTypeOK
<1>6. ChainInv'
  BY <1>1, <1>3 DEF SessionInv, ChainInv, Working
<1>7. MinutesInv'
  BY <1>1, <1>2, <1>3, <1>4 DEF MinutesInv, Reached
<1>8. SavedInv' /\ EndInv'
  BY <1>1 DEF SessionInv, SavedInv, EndInv, EndedIsClosed, Working
<1> QED BY <1>5, <1>6, <1>7, <1>8 DEF SessionInv

-----------------------------------------------------------------------------
(* A bar. *)

(* After a step the database holds the position the loop holds. *)
LEMMA HeldIsSaved ==
    ASSUME NEW b \in Nat, mem.held \in Int, mem.held < b, NEW e \in Effects(b)
    PROVE  LET H == {mem.held} \ {None}
               after == {HeldAfter(e)} \ {None}
           IN  /\ HeldAfter(e) \in Int /\ HeldAfter(e) < b + 1
               /\ e.opened \in SUBSET Int /\ e.closed \in SUBSET Int
               /\ (H \cup e.opened) \ e.closed = after
               /\ (H \cup e.opened) \ (e.closed \cap (H \cup e.opened)) = after
<1> DEFINE H == {mem.held} \ {None}
           left == ({mem.held} \cup e.opened) \ (e.closed \cup {None})
<1>1. None \in Int /\ None < b /\ b # None /\ b # mem.held
  BY DEF None
<1>2. \/ e.opened = {} /\ e.closed = {}
      \/ e.opened = {} /\ e.closed = H
      \/ e.opened = {b} /\ e.closed = H
      \/ e.opened = {b} /\ e.closed = H \cup {b}
  BY DEF Effects
<1>3. \/ left = {} /\ (H \cup e.opened) \ e.closed = {}
      \/ \E p \in {b, mem.held} : p # None /\ left = {p} /\ (H \cup e.opened) \ e.closed = {p}
  <2>1. CASE e.opened = {} /\ e.closed = {}
    BY <1>1, <2>1
  <2>2. CASE e.opened = {} /\ e.closed = H
    BY <1>1, <2>2
  <2>3. CASE e.opened = {b} /\ e.closed = H
    BY <1>1, <2>3
  <2>4. CASE e.opened = {b} /\ e.closed = H \cup {b}
    BY <1>1, <2>4
  <2> QED BY <1>2, <2>1, <2>2, <2>3, <2>4
<1>4. HeldAfter(e) = IF left = {} THEN None ELSE CHOOSE p \in left : TRUE
  BY DEF HeldAfter
<1> HIDE DEF left
<1>5. \/ HeldAfter(e) = None /\ (H \cup e.opened) \ e.closed = {}
      \/ HeldAfter(e) \in {b, mem.held} \ {None} /\ (H \cup e.opened) \ e.closed = {HeldAfter(e)}
  BY <1>3, <1>4
<1>6. (H \cup e.opened) \ e.closed = {HeldAfter(e)} \ {None}
  BY <1>5
<1>7. (H \cup e.opened) \ (e.closed \cap (H \cup e.opened)) = (H \cup e.opened) \ e.closed
  OBVIOUS
<1>8. HeldAfter(e) \in Int /\ HeldAfter(e) < b + 1
  BY <1>1, <1>5
<1>9. e.opened \in SUBSET Int /\ e.closed \in SUBSET Int
  BY <1>2
<1> QED BY <1>6, <1>7, <1>8, <1>9

LEMMA BarStepped ==
    ASSUME SessionInv, Working, NEW b \in Nat, nextOpen <= b, Accounted(log, b),
           NEW e \in Effects(b), NEW halts \in BOOLEAN, NEW changed \in BOOLEAN,
           NEW next \in {"idle", "fill"}, StepBar(b, next, e, halts, changed),
           UNCHANGED lost
    PROVE  /\ nextOpen' = b + 1 /\ pc' \in {next, "failing"}
           /\ log' \in Seq(Entries) /\ handed' \in Nat /\ mem' \in Memories
           /\ rows' \in SUBSET Int /\ db' \in Databases /\ error' \in BOOLEAN
           /\ Accounted(log', b + 1) /\ Counted(log', b + 1)
           /\ ChainInv' /\ SavedInv' /\ EndInv'
<1> DEFINE r == Reloaded(changed)
           c == Entry("candle", b, b)
           l == Append(r, c)
           loop == [mem EXCEPT !.bars = Append(@, b), !.held = HeldAfter(e), !.halted = @ \/ halts]
           kept == [db EXCEPT !.journal = @ \o Buffered(l), !.bars = Append(@, b)]
           new == Persist(kept, e)
<1>1. c \in Entries /\ Spans(c) /\ c.lo = b /\ c.hi = b
  BY DEF Entries, Entry, Spans
<1>2. /\ db \in Databases /\ mem \in Memories /\ db.run # "DONE" /\ rows \in SUBSET Int
      /\ log \in Seq(Entries) /\ nextOpen \in Nat
  BY DEF SessionInv, SessionTypeOK, ChainInv
<1>3. /\ log' = l /\ handed' = Len(l) /\ mem' = loop /\ nextOpen' = b + 1
      /\ rows' = (rows \cup e.opened) \ e.closed /\ Transaction(new, next)
  BY DEF StepBar
<1>4. /\ r \in Seq(Entries) /\ FirstOf(db.journal, r) /\ Accounted(r, b)
  BY ReloadedLog
<1> HIDE DEF r, c
<1>5. l \in Seq(Entries) /\ FirstOf(db.journal, l) /\ db.journal \o Buffered(l) = l
  <2> HIDE DEF Entries
  <2>1. db.journal \in Seq(Entries)
    BY <1>2 DEF Databases
  <2>2. l \in Seq(Entries) /\ FirstOf(db.journal, l)
    BY <1>1, <1>4, <2>1, GrownChain
  <2> QED BY <2>2, Written
<1>6. Accounted(l, b + 1)
  BY <1>1, <1>4, NextSpan
<1> HIDE DEF l
<1>7. mem.held \in Int /\ mem.held < b /\ mem.bars \in Seq(Int) /\ mem.halted \in BOOLEAN
  BY <1>2 DEF SessionInv, SavedInv, Memories
<1>8. /\ db.bars = mem.bars /\ db.releases = mem.releases /\ db.open = {mem.held} \ {None}
      /\ rows = db.open
  BY DEF SessionInv, SavedInv
<1> DEFINE H == {mem.held} \ {None}
           after == {HeldAfter(e)} \ {None}
<1>9. /\ HeldAfter(e) \in Int /\ HeldAfter(e) < b + 1
      /\ e.opened \in SUBSET Int /\ e.closed \in SUBSET Int
      /\ (H \cup e.opened) \ e.closed = after
      /\ (H \cup e.opened) \ (e.closed \cap (H \cup e.opened)) = after
  BY <1>7, HeldIsSaved
<1>10. /\ loop \in Memories /\ loop.bars = Append(mem.bars, b) /\ loop.held = HeldAfter(e)
       /\ loop.releases = mem.releases
  <2>1. /\ Append(mem.bars, b) \in Seq(Int) /\ HeldAfter(e) \in Int
        /\ (mem.halted \/ halts) \in BOOLEAN
    BY <1>7, <1>9
  <2>2. loop \in Memories
    BY <1>2, <2>1, Zenon DEF Memories
  <2>3. loop.bars = Append(mem.bars, b) /\ loop.held = HeldAfter(e) /\ loop.releases = mem.releases
    BY <1>2 DEF Memories
  <2> QED BY <2>2, <2>3
<1>11. /\ kept \in Databases /\ kept.journal = l /\ kept.run = db.run /\ kept.head = db.head
       /\ kept.bars = Append(mem.bars, b) /\ kept.releases = db.releases /\ kept.open = db.open
  <2> HIDE DEF Entries
  <2>1. Append(db.bars, b) \in Seq(Int)
    BY <1>7, <1>8
  <2> QED BY <1>2, <1>5, <1>8, <2>1 DEF Databases
<1> HIDE DEF kept, loop
<1>12. /\ new \in Databases /\ new.journal = l /\ new.run = db.run /\ new.bars = loop.bars
       /\ new.releases = db.releases /\ new.open = after
  <2>1. (kept.open \cup e.opened) \ (e.closed \cap (rows \cup e.opened)) = after
    BY <1>8, <1>9, <1>11
  <2>2. new = [kept EXCEPT !.open = after]
    BY <2>1 DEF Persist
  <2>3. after \in SUBSET Int
    BY <1>9
  <2> HIDE DEF Entries, after, new
  <2> QED BY <1>10, <1>11, <2>2, <2>3 DEF Databases
<1> HIDE DEF new
<1>13. /\ db' \in Databases /\ log' \in Seq(Entries) /\ handed' \in Nat /\ error' \in BOOLEAN
       /\ pc' \in {"idle", "commands", "fill", "ended", "failing"}
       /\ ChainInv'
       /\ (pc' = next /\ db' = new /\ error' = error) \/ (pc' = "failing" /\ error')
  BY <1>2, <1>3, <1>5, <1>12, Committed
<1>14. rows' = after /\ after \in SUBSET Int
  BY <1>3, <1>8, <1>9
<1>15. SavedInv'
  <2>1. CASE pc' = next /\ db' = new
    BY <1>3, <1>8, <1>9, <1>10, <1>12, <1>14, <2>1 DEF SavedInv
  <2>2. CASE pc' = "failing"
    BY <2>2 DEF SavedInv, Working
  <2> QED BY <1>13, <2>1, <2>2
<1>16. EndInv'
  BY <1>13 DEF SessionInv, EndInv, EndedIsClosed, Working
<1>17. Accounted(log', b + 1) /\ Counted(log', b + 1)
  BY <1>3, <1>6 DEF Accounted
<1> QED BY <1>3, <1>10, <1>13, <1>14, <1>15, <1>16, <1>17

LEMMA FetchedKeeps ==
    ASSUME SessionInv, todo # <<>>, NEW e \in Effects(Head(todo)),
           NEW halts \in BOOLEAN, NEW changed \in BOOLEAN, StepFetched(e, halts, changed)
    PROVE  SessionInv'
<1> DEFINE b == Head(todo)
<1>1. /\ pc = "fill" /\ StepBar(b, "fill", e, halts, changed) /\ todo' = Tail(todo)
      /\ UNCHANGED <<cur, lost>> /\ Working
  BY DEF StepFetched, Working
<1>2. /\ nextOpen \in Nat /\ cur \in Int /\ todo \in Seq(Int) /\ Accounted(log, nextOpen)
      /\ \A k \in 1 .. Len(todo) : todo[k] = nextOpen + k - 1 /\ todo[k] < cur
  BY <1>1 DEF SessionInv, SessionTypeOK, MinutesInv, Reached
<1>3. b = todo[1] /\ 1 \in 1 .. Len(todo)
  BY <1>2
<1>4. b = nextOpen /\ b < cur /\ b \in Nat
  BY <1>2, <1>3
<1> HIDE DEF b
<1>5. /\ nextOpen' = b + 1 /\ pc' \in {"fill", "failing"}
      /\ log' \in Seq(Entries) /\ handed' \in Nat /\ mem' \in Memories
      /\ rows' \in SUBSET Int /\ db' \in Databases /\ error' \in BOOLEAN
      /\ Accounted(log', b + 1) /\ Counted(log', b + 1)
      /\ ChainInv' /\ SavedInv' /\ EndInv'
  <2>1. e \in Effects(b) /\ nextOpen <= b /\ Accounted(log, b)
    BY <1>2, <1>4 DEF b
  <2> QED BY <1>1, <1>4, <2>1, BarStepped
<1>6. /\ todo' \in Seq(Int) /\ Len(todo') = Len(todo) - 1
      /\ \A k \in 1 .. Len(todo') : todo'[k] = todo[k + 1]
  BY <1>1, <1>2
<1>7. \A k \in 1 .. Len(todo') : todo'[k] = nextOpen' + k - 1 /\ todo'[k] < cur
  <2> SUFFICES ASSUME NEW k \in 1 .. Len(todo')
               PROVE  todo'[k] = nextOpen' + k - 1 /\ todo'[k] < cur
    OBVIOUS
  <2>1. k + 1 \in 1 .. Len(todo) /\ k \in Int
    BY <1>2, <1>6
  <2>2. todo'[k] = todo[k + 1] /\ todo[k + 1] = nextOpen + (k + 1) - 1 /\ todo[k + 1] < cur
    BY <1>2, <1>6, <2>1
  <2>3. nextOpen + (k + 1) - 1 = (nextOpen + 1) + k - 1 /\ nextOpen' = nextOpen + 1
    BY <1>2, <1>4, <1>5, <2>1
  <2> QED BY <2>2, <2>3
<1>8. SessionTypeOK'
  BY <1>1, <1>2, <1>4, <1>5, <1>6 DEF SessionInv, SessionTypeOK
<1>9. MinutesInv'
  <2>1. (Working => Accounted(log, Reached))' /\ Counted(log', nextOpen')
    BY <1>5 DEF Working, Reached
  <2>2. (pc \in {"gap", "fill", "step"} => nextOpen <= cur)'
    BY <1>1, <1>2, <1>4, <1>5
  <2> QED BY <1>1, <1>5, <1>7, <2>1, <2>2 DEF MinutesInv
<1> QED BY <1>5, <1>8, <1>9 DEF SessionInv

LEMMA CandleKeeps ==
    ASSUME SessionInv, NEW e \in Effects(cur),
           NEW halts \in BOOLEAN, NEW changed \in BOOLEAN, StepCandle(e, halts, changed)
    PROVE  SessionInv'
<1>1. /\ pc = "step" /\ StepBar(cur, "idle", e, halts, changed)
      /\ UNCHANGED <<cur, todo, lost>> /\ Working
  BY DEF StepCandle, Working
<1>2. nextOpen \in Nat /\ cur \in Nat /\ nextOpen <= cur /\ Accounted(log, cur)
  BY <1>1 DEF SessionInv, SessionTypeOK, MinutesInv, Reached
<1>3. /\ nextOpen' = cur + 1 /\ pc' \in {"idle", "failing"}
      /\ log' \in Seq(Entries) /\ handed' \in Nat /\ mem' \in Memories
      /\ rows' \in SUBSET Int /\ db' \in Databases /\ error' \in BOOLEAN
      /\ Accounted(log', cur + 1) /\ Counted(log', cur + 1)
      /\ ChainInv' /\ SavedInv' /\ EndInv'
  BY <1>1, <1>2, BarStepped
<1>4. SessionTypeOK'
  BY <1>1, <1>2, <1>3 DEF SessionInv, SessionTypeOK
<1>5. MinutesInv'
  BY <1>1, <1>3 DEF MinutesInv, Working, Reached
<1> QED BY <1>3, <1>4, <1>5 DEF SessionInv

-----------------------------------------------------------------------------
(* The end. *)

LEMMA EndedLog ==
    ASSUME SessionInv
    PROVE  /\ Ended \in Seq(Entries) /\ FirstOf(db.journal, Ended) /\ Len(Ended) \in Nat
           /\ Counted(Ended, nextOpen)
           /\ Accounted(log, nextOpen) => Accounted(Ended, nextOpen)
<1> DEFINE e == Entry("end", 0, 0)
<1>1. e \in Entries /\ ~Spans(e)
  BY DEF Entries, Entry, Spans
<1>2. log \in Seq(Entries) /\ nextOpen \in Nat /\ Counted(log, nextOpen)
  BY DEF SessionInv, SessionTypeOK, MinutesInv
<1> HIDE DEF e
<1>3. Counted(Append(log, e), nextOpen) /\ (Accounted(log, nextOpen) => Accounted(Append(log, e), nextOpen))
  BY <1>1, <1>2, OtherEntry
<1>4. Append(log, e) \in Seq(Entries) /\ FirstOf(db.journal, Append(log, e))
  BY <1>1, Grown
<1> QED BY <1>3, <1>4 DEF Ended, e

LEMMA FinishKeeps ==
    ASSUME SessionInv, Finish
    PROVE  SessionInv'
<1> DEFINE l == Ended
           new == DoneRun(l)
<1>1. /\ pc = "idle" /\ log' = l /\ handed' = Len(l) /\ Transaction(new, "ended")
      /\ UNCHANGED <<cur, todo, nextOpen, mem, rows, lost>> /\ Working
  BY DEF Finish, Working
<1>2. l \in Seq(Entries) /\ FirstOf(db.journal, l) /\ Len(l) \in Nat /\ Counted(l, nextOpen)
  BY EndedLog
<1> HIDE DEF l
<1>3. db.journal \o Buffered(l) = l
  BY <1>1, <1>2, Written
<1>4. new \in Databases /\ new.journal = l /\ new.run = "DONE" /\ new.head = Len(l)
  <2> HIDE DEF Entries
  <2>1. db \in Databases
    BY DEF SessionInv, SessionTypeOK
  <2> QED BY <1>2, <1>3, <2>1 DEF DoneRun, RunFinished, Databases
<1> HIDE DEF new
<1>5. /\ db' \in Databases /\ log' \in Seq(Entries) /\ handed' \in Nat /\ error' \in BOOLEAN
      /\ pc' \in {"idle", "commands", "fill", "ended", "failing"}
      /\ ChainInv'
      /\ (pc' = "ended" /\ db' = new /\ error' = error) \/ (pc' = "failing" /\ error')
  BY <1>1, <1>2, <1>4, Committed
<1>6. SessionTypeOK'
  BY <1>1, <1>5 DEF SessionInv, SessionTypeOK
<1>7. MinutesInv' /\ SavedInv'
  BY <1>1, <1>2, <1>5 DEF MinutesInv, SavedInv, Working
<1>8. EndInv'
  BY <1>1, <1>4, <1>5 DEF SessionInv, EndInv, EndedIsClosed, Working
<1> QED BY <1>5, <1>6, <1>7, <1>8 DEF SessionInv

LEMMA FinishFailedKeeps ==
    ASSUME SessionInv, FinishFailed
    PROVE  SessionInv'
<1>1. /\ pc = "failing" /\ log' = Ended /\ handed' = Len(Ended) /\ pc' = "ended"
      /\ UNCHANGED <<cur, todo, nextOpen, mem, rows, error>>
      /\ (db' = FailedRun(Ended) /\ UNCHANGED lost) \/ (UNCHANGED db /\ lost' = TRUE)
  BY DEF FinishFailed
<1>2. /\ Ended \in Seq(Entries) /\ FirstOf(db.journal, Ended) /\ Len(Ended) \in Nat
      /\ Counted(Ended, nextOpen)
  BY EndedLog
<1>3. db \in Databases /\ lost \in BOOLEAN /\ error /\ error \in BOOLEAN
  BY <1>1 DEF SessionInv, SessionTypeOK, EndInv
<1>4. FailedRun(Ended) \in Databases /\ FailedRun(Ended).journal = db.journal
      /\ FailedRun(Ended).run = "FAILED"
  <2> HIDE DEF Entries
  <2> QED BY <1>3 DEF FailedRun, RunFinished, Databases
<1>5. SessionTypeOK'
  BY <1>1, <1>2, <1>3, <1>4 DEF SessionInv, SessionTypeOK
<1>6. ChainInv'
  BY <1>1, <1>2, <1>4 DEF SessionInv, ChainInv, Working
<1>7. MinutesInv' /\ SavedInv'
  BY <1>1, <1>2 DEF MinutesInv, SavedInv, Working
<1>8. EndInv'
  BY <1>1, <1>3, <1>4 DEF EndInv, EndedIsClosed, Working
<1> QED BY <1>5, <1>6, <1>7, <1>8 DEF SessionInv

LEMMA StopKeeps ==
    ASSUME SessionInv, Raise \/ Crash
    PROVE  SessionInv'
<1>1. /\ UNCHANGED <<cur, todo, nextOpen, log, handed, mem, rows, db>> /\ ~Working'
      /\ \/ pc' = "failing" /\ error' = TRUE /\ UNCHANGED lost
         \/ pc' = "ended" /\ lost' = TRUE /\ UNCHANGED error
      /\ pc # "new"
  BY DEF Raise, Crash, Working
<1>2. SessionTypeOK'
  BY <1>1 DEF SessionInv, SessionTypeOK
<1>3. ChainInv'
  BY <1>1 DEF SessionInv, ChainInv
<1>4. MinutesInv' /\ SavedInv'
  BY <1>1 DEF SessionInv, MinutesInv, SavedInv, Working
<1>5. EndInv'
  BY <1>1 DEF EndInv, EndedIsClosed, Working
<1> QED BY <1>2, <1>3, <1>4, <1>5 DEF SessionInv

LEMMA SessionStep == ASSUME SessionInv, [Next]_vars PROVE SessionInv'
<1>1. CASE Next
  <2>1. CASE Begin
    BY <2>1, BeginKeeps
  <2>2. CASE Linger \/ Proceed \/ \E c \in -1..MaxBar : OnCandle(c)
    BY <2>2, FeedKeeps
  <2>3. CASE \E cmds \in BoundedSeq(Commands, MaxCommands - issued) : Poll(cmds)
    BY <2>3, FeedKeeps
  <2>4. CASE Filled
    BY <2>4, FilledKeeps
  <2>5. CASE Raise \/ Crash
    BY <2>5, StopKeeps
  <2>6. CASE Finish
    BY <2>6, FinishKeeps
  <2>7. CASE FinishFailed
    BY <2>7, FinishFailedKeeps
  <2>8. CASE \E changed \in BOOLEAN : Apply(changed)
    BY <2>8, ApplyKeeps
  <2>9. CASE \E got \in Histories : Fetch(got)
    BY <2>9, FetchKeeps
  <2>10. CASE todo # <<>> /\ \E halts, changed \in BOOLEAN, e \in Effects(Head(todo)) :
                                StepFetched(e, halts, changed)
    BY <2>10, FetchedKeeps
  <2>11. CASE \E halts, changed \in BOOLEAN, e \in Effects(cur) : StepCandle(e, halts, changed)
    BY <2>11, CandleKeeps
  <2> QED BY <1>1, <2>1, <2>2, <2>3, <2>4, <2>5, <2>6, <2>7, <2>8, <2>9, <2>10, <2>11 DEF Next
<1>2. CASE UNCHANGED vars
  <2>1. /\ UNCHANGED <<pc, cur, todo, nextOpen, log, handed, mem, rows, db, error, lost>>
    BY <1>2 DEF vars
  <2> QED BY <2>1 DEF SessionInv, SessionTypeOK, ChainInv, MinutesInv, SavedInv, EndInv,
                      EndedIsClosed, Working, Reached
<1> QED BY <1>1, <1>2

LEMMA SessionIsInductive == Spec => []SessionInv
BY InitSession, SessionStep, PTL DEF Spec

-----------------------------------------------------------------------------
(* The stored journal is a prefix of what was appended, and a finished run's head
   is the last entry stored, whichever transaction failed or committed unnoticed
   (JournalRepo.verify, DbSink.on_finish). *)
THEOREM ChainVerified == Spec => []ChainVerifies
<1>1. SessionInv => ChainVerifies
  <2> SUFFICES ASSUME SessionInv PROVE ChainVerifies
    OBVIOUS
  <2>1. FirstOf(db.journal, log) /\ log \in Seq(Entries) /\ db.journal \in Seq(Entries)
        /\ (db.run = "DONE" => db.head = Len(db.journal))
    BY DEF SessionInv, SessionTypeOK, ChainInv, Databases
  <2>2. IsPrefix(db.journal, log)
    BY <2>1, FirstIsPrefix
  <2> QED BY <2>1, <2>2 DEF ChainVerifies
<1> QED BY <1>1, SessionIsInductive, PTL

(* Every minute is in the journal once, a session that waits has saved all it did,
   and a run whose process was not killed is closed as DONE or FAILED (on_candle,
   _fill_discontinuity, DbSink.on_step, run_worker). *)
THEOREM RunRecorded == Spec => []RunIsRecorded
<1>1. SessionInv => EveryBarAccounted
  <2> SUFFICES ASSUME SessionInv, NEW b \in -1..(nextOpen - 1)
               PROVE  Cardinality({i \in DOMAIN log : /\ log[i].kind \in {"candle", "gap"}
                                                      /\ b \in log[i].lo..log[i].hi})
                        = (IF b < 0 THEN 0 ELSE 1)
    BY DEF EveryBarAccounted
  <2>1. nextOpen \in Nat /\ Counted(log, nextOpen) /\ log \in Seq(Entries)
    BY DEF SessionInv, SessionTypeOK, MinutesInv
  <2>2. SUFFICES Cardinality(Covers(log, b)) = (IF b < 0 THEN 0 ELSE 1)
    BY DEF Covers, Spans
  <2>3. CASE b < 0
    <3>1. \A i \in DOMAIN log : log[i].lo \in Int
      <4> HIDE DEF Entries
      <4>1. \A i \in DOMAIN log : log[i] \in Entries
        BY <2>1
      <4>2. \A x \in Entries : x.lo \in Int
        BY DEF Entries
      <4> QED BY <4>1, <4>2
    <3>2. Covers(log, b) = {}
      BY <2>1, <2>3, <3>1 DEF Counted, Covers
    <3> QED BY <2>3, <3>2, FS_EmptySet
  <2>4. CASE b >= 0
    <3>1. b \in 0 .. (nextOpen - 1)
      BY <2>1, <2>4
    <3>2. PICK i : Covers(log, b) = {i}
      BY <2>1, <3>1 DEF Counted
    <3>3. Cardinality({i}) = 1
      BY FS_Singleton, Zenon
    <3>4. Cardinality(Covers(log, b)) = 1
      BY <3>2, <3>3, Zenon
    <3> QED BY <2>4, <3>4
  <2> QED BY <2>3, <2>4
<1>2. SessionInv => NothingUnsaved
  BY DEF SessionInv, SavedInv, NothingUnsaved, Working
<1>3. SessionInv => EndedIsClosed
  BY DEF SessionInv, EndInv
<1>4. SessionInv => RunIsRecorded
  BY <1>1, <1>2, <1>3 DEF RunIsRecorded
<1> QED BY <1>4, SessionIsInductive, PTL

=============================================================================

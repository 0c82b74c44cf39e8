-------------------------- MODULE CandleAggregator --------------------------
(***************************************************************************)
(* The candle aggregator as operators on a record: closed candles leave it *)
(* once each and in order, waiting for earlier minutes until these arrive  *)
(* or are declared missing.                                                *)
(*                                                                         *)
(* Source: ingest/candles.py (CandleAggregator, ordered=True).             *)
(*                                                                         *)
(* A minute is its index open_time / tf.  The forming bar (current) and    *)
(* the counters are read by the panel only.  Released minutes are kept as  *)
(* the sequence of their release; the retention of the newest 100,000 is   *)
(* left out, since a forgotten minute is still refused by o < next.        *)
(***************************************************************************)
EXTENDS Integers, FiniteSets, SequencesExt, Lists

Unset == -1

EmptyAggregator == [next |-> Unset, held |-> {}, released |-> <<>>, skipped |-> {}]

Waiting(a) == a.held \cup a.skipped

(* _emit. *)
Emit(a, out) == [a EXCEPT !.released = @ \o Ascending(out), !.held = @ \ out]

(* Fault: a minute nobody declared missing is passed over. *)
FaultyDrain(a) ==
    LET stop == IF a.held = {} THEN a.next ELSE 1 + Max(a.held)
    IN  [Emit(a, {m \in a.held : m < stop}) EXCEPT !.next = stop]

(* _drain: release up to the first minute that neither waits nor is skipped. *)
Drain(a) ==
    LET stop == CHOOSE n \in a.next..(a.next + Cardinality(Waiting(a))) :
                    n \notin Waiting(a) /\ a.next..(n - 1) \subseteq Waiting(a)
    IN  [Emit(a, {m \in a.held : m < stop}) EXCEPT !.next = stop]

Known(a, o) == o \in ToSet(a.released) \cup Waiting(a)

(* offer: the first update sets where the series begins; a closed candle that was
   released, skipped or held, or that is older than the series, is dropped. *)
offer(a, o, closed) ==
    LET begun == [a EXCEPT !.next = IF @ = Unset THEN o ELSE @]
    IN  IF ~closed \/ Known(a, o) \/ o < begun.next THEN begun
        ELSE Drain([begun EXCEPT !.held = @ \cup {o}])

Declared(a, minutes) == [a EXCEPT !.skipped = @ \cup {m \in minutes : ~Known(a, m)}]

(* Fault: the candles that waited for the minute are not released. *)
FaultySkip(a, minutes) == Declared(a, minutes)

(* skip, for each minute of a set. *)
skip(a, minutes) ==
    IF a.next = Unset THEN Declared(a, minutes) ELSE Drain(Declared(a, minutes))

is_skipped(a, o) == o \in a.skipped /\ o \notin ToSet(a.released)

(* flush: at the end of the stream the holes are passed over. *)
flush(a) ==
    IF a.held = {} THEN a
    ELSE [Emit(a, a.held) EXCEPT !.next = 1 + Max(a.held)]
=============================================================================

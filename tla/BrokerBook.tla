----------------------------- MODULE BrokerBook -----------------------------
(***************************************************************************)
(* The simulated venue: MARKET orders wait for the open of the next bar;   *)
(* stops, the take-profit and the liquidation level fire inside a bar along *)
(* a pessimistic price path; reduce-only orders never open a position; the *)
(* protective stops of a closed position are cancelled and orphans expire. *)
(*                                                                         *)
(* Source: execution/paper_broker.py.  The book of one instrument is a     *)
(* record and every method an operator on it: PaperBroker drives them with *)
(* arbitrary calls, TradingLoop with the calls the engine makes.           *)
(*                                                                         *)
(* Prices are whole ticks, quantities whole steps; 0 stands for "no price".*)
(* Costs (spread, impact, fees) move no order and are left to Portfolio.   *)
(* An order that was created after the open of the next bar has wait = 1:  *)
(* it does not see that bar.                                               *)
(***************************************************************************)
EXTENDS Integers, Sequences, FiniteSets, SequencesExt, Lists

CONSTANTS
    Ids,          \* client order ids
    MinNotional   \* Instrument.min_notional

ASSUME BookAssumption == Ids \subseteq Nat \ {0} /\ MinNotional \in Nat

abs(x) == IF x < 0 THEN -x ELSE x
sign(x) == IF x > 0 THEN 1 ELSE IF x < 0 THEN -1 ELSE 0

Statuses == {"NONE", "NEW", "FILLED", "CANCELED", "REJECTED"}

(* An order is [id, side, qty, stop, ro, wait]; stop = 0 is a MARKET order. *)

(* _InstState. *)
EmptyBook ==
    [pos |-> 0, queue |-> <<>>, stops |-> <<>>, tp |-> 0, tpSide |-> 0, liq |-> 0,
     lastClose |-> 0, status |-> [i \in Ids |-> "NONE"]]

SetStatus(b, ids, s) ==
    [b EXCEPT !.status = [i \in Ids |-> IF i \in ids THEN s ELSE b.status[i]]]

IdsOf(q) == {q[k].id : k \in DOMAIN q}

Without(q, ids) == Kept(q, {o \in ToSet(q) : o.id \notin ids})

-----------------------------------------------------------------------------
(* submit: a known id is refused without touching the original order. *)
BelowMin(b, o) == ~o.ro /\ b.lastClose # 0 /\ o.qty * b.lastClose < MinNotional

submit(b, o) ==
    IF b.status[o.id] # "NONE" THEN b
    ELSE IF o.qty <= 0 \/ BelowMin(b, o) THEN SetStatus(b, {o.id}, "REJECTED")
    ELSE LET booked == SetStatus(b, {o.id}, "NEW")
         IN  IF o.stop = 0 THEN [booked EXCEPT !.queue = Append(@, o)]
             ELSE [booked EXCEPT !.stops = Append(@, o)]

(* Fault: the order is marked and stays in its list. *)
FaultyCancel(b, ids) == SetStatus(b, {i \in ids : b.status[i] = "NEW"}, "CANCELED")

(* cancel, for each id of a set: an order that is not active is left alone. *)
cancel(b, ids) ==
    LET live == {i \in ids : b.status[i] = "NEW"}
    IN  [SetStatus(b, live, "CANCELED") EXCEPT !.queue = Without(@, live), !.stops = Without(@, live)]

(* The liquidation level is the venue's own mechanism and stays. *)
cancel_all(b) ==
    [SetStatus(b, IdsOf(b.queue) \cup IdsOf(b.stops), "CANCELED")
        EXCEPT !.queue = <<>>, !.stops = <<>>, !.tp = 0, !.tpSide = 0]

set_take_profit(b, price, side) ==
    [b EXCEPT !.tp = price, !.tpSide = IF price = 0 THEN 0 ELSE side]

set_liquidation_price(b, price) == [b EXCEPT !.liq = price]

-----------------------------------------------------------------------------
(* Execution.  r is a book with the fills of the bar so far. *)

ExecutableQty(b, o) ==
    IF ~o.ro THEN o.qty
    ELSE IF sign(b.pos) # -o.side THEN 0
    ELSE IF o.qty < abs(b.pos) THEN o.qty ELSE abs(b.pos)

(* The reduce-only stops of a position on side. *)
Protecting(b, side) == {o \in ToSet(b.stops) : o.ro /\ o.side = -side}

(* The stops in gone are cancelled. *)
DropStops(b, gone) ==
    LET ids == {o.id : o \in gone}
    IN  [SetStatus(b, ids, "CANCELED") EXCEPT !.stops = Without(@, ids)]

(* Fault: the liquidation level of the old position stays. *)
FaultyClosedKeepsLiq(b, old) ==
    [DropStops(b, Protecting(b, sign(old))) EXCEPT !.tp = 0, !.tpSide = 0]

(* _on_position_closed: cancel the reduce-only stops that protected the old
   position, clear its take-profit (one bound to the other side survives) and
   its liquidation level. *)
OnPositionClosed(b, old) ==
    LET keepTp == b.tpSide # 0 /\ b.tpSide # sign(old)
    IN  [DropStops(b, Protecting(b, sign(old)))
            EXCEPT !.tp     = IF keepTp THEN @ ELSE 0,
                   !.tpSide = IF keepTp THEN @ ELSE 0,
                   !.liq    = 0]

(* _execute: a reduce-only order with nothing to reduce is cancelled. *)
Execute(r, o, price, reason) ==
    LET b    == r.b
        qty  == ExecutableQty(b, o)
        new  == b.pos + o.side * qty
        done == [SetStatus(b, {o.id}, "FILLED") EXCEPT !.pos = new]
        fill == [id |-> o.id, side |-> o.side, qty |-> qty, price |-> price,
                 ro |-> o.ro, before |-> b.pos, reason |-> reason]
    IN  IF qty <= 0 THEN [r EXCEPT !.b = SetStatus(b, {o.id}, "CANCELED")]
        ELSE [b     |-> IF b.pos # 0 /\ sign(new) # sign(b.pos)
                        THEN OnPositionClosed(done, b.pos) ELSE done,
              fills |-> Append(r.fills, fill)]

(* _fill_market_orders: at the open, in submission order. *)
FillMarketOrders(r, bar) ==
    LET ready == {o \in ToSet(r.b.queue) : o.wait = 0}
        due   == Kept(r.b.queue, ready)
        run[k \in 0..Len(due)] ==
            IF k = 0 THEN [r EXCEPT !.b.queue = Kept(@, ToSet(@) \ ready)]
            ELSE Execute(run[k - 1], due[k], bar.o, "MARKET")
    IN  run[Len(due)]

-----------------------------------------------------------------------------
(* Triggers inside the bar. *)

NoId == 0   \* the synthetic order of a take-profit or a liquidation

Triggers(b) ==
    LET trigger(kind, level, up, id, prio) ==
            [kind |-> kind, level |-> level, up |-> up, id |-> id, prio |-> prio]
        live  == {o \in ToSet(b.stops) : o.wait = 0}
        hasTp == b.pos # 0 /\ b.tp # 0 /\ b.tpSide \in {0, sign(b.pos)}
        hasLiq == b.pos # 0 /\ b.liq # 0
    IN  {trigger("STOP", o.stop, o.side = 1, o.id, 1) : o \in live}
        \cup (IF hasTp THEN {trigger("TP", b.tp, b.pos > 0, NoId, 2)} ELSE {})
        \cup (IF hasLiq THEN {trigger("LIQ", b.liq, b.pos < 0, NoId, 0)} ELSE {})

(* _fire: a stop leaves the book and executes; a take-profit or a liquidation is
   a reduce-only order for the whole position. *)
Fire(r, tr, price) ==
    LET b      == r.b
        whole  == [id |-> NoId, side |-> -sign(b.pos), qty |-> abs(b.pos), stop |-> tr.level,
                   ro |-> TRUE, wait |-> 0]
        order  == CHOOSE o \in ToSet(b.stops) : o.id = tr.id
    IN  CASE tr.kind = "STOP" ->
               Execute([r EXCEPT !.b.stops = Without(@, {tr.id})], order, price,
                       IF sign(b.pos) = -order.side THEN "STOP" ELSE "ENTRY")
          [] tr.kind = "TP" ->
               Execute([r EXCEPT !.b = [@ EXCEPT !.tp = 0, !.tpSide = 0]], whole, price, "TP")
          [] tr.kind = "LIQ" ->
               Execute([r EXCEPT !.b.liq = 0], whole, price, "LIQ")

(* Every firing consumes a stop, the take-profit or the liquidation level, so a
   loop over the triggers ends after this many rounds. *)
Rounds(b) == Len(b.stops) + 2

(* 1) the gap: levels already behind the open execute at the open, liquidation
   before stops before the take-profit. *)
GapAtOpen(r, o) ==
    LET behind(b) == {tr \in Triggers(b) : IF tr.up THEN o >= tr.level ELSE o <= tr.level}
        first(S)  == CHOOSE x \in S : \A y \in S :
                        x.prio < y.prio \/ (x.prio = y.prio /\ x.id <= y.id)
        step(acc) == IF behind(acc.b) = {} THEN acc ELSE Fire(acc, first(behind(acc.b)), o)
        run[k \in 0..Rounds(r.b)] == IF k = 0 THEN r ELSE step(run[k - 1])
    IN  run[Rounds(r.b)]

(* 2) one monotone piece of the path: the nearest level first, at its own price. *)
WalkSegment(r, from, to) ==
    LET up == to > from
        reach(b, cur) ==
            {tr \in Triggers(b) : /\ tr.up = up
                                  /\ IF up THEN cur <= tr.level /\ tr.level <= to
                                     ELSE to <= tr.level /\ tr.level <= cur}
        near(x, y) == IF up THEN x.level < y.level ELSE x.level > y.level
        first(S) == CHOOSE x \in S : \A y \in S :
                       \/ near(x, y)
                       \/ x.level = y.level /\ (x.prio < y.prio \/ (x.prio = y.prio /\ x.id <= y.id))
        step(acc) ==
            LET S  == reach(acc.r.b, acc.cur)
                tr == first(S)
            IN  IF to = acc.cur \/ S = {} THEN acc
                ELSE [r |-> Fire(acc.r, tr, tr.level), cur |-> tr.level]
        run[k \in 0..Rounds(r.b)] == IF k = 0 THEN [r |-> r, cur |-> from] ELSE step(run[k - 1])
    IN  run[Rounds(r.b)].r

(* Fault: the favourable extreme first. *)
FaultyPath(b, bar) ==
    IF b.pos < 0 \/ (b.pos = 0 /\ bar.o - bar.l <= bar.h - bar.o)
    THEN <<bar.o, bar.l, bar.h, bar.c>> ELSE <<bar.o, bar.h, bar.l, bar.c>>

(* The adverse extreme first; flat, the extreme nearer to the open. *)
Path(b, bar) ==
    IF b.pos > 0 \/ (b.pos = 0 /\ bar.o - bar.l <= bar.h - bar.o)
    THEN <<bar.o, bar.l, bar.h, bar.c>> ELSE <<bar.o, bar.h, bar.l, bar.c>>

(* 2) the path inside the bar, in three pieces. *)
WalkPath(r, p) ==
    WalkSegment(WalkSegment(WalkSegment(r, p[1], p[2]), p[2], p[3]), p[3], p[4])

InsideBar(r, bar) == WalkPath(r, Path(r.b, bar))

(* Fast path: nothing happens in a bar that reaches no level. *)
WalkTriggers(r, bar) ==
    LET touched == \E tr \in Triggers(r.b) :
                      IF tr.up THEN tr.level <= bar.h ELSE tr.level >= bar.l
    IN  IF touched THEN InsideBar(GapAtOpen(r, bar.o), bar) ELSE r

(* _expire_orphan_stops: a reduce-only stop stays only while it protects the
   position held or one an active entry order may open. *)
ExpireOrphanStops(b) ==
    LET entries == {o.side : o \in {x \in ToSet(b.queue) \cup ToSet(b.stops) : ~x.ro}}
    IN  DropStops(b, {o \in ToSet(b.stops) : o.ro /\ sign(b.pos) # -o.side /\ -o.side \notin entries})

(* The end of a bar: orphans expire, waiting orders see the next bar. *)
AfterWalk(b, bar) ==
    LET seen(q) == [k \in DOMAIN q |-> [q[k] EXCEPT !.wait = 0]]
    IN  [ExpireOrphanStops(b)
            EXCEPT !.lastClose = bar.c, !.queue = seen(@), !.stops = seen(@)]

(* on_bar: funding on the position held into the bar, market orders, triggers,
   orphans, statistics. *)
on_bar(b, bar, fundingDue) ==
    LET walk(r)  == WalkTriggers(FillMarketOrders(r, bar), bar)
        close(r) == [b      |-> AfterWalk(r.b, bar),
                     fills  |-> r.fills,
                     charge |-> IF fundingDue /\ b.lastClose # 0 THEN b.pos ELSE 0]
    IN  close(walk([b |-> b, fills |-> <<>>]))

(* The bars of a price grid. *)
Bars(prices) ==
    {bar \in [o : prices, h : prices, l : prices, c : prices] :
        bar.l <= bar.o /\ bar.o <= bar.h /\ bar.l <= bar.c /\ bar.c <= bar.h}
=============================================================================

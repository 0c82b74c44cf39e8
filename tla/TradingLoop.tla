---------------------------- MODULE TradingLoop ----------------------------
(***************************************************************************)
(* One step of the trading engine per closed bar: execute what the last    *)
(* decision ordered, account for it, move the risk mode, decide, submit.   *)
(* Between bars an operator may trip the kill-switch or release it.        *)
(*                                                                         *)
(* Source: backtest/engine.py (TradingLoop), over BrokerBook               *)
(* (execution/paper_broker.py), the contract RiskMode that                 *)
(* RiskStateMachine implements, and the contract of RiskGuard: a decision  *)
(* that changes side is approved for at most the size it asked for.        *)
(*                                                                         *)
(* The fuzzy core and the sizer enter as the side wanted and the size      *)
(* asked for, both arbitrary; equity enters as an arbitrary movement of    *)
(* the risk mode.  Order ids and decision tags are reused once final: the  *)
(* engine draws fresh ones and never refers to a final order again.        *)
(***************************************************************************)
EXTENDS BrokerBook

CONSTANTS
    Prices,      \* the tick grid of bars
    Sizes,       \* sizes the sizer may propose, in steps
    StopDists,   \* stop distances in ticks; 0: none could be computed
    TpMultiple,  \* take-profit distance as a multiple of the stop distance
    LiqDist,     \* ticks from the entry to the liquidation price
    Scaled       \* cooldown_policy = scaled_entries

ASSUME LoopAssumption ==
    /\ Ids = 1..3 /\ Prices \subseteq Nat \ {0} /\ Sizes \subseteq Nat \ {0}
    /\ StopDists \subseteq Nat /\ TpMultiple \in Nat \ {0} /\ LiqDist \in Nat \ {0}
    /\ Scaled \in BOOLEAN

VARIABLES
    book,     \* the venue's book
    level,    \* SEVERITY of the risk state
    latched,  \* the kill-switch
    pf,       \* the portfolio's position
    openPos,  \* the open PositionRecord, or NoPos
    orders,   \* _open_orders with _entries: id -> role, decision, planned stop
    index     \* _index modulo 2: tells the steps of the loop from the operator's

vars == <<book, level, latched, pf, openPos, orders, index>>

NoPos == [side |-> 0, entry |-> 0, stop |-> 0]

Latch == latched \/ level = 3

-----------------------------------------------------------------------------
(* Fault: nothing is withdrawn. *)
FaultyCancelNothing(b) == b

(* _cancel_pending_increases: under the latch, entries and flips that wait for
   this open are withdrawn together with the stops submitted with them. *)
CancelPendingIncreases(b) ==
    LET entries == {o.id : o \in {x \in ToSet(b.queue) : ~x.ro}}
        tags    == {orders[i].dec : i \in entries}
        stops   == {i \in DOMAIN orders : orders[i].role = "stop" /\ orders[i].dec \in tags}
    IN  IF entries = {} THEN b
        ELSE set_take_profit(cancel(b, entries \cup stops), 0, 0)

(* _apply_fill: the portfolio follows the fill; a position that ends closes its
   record, one that begins takes the stop its entry order planned. *)
ApplyFill(acc, f) ==
    LET after == acc.pf + f.side * f.qty
        plan  == IF f.id \in DOMAIN orders THEN orders[f.id].stop ELSE 0
    IN  [pf |-> after,
         openPos |-> IF after = 0 THEN NoPos
                     ELSE IF sign(after) = sign(acc.pf) THEN acc.openPos
                     ELSE [side |-> sign(after), entry |-> f.price, stop |-> plan]]

(* _refresh_liquidation, with P_liq a fixed distance from the entry. *)
LiqPrice(op) ==
    LET p == op.entry - op.side * LiqDist IN IF p > 0 THEN p ELSE 0

(* Fault: only filled orders leave supervision. *)
FaultySync(b) == [i \in {j \in DOMAIN orders : b.status[j] # "FILLED"} |-> orders[i]]

(* _sync_open_orders: what became final at the venue leaves supervision. *)
SyncOpenOrders(b) == [i \in {j \in DOMAIN orders : b.status[j] = "NEW"} |-> orders[i]]

(* Steps 1 and 2: withdraw, execute, account, forget final orders. *)
Accounted(r, acc) ==
    [b |-> IF r.fills # <<>> /\ acc.pf # 0
           THEN set_liquidation_price(r.b, LiqPrice(acc.openPos)) ELSE r.b,
     pf |-> acc.pf, openPos |-> acc.openPos, orders |-> SyncOpenOrders(r.b)]

Booked(r) ==
    LET acc[k \in 0..Len(r.fills)] ==
            IF k = 0 THEN [pf |-> pf, openPos |-> openPos] ELSE ApplyFill(acc[k - 1], r.fills[k])
    IN  Accounted(r, acc[Len(r.fills)])

Executed(bar) ==
    Booked(on_bar(IF Latch THEN CancelPendingIncreases(book) ELSE book, bar, FALSE))

(* Step 3: what a bar may do to the risk mode. *)
ModeAfterBar ==
    IF latched THEN {3}
    ELSE IF level = 3 THEN {2}
    ELSE {n \in 0..3 : n >= level - 1}

-----------------------------------------------------------------------------
(* _submit: the market order to the approved position; an opening also sends its
   reduce-only stop and binds the take-profit to the new side. *)
FreeIds(b) == {i \in Ids : b.status[i] # "NEW"}

Tag(e) == CHOOSE d \in 1..3 : \A i \in DOMAIN e.orders : e.orders[i].dec # d

Place(b, id, side, qty, stop, ro) ==
    submit([b EXCEPT !.status[id] = "NONE"],
           [id |-> id, side |-> side, qty |-> qty, stop |-> stop, ro |-> ro, wait |-> 0])

Supervise(e, b, mkt, prot, stop) ==
    LET rec(role, s) == [role |-> role, dec |-> Tag(e), stop |-> s]
    IN  [b |-> b,
         orders |-> [i \in {j \in Ids : b.status[j] = "NEW"} |->
                        IF i = mkt THEN rec("market", stop)
                        ELSE IF i = prot THEN rec("stop", 0)
                        ELSE e.orders[i]]]

Protect(b, id, approved, stop) ==
    IF stop = 0 THEN b ELSE Place(b, id, -sign(approved), abs(approved), stop, TRUE)

SubmitDecision(e, approved, price, dist) ==
    LET delta  == approved - e.pf
        side   == sign(approved)
        opens  == side # 0 /\ side # sign(e.pf)
        level0 == price - side * dist
        stop   == IF opens /\ dist > 0 /\ level0 > 0 THEN level0 ELSE 0
        tp0    == price + side * TpMultiple * dist
        tp     == IF dist > 0 /\ tp0 > 0 THEN tp0 ELSE 0
        bind(b) == IF opens THEN set_take_profit(b, tp, side) ELSE b
        send(mkt, prot) ==
            Supervise(e, bind(Protect(Place(e.b, mkt, sign(delta), abs(delta), 0, side = 0),
                                      prot, approved, stop)), mkt, prot, stop)
    IN  IF delta = 0 THEN [b |-> e.b, orders |-> e.orders]
        ELSE LET mkt == CHOOSE i \in FreeIds(e.b) : TRUE
             IN  send(mkt, CHOOSE i \in FreeIds(e.b) \ {mkt} : TRUE)

(* Fault: the latch does not overrule the gate. *)
FaultyWanted(halted) == -1..1

(* The sides a decision may want: the gate's, none while halted. *)
Wanted(halted) == IF halted THEN {0} ELSE -1..1

(* Step 4, _decide.  The gate asks for a side (none while halted), the sizer for a
   size (0: refused); the position is kept when that is the side held or the
   quantity held.  Otherwise the guard leaves a part of the target, or closes the
   switch and flattens. *)
Requests(e, wanted) ==
    {size * side : size \in Sizes \cup {0}, side \in wanted \ {sign(e.pf)}}

Approved(requests, mode) ==
    IF mode = 2 /\ ~Scaled THEN {0}
    ELSE UNION {{part * sign(q) : part \in 0..abs(q)} : q \in requests}

(* What is left of a target below the venue's minimum is not opened. *)
Tradable(approved, price) == IF abs(approved) * price < MinNotional THEN 0 ELSE approved

Hold(e) == book' = e.b /\ orders' = e.orders

Act(e, approved, price) ==
    \E dist \in IF approved = 0 THEN {0} ELSE StopDists :
        \E sent \in {SubmitDecision(e, approved, price, dist)} :
            book' = sent.b /\ orders' = sent.orders

Decide(e, mode, price) ==
    LET halted   == mode = 3
        wanted   == Wanted(halted)
        asked    == Requests(e, wanted)
        requests == asked \ {e.pf}
    IN  \/ /\ sign(e.pf) \in wanted \/ e.pf \in asked
           /\ latched' = halted
           /\ Hold(e)
        \/ /\ requests # {}
           /\ latched' = halted
           /\ \E q \in IF halted THEN {0} ELSE Approved(requests, mode) :
                 Act(e, Tradable(q, price), price)
        \/ /\ requests # {}
           /\ latched' = TRUE
           /\ Act(e, 0, price)

(* TradingLoop.step. *)
Step(bar) ==
    \E e \in {Executed(bar)}, mode \in ModeAfterBar :
        /\ pf' = e.pf /\ openPos' = e.openPos
        /\ level' = mode /\ index' = 1 - index
        /\ Decide(e, mode, bar.c)

(* KillSwitch.trip by an operator between bars. *)
Trip == ~latched /\ latched' = TRUE /\ UNCHANGED <<book, level, pf, openPos, orders, index>>

(* release_halt by an administrator between bars. *)
ReleaseHalt ==
    /\ Latch
    /\ latched' = FALSE
    /\ level' = IF level = 3 THEN 2 ELSE level
    /\ UNCHANGED <<book, pf, openPos, orders, index>>

Init ==
    /\ book = EmptyBook /\ level = 0 /\ latched = FALSE
    /\ pf = 0 /\ openPos = NoPos /\ orders = <<>> /\ index = 1

Next == (\E bar \in Bars(Prices) : Step(bar)) \/ Trip \/ ReleaseHalt

Spec == Init /\ [][Next]_vars

(* Bars keep arriving: a backtest iterates over its data and a live session is
   driven by the exchange's closed candles.  A bar is never refused, so weak
   fairness of Step is the same as infinitely many of its steps. *)
FairSpec == Spec /\ []<><<index' # index>>_vars

-----------------------------------------------------------------------------
(* Properties. *)

(* The assertions the engine raises EngineInvariantError on never fire: the venue
   and the portfolio hold the same position, and no bar that starts latched ends
   with more exposure, whatever was pending (engine.py _check_accounting). *)
BrokerMatchesPortfolio == book.pos = pf
LatchedNeverGrows == [][Latch => abs(pf') <= abs(pf) /\ sign(pf') \in {0, sign(pf)}]_vars

(* A position whose record shows a stop has that stop working at the venue, for
   the whole size, until it closes: through flips, latch cancellations, OCO and
   orphan expiry (engine.py _submit, paper_broker.py _on_position_closed). *)
RecordedStopIsLive ==
    pf # 0 /\ openPos.stop # 0 =>
        \E o \in ToSet(book.stops) :
            /\ o.ro /\ o.side = -sign(pf) /\ o.stop = openPos.stop /\ o.qty >= abs(pf)

(* The engine supervises exactly the orders that are active at the venue, at most
   one of them a market order, and has a position record exactly while a position
   is open, on its side (engine.py _sync_open_orders, _open_position). *)
EngineMirrorsVenue ==
    /\ DOMAIN orders = {i \in Ids : book.status[i] = "NEW"}
    /\ Len(book.queue) <= 1
    /\ openPos.side = sign(pf)

(* A take-profit level belongs to the position held or to the one a pending entry
   will open, never to a position that is gone (engine.py _submit,
   _cancel_pending_increases). *)
TakeProfitHasOwner ==
    book.tp # 0 => \/ book.tpSide = sign(pf)
                   \/ \E o \in ToSet(book.queue) : ~o.ro /\ o.side = book.tpSide

(* Engine and venue agree on the position, the orders, the stop and the
   take-profit, after every step. *)
EngineAgreesWithVenue ==
    /\ BrokerMatchesPortfolio /\ EngineMirrorsVenue
    /\ RecordedStopIsLive /\ TakeProfitHasOwner

(* Once latched the book is flattened, unless the latch is released. *)
LatchFlattens == latched ~> (pf = 0 \/ ~latched)
=============================================================================

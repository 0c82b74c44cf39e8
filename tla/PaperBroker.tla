---------------------------- MODULE PaperBroker ----------------------------
(***************************************************************************)
(* The simulated venue under arbitrary callers: any mix of market orders,  *)
(* stop entries, protective stops, cancellations, take-profit and          *)
(* liquidation levels between any bars.  The methods are those of          *)
(* BrokerBook (execution/paper_broker.py).                                 *)
(***************************************************************************)
EXTENDS BrokerBook

CONSTANTS
    Prices,     \* the tick grid of bars
    Shapes,     \* the orders callers submit, without their id
    TpLevels, LiqLevels

ShapeType == [side : {-1, 1}, qty : Nat, stop : Nat, ro : BOOLEAN, wait : 0..1]

ASSUME BrokerAssumption ==
    /\ Prices \subseteq Nat \ {0}
    /\ Shapes \subseteq ShapeType
    /\ TpLevels \subseteq Nat /\ LiqLevels \subseteq Nat

VARIABLES
    book,   \* _InstState and the statuses of _orders
    bar,    \* the last bar
    fills   \* the fills that bar returned

brVars == <<book, bar, fills>>

NoBar == <<>>

(* The next unused client order id. *)
FreshId == {i \in Ids : book.status[i] = "NONE" /\ \A j \in Ids : j < i => book.status[j] # "NONE"}

(* Calls between bars, made by the one caller, which has taken the fills of
   the last bar before it goes on. *)
Called(b) == bar = NoBar /\ book' = b /\ UNCHANGED <<bar, fills>>

Submit(s) ==
    \E i \in FreshId :
        Called(submit(book, [id |-> i, side |-> s.side, qty |-> s.qty, stop |-> s.stop,
                              ro |-> s.ro, wait |-> s.wait]))

Cancel(i) == book.status[i] = "NEW" /\ Called(cancel(book, {i}))

CancelAll == Called(cancel_all(book))

SetTakeProfit(p, side) == Called(set_take_profit(book, p, side))

(* The engine computes a liquidation level only for an open position. *)
SetLiquidationPrice(p) == book.pos # 0 /\ Called(set_liquidation_price(book, p))

OnBar(x) ==
    /\ bar = NoBar
    /\ \E r \in {on_bar(book, x, FALSE)} :
          bar' = x /\ book' = r.b /\ fills' = r.fills

(* on_bar returns: the caller has the fills. *)
TakeFills == bar # NoBar /\ bar' = NoBar /\ fills' = <<>> /\ UNCHANGED book

BrokerInit == book = EmptyBook /\ bar = NoBar /\ fills = <<>>

BrokerNext ==
    \/ \E s \in Shapes : Submit(s)
    \/ \E i \in Ids : Cancel(i)
    \/ CancelAll
    \/ \E p \in TpLevels \cup {0}, side \in -1..1 : SetTakeProfit(p, side)
    \/ \E p \in LiqLevels \cup {0} : SetLiquidationPrice(p)
    \/ \E x \in Bars(Prices) : OnBar(x)
    \/ TakeFills

-----------------------------------------------------------------------------
(* Properties. *)

(* An order is NEW exactly while it stands once in the queue or once among the
   stops: no path through fills, OCO cancellation, orphan expiry and cancels
   leaves a final order in a list or drops an active one (paper_broker.py). *)
StatusMatchesBook ==
    LET listed == book.queue \o book.stops
    IN  /\ IsInjective([k \in DOMAIN listed |-> listed[k].id])
        /\ IdsOf(listed) = {i \in Ids : book.status[i] = "NEW"}

(* A reduce-only execution - exit, protective stop, take-profit, liquidation -
   never increases or reverses the position, even when several of them fire in
   one bar (paper_broker.py _executable_qty, _execute). *)
ReduceOnlyReduces ==
    \A k \in DOMAIN fills :
        LET f == fills[k]
            after == f.before + f.side * f.qty
        IN  f.ro => abs(after) < abs(f.before) /\ sign(after) \in {0, sign(f.before)}

(* Every execution happens at a price the bar really traded, and a level the
   market jumped over pays the open, not the level (paper_broker.py
   _walk_triggers). *)
FillsInsideBar ==
    \A k \in DOMAIN fills : bar.l <= fills[k].price /\ fills[k].price <= bar.h

(* After a bar no reduce-only stop is left that could hit a position it was not
   meant for (paper_broker.py _expire_orphan_stops). *)
NoOrphanAfterBar ==
    [][bar' # NoBar =>
          \A o \in ToSet(book'.stops) :
             o.ro => \/ sign(book'.pos) = -o.side
                     \/ \E e \in ToSet(book'.queue \o book'.stops) : ~e.ro /\ e.side = -o.side]_brVars

(* A position that is closed or reversed takes its liquidation level with it, so
   the next position is never liquidated at the level of the previous one
   (paper_broker.py _on_position_closed). *)
NoStaleLiquidation == [][sign(book'.pos) # sign(book.pos) => book'.liq = 0]_brVars

(* The book is sound at every moment: statuses, reductions and prices. *)
BookIsSound == StatusMatchesBook /\ ReduceOnlyReduces /\ FillsInsideBar

(* Nothing of a position outlives it, neither a stop nor a liquidation level. *)
NothingOutlivesPosition == NoOrphanAfterBar /\ NoStaleLiquidation

(* The stop lies between the open and the extreme.  At the extreme itself the walk
   ends with the first level that fires there, so a stop that shares its level with
   another one may have to wait for the next bar. *)
Crosses(x, o) == IF o.side = 1 THEN x.o < o.stop /\ o.stop < x.h ELSE x.l < o.stop /\ o.stop < x.o

Touches(x, o) == IF o.side = 1 THEN x.o < o.stop /\ o.stop = x.h ELSE x.l = o.stop /\ o.stop < x.o

(* When one bar reaches both the protective stop and the take-profit of the
   position it opens with, and gaps over neither, the stop is what executes: the
   simulation never flatters the strategy (paper_broker.py _walk_triggers). *)
StopBeforeTakeProfit ==
    [][bar' # NoBar /\ book.tp # 0 =>
         LET b == FillMarketOrders([b |-> book, fills |-> <<>>], bar').b
             guards == {o \in ToSet(b.stops) : /\ o.ro /\ o.wait = 0
                                               /\ o.side = -sign(b.pos) /\ o.qty >= abs(b.pos)}
             alone(o) == \A x \in ToSet(b.stops) : x.stop = o.stop => x = o
             tpAhead == IF b.pos > 0 THEN bar'.o < b.tp ELSE bar'.o > b.tp
         IN  /\ b.pos # 0
             /\ \E o \in guards : Crosses(bar', o) \/ (Touches(bar', o) /\ alone(o))
             /\ \A o \in ToSet(b.stops) : o.ro
             /\ b.tp # 0 /\ tpAhead
             => \A k \in DOMAIN fills' : fills'[k].reason # "TP"]_brVars
=============================================================================

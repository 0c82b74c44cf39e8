------------------------- MODULE TradingLoop_proofs -------------------------
(***************************************************************************)
(* The engine and the venue agree after every step of the loop.            *)
(*                                                                         *)
(* Between two bars the book is settled - at most one stop, for the whole  *)
(* position - or one market order waits in the queue: an exit for the      *)
(* whole position, or an opening with the stop of the position it will     *)
(* open, next to the stop of the position it will replace.  A bar executes *)
(* that order and then at most one trigger, which closes everything.       *)
(***************************************************************************)
EXTENDS TradingLoop, BrokerBook_proofs

Records == [role : {"market", "stop"}, dec : 1..3, stop : Nat]
Positions == [side : -1..1, entry : Int, stop : Nat]

(* Nothing waits: the stops protect the position held, which owns the      *)
(* take-profit.                                                            *)
Settled(b, p, op) ==
    /\ \A o \in ToSet(b.stops) : o.ro /\ o.wait = 0 /\ o.side = -sign(p) /\ o.qty >= abs(p)
    /\ \A o, x \in ToSet(b.stops) : o = x
    /\ p # 0 /\ op.stop # 0 => \E o \in ToSet(b.stops) : o.stop = op.stop
    /\ b.tp # 0 => p # 0 /\ b.tpSide = sign(p)

(* The market order m closes the position. *)
Exits(b, p, op, m) ==
    m.ro /\ p # 0 /\ m.side = -sign(p) /\ m.qty = abs(p) /\ Settled(b, p, op)

(* The market order m opens a position t: its own stop has its tag. *)
Opens(b, p, op, ords, m, t) ==
    /\ ~m.ro /\ t # 0 /\ sign(t) # sign(p) /\ m.side = sign(t)
    /\ \A o \in ToSet(b.stops) :
          /\ o.ro /\ o.wait = 0
          /\ \/ /\ o.side = -sign(t) /\ o.qty = abs(t)
                /\ ords[o.id].role = "stop" /\ ords[o.id].dec = ords[m.id].dec
             \/ o.side = -sign(p) /\ o.qty >= abs(p) /\ ords[o.id].dec # ords[m.id].dec
    /\ \A o, x \in ToSet(b.stops) : o.side = x.side => o = x
    /\ ords[m.id].stop # 0 => \E o \in ToSet(b.stops) : o.side = -sign(t) /\ o.stop = ords[m.id].stop
    /\ p # 0 /\ op.stop # 0 => \E o \in ToSet(b.stops) : o.side = -sign(p) /\ o.stop = op.stop
    /\ b.tp # 0 => b.tpSide = sign(t)

Waiting(b, p, op, ords, m) ==
    /\ b.queue = <<m>> /\ m.wait = 0
    /\ Exits(b, p, op, m) \/ Opens(b, p, op, ords, m, p + m.side * m.qty)

(* The book of an engine with position p, record op and orders ords. *)
BookOf(b, p, op, ords) ==
    /\ Sound(b, {}) /\ b.pos = p /\ (p = 0 => b.liq = 0)
    /\ \/ b.queue = <<>> /\ Settled(b, p, op)
       \/ \E m \in Orders : Waiting(b, p, op, ords, m)

NewIds(b) == {i \in Ids : b.status[i] = "NEW"}

Agree(b, p, op, ords) ==
    /\ BookOf(b, p, op, ords)
    /\ ords \in [NewIds(b) -> Records]
    /\ op \in Positions /\ op.side = sign(p)

LoopInv == Agree(book, pf, openPos, orders)

-----------------------------------------------------------------------------
(* Before the bar. *)

LEMMA OneListed ==
    ASSUME NEW q \in Seq(Orders)
    PROVE  /\ q = <<>> <=> ToSet(q) = {}
           /\ \A m : q = <<m>> => Len(q) = 1 /\ q[1] = m /\ ToSet(q) = {m} /\ IdsOf(q) = {m.id}
<1>1. ToSet(q) = {q[k] : k \in 1 .. Len(q)} /\ Len(q) \in Nat /\ IdsOf(q) = {o.id : o \in ToSet(q)}
  BY IdsOfSet
<1>2. q = <<>> <=> Len(q) = 0
  OBVIOUS
<1>3. Len(q) = 0 <=> ToSet(q) = {}
  <2>1. Len(q) # 0 => 1 \in 1 .. Len(q)
    BY <1>1
  <2>2. Len(q) = 0 => 1 .. Len(q) = {}
    OBVIOUS
  <2> QED BY <1>1, <2>1, <2>2
<1>4. ASSUME NEW m, q = <<m>> PROVE Len(q) = 1 /\ q[1] = m /\ ToSet(q) = {m} /\ IdsOf(q) = {m.id}
  <2>1. Len(q) = 1 /\ q[1] = m
    BY <1>4
  <2>2. 1 .. Len(q) = {1}
    BY <2>1
  <2> QED BY <1>1, <2>1, <2>2
<1> QED BY <1>2, <1>3, <1>4

(* Under the latch what would increase the position is withdrawn, and the  *)
(* stop of the position held stays.                                        *)
LEMMA Withdrawn ==
    ASSUME LoopInv
    PROVE  /\ BookOf(CancelPendingIncreases(book), pf, openPos, orders)
           /\ NewIds(CancelPendingIncreases(book)) \subseteq NewIds(book)
           /\ \A m \in Orders : CancelPendingIncreases(book).queue = <<m>> => m.ro
<1> DEFINE b == book
           c == CancelPendingIncreases(b)
           entries == {o.id : o \in {x \in ToSet(b.queue) : ~x.ro}}
           tags    == {orders[i].dec : i \in entries}
           stops   == {i \in DOMAIN orders : orders[i].role = "stop" /\ orders[i].dec \in tags}
<1>1. /\ Sound(b, {}) /\ b \in Books /\ b.queue \in Seq(Orders) /\ b.stops \in Seq(Orders) /\ b.pos = pf
      /\ BookOf(b, pf, openPos, orders) /\ DOMAIN orders = NewIds(b) /\ (pf = 0 => b.liq = 0)
  BY DEF LoopInv, Agree, BookOf, Sound, Books
<1>2. CASE entries = {}
  <2>1. c = b
    BY <1>2 DEF CancelPendingIncreases
  <2>2. ASSUME NEW m \in Orders, b.queue = <<m>> PROVE m.ro
    <3>1. m \in ToSet(b.queue)
      BY <1>1, <2>2, OneListed, ZenonT(40)
    <3> QED BY <1>2, <3>1
  <2> QED BY <1>1, <2>1, <2>2
<1>3. CASE entries # {}
  <2>1. PICK m \in Orders : Waiting(b, pf, openPos, orders, m)
    <3>1. b.queue # <<>>
      BY <1>1, <1>3, OneListed
    <3> QED BY <1>1, <3>1 DEF BookOf
  <2>2. ToSet(b.queue) = {m} /\ IdsOf(b.queue) = {m.id}
    BY <1>1, <2>1, OneListed DEF Waiting
  <2>3. ~m.ro /\ entries = {m.id} /\ tags = {orders[m.id].dec}
    BY <1>3, <2>2
  <2> DEFINE t == pf + m.side * m.qty
  <2>4. Opens(b, pf, openPos, orders, m, t)
    BY <2>1, <2>3 DEF Waiting, Exits
  <2> DEFINE ids == entries \cup stops
             d == cancel(b, ids)
  <2>5. c = set_take_profit(d, 0, 0)
    BY <1>3 DEF CancelPendingIncreases
  <2>6. /\ Sound(d, {}) /\ d.pos = pf /\ d.liq = b.liq
        /\ ToSet(d.queue) = {o \in ToSet(b.queue) : o.id \notin ids}
        /\ ToSet(d.stops) = {o \in ToSet(b.stops) : o.id \notin ids}
        /\ \A i \in Ids : d.status[i] = "NEW" => b.status[i] = "NEW"
    <3> HIDE DEF ids
    <3> QED BY <1>1, CancelSound, CancelTakes
  <2>7. /\ c.pos = d.pos /\ c.liq = d.liq /\ c.queue = d.queue /\ c.stops = d.stops /\ c.tp = 0
        /\ c.status = d.status /\ c \in Books
    <3> HIDE DEF d, c
    <3>1. d \in Books /\ 0 \in Nat /\ 0 \in -1..1
      BY <2>6 DEF Sound
    <3>2. c = [d EXCEPT !.tp = 0, !.tpSide = 0]
      BY <2>5 DEF set_take_profit
    <3> QED BY <3>1, <3>2 DEF Books
  <2> HIDE DEF c, d
  <2>8. Sound(c, {})
    BY <2>6, <2>7 DEF Sound
  <2>9. c.queue = <<>>
    <3>1. m.id \in ids
      BY <2>3
    <3>2. ToSet(c.queue) = {}
      BY <2>2, <2>6, <2>7, <3>1
    <3> QED BY <2>7, <3>2, OneListed DEF Books
  <2>10. \A o \in ToSet(b.stops) : o.id \in NewIds(b) /\ o.id # m.id
    <3>1. \A o \in ToSet(b.stops) : o.id \in IdsOf(b.stops)
      BY <1>1, IdsOfSet
    <3> QED BY <1>1, <2>2, <3>1 DEF Sound, NewIds
  <2>11. ASSUME NEW o \in ToSet(b.stops)
         PROVE  o.id \in ids <=> orders[o.id].role = "stop" /\ orders[o.id].dec = orders[m.id].dec
    BY <1>1, <2>3, <2>10
  <2>12. ASSUME NEW o \in ToSet(c.stops)
         PROVE  /\ o \in ToSet(b.stops) /\ o.ro /\ o.wait = 0
                /\ o.side = -sign(pf) /\ o.qty >= abs(pf)
    BY <2>4, <2>6, <2>7, <2>11 DEF Opens
  <2>13. \A o, x \in ToSet(c.stops) : o = x
    BY <2>4, <2>12 DEF Opens
  <2>14. ASSUME pf # 0, openPos.stop # 0 PROVE \E o \in ToSet(c.stops) : o.stop = openPos.stop
    <3>1. PICK o \in ToSet(b.stops) : o.side = -sign(pf) /\ o.stop = openPos.stop
      BY <2>4, <2>14 DEF Opens
    <3>2. sign(t) # sign(pf) /\ sign(t) \in {-1, 0, 1} /\ sign(pf) \in {-1, 0, 1} /\ sign(t) # 0
      <4>1. t \in Int /\ t # 0 /\ pf \in Int
        <5>1. pf \in Int /\ m.side \in {-1, 1} /\ m.qty \in Nat
          BY <1>1 DEF Books, Orders
        <5> QED BY <2>4, <5>1 DEF Opens
      <4> HIDE DEF t
      <4> QED BY <2>4, <4>1, SignFacts DEF Opens
    <3> HIDE DEF t
    <3>3. -sign(t) # -sign(pf)
      BY <3>2
    <3>4. orders[o.id].dec # orders[m.id].dec
      BY <2>4, <3>1, <3>3 DEF Opens
    <3>5. o \in ToSet(c.stops)
      BY <2>6, <2>7, <2>11, <3>4
    <3> QED BY <3>1, <3>5
  <2>15. Settled(c, pf, openPos)
    BY <2>7, <2>12, <2>13, <2>14 DEF Settled
  <2>16. NewIds(c) \subseteq NewIds(b)
    BY <2>6, <2>7 DEF NewIds
  <2>17. BookOf(c, pf, openPos, orders)
    BY <1>1, <2>6, <2>7, <2>8, <2>9, <2>15 DEF BookOf
  <2>18. ASSUME NEW x \in Orders PROVE c.queue # <<x>>
    BY <2>9
  <2> QED BY <2>16, <2>17, <2>18 DEF c
<1> QED BY <1>2, <1>3

-----------------------------------------------------------------------------
(* The bar. *)

Account == [pf |-> pf, openPos |-> openPos]

LEMMA ApplyFillIs ==
    ASSUME NEW a, NEW f
    PROVE  LET after == a.pf + f.side * f.qty
           IN  /\ ApplyFill(a, f).pf = after
               /\ after = 0 => ApplyFill(a, f).openPos = NoPos
               /\ after # 0 /\ sign(after) = sign(a.pf) => ApplyFill(a, f).openPos = a.openPos
               /\ after # 0 /\ sign(after) # sign(a.pf) =>
                     ApplyFill(a, f).openPos =
                        [side |-> sign(after), entry |-> f.price,
                         stop |-> IF f.id \in DOMAIN orders THEN orders[f.id].stop ELSE 0]
BY DEF ApplyFill

(* The run x has taken the market orders out of the book b. *)
Taken(b, x) ==
    /\ b \in Books /\ b.pos = pf /\ x \in Runs /\ x.fills = <<>> /\ x.b.pos = pf
    /\ x.b.stops = b.stops /\ x.b.tp = b.tp /\ x.b.tpSide = b.tpSide

(* After the market orders the book is settled around the position and the *)
(* record that the fill leaves.                                            *)
FilledOnce(r) ==
    \E f \in Fills : /\ r.fills = <<f>> /\ r.b.pos = ApplyFill(Account, f).pf
                     /\ Settled(r.b, r.b.pos, ApplyFill(Account, f).openPos)

SettledAtOpen(b, r) ==
    /\ r \in Runs /\ Sound(r.b, {}) /\ r.b.queue = <<>> /\ ToSet(r.b.stops) \subseteq ToSet(b.stops)
    /\ (r.fills = <<>> /\ r.b.pos = pf /\ Settled(r.b, pf, openPos)) \/ FilledOnce(r)
    /\ (\A m \in Orders : b.queue = <<m>> => m.ro) => r.b.pos \in {pf, 0}

LEMMA ExitFilled ==
    ASSUME NEW b, NEW m \in Orders, Exits(b, pf, openPos, m), NEW x, Taken(b, x),
           NEW X, NEW price \in Int, NEW c,
           ExecutionOf(x, X, m, price, "MARKET", c)
    PROVE  c.b.pos = 0 /\ ToSet(c.b.stops) = {} /\ FilledOnce(c)
<1>0. /\ b \in Books /\ b.pos = pf /\ x \in Runs /\ x.fills = <<>> /\ x.b.pos = pf
      /\ x.b.stops = b.stops /\ x.b.tp = b.tp /\ x.b.tpSide = b.tpSide /\ pf \in Int
  BY DEF Taken, Books
<1>1. /\ m.ro /\ pf # 0 /\ m.side = -sign(pf) /\ m.qty = abs(pf) /\ Settled(b, pf, openPos)
  BY DEF Exits
<1>2. x.b \in Books /\ m.side \in {-1, 1} /\ m.qty \in Nat
  BY <1>0 DEF Runs, Orders
<1>3. sign(pf) = -m.side /\ abs(pf) \in Nat /\ abs(pf) # 0 /\ sign(pf) # 0
  BY <1>0, <1>1, <1>2, SignFacts
<1>4. ExecutableQty(x.b, m) = abs(pf) /\ After(x.b, m) = 0
  <2>1. m.ro /\ sign(x.b.pos) = -m.side /\ m.qty >= abs(x.b.pos)
    BY <1>0, <1>1, <1>2, <1>3
  <2> QED BY <1>0, <1>2, <2>1, QtyReduces DEF After
<1>5. Closes(x.b, m)
  BY <1>0, <1>1, <1>3, <1>4 DEF Closes, sign
<1> DEFINE f == FillMade(x.b, m, price, "MARKET")
<1>6. /\ c \in Runs /\ c.b.pos = 0 /\ c.fills = Append(<<>>, f)
      /\ ToSet(c.b.stops) = ToSet(b.stops) \ Protecting(x.b, sign(pf))
      /\ IF b.tpSide # 0 /\ b.tpSide # sign(pf)
         THEN c.b.tp = b.tp /\ c.b.tpSide = b.tpSide
         ELSE c.b.tp = 0 /\ c.b.tpSide = 0
  BY <1>0, <1>3, <1>4, <1>5 DEF ExecutionOf
<1>7. f.side = m.side /\ f.qty = abs(pf)
  BY <1>4 DEF FillMade
<1>8. f \in Fills
  BY <1>0, <1>2, <1>3, <1>4 DEF FillMade, Fills, Orders, Reasons
<1> HIDE DEF f
<1>9. c.fills = <<f>>
  BY <1>6
<1>10. ToSet(c.b.stops) = {}
  <2>1. \A o \in ToSet(b.stops) : o \in Protecting(x.b, sign(pf))
    BY <1>0, <1>1 DEF Settled, Protecting
  <2> QED BY <1>6, <2>1
<1>11. c.b.tp = 0
  BY <1>1, <1>6 DEF Settled
<1>12. ApplyFill(Account, f).pf = 0 /\ ApplyFill(Account, f).openPos = NoPos
  <2>1. Account.pf = pf
    BY DEF Account
  <2>2. pf + f.side * f.qty = 0
    BY <1>0, <1>4, <1>7 DEF After
  <2> QED BY <2>1, <2>2, ApplyFillIs
<1>13. Settled(c.b, 0, NoPos)
  BY <1>10, <1>11 DEF Settled
<1> QED BY <1>6, <1>8, <1>9, <1>10, <1>12, <1>13 DEF FilledOnce

LEMMA OpeningFilled ==
    ASSUME NEW b, NEW m \in Orders, Opens(b, pf, openPos, orders, m, pf + m.side * m.qty),
           m.id \in DOMAIN orders, NEW x, Taken(b, x), NEW X, NEW price \in Int, NEW c,
           ExecutionOf(x, X, m, price, "MARKET", c)
    PROVE  ToSet(c.b.stops) \subseteq ToSet(b.stops) /\ FilledOnce(c)
<1>0. /\ b \in Books /\ b.pos = pf /\ x \in Runs /\ x.fills = <<>> /\ x.b.pos = pf
      /\ x.b.stops = b.stops /\ x.b.tp = b.tp /\ x.b.tpSide = b.tpSide /\ pf \in Int
  BY DEF Taken, Books
<1> DEFINE t == pf + m.side * m.qty
<1>1. x.b \in Books /\ m.side \in {-1, 1} /\ m.qty \in Nat /\ b.stops \in Seq(Orders)
  BY <1>0 DEF Runs, Orders, Books
<1>2. t \in Int
  BY <1>0, <1>1
<1>3. /\ ~m.ro /\ t # 0 /\ sign(t) # sign(pf) /\ m.side = sign(t)
  BY DEF Opens
<1>4. m.qty # 0
  <2>1. m.qty = 0 => t = pf
    BY <1>0, <1>1
  <2> QED BY <1>3, <2>1
<1>5. ExecutableQty(x.b, m) = m.qty /\ After(x.b, m) = t
  BY <1>0, <1>1, <1>3, QtyReduces DEF After
<1> HIDE DEF t
<1>6. Closes(x.b, m) <=> pf # 0
  BY <1>0, <1>3, <1>5 DEF Closes
<1>7. /\ sign(t) \in {-1, 1} /\ sign(pf) \in {-1, 0, 1} /\ (sign(pf) = 0 <=> pf = 0)
      /\ -sign(t) # -sign(pf) /\ abs(t) \in Nat
  BY <1>0, <1>2, <1>3, SignFacts
<1> DEFINE f == FillMade(x.b, m, price, "MARKET")
<1>8. /\ c \in Runs /\ c.b.pos = t /\ c.fills = Append(<<>>, f)
      /\ IF pf # 0
         THEN /\ ToSet(c.b.stops) = ToSet(b.stops) \ Protecting(x.b, sign(pf))
              /\ IF b.tpSide # 0 /\ b.tpSide # sign(pf)
                 THEN c.b.tp = b.tp /\ c.b.tpSide = b.tpSide
                 ELSE c.b.tp = 0 /\ c.b.tpSide = 0
         ELSE c.b.stops = b.stops /\ c.b.tp = b.tp /\ c.b.tpSide = b.tpSide
  BY <1>0, <1>4, <1>5, <1>6 DEF ExecutionOf
<1>9. f.side = m.side /\ f.qty = m.qty /\ f.id = m.id
  BY <1>5 DEF FillMade
<1>10. f \in Fills
  BY <1>0, <1>1, <1>5 DEF FillMade, Fills, Orders, Reasons
<1> HIDE DEF f
<1>11. c.fills = <<f>>
  BY <1>8
<1> DEFINE op == ApplyFill(Account, f).openPos
<1>12. ApplyFill(Account, f).pf = t /\ op.stop = orders[m.id].stop
  <2>1. Account.pf = pf
    BY DEF Account
  <2>2. pf + f.side * f.qty = t
    BY <1>9 DEF t
  <2>3. op = [side |-> sign(t), entry |-> f.price, stop |-> orders[m.id].stop]
    BY <1>3, <1>9, <2>1, <2>2, ApplyFillIs
  <2>4. ApplyFill(Account, f).pf = t
    BY <2>1, <2>2, ApplyFillIs
  <2>5. op.stop = orders[m.id].stop
    <3> HIDE DEF op
    <3> QED BY <2>3
  <2> QED BY <2>4, <2>5
<1> HIDE DEF op
<1>13. \A o \in ToSet(b.stops) :
          /\ o.side \in {-1, 1} /\ o.ro /\ o.wait = 0
          /\ (o.side = -sign(t) /\ o.qty = abs(t)) \/ o.side = -sign(pf)
  <2>1. \A o \in ToSet(b.stops) : o.side \in {-1, 1}
    BY <1>1, IdsOfSet DEF Orders
  <2> QED BY <2>1 DEF Opens, t
<1>14. \A o \in ToSet(b.stops) : o \in ToSet(c.b.stops) <=> o.side = -sign(t)
  <2>1. CASE pf = 0
    <3>1. sign(pf) = 0 /\ -sign(pf) = 0
      BY <1>7, <2>1
    <3> QED BY <1>8, <1>13, <2>1, <3>1
  <2>2. CASE pf # 0
    <3>1. \A o \in ToSet(b.stops) : o \in Protecting(x.b, sign(pf)) <=> o.side = -sign(pf)
      BY <1>0, <1>13 DEF Protecting
    <3> QED BY <1>7, <1>8, <1>13, <2>2, <3>1
  <2> QED BY <2>1, <2>2
<1>15. ToSet(c.b.stops) \subseteq ToSet(b.stops)
  BY <1>8
<1>16. \A o \in ToSet(c.b.stops) : o.ro /\ o.wait = 0 /\ o.side = -sign(t) /\ o.qty >= abs(t)
  BY <1>7, <1>13, <1>14, <1>15
<1>17. \A o, y \in ToSet(c.b.stops) : o = y
  BY <1>15, <1>16 DEF Opens
<1>18. op.stop # 0 => \E o \in ToSet(c.b.stops) : o.stop = op.stop
  <2> SUFFICES ASSUME op.stop # 0 PROVE \E o \in ToSet(c.b.stops) : o.stop = op.stop
    OBVIOUS
  <2>1. PICK o \in ToSet(b.stops) : o.side = -sign(t) /\ o.stop = orders[m.id].stop
    BY <1>12 DEF Opens, t
  <2> QED BY <1>12, <1>14, <2>1
<1>19. c.b.tp # 0 => t # 0 /\ c.b.tpSide = sign(t)
  <2>1. b.tp # 0 => b.tpSide = sign(t)
    BY DEF Opens, t
  <2> QED BY <1>3, <1>8, <2>1
<1>20. Settled(c.b, t, op)
  BY <1>16, <1>17, <1>18, <1>19 DEF Settled
<1> QED BY <1>8, <1>10, <1>11, <1>12, <1>15, <1>20 DEF op, FilledOnce

LEMMA MarketPhase ==
    ASSUME NEW b, BookOf(b, pf, openPos, orders), NewIds(b) \subseteq DOMAIN orders, NEW bar, IsBar(bar)
    PROVE  SettledAtOpen(b, FillMarketOrders([b |-> b, fills |-> <<>>], bar))
<1> DEFINE z == [b |-> b, fills |-> <<>>]
           x == Opened(z)
           due == Due(b)
           r == FillMarketOrders(z, bar)
<1>1. /\ b \in Books /\ pf \in Int /\ b.pos = pf /\ Sound(b, {}) /\ b.queue \in Seq(Orders)
      /\ b.stops \in Seq(Orders)
  BY DEF BookOf, Sound, Books
<1>2. z \in Runs /\ z.b = b /\ z.fills = <<>>
  <2>1. <<>> \in Seq(Fills)
    OBVIOUS
  <2> QED BY <1>1, <2>1 DEF Runs
<1> HIDE DEF z
<1>3. /\ due \in Seq(Orders) /\ Uniq(due) /\ ToSet(due) = Ready(b)
      /\ x \in Runs /\ x.fills = <<>> /\ Sound(x.b, IdsOf(due))
      /\ x.b.queue = Kept(b.queue, ToSet(b.queue) \ Ready(b))
      /\ x.b.pos = pf /\ x.b.stops = b.stops /\ x.b.tp = b.tp /\ x.b.tpSide = b.tpSide
  BY <1>1, <1>2, OpenedBook
<1>4. Len(due) <= Len(b.queue) /\ Len(due) \in Nat
  BY <1>1, <1>3, KeptOrders DEF Due
<1>5. CASE b.queue = <<>> /\ Settled(b, pf, openPos)
  <2>1. Len(due) = 0 /\ ToSet(b.queue) = {}
    <3>1. Len(b.queue) = 0
      BY <1>5
    <3>2. ToSet(b.queue) = {}
      BY <1>1, <1>5, OneListed
    <3> DEFINE n == Len(due)
               k == Len(b.queue)
    <3>3. n <= k /\ n \in Nat /\ k = 0
      BY <1>4, <3>1
    <3> HIDE DEF n, k
    <3>4. n = 0
      BY <3>3
    <3> QED BY <3>2, <3>4 DEF n
  <2>2. due = <<>> /\ IdsOf(due) = {}
    <3>1. due = <<>>
      BY <1>3, <2>1
    <3> QED BY <3>1 DEF IdsOf
  <2> DEFINE G == [k \in 0 .. 0 |-> {x}]
  <2>3. x \in G[0] /\ \A k \in 0 .. 0 : G[k] \subseteq {x}
    OBVIOUS
  <2>4. r \in G[0]
    <3>1. Due(z.b) = due /\ Len(Due(z.b)) = 0
      BY <1>2, <2>1
    <3>2. \A k \in 0 .. Len(Due(z.b)) : G[k] \subseteq {x}
      BY <2>3, <3>1
    <3>3. \A k \in 1 .. Len(Due(z.b)) : \A y \in G[k - 1] : Execute(y, Due(z.b)[k], bar.o, "MARKET") \in G[k]
      BY <3>1
    <3>4. Len(Due(z.b)) \in Nat
      BY <3>1
    <3> HIDE DEF G, due
    <3>5. r \in G[Len(Due(z.b))]
      BY <2>3, <3>2, <3>3, <3>4, MarketStays
    <3> QED BY <3>1, <3>5
  <2>5. r = x
    BY <2>4
  <2>6. x.b.queue = <<>>
    <3>1. /\ Kept(b.queue, ToSet(b.queue) \ Ready(b)) \in Seq(Orders)
          /\ ToSet(Kept(b.queue, ToSet(b.queue) \ Ready(b))) = ToSet(b.queue) \cap (ToSet(b.queue) \ Ready(b))
      BY <1>1, KeptOrders
    <3>2. ToSet(b.queue) \cap (ToSet(b.queue) \ Ready(b)) = {}
      BY <2>1
    <3> QED BY <1>3, <3>1, <3>2, OneListed
  <2>7. Settled(x.b, pf, openPos)
    BY <1>3, <1>5 DEF Settled
  <2>8. ToSet(x.b.stops) \subseteq ToSet(b.stops)
    BY <1>3
  <2> HIDE DEF x, r
  <2> QED BY <1>3, <2>2, <2>5, <2>6, <2>7, <2>8 DEF SettledAtOpen, r, z
<1>6. ASSUME NEW m \in Orders, Waiting(b, pf, openPos, orders, m) PROVE SettledAtOpen(b, r)
  <2>1. b.queue = <<m>> /\ m.wait = 0
    BY <1>6 DEF Waiting
  <2>2. Len(b.queue) = 1 /\ ToSet(b.queue) = {m} /\ IdsOf(b.queue) = {m.id}
    BY <1>1, <2>1, OneListed
  <2>3. Ready(b) = {m}
    BY <2>1, <2>2 DEF Ready
  <2>4. Len(due) = 1 /\ due[1] = m
    <3>1. Len(due) # 0
      <4>1. due # <<>>
        <5> HIDE DEF due
        <5>1. ToSet(due) # {}
          BY <1>3, <2>3
        <5> QED BY <1>3, <5>1, OneListed
      <4> HIDE DEF due
      <4> QED BY <1>3, <4>1
    <3>2. Len(due) = 1
      <4> DEFINE n == Len(due)
                 k == Len(b.queue)
      <4>1. n <= k /\ n \in Nat /\ k = 1 /\ n # 0
        BY <1>4, <2>2, <3>1
      <4> HIDE DEF n, k
      <4>2. n = 1
        BY <4>1
      <4> QED BY <4>2 DEF n
    <3>3. ToSet(due) = {due[k] : k \in 1 .. Len(due)}
      BY <1>3, IdsOfSet
    <3>4. due[1] \in ToSet(due)
      BY <3>2, <3>3
    <3> QED BY <1>3, <2>3, <3>2, <3>4
  <2>5. IdsOf(due) = {m.id}
    BY <1>3, <2>3, IdsOfSet
  <2> DEFINE c == Execute(x, m, bar.o, "MARKET")
             G == [k \in 0 .. 1 |-> IF k = 0 THEN {x} ELSE {c}]
  <2>6. r \in G[1]
    <3> HIDE DEF c
    <3>1. x \in G[0] /\ \A k \in 0 .. 1 : G[k] \subseteq {x, c}
      OBVIOUS
    <3>2. Due(z.b) = due /\ Len(Due(z.b)) = 1 /\ Len(Due(z.b)) \in Nat
      BY <1>2, <2>4
    <3>3. \A k \in 1 .. 1 : \A y \in G[k - 1] : Execute(y, due[k], bar.o, "MARKET") \in G[k]
      BY <2>4 DEF c
    <3> HIDE DEF G, due
    <3>4. \A k \in 0 .. Len(Due(z.b)) : G[k] \subseteq {x, c}
      BY <3>1, <3>2
    <3>5. \A k \in 1 .. Len(Due(z.b)) : \A y \in G[k - 1] : Execute(y, Due(z.b)[k], bar.o, "MARKET") \in G[k]
      BY <3>2, <3>3
    <3>6. r \in G[Len(Due(z.b))]
      BY <3>1, <3>2, <3>4, <3>5, MarketStays
    <3> QED BY <3>2, <3>6
  <2>7. r = c
    <3> HIDE DEF c, r
    <3> QED BY <2>6
  <2>8. bar.o \in Int /\ "MARKET" \in Reasons /\ m.id \in {m.id} \cup {NoId}
    BY DEF IsBar, Reasons
  <2>9. ExecutionOf(x, {m.id}, m, bar.o, "MARKET", c)
    <3> HIDE DEF x
    <3> QED BY <1>3, <2>5, <2>8, ExecuteBook
  <2> HIDE DEF c, r
  <2>10. /\ c \in Runs /\ Sound(c.b, {}) /\ c.b.queue = <<>>
    <3>1. {m.id} \ {m.id} = {}
      OBVIOUS
    <3>2. /\ Kept(b.queue, ToSet(b.queue) \ Ready(b)) \in Seq(Orders)
          /\ ToSet(Kept(b.queue, ToSet(b.queue) \ Ready(b))) = ToSet(b.queue) \cap (ToSet(b.queue) \ Ready(b))
      BY <1>1, KeptOrders
    <3>3. ToSet(b.queue) \cap (ToSet(b.queue) \ Ready(b)) = {}
      BY <2>2, <2>3
    <3>4. x.b.queue = <<>>
      BY <1>3, <3>2, <3>3, OneListed
    <3> QED BY <2>9, <3>1, <3>4 DEF ExecutionOf
  <2>11. m.id \in DOMAIN orders
    BY <1>1, <2>2 DEF Sound, NewIds
  <2> HIDE DEF x
  <2>14. Taken(b, x)
    BY <1>1, <1>3 DEF Taken
  <2>12. CASE Exits(b, pf, openPos, m)
    <3>1. c.b.pos = 0 /\ ToSet(c.b.stops) = {} /\ FilledOnce(c)
      BY <2>8, <2>9, <2>14, <2>12, ExitFilled
    <3> QED BY <2>7, <2>10, <3>1 DEF SettledAtOpen
  <2>13. CASE Opens(b, pf, openPos, orders, m, pf + m.side * m.qty)
    <3>1. ToSet(c.b.stops) \subseteq ToSet(b.stops) /\ FilledOnce(c)
      BY <2>8, <2>9, <2>11, <2>14, <2>13, OpeningFilled
    <3>2. ~m.ro
      BY <2>13 DEF Opens
    <3> QED BY <2>1, <2>7, <2>10, <3>1, <3>2 DEF SettledAtOpen
  <2> QED BY <1>6, <2>12, <2>13 DEF Waiting
<1> QED BY <1>5, <1>6 DEF BookOf, z

(* A trigger closes the whole position, and with it everything that        *)
(* protected it: a bar fires at most one.                                  *)
Flat(r, x) ==
    /\ x.b.pos = 0 /\ ToSet(x.b.stops) = {} /\ x.b.tp = 0
    /\ \E f \in Fills : x.fills = Append(r.fills, f) /\ r.b.pos + f.side * f.qty = 0

Walked(r, x) ==
    x \in Runs /\ Sound(x.b, {}) /\ x.b.queue = <<>> /\ (x = r \/ Flat(r, x))

LEMMA SettledFires ==
    ASSUME NEW r \in Runs, Sound(r.b, {}), r.b.queue = <<>>, NEW op, Settled(r.b, r.b.pos, op),
           NEW tr \in Triggers(r.b), NEW price \in Int
    PROVE  Walked(r, Fire(r, tr, price))
<1> DEFINE p == r.b.pos
<1>1. r.b \in Books /\ p \in Int
  BY DEF Runs, Books
<1>2. PICK s \in Runs, o \in Orders, reason \in Reasons : FiredAs(r, tr, price, s, o, reason)
  BY FireIsExecution
<1>3. o.side \in {-1, 1} /\ o.qty \in Nat /\ o.id \in Nat /\ s.b \in Books
  BY DEF Orders, Runs
<1>4. /\ Fire(r, tr, price) = Execute(s, o, price, reason) /\ s.fills = r.fills /\ s.b.pos = p
      /\ s.b.queue = <<>> /\ Sound(s.b, {o.id} \ {NoId})
  BY <1>2 DEF FiredAs
<1>5. o.ro /\ o.side = -sign(p) /\ o.qty >= abs(p)
  <2>1. CASE o \in ToSet(r.b.stops)
    BY <2>1 DEF Settled
  <2>2. CASE o.ro /\ o.side = -sign(p) /\ o.qty = abs(p)
    BY <1>1, <2>2, SignFacts
  <2> QED BY <1>2, <2>1, <2>2 DEF FiredAs
<1>6. ToSet(s.b.stops) \subseteq ToSet(r.b.stops)
  BY <1>2 DEF FiredAs
<1>7. s.b.tp = 0 \/ (s.b.tp = r.b.tp /\ s.b.tpSide = r.b.tpSide)
  BY <1>2 DEF FiredAs
<1>8. sign(p) = -o.side /\ p # 0 /\ abs(p) \in Nat /\ abs(p) # 0 /\ sign(p) # 0
  BY <1>1, <1>3, <1>5, SignFacts
<1>9. ExecutableQty(s.b, o) = abs(p) /\ After(s.b, o) = 0
  BY <1>3, <1>4, <1>5, <1>8, QtyReduces DEF After
<1>10. Closes(s.b, o)
  BY <1>4, <1>8, <1>9 DEF Closes, sign
<1> DEFINE c == Execute(s, o, price, reason)
           X == {o.id} \ {NoId}
           f == FillMade(s.b, o, price, reason)
<1>11. o.id \in X \cup {NoId} /\ X \ {o.id} = {}
  OBVIOUS
<1>12. ExecutionOf(s, X, o, price, reason, c)
  <2> HIDE DEF X
  <2> QED BY <1>4, <1>11, ExecuteBook DEF X
<1> HIDE DEF c, X, f, p
<1>13. /\ c \in Runs /\ Sound(c.b, {}) /\ c.b.queue = <<>> /\ c.b.pos = 0
       /\ c.fills = Append(r.fills, f)
       /\ ToSet(c.b.stops) = ToSet(s.b.stops) \ Protecting(s.b, sign(p))
       /\ IF s.b.tpSide # 0 /\ s.b.tpSide # sign(p)
          THEN c.b.tp = s.b.tp ELSE c.b.tp = 0
  BY <1>4, <1>8, <1>9, <1>10, <1>11, <1>12 DEF ExecutionOf, f
<1>14. ToSet(c.b.stops) = {}
  <2>1. \A y \in ToSet(s.b.stops) : y \in Protecting(s.b, sign(p))
    BY <1>6 DEF Settled, Protecting, p
  <2> QED BY <1>13, <2>1
<1>15. c.b.tp = 0
  BY <1>7, <1>13 DEF Settled, p
<1>16. f \in Fills /\ p + f.side * f.qty = 0
  <2>1. f.side = o.side /\ f.qty = abs(p)
    BY <1>9 DEF f, FillMade
  <2>2. p + f.side * f.qty = 0
    BY <1>4, <1>9, <2>1 DEF After
  <2>3. f \in Fills
    BY <1>1, <1>3, <1>4, <1>8, <1>9 DEF f, FillMade, Fills, Orders, p
  <2> QED BY <2>2, <2>3
<1>17. Flat(r, c)
  BY <1>13, <1>14, <1>15, <1>16 DEF Flat, p
<1> QED BY <1>4, <1>13, <1>17 DEF Walked, c

LEMMA TriggerPhase ==
    ASSUME NEW r \in Runs, Sound(r.b, {}), r.b.queue = <<>>, NEW op, Settled(r.b, r.b.pos, op),
           NEW bar, IsBar(bar)
    PROVE  Walked(r, WalkTriggers(r, bar))
<1> DEFINE I == {x \in Runs : Walked(r, x)}
<1>1. r \in I
  BY DEF Walked
<1>2. \A x \in I : x.b \in Books
  BY DEF Runs
<1>3. ASSUME NEW x \in I, NEW tr \in Triggers(x.b), NEW price \in bar.l .. bar.h
      PROVE  Fire(x, tr, price) \in I
  <2>1. price \in Int
    BY DEF IsBar
  <2>2. x = r \/ Flat(r, x)
    BY DEF Walked
  <2>3. CASE x = r
    <3>1. Walked(r, Fire(x, tr, price))
      BY <2>1, <2>3, SettledFires
    <3> QED BY <3>1 DEF Walked
  <2>4. CASE Flat(r, x)
    <3>1. x.b.pos = 0 /\ ToSet(x.b.stops) = {} /\ x.b \in Books
      BY <1>2, <2>4 DEF Flat
    <3>2. tr.kind \in {"STOP", "TP", "LIQ"}
      BY <3>1, TriggerSource DEF TriggerSet
    <3> QED BY <3>1, <3>2, TriggerSource
  <2> QED BY <2>2, <2>3, <2>4
<1>4. WalkTriggers(r, bar) \in I
  <2> HIDE DEF I
  <2>1. \A x \in I : \A tr \in Triggers(x.b) : \A p \in bar.l .. bar.h : Fire(x, tr, p) \in I
    BY <1>3
  <2> QED BY <1>1, <1>2, <2>1, TriggersStay
<1> QED BY <1>4

(* At the end of such a bar nothing is an orphan and nothing waited. *)
LEMMA SettledEnd ==
    ASSUME NEW b, Sound(b, {}), b.queue = <<>>, NEW op, Settled(b, b.pos, op), NEW bar, bar.c \in Nat
    PROVE  /\ ToSet(AfterWalk(b, bar).stops) = ToSet(b.stops) /\ AfterWalk(b, bar).queue = <<>>
           /\ AfterWalk(b, bar).lastClose = bar.c
<1> DEFINE entries == {o.side : o \in {x \in ToSet(b.queue) \cup ToSet(b.stops) : ~x.ro}}
           gone == {o \in ToSet(b.stops) : o.ro /\ sign(b.pos) # -o.side /\ -o.side \notin entries}
           d == DropStops(b, gone)
           seen(q) == [k \in DOMAIN q |-> [q[k] EXCEPT !.wait = 0]]
           c == AfterWalk(b, bar)
<1>1. b \in Books /\ b.pos \in Int /\ b.stops \in Seq(Orders)
  BY DEF Sound, Books
<1>2. gone = {}
  <2>1. \A o \in ToSet(b.stops) : o.side \in {-1, 1} /\ o.side = -sign(b.pos)
    BY <1>1, IdsOfSet DEF Settled, Orders
  <2>2. sign(b.pos) \in {-1, 0, 1}
    BY <1>1, SignFacts
  <2>3. \A o \in ToSet(b.stops) : sign(b.pos) = -o.side
    BY <2>1, <2>2
  <2> QED BY <2>3
<1>3. /\ Sound(d, {}) /\ d.queue = <<>> /\ ToSet(d.stops) = ToSet(b.stops)
  <2>1. gone \in SUBSET ToSet(b.stops)
    OBVIOUS
  <2> HIDE DEF gone
  <2>2. Sound(d, {}) /\ d.queue = b.queue /\ ToSet(d.stops) = ToSet(b.stops) \ gone
    BY <2>1, DropStopsSound
  <2> HIDE DEF d
  <2>3. ToSet(b.stops) \ gone = ToSet(b.stops)
    BY <1>2
  <2> QED BY <2>2, <2>3
<1>4. d \in Books /\ d.stops \in Seq(Orders)
  BY <1>3 DEF Sound, Books
<1>5. c = [d EXCEPT !.lastClose = bar.c, !.queue = seen(@), !.stops = seen(@)]
  BY DEF AfterWalk, ExpireOrphanStops
<1> HIDE DEF c, d
<1>6. c.lastClose = bar.c /\ c.queue = seen(<<>>) /\ c.stops = seen(d.stops)
  BY <1>3, <1>4, <1>5 DEF Books
<1>7. seen(<<>>) = <<>>
  OBVIOUS
<1>8. seen(d.stops) = d.stops
  <2>1. DOMAIN d.stops = 1 .. Len(d.stops) /\ d.stops = [k \in DOMAIN d.stops |-> d.stops[k]]
    BY <1>4
  <2>2. ASSUME NEW k \in DOMAIN d.stops PROVE [d.stops[k] EXCEPT !.wait = 0] = d.stops[k]
    <3>1. d.stops[k] \in Orders
      BY <1>4
    <3>2. d.stops[k] \in ToSet(d.stops)
      BY <1>4, <2>1, IdsOfSet
    <3>3. d.stops[k].wait = 0
      BY <1>3, <3>2 DEF Settled
    <3> DEFINE o == d.stops[k]
    <3> HIDE DEF o
    <3>4. ASSUME NEW y \in Orders, y.wait = 0 PROVE [y EXCEPT !.wait = 0] = y
      BY <3>4 DEF Orders
    <3> QED BY <3>1, <3>3, <3>4
  <2> QED BY <2>1, <2>2
<1> QED BY <1>3, <1>6, <1>7, <1>8 DEF c

-----------------------------------------------------------------------------
(* The account. *)

(* What the fills of a bar, at most two, make of the account. *)
Total(fs) ==
    LET acc[k \in 0..Len(fs)] == IF k = 0 THEN Account ELSE ApplyFill(acc[k - 1], fs[k])
    IN  acc[Len(fs)]

LEMMA TotalOfFew ==
    ASSUME NEW fs, Len(fs) \in {0, 1, 2}
    PROVE  /\ Len(fs) = 0 => Total(fs) = Account
           /\ Len(fs) = 1 => Total(fs) = ApplyFill(Account, fs[1])
           /\ Len(fs) = 2 => Total(fs) = ApplyFill(ApplyFill(Account, fs[1]), fs[2])
<1> DEFINE n == Len(fs)
           one == ApplyFill(Account, fs[1])
           two == ApplyFill(one, fs[2])
           h == [k \in 0 .. n |-> IF k = 0 THEN Account ELSE IF k = 1 THEN one ELSE two]
           g == CHOOSE f : f = [k \in 0 .. n |-> IF k = 0 THEN Account ELSE ApplyFill(f[k - 1], fs[k])]
<1>1. n \in {0, 1, 2}
  OBVIOUS
<1>2. Total(fs) = g[n]
  BY DEF Total
<1>3. h = [k \in 0 .. n |-> IF k = 0 THEN Account ELSE ApplyFill(h[k - 1], fs[k])]
  <2>1. ASSUME NEW k \in 0 .. n, k # 0 PROVE h[k] = ApplyFill(h[k - 1], fs[k])
    <3>1. (k = 1 \/ k = 2) /\ k - 1 \in 0 .. n
      <4> HIDE DEF n
      <4>1. n \in Nat /\ n <= 2
        BY <1>1
      <4> QED BY <2>1, <4>1
    <3>2. k - 1 \in 0 .. n
      BY <3>1
    <3>3. CASE k = 1
      <4>1. h[k - 1] = Account /\ h[k] = one
        BY <3>2, <3>3
      <4> QED BY <3>3, <4>1
    <3>4. CASE k = 2
      <4>1. h[k - 1] = one /\ h[k] = two
        BY <3>2, <3>4
      <4> HIDE DEF h
      <4> QED BY <3>4, <4>1
    <3> QED BY <3>1, <3>3, <3>4
  <2>2. \A k \in 0 .. n : k = 0 => h[k] = Account
    OBVIOUS
  <2>3. h = [k \in 0 .. n |-> h[k]]
    OBVIOUS
  <2> HIDE DEF h
  <2>4. \A k \in 0 .. n : h[k] = IF k = 0 THEN Account ELSE ApplyFill(h[k - 1], fs[k])
    BY <2>1, <2>2
  <2> QED BY <2>3, <2>4
<1>4. g = [k \in 0 .. n |-> IF k = 0 THEN Account ELSE ApplyFill(g[k - 1], fs[k])]
  <2> HIDE DEF h
  <2> QED BY <1>3
<1> HIDE DEF g, h, n
<1>5. \A k \in 0 .. n : g[k] = IF k = 0 THEN Account ELSE ApplyFill(g[k - 1], fs[k])
  BY <1>4
<1>6. CASE n = 0
  <2>1. g[0] = Account
    BY <1>5, <1>6
  <2> QED BY <1>2, <1>6, <2>1 DEF n
<1>7. CASE n = 1
  <2>1. g[0] = Account /\ g[1] = ApplyFill(g[0], fs[1])
    BY <1>5, <1>7
  <2> QED BY <1>2, <1>7, <2>1 DEF n
<1>8. CASE n = 2
  <2>1. g[0] = Account /\ g[1] = ApplyFill(g[0], fs[1]) /\ g[2] = ApplyFill(g[1], fs[2])
    BY <1>5, <1>8
  <2> QED BY <1>2, <1>8, <2>1 DEF n
<1> QED BY <1>1, <1>6, <1>7, <1>8

AccountOk(a) == a \in [pf : Int, openPos : Positions] /\ a.openPos.side = sign(a.pf)

LEMMA ApplyFillOk ==
    ASSUME NEW a, AccountOk(a), NEW f \in Fills, orders \in [DOMAIN orders -> Records]
    PROVE  AccountOk(ApplyFill(a, f))
<1> DEFINE after == a.pf + f.side * f.qty
           plan == IF f.id \in DOMAIN orders THEN orders[f.id].stop ELSE 0
           n == ApplyFill(a, f)
<1>1. after \in Int /\ f.price \in Int
  BY DEF AccountOk, Fills
<1>2. plan \in Nat
  BY DEF Records
<1>3. n = [pf |-> after,
           openPos |-> IF after = 0 THEN NoPos
                       ELSE IF sign(after) = sign(a.pf) THEN a.openPos
                       ELSE [side |-> sign(after), entry |-> f.price, stop |-> plan]]
  BY DEF ApplyFill
<1> HIDE DEF after, plan, n
<1>4. sign(after) \in -1..1 /\ (after = 0 => sign(after) = 0)
  BY <1>1, SignFacts
<1>5. n.pf = after
  BY <1>3
<1>6. n.openPos \in Positions /\ n.openPos.side = sign(after)
  <2>1. CASE after = 0
    <3>1. n.openPos = NoPos
      BY <1>3, <2>1
    <3>2. NoPos \in Positions /\ NoPos.side = 0
      BY DEF NoPos, Positions
    <3> QED BY <1>4, <2>1, <3>1, <3>2
  <2>2. CASE after # 0 /\ sign(after) = sign(a.pf)
    BY <1>3, <2>2 DEF AccountOk
  <2>3. CASE after # 0 /\ sign(after) # sign(a.pf)
    BY <1>1, <1>2, <1>3, <1>4, <2>3 DEF Positions
  <2> QED BY <2>1, <2>2, <2>3
<1>7. n \in [pf : Int, openPos : Positions]
  BY <1>1, <1>3, <1>5, <1>6
<1> QED BY <1>5, <1>6, <1>7 DEF AccountOk, n

(* A bar leaves a settled book around the account of its fills. *)
BarDone(c, bar, r) ==
    /\ Sound(r.b, {}) /\ r.b.queue = <<>> /\ r.b.lastClose = bar.c /\ (r.b.pos = 0 => r.b.liq = 0)
    /\ ToSet(r.b.stops) \subseteq ToSet(c.stops)
    /\ AccountOk(Total(r.fills)) /\ r.b.pos = Total(r.fills).pf
    /\ Settled(r.b, r.b.pos, Total(r.fills).openPos)
    /\ (\A m \in Orders : c.queue = <<m>> => m.ro) => r.b.pos \in {pf, 0}

LEMMA BarPhase ==
    ASSUME NEW c, BookOf(c, pf, openPos, orders), NewIds(c) \subseteq DOMAIN orders,
           orders \in [DOMAIN orders -> Records], openPos \in Positions, openPos.side = sign(pf),
           NEW bar, IsBar(bar), bar.c \in Nat
    PROVE  BarDone(c, bar, on_bar(c, bar, FALSE))
<1> DEFINE z == [b |-> c, fills |-> <<>>]
           r1 == FillMarketOrders(z, bar)
           w == WalkTriggers(r1, bar)
           r == on_bar(c, bar, FALSE)
<1>1. Sound(c, {}) /\ c.pos = pf /\ (c.pos = 0 => c.liq = 0) /\ pf \in Int
  BY DEF BookOf, Sound, Books
<1>2. r.b = AfterWalk(w.b, bar) /\ r.fills = w.fills
  BY DEF on_bar
<1>3. BarOk(c, bar, r)
  BY <1>1, OnBarSound
<1>4. Sound(r.b, {}) /\ (r.b.pos = 0 => r.b.liq = 0)
  BY <1>3 DEF BarOk
<1>5. SettledAtOpen(c, r1)
  BY MarketPhase
<1> HIDE DEF r1, w, r, z
<1>6. /\ r1 \in Runs /\ Sound(r1.b, {}) /\ r1.b.queue = <<>> /\ ToSet(r1.b.stops) \subseteq ToSet(c.stops)
      /\ r1.b \in Books /\ r1.b.pos \in Int /\ r1.fills \in Seq(Fills)
      /\ (\A m \in Orders : c.queue = <<m>> => m.ro) => r1.b.pos \in {pf, 0}
  BY <1>5 DEF SettledAtOpen, Runs, Books
<1>7. AccountOk(Account) /\ Account.pf = pf /\ Account.openPos = openPos
  BY <1>1 DEF Account, AccountOk
(* The account after the open. *)
<1>8. \E a : /\ AccountOk(a) /\ r1.b.pos = a.pf /\ Settled(r1.b, r1.b.pos, a.openPos)
             /\ \/ r1.fills = <<>> /\ a = Account
                \/ \E f \in Fills : r1.fills = <<f>> /\ a = ApplyFill(Account, f)
  <2>1. CASE r1.fills = <<>> /\ r1.b.pos = pf /\ Settled(r1.b, pf, openPos)
    BY <1>7, <2>1
  <2>2. CASE FilledOnce(r1)
    <3>1. PICK f \in Fills : /\ r1.fills = <<f>> /\ r1.b.pos = ApplyFill(Account, f).pf
                             /\ Settled(r1.b, r1.b.pos, ApplyFill(Account, f).openPos)
      BY <2>2 DEF FilledOnce
    <3>2. AccountOk(ApplyFill(Account, f))
      BY <1>7, ApplyFillOk
    <3> QED BY <3>1, <3>2
  <2> QED BY <1>5, <2>1, <2>2 DEF SettledAtOpen
<1>9. PICK a : /\ AccountOk(a) /\ r1.b.pos = a.pf /\ Settled(r1.b, r1.b.pos, a.openPos)
               /\ \/ r1.fills = <<>> /\ a = Account
                  \/ \E f \in Fills : r1.fills = <<f>> /\ a = ApplyFill(Account, f)
  BY <1>8
<1>10. Walked(r1, w)
  BY <1>6, <1>9, TriggerPhase DEF w
<1>11. w \in Runs /\ Sound(w.b, {}) /\ w.b.queue = <<>> /\ w.fills \in Seq(Fills) /\ w.b.pos \in Int
  BY <1>10 DEF Walked, Runs, Books
(* The account after the triggers. *)
<1>12. /\ AccountOk(Total(w.fills)) /\ w.b.pos = Total(w.fills).pf
       /\ Settled(w.b, w.b.pos, Total(w.fills).openPos)
       /\ ToSet(w.b.stops) \subseteq ToSet(c.stops) /\ w.b.pos \in {r1.b.pos, 0}
  <2>1. CASE w = r1
    <3>1. Total(w.fills) = a
      <4>1. CASE r1.fills = <<>> /\ a = Account
        <5>1. Len(w.fills) = 0
          BY <2>1, <4>1
        <5> QED BY <1>11, <4>1, <5>1, TotalOfFew
      <4>2. ASSUME NEW f \in Fills, r1.fills = <<f>>, a = ApplyFill(Account, f)
            PROVE  Total(w.fills) = a
        <5>1. Len(w.fills) = 1 /\ w.fills[1] = f
          BY <2>1, <4>2
        <5> QED BY <1>11, <4>2, <5>1, TotalOfFew
      <4> QED BY <1>9, <4>1, <4>2
    <3> QED BY <1>6, <1>9, <2>1, <3>1
  <2>2. CASE Flat(r1, w)
    <3>1. /\ w.b.pos = 0 /\ ToSet(w.b.stops) = {} /\ w.b.tp = 0
      BY <2>2 DEF Flat
    <3>2. PICK g \in Fills : w.fills = Append(r1.fills, g) /\ r1.b.pos + g.side * g.qty = 0
      BY <2>2 DEF Flat
    <3>3. Total(w.fills) = ApplyFill(a, g)
      <4>1. CASE r1.fills = <<>> /\ a = Account
        <5>1. Len(w.fills) = 1 /\ w.fills[1] = g
          BY <3>2, <4>1
        <5> QED BY <1>11, <4>1, <5>1, TotalOfFew
      <4>2. ASSUME NEW f \in Fills, r1.fills = <<f>>, a = ApplyFill(Account, f)
            PROVE  Total(w.fills) = ApplyFill(a, g)
        <5>1. Len(w.fills) = 2 /\ w.fills[1] = f /\ w.fills[2] = g
          BY <3>2, <4>2
        <5> QED BY <1>11, <4>2, <5>1, TotalOfFew
      <4> QED BY <1>9, <4>1, <4>2
    <3>4. AccountOk(ApplyFill(a, g))
      BY <1>9, ApplyFillOk
    <3>5. ApplyFill(a, g).pf = 0 /\ ApplyFill(a, g).openPos = NoPos
      BY <1>9, <3>2, ApplyFillIs, ZenonT(40)
    <3>6. Settled(w.b, 0, NoPos)
      BY <3>1 DEF Settled
    <3> QED BY <3>1, <3>3, <3>4, <3>5, <3>6
  <2> QED BY <1>10, <2>1, <2>2 DEF Walked
<1>13. /\ ToSet(r.b.stops) = ToSet(w.b.stops) /\ r.b.queue = <<>> /\ r.b.lastClose = bar.c
  <2> DEFINE op == Total(w.fills).openPos
             b == w.b
  <2>1. Sound(b, {}) /\ b.queue = <<>> /\ Settled(b, b.pos, op)
    BY <1>11, <1>12
  <2> HIDE DEF op, b
  <2>2. /\ ToSet(AfterWalk(b, bar).stops) = ToSet(b.stops) /\ AfterWalk(b, bar).queue = <<>>
        /\ AfterWalk(b, bar).lastClose = bar.c
    BY <2>1, SettledEnd
  <2> QED BY <1>2, <2>2 DEF b
<1>14. r.b.pos = w.b.pos /\ r.b.tp = w.b.tp /\ r.b.tpSide = w.b.tpSide
  BY <1>2, <1>11, AfterWalkSound
<1>15. Settled(r.b, r.b.pos, Total(r.fills).openPos)
  BY <1>2, <1>12, <1>13, <1>14 DEF Settled
<1>16. (\A m \in Orders : c.queue = <<m>> => m.ro) => r.b.pos \in {pf, 0}
  BY <1>6, <1>12, <1>14
<1> QED BY <1>2, <1>4, <1>12, <1>13, <1>14, <1>15, <1>16 DEF BarDone, r

(* Before the decision the engine agrees with a venue where nothing waits. *)
Accounts(bar, e) ==
    /\ Agree(e.b, e.pf, e.openPos, e.orders) /\ e.b.queue = <<>> /\ e.b.lastClose = bar.c
    /\ Latch => e.pf \in {pf, 0}

LEMMA ExecutedAgrees ==
    ASSUME LoopInv, NEW bar, IsBar(bar), bar.c \in Nat
    PROVE  Accounts(bar, Executed(bar))
<1> DEFINE c == IF Latch THEN CancelPendingIncreases(book) ELSE book
           r == on_bar(c, bar, FALSE)
           a == Total(r.fills)
           e == Executed(bar)
<1>1. /\ BookOf(book, pf, openPos, orders) /\ orders \in [NewIds(book) -> Records]
      /\ openPos \in Positions /\ openPos.side = sign(pf)
  BY DEF LoopInv, Agree
<1>2. /\ BookOf(c, pf, openPos, orders) /\ NewIds(c) \subseteq NewIds(book)
      /\ Latch => \A m \in Orders : c.queue = <<m>> => m.ro
  BY <1>1, Withdrawn
<1>3. DOMAIN orders = NewIds(book) /\ orders \in [DOMAIN orders -> Records]
  BY <1>1
<1> HIDE DEF c
<1>4. BarDone(c, bar, r)
  BY <1>1, <1>2, <1>3, BarPhase
<1>5. e = Accounted(r, a)
  BY DEF Executed, Booked, Total, Account, c
<1> HIDE DEF r, a, e
<1>6. /\ Sound(r.b, {}) /\ r.b.queue = <<>> /\ r.b.lastClose = bar.c /\ (r.b.pos = 0 => r.b.liq = 0)
      /\ ToSet(r.b.stops) \subseteq ToSet(c.stops)
      /\ AccountOk(a) /\ r.b.pos = a.pf /\ Settled(r.b, a.pf, a.openPos)
      /\ (\A m \in Orders : c.queue = <<m>> => m.ro) => r.b.pos \in {pf, 0}
  BY <1>4 DEF BarDone, a
<1>7. /\ e.b = IF r.fills # <<>> /\ a.pf # 0 THEN set_liquidation_price(r.b, LiqPrice(a.openPos)) ELSE r.b
      /\ e.pf = a.pf /\ e.openPos = a.openPos /\ e.orders = SyncOpenOrders(r.b)
  BY <1>5 DEF Accounted
<1>8. a.pf \in Int /\ a.openPos \in Positions /\ a.openPos.side = sign(a.pf)
  BY <1>6 DEF AccountOk
<1>9. r.b \in Books /\ r.b.stops \in Seq(Orders) /\ c \in Books /\ c.stops \in Seq(Orders) /\ Sound(c, {})
  BY <1>2, <1>6 DEF BookOf, Sound, Books
<1>10. LiqPrice(a.openPos) \in Nat
  <2>1. a.openPos.entry \in Int /\ a.openPos.side \in -1..1 /\ LiqDist \in Int
    BY <1>8, LoopAssumption DEF Positions
  <2>2. a.openPos.entry - a.openPos.side * LiqDist \in Int
    BY <2>1
  <2> DEFINE p == a.openPos.entry - a.openPos.side * LiqDist
  <2> HIDE DEF p
  <2>3. LiqPrice(a.openPos) = IF p > 0 THEN p ELSE 0
    BY DEF LiqPrice, p
  <2> QED BY <2>2, <2>3 DEF p
<1>11. /\ e.b \in Books /\ e.b.pos = r.b.pos /\ e.b.queue = r.b.queue /\ e.b.stops = r.b.stops
       /\ e.b.tp = r.b.tp /\ e.b.tpSide = r.b.tpSide /\ e.b.lastClose = r.b.lastClose
       /\ e.b.status = r.b.status /\ (r.b.pos = 0 => e.b.liq = r.b.liq)
  <2>1. CASE r.fills # <<>> /\ a.pf # 0
    <3>1. e.b = [r.b EXCEPT !.liq = LiqPrice(a.openPos)]
      BY <1>7, <2>1 DEF set_liquidation_price
    <3> QED BY <1>6, <1>9, <1>10, <2>1, <3>1 DEF Books
  <2>2. CASE ~(r.fills # <<>> /\ a.pf # 0)
    BY <1>7, <1>9, <2>2
  <2> QED BY <2>1, <2>2
<1>12. Sound(e.b, {})
  BY <1>6, <1>11 DEF Sound
<1>13. Settled(e.b, e.pf, e.openPos)
  BY <1>6, <1>7, <1>11 DEF Settled
<1>14. BookOf(e.b, e.pf, e.openPos, e.orders)
  BY <1>6, <1>7, <1>11, <1>12, <1>13 DEF BookOf
<1>15. NewIds(r.b) \subseteq DOMAIN orders
  <2>1. IdsOf(r.b.stops) = {o.id : o \in ToSet(r.b.stops)} /\ IdsOf(c.stops) = {o.id : o \in ToSet(c.stops)}
    BY <1>9, IdsOfSet
  <2>2. IdsOf(r.b.queue) = {}
    BY <1>6 DEF IdsOf
  <2>3. NewIds(r.b) = IdsOf(r.b.stops)
    BY <1>6, <2>2 DEF Sound, NewIds
  <2>4. IdsOf(c.stops) \subseteq NewIds(c)
    BY <1>9 DEF Sound, NewIds
  <2> QED BY <1>2, <1>3, <1>6, <2>1, <2>3, <2>4
<1>16. e.orders \in [NewIds(e.b) -> Records]
  <2>1. NewIds(e.b) = NewIds(r.b)
    BY <1>11 DEF NewIds
  <2>2. {j \in DOMAIN orders : r.b.status[j] = "NEW"} = NewIds(r.b)
    BY <1>3, <1>15 DEF NewIds
  <2>3. e.orders = [i \in NewIds(r.b) |-> orders[i]]
    BY <1>7, <2>2 DEF SyncOpenOrders
  <2>4. \A i \in NewIds(r.b) : orders[i] \in Records
    BY <1>3, <1>15
  <2> QED BY <2>1, <2>3, <2>4
<1>17. Agree(e.b, e.pf, e.openPos, e.orders)
  BY <1>7, <1>8, <1>14, <1>16 DEF Agree
<1>18. Latch => e.pf \in {pf, 0}
  BY <1>2, <1>6, <1>7
<1> QED BY <1>6, <1>11, <1>17, <1>18 DEF Accounts, e

-----------------------------------------------------------------------------
(* The decision. *)

(* What placing an order with a free id does to the book. *)
Placed(b, o, c) ==
    /\ Sound(c, {}) /\ c.pos = b.pos /\ c.liq = b.liq /\ c.tp = b.tp /\ c.tpSide = b.tpSide
    /\ c.lastClose = b.lastClose
    /\ IF o.stop = 0 THEN c.queue = Append(b.queue, o) /\ c.stops = b.stops
       ELSE c.queue = b.queue /\ ToSet(c.stops) = ToSet(b.stops) \cup {o}
    /\ NewIds(c) = NewIds(b) \cup {o.id}

LEMMA PlaceAdds ==
    ASSUME NEW b, Sound(b, {}), NEW id \in Ids \ NewIds(b), NEW side, NEW qty, NEW stop, NEW ro,
           [id |-> id, side |-> side, qty |-> qty, stop |-> stop, ro |-> ro, wait |-> 0] \in Orders,
           qty # 0, ~BelowMin(b, [id |-> id, side |-> side, qty |-> qty, stop |-> stop, ro |-> ro, wait |-> 0])
    PROVE  Placed(b, [id |-> id, side |-> side, qty |-> qty, stop |-> stop, ro |-> ro, wait |-> 0],
                  Place(b, id, side, qty, stop, ro))
<1> DEFINE o == [id |-> id, side |-> side, qty |-> qty, stop |-> stop, ro |-> ro, wait |-> 0]
           f == [b EXCEPT !.status[id] = "NONE"]
           c == Place(b, id, side, qty, stop, ro)
           d == SetStatus(f, {id}, "NEW")
<1>1. b \in Books /\ b.stops \in Seq(Orders) /\ id \in Ids
  BY DEF Sound, Books
<1>2. o \in Orders /\ ~BelowMin(b, o)
  OBVIOUS
<1>3. o.id = id /\ o.qty = qty /\ o.stop = stop /\ qty \in Nat
  BY <1>2 DEF Orders
<1>4. /\ f \in Books /\ f.pos = b.pos /\ f.queue = b.queue /\ f.stops = b.stops /\ f.tp = b.tp
      /\ f.tpSide = b.tpSide /\ f.liq = b.liq /\ f.lastClose = b.lastClose
      /\ \A i \in Ids : f.status[i] = IF i = id THEN "NONE" ELSE b.status[i]
  BY <1>1 DEF Books, Statuses
<1>5. NewIds(f) = NewIds(b) /\ f.status[id] = "NONE"
  BY <1>1, <1>4 DEF NewIds
<1> HIDE DEF f
<1>6. Sound(f, {})
  BY <1>4, <1>5 DEF Sound, NewIds
<1>7. c = submit(f, o)
  BY DEF Place, f
<1>8. /\ d \in Books /\ d.pos = f.pos /\ d.queue = f.queue /\ d.stops = f.stops /\ d.tp = f.tp
      /\ d.tpSide = f.tpSide /\ d.liq = f.liq /\ d.lastClose = f.lastClose
      /\ \A i \in Ids : d.status[i] = IF i = id THEN "NEW" ELSE f.status[i]
  <2>1. "NEW" \in Statuses
    BY DEF Statuses
  <2> QED BY <1>4, <2>1, SetStatusBook
<1>9. NewIds(d) = NewIds(b) \cup {id}
  BY <1>1, <1>4, <1>8 DEF NewIds
<1> HIDE DEF o, c
<1>10. Sound(c, {})
  BY <1>2, <1>3, <1>6, <1>7, <1>1, SubmitSound
<1>11. ~BelowMin(f, o)
  BY <1>2, <1>4 DEF BelowMin
<1>12. c = IF stop = 0 THEN [d EXCEPT !.queue = Append(@, o)] ELSE [d EXCEPT !.stops = Append(@, o)]
  BY <1>3, <1>5, <1>7, <1>11 DEF submit
<1> HIDE DEF d
<1>13. CASE stop = 0
  <2>1. c = [d EXCEPT !.queue = Append(@, o)]
    BY <1>12, <1>13
  <2>2. /\ c.pos = d.pos /\ c.queue = Append(d.queue, o) /\ c.stops = d.stops /\ c.tp = d.tp
        /\ c.tpSide = d.tpSide /\ c.liq = d.liq /\ c.lastClose = d.lastClose /\ c.status = d.status
    BY <1>8, <2>1 DEF Books
  <2>3. NewIds(c) = NewIds(d)
    BY <2>2 DEF NewIds
  <2>4. Placed(b, o, c)
    BY <1>3, <1>4, <1>8, <1>9, <1>10, <1>13, <2>2, <2>3 DEF Placed
  <2> QED BY <2>4 DEF c, o
<1>14. CASE stop # 0
  <2>1. c = [d EXCEPT !.stops = Append(@, o)]
    BY <1>12, <1>14
  <2>2. /\ c.pos = d.pos /\ c.stops = Append(d.stops, o) /\ c.queue = d.queue /\ c.tp = d.tp
        /\ c.tpSide = d.tpSide /\ c.liq = d.liq /\ c.lastClose = d.lastClose /\ c.status = d.status
    BY <1>8, <2>1 DEF Books
  <2>3. NewIds(c) = NewIds(d)
    BY <2>2 DEF NewIds
  <2>4. ToSet(Append(b.stops, o)) = ToSet(b.stops) \cup {o}
    <3>1. <<o>> \in Seq(Orders) /\ Append(b.stops, o) = b.stops \o <<o>>
      BY <1>1, <1>2
    <3>2. ToSet(<<o>>) = {o}
      BY <3>1, OneListed
    <3> QED BY <1>1, <3>1, <3>2, JoinedOrders
  <2>5. Placed(b, o, c)
    BY <1>3, <1>4, <1>8, <1>9, <1>10, <1>14, <2>2, <2>3, <2>4 DEF Placed
  <2> QED BY <2>5 DEF c, o
<1> QED BY <1>13, <1>14

(* Nothing waits at the venue of e: at most one order is active, so two    *)
(* ids are free, and a tag is.                                             *)
Quiet(e) == Agree(e.b, e.pf, e.openPos, e.orders) /\ e.b.queue = <<>>

LEMMA QuietFacts ==
    ASSUME NEW e, Quiet(e)
    PROVE  /\ Sound(e.b, {}) /\ e.b \in Books /\ e.b.stops \in Seq(Orders) /\ e.b.pos = e.pf /\ e.pf \in Int
           /\ Settled(e.b, e.pf, e.openPos) /\ (e.pf = 0 => e.b.liq = 0)
           /\ e.orders \in [NewIds(e.b) -> Records] /\ DOMAIN e.orders = NewIds(e.b)
           /\ e.openPos \in Positions /\ e.openPos.side = sign(e.pf)
           /\ NewIds(e.b) = {o.id : o \in ToSet(e.b.stops)}
           /\ \A i, j \in NewIds(e.b) : i = j
           /\ FreeIds(e.b) = Ids \ NewIds(e.b)
           /\ Tag(e) \in 1..3 /\ \A i \in NewIds(e.b) : e.orders[i].dec # Tag(e)
           /\ \E i, j \in FreeIds(e.b) : i # j
<1>1. /\ Sound(e.b, {}) /\ e.b \in Books /\ e.b.stops \in Seq(Orders) /\ e.b.pos = e.pf /\ e.pf \in Int
      /\ (e.pf = 0 => e.b.liq = 0)
      /\ e.orders \in [NewIds(e.b) -> Records] /\ e.openPos \in Positions /\ e.openPos.side = sign(e.pf)
  BY DEF Quiet, Agree, BookOf, Sound, Books
<1>2. Settled(e.b, e.pf, e.openPos)
  <2>1. \A m \in Orders : ~Waiting(e.b, e.pf, e.openPos, e.orders, m)
    BY DEF Waiting, Quiet
  <2> QED BY <2>1 DEF Quiet, Agree, BookOf
<1>3. NewIds(e.b) = {o.id : o \in ToSet(e.b.stops)}
  <2>1. IdsOf(e.b.queue) = {}
    BY DEF IdsOf, Quiet
  <2>2. IdsOf(e.b.stops) = {o.id : o \in ToSet(e.b.stops)}
    BY <1>1, IdsOfSet
  <2> QED BY <1>1, <2>1, <2>2 DEF Sound, NewIds
<1>4. \A i, j \in NewIds(e.b) : i = j
  BY <1>2, <1>3 DEF Settled
<1>5. FreeIds(e.b) = Ids \ NewIds(e.b)
  BY DEF FreeIds, NewIds
<1>6. \E d \in 1..3 : \A i \in DOMAIN e.orders : e.orders[i].dec # d
  <2>1. CASE NewIds(e.b) = {}
    BY <1>1, <2>1
  <2>2. ASSUME NEW i \in NewIds(e.b) PROVE \E d \in 1..3 : \A j \in DOMAIN e.orders : e.orders[j].dec # d
    <3>1. \A j \in DOMAIN e.orders : j = i
      BY <1>1, <1>4, <2>2
    <3>2. \E d \in 1..3 : e.orders[i].dec # d
      <4>1. 1 \in 1..3 /\ 2 \in 1..3 /\ 1 # 2
        OBVIOUS
      <4> QED BY <4>1
    <3> QED BY <3>1, <3>2
  <2> QED BY <2>1, <2>2
<1>7. Tag(e) \in 1..3 /\ \A i \in DOMAIN e.orders : e.orders[i].dec # Tag(e)
  BY <1>6 DEF Tag
<1>8. \E i, j \in FreeIds(e.b) : i # j
  <2>1. 1 \in Ids /\ 2 \in Ids /\ 3 \in Ids
    BY LoopAssumption
  <2>2. CASE 1 \in NewIds(e.b)
    <3>1. 2 \notin NewIds(e.b) /\ 3 \notin NewIds(e.b)
      BY <1>4, <2>2
    <3> QED BY <1>5, <2>1, <3>1
  <2>3. CASE 2 \in NewIds(e.b)
    <3>1. 1 \notin NewIds(e.b) /\ 3 \notin NewIds(e.b)
      BY <1>4, <2>3
    <3> QED BY <1>5, <2>1, <3>1
  <2>4. CASE 1 \notin NewIds(e.b) /\ 2 \notin NewIds(e.b)
    BY <1>5, <2>1, <2>4
  <2> QED BY <2>2, <2>3, <2>4
<1> QED BY <1>1, <1>2, <1>3, <1>4, <1>5, <1>7, <1>8

(* The records of supervised orders. *)
Supervised(e, b, mkt, prot, stop, s) ==
    /\ s.b = b /\ s.orders \in [NewIds(b) -> Records]
    /\ mkt \in NewIds(b) => s.orders[mkt].dec = Tag(e) /\ s.orders[mkt].stop = stop
    /\ prot \in NewIds(b) /\ prot # mkt => s.orders[prot].role = "stop" /\ s.orders[prot].dec = Tag(e)
    /\ \A i \in NewIds(b) \ {mkt, prot} : s.orders[i] = e.orders[i]

LEMMA SuperviseRecords ==
    ASSUME NEW e, Quiet(e), NEW b, NEW mkt, NEW prot, NEW stop \in Nat,
           NewIds(b) \subseteq NewIds(e.b) \cup {mkt, prot}
    PROVE  Supervised(e, b, mkt, prot, stop, Supervise(e, b, mkt, prot, stop))
<1> DEFINE rec(role, s) == [role |-> role, dec |-> Tag(e), stop |-> s]
           F == [i \in NewIds(b) |-> IF i = mkt THEN rec("market", stop)
                                     ELSE IF i = prot THEN rec("stop", 0) ELSE e.orders[i]]
<1>1. Tag(e) \in 1..3 /\ e.orders \in [NewIds(e.b) -> Records]
  BY QuietFacts
<1>2. Supervise(e, b, mkt, prot, stop) = [b |-> b, orders |-> F]
  BY DEF Supervise, NewIds
<1>3. rec("market", stop) \in Records /\ rec("stop", 0) \in Records
  BY <1>1 DEF Records
<1>4. \A i \in NewIds(b) : F[i] \in Records
  <2> HIDE DEF rec
  <2> QED BY <1>1, <1>3
<1> QED BY <1>2, <1>4 DEF Supervised

(* An order to close: the stop of the position waits with it. *)
LEMMA ExitSent ==
    ASSUME NEW e, Quiet(e), e.pf # 0, NEW price, NEW dist
    PROVE  Agree(SubmitDecision(e, 0, price, dist).b, e.pf, e.openPos, SubmitDecision(e, 0, price, dist).orders)
<1> DEFINE mkt == CHOOSE i \in FreeIds(e.b) : TRUE
           prot == CHOOSE i \in FreeIds(e.b) \ {mkt} : TRUE
           m == [id |-> mkt, side |-> sign(0 - e.pf), qty |-> abs(0 - e.pf), stop |-> 0, ro |-> TRUE, wait |-> 0]
           b1 == Place(e.b, mkt, sign(0 - e.pf), abs(0 - e.pf), 0, TRUE)
           s == SubmitDecision(e, 0, price, dist)
<1>1. /\ Sound(e.b, {}) /\ e.b \in Books /\ e.b.stops \in Seq(Orders) /\ e.b.pos = e.pf /\ e.pf \in Int
      /\ Settled(e.b, e.pf, e.openPos)
      /\ e.openPos \in Positions /\ e.openPos.side = sign(e.pf) /\ e.b.queue = <<>>
      /\ FreeIds(e.b) = Ids \ NewIds(e.b) /\ \E i, j \in FreeIds(e.b) : i # j
  BY QuietFacts DEF Quiet
<1>2. mkt \in Ids \ NewIds(e.b) /\ mkt \in Nat
  BY <1>1, BookAssumption
<1>3. s = Supervise(e, b1, mkt, prot, 0)
  <2>1. sign(0) = 0 /\ 0 - e.pf # 0
    BY <1>1 DEF sign
  <2> HIDE DEF mkt
  <2>2. Protect(b1, prot, 0, 0) = b1
    BY DEF Protect
  <2> QED BY <2>1, <2>2 DEF SubmitDecision, mkt
<1> HIDE DEF mkt, prot
<1>4. sign(0 - e.pf) \in {-1, 1} /\ sign(0 - e.pf) = -sign(e.pf) /\ abs(0 - e.pf) = abs(e.pf) /\ abs(e.pf) \in Nat
      /\ abs(e.pf) # 0
  BY <1>1 DEF sign, abs
<1>5. m \in Orders
  BY <1>2, <1>4 DEF Orders
<1>6. ~BelowMin(e.b, m)
  BY DEF BelowMin
<1>7. Placed(e.b, m, b1)
  <2> DEFINE sd == sign(0 - e.pf)
             q == abs(0 - e.pf)
  <2>1. [id |-> mkt, side |-> sd, qty |-> q, stop |-> 0, ro |-> TRUE, wait |-> 0] \in Orders
    BY <1>5
  <2>2. ~BelowMin(e.b, [id |-> mkt, side |-> sd, qty |-> q, stop |-> 0, ro |-> TRUE, wait |-> 0])
    BY <1>6
  <2>3. q # 0
    BY <1>4
  <2> HIDE DEF sd, q
  <2>4. Placed(e.b, [id |-> mkt, side |-> sd, qty |-> q, stop |-> 0, ro |-> TRUE, wait |-> 0],
               Place(e.b, mkt, sd, q, 0, TRUE))
    BY <1>1, <1>2, <2>1, <2>2, <2>3, PlaceAdds
  <2> QED BY <2>4 DEF sd, q
<1>8. m.id = mkt /\ m.stop = 0 /\ m.wait = 0 /\ m.ro /\ m.side = -sign(e.pf) /\ m.qty = abs(e.pf)
  BY <1>4
<1> HIDE DEF b1, m, s
<1>9. /\ Sound(b1, {}) /\ b1.pos = e.pf /\ b1.tp = e.b.tp /\ b1.tpSide = e.b.tpSide
      /\ b1.queue = Append(<<>>, m) /\ b1.stops = e.b.stops /\ NewIds(b1) = NewIds(e.b) \cup {mkt}
  BY <1>1, <1>7, <1>8 DEF Placed
<1>10. b1.queue = <<m>>
  BY <1>9
<1>11. Settled(b1, e.pf, e.openPos)
  BY <1>1, <1>9 DEF Settled
<1>12. Waiting(b1, e.pf, e.openPos, s.orders, m)
  BY <1>8, <1>10, <1>11 DEF Waiting, Exits
<1>13. BookOf(b1, e.pf, e.openPos, s.orders)
  BY <1>5, <1>9, <1>12 DEF BookOf
<1>14. s.b = b1 /\ s.orders \in [NewIds(b1) -> Records]
  <2>1. NewIds(b1) \subseteq NewIds(e.b) \cup {mkt, prot} /\ 0 \in Nat
    BY <1>9
  <2>2. Supervised(e, b1, mkt, prot, 0, Supervise(e, b1, mkt, prot, 0))
    BY <2>1, SuperviseRecords
  <2> QED BY <1>3, <2>2 DEF Supervised
<1> QED BY <1>1, <1>13, <1>14 DEF Agree, s

(* Trading to the other side of a position moves at least the target. *)
LEMMA TargetFacts ==
    ASSUME NEW t \in Int, NEW p \in Int, t # 0, sign(t) # sign(p)
    PROVE  /\ sign(t) \in {-1, 1} /\ abs(t) \in Nat /\ abs(t) # 0
           /\ sign(p) \in {-1, 0, 1} /\ (sign(p) = 0 <=> p = 0)
           /\ -sign(t) # -sign(p) /\ -sign(t) \in {-1, 1}
           /\ sign(t - p) = sign(t) /\ abs(t - p) \in Nat /\ abs(t - p) # 0 /\ abs(t - p) >= abs(t)
           /\ p + sign(t - p) * abs(t - p) = t /\ t - p # 0
<1>1. CASE t > 0
  <2>1. sign(t) = 1 /\ abs(t) = t
    BY <1>1 DEF sign, abs
  <2>2. p <= 0
    BY <2>1 DEF sign
  <2>3. sign(t - p) = 1 /\ abs(t - p) = t - p
    BY <1>1, <2>2 DEF sign, abs
  <2>4. sign(p) \in {-1, 0} /\ (sign(p) = 0 <=> p = 0)
    BY <2>2 DEF sign
  <2> QED BY <1>1, <2>1, <2>2, <2>3, <2>4
<1>2. CASE t < 0
  <2>1. sign(t) = -1 /\ abs(t) = -t
    BY <1>2 DEF sign, abs
  <2>2. p >= 0
    BY <2>1 DEF sign
  <2>3. sign(t - p) = -1 /\ abs(t - p) = p - t
    BY <1>2, <2>2 DEF sign, abs
  <2>4. sign(p) \in {0, 1} /\ (sign(p) = 0 <=> p = 0)
    BY <2>2 DEF sign
  <2>5. p + (-1) * (p - t) = t /\ p - t # 0 /\ p - t \in Nat /\ p - t >= -t /\ -t \in Nat /\ -t # 0
    BY <1>2, <2>2
  <2>6. -sign(t) # -sign(p) /\ -sign(t) \in {-1, 1}
    <3>1. \A u, v \in {-1, 0, 1} : u # v => -u # -v
      OBVIOUS
    <3>2. \A u \in {-1, 1} : -u \in {-1, 1}
      OBVIOUS
    <3>3. sign(t) \in {-1, 1} /\ sign(t) \in {-1, 0, 1} /\ sign(p) \in {-1, 0, 1}
      BY <2>1, <2>4
    <3> QED BY <3>1, <3>2, <3>3, Zenon
  <2>7. t - p # 0
    BY <1>2, <2>2
  <2> QED BY <2>1, <2>3, <2>4, <2>5, <2>6, <2>7
<1> QED BY <1>1, <1>2

(* An order to open, or to open the other way: it is never refused for its *)
(* size, and its stop and take-profit wait with it.                        *)
LEMMA OpeningSent ==
    ASSUME NEW e, Quiet(e), NEW price \in Nat, e.b.lastClose = price, NEW approved \in Int,
           approved # 0, sign(approved) # sign(e.pf), abs(approved) * price >= MinNotional, NEW dist \in Nat
    PROVE  Agree(SubmitDecision(e, approved, price, dist).b, e.pf, e.openPos,
                 SubmitDecision(e, approved, price, dist).orders)
<1> DEFINE t == approved
           p == e.pf
           side == sign(t)
           sd == sign(t - p)
           q == abs(t - p)
           mkt == CHOOSE i \in FreeIds(e.b) : TRUE
           prot == CHOOSE i \in FreeIds(e.b) \ {mkt} : TRUE
           level0 == price - side * dist
           stop == IF dist > 0 /\ level0 > 0 THEN level0 ELSE 0
           tp0 == price + side * TpMultiple * dist
           tp == IF dist > 0 /\ tp0 > 0 THEN tp0 ELSE 0
           m == [id |-> mkt, side |-> sd, qty |-> q, stop |-> 0, ro |-> FALSE, wait |-> 0]
           g == [id |-> prot, side |-> -side, qty |-> abs(t), stop |-> stop, ro |-> TRUE, wait |-> 0]
           b1 == Place(e.b, mkt, sd, q, 0, FALSE)
           b2 == Protect(b1, prot, t, stop)
           b3 == set_take_profit(b2, tp, side)
           s == SubmitDecision(e, t, price, dist)
<1>1. /\ Sound(e.b, {}) /\ e.b \in Books /\ e.b.stops \in Seq(Orders) /\ e.b.pos = p /\ p \in Int
      /\ Settled(e.b, p, e.openPos) /\ (p = 0 => e.b.liq = 0)
      /\ DOMAIN e.orders = NewIds(e.b) /\ NewIds(e.b) = {o.id : o \in ToSet(e.b.stops)}
      /\ \A i \in NewIds(e.b) : e.orders[i].dec # Tag(e)
      /\ e.openPos \in Positions /\ e.openPos.side = sign(p) /\ e.b.queue = <<>>
      /\ FreeIds(e.b) = Ids \ NewIds(e.b) /\ \E i, j \in FreeIds(e.b) : i # j
  BY QuietFacts DEF Quiet
<1>2. mkt \in Ids \ NewIds(e.b) /\ mkt \in Nat
  BY <1>1, BookAssumption
<1>3. prot \in Ids \ NewIds(e.b) /\ prot \in Nat /\ prot # mkt
  <2> HIDE DEF mkt
  <2>1. \E i : i \in FreeIds(e.b) \ {mkt}
    BY <1>1
  <2>2. prot \in FreeIds(e.b) \ {mkt}
    BY <2>1
  <2> QED BY <1>1, <2>2, BookAssumption
<1> HIDE DEF mkt, prot
<1>4. /\ side \in {-1, 1} /\ abs(t) \in Nat /\ abs(t) # 0 /\ sign(p) \in {-1, 0, 1} /\ (sign(p) = 0 <=> p = 0)
      /\ -side # -sign(p) /\ -side \in {-1, 1}
      /\ sd = side /\ q \in Nat /\ q # 0 /\ q >= abs(t) /\ p + sd * q = t /\ t - p # 0
  <2> HIDE DEF p
  <2>1. t \in Int /\ t # 0 /\ sign(t) # sign(p) /\ p \in Int
    BY <1>1 DEF p
  <2> QED BY <2>1, TargetFacts
<1>5. stop \in Nat /\ tp \in Nat
  <2>1. level0 \in Int
    BY <1>4
  <2>2. tp0 \in Int
    <3>1. TpMultiple \in Int
      BY LoopAssumption
    <3>2. side * TpMultiple \in Int
      BY <1>4, <3>1
    <3> DEFINE y == side * TpMultiple
    <3> HIDE DEF y
    <3>3. price + y * dist \in Int
      BY <3>2 DEF y
    <3> QED BY <3>3 DEF y
  <2> HIDE DEF level0, tp0
  <2> QED BY <2>1, <2>2
<1>6. s = Supervise(e, b3, mkt, prot, stop)
  <2>1. side # 0 /\ side # sign(p) /\ t - p # 0
    BY <1>4
  <2>2. (side = 0) = FALSE
    BY <2>1
  <2> QED BY <2>1, <2>2 DEF SubmitDecision, mkt, prot
<1>7. m \in Orders /\ (stop # 0 => g \in Orders)
  BY <1>2, <1>3, <1>4, <1>5 DEF Orders
<1>8. ~BelowMin(e.b, m)
  <2>1. ASSUME NEW x \in Nat, NEW y \in Nat, NEW k \in Nat, x >= y PROVE x * k >= y * k
    <3>1. x - y \in Nat
      BY <2>1
    <3>2. (x - y) * k \in Nat
      BY <3>1
    <3>3. x * k = y * k + (x - y) * k
      OBVIOUS
    <3> QED BY <3>2, <3>3
  <2>2. q * price >= abs(t) * price
    BY <1>4, <2>1
  <2>3. q * price \in Int /\ abs(t) * price \in Int /\ MinNotional \in Int
    BY <1>4, BookAssumption
  <2>4. q * price >= MinNotional
    BY <2>2, <2>3
  <2>5. ~(q * price < MinNotional)
    BY <2>3, <2>4
  <2>6. m.qty = q
    OBVIOUS
  <2> HIDE DEF m, q
  <2> QED BY <2>5, <2>6 DEF BelowMin
<1> HIDE DEF sd, q, stop, tp, side, t
<1>9. Placed(e.b, m, b1)
  BY <1>1, <1>2, <1>4, <1>7, <1>8, PlaceAdds
<1>10. m.id = mkt /\ m.stop = 0 /\ m.wait = 0 /\ ~m.ro /\ m.side = side /\ m.qty = q
  BY <1>4
<1>11. g.id = prot /\ g.stop = stop /\ g.wait = 0 /\ g.ro /\ g.side = -side /\ g.qty = abs(t)
  OBVIOUS
<1> HIDE DEF m, b1
<1>12. /\ Sound(b1, {}) /\ b1.pos = p /\ b1.liq = e.b.liq
       /\ b1.queue = Append(<<>>, m) /\ b1.stops = e.b.stops /\ NewIds(b1) = NewIds(e.b) \cup {mkt}
  BY <1>1, <1>9, <1>10 DEF Placed
<1>13. /\ Sound(b2, {}) /\ b2.pos = p /\ b2.liq = e.b.liq /\ b2.queue = <<m>>
       /\ IF stop = 0 THEN ToSet(b2.stops) = ToSet(e.b.stops) /\ NewIds(b2) = NewIds(e.b) \cup {mkt}
          ELSE ToSet(b2.stops) = ToSet(e.b.stops) \cup {g} /\ NewIds(b2) = NewIds(e.b) \cup {mkt, prot}
  <2>1. b1.queue = <<m>>
    BY <1>12
  <2>2. CASE stop = 0
    <3>1. b2 = b1
      BY <2>2 DEF Protect
    <3> QED BY <1>12, <2>1, <2>2, <3>1
  <2>3. CASE stop # 0
    <3>1. b2 = Place(b1, prot, -side, abs(t), stop, TRUE)
      BY <2>3 DEF Protect, side
    <3>2. ~BelowMin(b1, g)
      BY <1>11 DEF BelowMin
    <3>3. prot \in Ids \ NewIds(b1)
      BY <1>3, <1>12
    <3> DEFINE z == -side
               n == abs(t)
    <3>4. n # 0 /\ g \in Orders /\ ~BelowMin(b1, g)
          /\ g = [id |-> prot, side |-> z, qty |-> n, stop |-> stop, ro |-> TRUE, wait |-> 0]
      BY <1>4, <1>7, <2>3, <3>2
    <3> HIDE DEF z, n, g
    <3>5. Placed(b1, g, Place(b1, prot, z, n, stop, TRUE))
      BY <1>12, <3>3, <3>4, PlaceAdds
    <3>6. Placed(b1, g, b2)
      BY <3>1, <3>5 DEF z, n
    <3> HIDE DEF b2
    <3> QED BY <1>11, <1>12, <2>1, <2>3, <3>6 DEF Placed
  <2> QED BY <2>2, <2>3
<1> HIDE DEF b2, g
<1>14. /\ b3 \in Books /\ b3.pos = p /\ b3.liq = e.b.liq /\ b3.queue = <<m>> /\ b3.stops = b2.stops
       /\ b3.status = b2.status /\ (b3.tp # 0 => b3.tpSide = side)
  <2>1. b2 \in Books
    BY <1>13 DEF Sound
  <2>2. (IF tp = 0 THEN 0 ELSE side) \in -1..1
    BY <1>4
  <2>3. b3 = [b2 EXCEPT !.tp = tp, !.tpSide = IF tp = 0 THEN 0 ELSE side]
    BY DEF set_take_profit
  <2> QED BY <1>5, <1>13, <2>1, <2>2, <2>3 DEF Books
<1> HIDE DEF b3, s
<1>15. Sound(b3, {})
  BY <1>13, <1>14 DEF Sound
<1>16. NewIds(b3) = NewIds(b2)
  BY <1>14 DEF NewIds
<1>17. Supervised(e, b3, mkt, prot, stop, s)
  <2>1. NewIds(b3) \subseteq NewIds(e.b) \cup {mkt, prot}
    BY <1>13, <1>16
  <2> QED BY <1>5, <1>6, <2>1, SuperviseRecords
<1> DEFINE ords == s.orders
<1>18. /\ s.b = b3 /\ ords \in [NewIds(b3) -> Records] /\ ords[mkt].dec = Tag(e) /\ ords[mkt].stop = stop
       /\ \A i \in NewIds(e.b) : ords[i] = e.orders[i]
       /\ stop # 0 => ords[prot].role = "stop" /\ ords[prot].dec = Tag(e)
  <2>1. mkt \in NewIds(b3) /\ NewIds(e.b) \subseteq NewIds(b3) \ {mkt, prot} /\ (stop # 0 => prot \in NewIds(b3))
    BY <1>2, <1>3, <1>13, <1>16
  <2> QED BY <1>3, <1>17, <2>1 DEF Supervised
<1> HIDE DEF ords
<1>19. \A o \in ToSet(e.b.stops) :
          /\ o.ro /\ o.wait = 0 /\ o.side = -sign(p) /\ o.qty >= abs(p) /\ ords[o.id].dec # ords[m.id].dec
  <2>1. \A o \in ToSet(e.b.stops) : o.id \in NewIds(e.b)
    BY <1>1
  <2> QED BY <1>1, <1>10, <1>18, <2>1 DEF Settled
<1>20. \A o \in ToSet(b3.stops) : o \in ToSet(e.b.stops) \/ (stop # 0 /\ o = g)
  BY <1>13, <1>14
<1>21. Opens(b3, p, e.openPos, ords, m, t)
  <2>1. ~m.ro /\ t # 0 /\ sign(t) # sign(p) /\ m.side = sign(t)
    BY <1>10 DEF side, t
  <2>2. ASSUME NEW o \in ToSet(b3.stops)
        PROVE  /\ o.ro /\ o.wait = 0
               /\ \/ /\ o.side = -sign(t) /\ o.qty = abs(t)
                     /\ ords[o.id].role = "stop" /\ ords[o.id].dec = ords[m.id].dec
                  \/ o.side = -sign(p) /\ o.qty >= abs(p) /\ ords[o.id].dec # ords[m.id].dec
    <3>1. CASE o \in ToSet(e.b.stops)
      BY <1>19, <3>1
    <3>2. CASE stop # 0 /\ o = g
      BY <1>10, <1>11, <1>18, <3>2 DEF side
    <3> QED BY <1>20, <3>1, <3>2
  <2>3. \A o, x \in ToSet(b3.stops) : o.side = x.side => o = x
    <3>1. \A o, x \in ToSet(e.b.stops) : o = x
      BY <1>1 DEF Settled
    <3>2. \A o \in ToSet(e.b.stops) : o.side # g.side
      BY <1>4, <1>11, <1>19
    <3> QED BY <1>20, <3>1, <3>2
  <2>4. ords[m.id].stop # 0 => \E o \in ToSet(b3.stops) : o.side = -sign(t) /\ o.stop = ords[m.id].stop
    <3>1. stop # 0 => g \in ToSet(b3.stops)
      BY <1>13, <1>14
    <3> QED BY <1>10, <1>11, <1>18, <3>1 DEF side
  <2>5. p # 0 /\ e.openPos.stop # 0 => \E o \in ToSet(b3.stops) : o.side = -sign(p) /\ o.stop = e.openPos.stop
    <3>1. ToSet(e.b.stops) \subseteq ToSet(b3.stops)
      BY <1>13, <1>14
    <3> QED BY <1>1, <1>19, <3>1 DEF Settled
  <2>6. b3.tp # 0 => b3.tpSide = sign(t)
    BY <1>14 DEF side
  <2> HIDE DEF p
  <2> QED BY <2>1, <2>2, <2>3, <2>4, <2>5, <2>6 DEF Opens
<1>22. Waiting(b3, p, e.openPos, ords, m)
  <2>1. p + m.side * m.qty = t
    BY <1>4, <1>10
  <2> QED BY <1>10, <1>14, <1>21, <2>1 DEF Waiting
<1>23. BookOf(b3, p, e.openPos, ords)
  BY <1>1, <1>7, <1>14, <1>15, <1>22 DEF BookOf, m
<1>24. Agree(s.b, p, e.openPos, s.orders)
  BY <1>1, <1>18, <1>23 DEF Agree, ords
<1> QED BY <1>24 DEF s, t

(* Whatever the gate, the sizer, the guard and the switch decide. *)
LEMMA ActAgrees ==
    ASSUME NEW e, Quiet(e), NEW price \in Nat, e.b.lastClose = price, NEW approved \in Int,
           approved # 0 => sign(approved) # sign(e.pf) /\ abs(approved) * price >= MinNotional,
           Act(e, approved, price)
    PROVE  Agree(book', e.pf, e.openPos, orders')
<1>1. PICK dist \in IF approved = 0 THEN {0} ELSE StopDists :
         LET sent == SubmitDecision(e, approved, price, dist)
         IN  book' = sent.b /\ orders' = sent.orders
  BY DEF Act
<1> DEFINE s == SubmitDecision(e, approved, price, dist)
<1>2. book' = s.b /\ orders' = s.orders /\ dist \in Nat
  BY <1>1, LoopAssumption
<1>3. CASE approved = 0 /\ e.pf = 0
  <2>1. s = [b |-> e.b, orders |-> e.orders]
    BY <1>3 DEF SubmitDecision
  <2> QED BY <1>2, <2>1 DEF Quiet
<1>4. CASE approved = 0 /\ e.pf # 0
  BY <1>2, <1>4, ExitSent
<1>5. CASE approved # 0
  <2> HIDE DEF s
  <2>1. Agree(SubmitDecision(e, approved, price, dist).b, e.pf, e.openPos,
              SubmitDecision(e, approved, price, dist).orders)
    BY <1>2, <1>5, OpeningSent
  <2> QED BY <1>2, <2>1 DEF s
<1> QED BY <1>3, <1>4, <1>5

(* The guard approves a part of a target on a side that is not held. *)
LEMMA ApprovedSide ==
    ASSUME NEW e, e.pf \in Int, NEW halted, NEW R \in SUBSET Requests(e, Wanted(halted)), NEW mode,
           NEW q \in Approved(R, mode)
    PROVE  q \in Int /\ (q # 0 => sign(q) # sign(e.pf))
<1>1. CASE q = 0
  BY <1>1
<1>2. CASE q # 0
  <2>1. PICK r \in R : \E part \in 0 .. abs(r) : q = part * sign(r)
    BY <1>2 DEF Approved
  <2>2. PICK size \in Sizes \cup {0}, side \in Wanted(halted) \ {sign(e.pf)} : r = size * side
    BY DEF Requests
  <2>3. size \in Nat /\ side \in {-1, 0, 1} /\ side # sign(e.pf)
    BY <2>2, LoopAssumption DEF Wanted
  <2>4. r \in Int /\ (r # 0 => sign(r) = side)
    BY <2>2, <2>3 DEF sign
  <2>5. abs(r) \in Nat /\ sign(r) \in {-1, 0, 1} /\ (r = 0 => abs(r) = 0)
    BY <2>4, SignFacts
  <2>6. PICK part \in 0 .. abs(r) : q = part * sign(r)
    BY <2>1
  <2>7. part \in Nat
    BY <2>5, <2>6
  <2>8. q \in Int
    BY <2>5, <2>6, <2>7
  <2>9. r # 0
    <3>1. r = 0 => part = 0
      BY <2>5, <2>6
    <3>2. part = 0 => q = 0
      BY <2>5, <2>6
    <3> QED BY <1>2, <3>1, <3>2
  <2>10. part # 0
    BY <1>2, <2>5, <2>6
  <2>11. sign(q) = sign(r)
    <3> DEFINE sg == sign(r)
    <3>1. sg \in {-1, 0, 1} /\ q = part * sg /\ part \in Nat /\ part # 0 /\ q # 0
      BY <1>2, <2>5, <2>6, <2>7, <2>10
    <3> HIDE DEF sg
    <3>2. sign(q) = sg
      BY <3>1 DEF sign
    <3> QED BY <3>2 DEF sg
  <2> QED BY <2>3, <2>4, <2>8, <2>9, <2>11
<1> QED BY <1>1, <1>2

LEMMA DecideAgrees ==
    ASSUME NEW e, Quiet(e), NEW mode, NEW price \in Nat, e.b.lastClose = price, Decide(e, mode, price)
    PROVE  Agree(book', e.pf, e.openPos, orders')
<1> DEFINE halted == mode = 3
           asked == Requests(e, Wanted(halted))
           requests == asked \ {e.pf}
<1>1. e.pf \in Int
  BY QuietFacts
<1>2. CASE Hold(e)
  BY <1>2 DEF Hold, Quiet
<1>3. ASSUME Act(e, 0, price) PROVE Agree(book', e.pf, e.openPos, orders')
  BY <1>3, ActAgrees
<1>4. ASSUME NEW q \in IF halted THEN {0} ELSE Approved(requests, mode), Act(e, Tradable(q, price), price)
      PROVE  Agree(book', e.pf, e.openPos, orders')
  <2>1. requests \in SUBSET Requests(e, Wanted(halted))
    OBVIOUS
  <2>2. q \in Int /\ (q # 0 => sign(q) # sign(e.pf))
    <3> HIDE DEF halted, requests
    <3>1. CASE q = 0
      BY <3>1
    <3>2. CASE q \in Approved(requests, mode)
      BY <1>1, <2>1, <3>2, ApprovedSide
    <3> QED BY <1>4, <3>1, <3>2
  <2> DEFINE a == Tradable(q, price)
  <2>3. abs(q) * price \in Int /\ MinNotional \in Int
    <3>1. abs(q) \in Nat
      BY <2>2, SignFacts
    <3> QED BY <3>1, BookAssumption
  <2>4. a \in Int /\ (a # 0 => a = q /\ abs(q) * price >= MinNotional)
    <3> DEFINE n == abs(q) * price
    <3>1. a = IF n < MinNotional THEN 0 ELSE q
      BY DEF Tradable
    <3>2. n \in Int /\ MinNotional \in Int
      BY <2>3
    <3> HIDE DEF n, a
    <3>3. a \in Int /\ (a # 0 => a = q /\ n >= MinNotional)
      BY <2>2, <3>1, <3>2
    <3> QED BY <3>3 DEF n
  <2> HIDE DEF a
  <2>5. a # 0 => sign(a) # sign(e.pf) /\ abs(a) * price >= MinNotional
    BY <2>2, <2>4
  <2>6. Act(e, a, price)
    BY <1>4 DEF a
  <2> QED BY <2>4, <2>5, <2>6, ActAgrees
<1> QED BY <1>2, <1>3, <1>4 DEF Decide

-----------------------------------------------------------------------------
(* The invariant. *)

LEMMA LoopInit == Init => LoopInv
<1> SUFFICES ASSUME Init PROVE LoopInv
  OBVIOUS
<1> DEFINE b == EmptyBook
<1>1. /\ b.pos = 0 /\ b.queue = <<>> /\ b.stops = <<>> /\ b.tp = 0 /\ b.liq = 0
      /\ b.status = [i \in Ids |-> "NONE"] /\ b \in Books
  <2>1. <<>> \in Seq(Orders) /\ "NONE" \in Statuses /\ 0 \in Nat /\ 0 \in Int /\ 0 \in -1..1
    BY DEF Statuses
  <2> QED BY <2>1 DEF EmptyBook, Books
<1> HIDE DEF b
<1>2. NewIds(b) = {}
  BY <1>1 DEF NewIds
<1>3. IdsOf(<<>>) = {} /\ Uniq(<<>>)
  BY DEF IdsOf, Uniq
<1>4. Sound(b, {})
  BY <1>1, <1>2, <1>3 DEF Sound, NewIds
<1>5. ToSet(b.stops) = {}
  <2>1. <<>> \in Seq(Orders)
    OBVIOUS
  <2> QED BY <1>1, <2>1, OneListed
<1>6. Settled(b, 0, NoPos)
  BY <1>1, <1>5 DEF Settled
<1>7. /\ book = b /\ pf = 0 /\ openPos = NoPos /\ orders = <<>>
  BY DEF Init, b
<1>8. orders \in [NewIds(b) -> Records]
  BY <1>2, <1>7
<1>9. NoPos \in Positions /\ NoPos.side = sign(0)
  BY DEF NoPos, Positions, sign
<1> QED BY <1>1, <1>4, <1>6, <1>7, <1>8, <1>9 DEF LoopInv, Agree, BookOf

(* A bar of the grid is a bar. *)
LEMMA BarsAre ==
    ASSUME NEW bar \in Bars(Prices)
    PROVE  IsBar(bar) /\ bar.c \in Nat
<1>1. /\ bar \in [o : Prices, h : Prices, l : Prices, c : Prices]
      /\ bar.l <= bar.o /\ bar.o <= bar.h /\ bar.l <= bar.c /\ bar.c <= bar.h
  BY DEF Bars
<1>2. bar.o \in Prices /\ bar.h \in Prices /\ bar.l \in Prices /\ bar.c \in Prices
  BY <1>1
<1>3. \A x \in Prices : x \in Nat /\ x \in Int
  BY LoopAssumption
<1> QED BY <1>1, <1>2, <1>3 DEF IsBar

LEMMA LoopStep ==
    ASSUME LoopInv, [Next]_vars
    PROVE  LoopInv' /\ (Latch => pf' \in {pf, 0})
<1>1. ASSUME NEW bar \in Bars(Prices), Step(bar) PROVE LoopInv' /\ (Latch => pf' \in {pf, 0})
  <2> DEFINE e == Executed(bar)
  <2>1. IsBar(bar) /\ bar.c \in Nat
    BY BarsAre
  <2>2. Accounts(bar, e)
    BY <2>1, ExecutedAgrees
  <2>3. PICK mode \in ModeAfterBar : pf' = e.pf /\ openPos' = e.openPos /\ Decide(e, mode, bar.c)
    BY <1>1 DEF Step
  <2> HIDE DEF e
  <2>4. Quiet(e) /\ e.b.lastClose = bar.c /\ (Latch => e.pf \in {pf, 0})
    BY <2>2 DEF Accounts, Quiet
  <2>5. Agree(book', e.pf, e.openPos, orders')
    BY <2>1, <2>3, <2>4, DecideAgrees
  <2>6. Agree(book', pf', openPos', orders')
    BY <2>3, <2>5
  <2> QED BY <2>3, <2>4, <2>6 DEF LoopInv
<1>2. ASSUME UNCHANGED <<book, pf, openPos, orders>> PROVE LoopInv' /\ pf' = pf
  BY <1>2 DEF LoopInv
<1> QED BY <1>1, <1>2 DEF Next, Trip, ReleaseHalt, vars

(* The invariant says what the engine asserts. *)
LEMMA LoopInvAgrees == LoopInv => EngineAgreesWithVenue
<1> SUFFICES ASSUME LoopInv PROVE EngineAgreesWithVenue
  OBVIOUS
<1> DEFINE b == book
           p == pf
<1>1. /\ Sound(b, {}) /\ b \in Books /\ b.queue \in Seq(Orders) /\ b.pos = p /\ p \in Int
      /\ DOMAIN orders = NewIds(b) /\ openPos.side = sign(p) /\ BookOf(b, p, openPos, orders)
  BY DEF LoopInv, Agree, BookOf, Sound, Books
<1>2. ASSUME Settled(b, p, openPos) PROVE RecordedStopIsLive /\ TakeProfitHasOwner
  BY <1>2 DEF Settled, RecordedStopIsLive, TakeProfitHasOwner
<1>3. CASE b.queue = <<>> /\ Settled(b, p, openPos)
  <2>1. Len(b.queue) = 0
    BY <1>3
  <2>2. Len(b.queue) <= 1
    BY <2>1
  <2> QED BY <1>1, <1>2, <1>3, <2>2
          DEF EngineAgreesWithVenue, BrokerMatchesPortfolio, EngineMirrorsVenue, NewIds
<1>4. ASSUME NEW m \in Orders, Waiting(b, p, openPos, orders, m) PROVE EngineAgreesWithVenue
  <2>1. b.queue = <<m>>
    BY <1>4 DEF Waiting
  <2>2. Len(b.queue) = 1 /\ ToSet(b.queue) = {m}
    BY <1>1, <2>1, OneListed
  <2>3. Len(b.queue) <= 1
    BY <2>2
  <2> DEFINE t == p + m.side * m.qty
  <2>4. ASSUME Exits(b, p, openPos, m) PROVE RecordedStopIsLive /\ TakeProfitHasOwner
    BY <1>2, <2>4 DEF Exits
  <2>5. ASSUME Opens(b, p, openPos, orders, m, t) PROVE RecordedStopIsLive /\ TakeProfitHasOwner
    <3>1. t \in Int /\ t # 0 /\ sign(t) # sign(p) /\ ~m.ro /\ m.side = sign(t)
      BY <1>1, <2>5 DEF Opens, Orders
    <3> HIDE DEF t
    <3>2. -sign(t) # -sign(p)
      BY <1>1, <3>1, TargetFacts
    <3>3. RecordedStopIsLive
      <4> SUFFICES ASSUME p # 0, openPos.stop # 0
                   PROVE  \E o \in ToSet(b.stops) :
                             /\ o.ro /\ o.side = -sign(p) /\ o.stop = openPos.stop /\ o.qty >= abs(p)
        BY DEF RecordedStopIsLive
      <4>1. PICK o \in ToSet(b.stops) : o.side = -sign(p) /\ o.stop = openPos.stop
        BY <2>5 DEF Opens
      <4> QED BY <2>5, <3>2, <4>1 DEF Opens
    <3>4. TakeProfitHasOwner
      BY <2>2, <2>5, <3>1 DEF Opens, TakeProfitHasOwner
    <3> QED BY <3>3, <3>4
  <2>6. RecordedStopIsLive /\ TakeProfitHasOwner
    BY <1>4, <2>4, <2>5 DEF Waiting
  <2> QED BY <1>1, <2>3, <2>6
          DEF EngineAgreesWithVenue, BrokerMatchesPortfolio, EngineMirrorsVenue, NewIds
<1> QED BY <1>1, <1>3, <1>4 DEF BookOf

(* Engine and venue agree after every step of the loop, for every grid of  *)
(* prices, every set of sizes and stop distances and every minimum         *)
(* notional: the assertions of _check_accounting never fire, a recorded    *)
(* stop is live at the venue and a take-profit has an owner.               *)
THEOREM LoopAgrees == Spec => []EngineAgreesWithVenue
<1>1. LoopInv /\ [Next]_vars => LoopInv'
  BY LoopStep
<1> QED BY LoopInit, <1>1, LoopInvAgrees, PTL DEF Spec

(* A bar that starts latched ends with the position it began with or with  *)
(* none, whatever was pending at the venue.                                *)
THEOREM LatchHolds == Spec => LatchedNeverGrows
<1>1. LoopInv /\ [Next]_vars => LoopInv'
  BY LoopStep
<1>2. LoopInv /\ [Next]_vars => [Latch => abs(pf') <= abs(pf) /\ sign(pf') \in {0, sign(pf)}]_vars
  <2> SUFFICES ASSUME LoopInv, [Next]_vars, Latch
               PROVE  abs(pf') <= abs(pf) /\ sign(pf') \in {0, sign(pf)}
    OBVIOUS
  <2>1. pf' \in {pf, 0} /\ pf \in Int
    BY LoopStep DEF LoopInv, Agree, BookOf, Sound, Books
  <2>2. sign(0) = 0 /\ abs(0) = 0
    BY DEF sign, abs
  <2>3. abs(pf) \in Nat
    BY <2>1, SignFacts
  <2>4. CASE pf' = pf
    BY <2>3, <2>4
  <2>5. CASE pf' = 0
    BY <2>2, <2>3, <2>5
  <2> QED BY <2>1, <2>4, <2>5
<1> QED BY LoopInit, <1>1, <1>2, PTL DEF Spec, LatchedNeverGrows
=============================================================================

------------------------- MODULE BrokerBook_proofs -------------------------
(***************************************************************************)
(* Facts about the venue's book for every caller: what each method keeps   *)
(* of the book, of the fills of a bar and of the liquidation level.        *)
(*                                                                         *)
(* While an order is taken out of its list to execute, its status is NEW   *)
(* and it stands in no list: Sound(b, X) says that the NEW orders are the  *)
(* ones listed and the ones in the set X, each in one place.               *)
(***************************************************************************)
EXTENDS BrokerBook, SequenceFacts

Orders == [id : Nat, side : {-1, 1}, qty : Nat, stop : Nat, ro : BOOLEAN, wait : 0..1]

Books == [pos : Int, queue : Seq(Orders), stops : Seq(Orders), tp : Nat, tpSide : -1..1,
          liq : Nat, lastClose : Nat, status : [Ids -> Statuses]]

Reasons == {"MARKET", "STOP", "ENTRY", "TP", "LIQ"}

Fills == [id : Nat, side : {-1, 1}, qty : Nat, price : Int, ro : BOOLEAN, before : Int, reason : Reasons]

Runs == [b : Books, fills : Seq(Fills)]

(* No two orders of a list have the same id. *)
Uniq(q) == \A i, j \in 1 .. Len(q) : q[i].id = q[j].id => i = j

Sound(b, X) ==
    /\ b \in Books /\ Uniq(b.queue) /\ Uniq(b.stops)
    /\ IdsOf(b.queue) \cap IdsOf(b.stops) = {}
    /\ (IdsOf(b.queue) \cup IdsOf(b.stops)) \cap X = {}
    /\ IdsOf(b.queue) \cup IdsOf(b.stops) \cup X = {i \in Ids : b.status[i] = "NEW"}

-----------------------------------------------------------------------------
(* Lists of orders. *)

(* The ids of a list are the ids of its members. *)
LEMMA IdsOfSet ==
    ASSUME NEW q \in Seq(Orders)
    PROVE  IdsOf(q) = {o.id : o \in ToSet(q)} /\ ToSet(q) \subseteq Orders /\ IdsOf(q) \subseteq Nat
           /\ ToSet(q) = {q[k] : k \in 1 .. Len(q)}
<1>1. DOMAIN q = 1 .. Len(q) /\ \A k \in 1 .. Len(q) : q[k] \in Orders
  OBVIOUS
<1> QED BY <1>1 DEF IdsOf, ToSet, Orders

(* A selection keeps the members in the set, and no id becomes double. *)
LEMMA KeptOrders ==
    ASSUME NEW q \in Seq(Orders), NEW K
    PROVE  /\ Kept(q, K) \in Seq(Orders) /\ Len(Kept(q, K)) <= Len(q)
           /\ ToSet(Kept(q, K)) = ToSet(q) \cap K
           /\ IdsOf(Kept(q, K)) = {o.id : o \in ToSet(q) \cap K}
           /\ Uniq(q) => Uniq(Kept(q, K))
<1> DEFINE t == Kept(q, K)
<1>1. t \in Seq(Orders) /\ Len(t) <= Len(q)
  BY KeptMembers
<1>2. /\ \A j \in 1 .. Len(t) : \E a \in 1 .. Len(q) : t[j] = q[a] /\ q[a] \in K
      /\ \A a \in 1 .. Len(q) : q[a] \in K => \E j \in 1 .. Len(t) : t[j] = q[a]
      /\ \A i, j \in 1 .. Len(t) : i # j =>
              \E a, b \in 1 .. Len(q) : a # b /\ t[i] = q[a] /\ t[j] = q[b]
  BY KeptMembers, KeptPlaces
<1> HIDE DEF t
<1>3. ToSet(t) = {t[k] : k \in 1 .. Len(t)} /\ ToSet(q) = {q[k] : k \in 1 .. Len(q)}
  BY <1>1, IdsOfSet
<1>4. ToSet(t) = ToSet(q) \cap K
  <2>1. ASSUME NEW o \in ToSet(t) PROVE o \in ToSet(q) \cap K
    <3>1. PICK j \in 1 .. Len(t) : o = t[j]
      BY <1>3
    <3>2. PICK a \in 1 .. Len(q) : t[j] = q[a] /\ q[a] \in K
      BY <1>2
    <3> QED BY <1>3, <3>1, <3>2
  <2>2. ASSUME NEW o \in ToSet(q) \cap K PROVE o \in ToSet(t)
    <3>1. PICK a \in 1 .. Len(q) : o = q[a]
      BY <1>3
    <3>2. PICK j \in 1 .. Len(t) : t[j] = q[a]
      BY <1>2, <3>1
    <3> QED BY <1>3, <3>1, <3>2
  <2> QED BY <2>1, <2>2
<1>5. IdsOf(t) = {o.id : o \in ToSet(q) \cap K}
  BY <1>1, <1>4, IdsOfSet
<1>6. ASSUME Uniq(q) PROVE Uniq(t)
  <2> SUFFICES ASSUME NEW i \in 1 .. Len(t), NEW j \in 1 .. Len(t), i # j PROVE t[i].id # t[j].id
    BY DEF Uniq
  <2>1. PICK a, b \in 1 .. Len(q) : a # b /\ t[i] = q[a] /\ t[j] = q[b]
    BY <1>2
  <2> QED BY <1>6, <2>1 DEF Uniq
<1> QED BY <1>1, <1>4, <1>5, <1>6 DEF t

(* Ids taken out of a list. *)
LEMMA WithoutOrders ==
    ASSUME NEW q \in Seq(Orders), NEW ids
    PROVE  /\ Without(q, ids) \in Seq(Orders) /\ Len(Without(q, ids)) <= Len(q)
           /\ ToSet(Without(q, ids)) = {o \in ToSet(q) : o.id \notin ids}
           /\ IdsOf(Without(q, ids)) = IdsOf(q) \ ids
           /\ Uniq(q) => Uniq(Without(q, ids))
<1> DEFINE K == {o \in ToSet(q) : o.id \notin ids}
<1>1. ToSet(q) \cap K = K
  OBVIOUS
<1>2. IdsOf(q) = {o.id : o \in ToSet(q)}
  BY IdsOfSet
<1>3. {o.id : o \in K} = IdsOf(q) \ ids
  BY <1>2
<1>4. Without(q, ids) = Kept(q, K)
  BY DEF Without
<1> HIDE DEF K
<1> QED BY <1>1, <1>3, <1>4, KeptOrders DEF K

(* In a list without double ids an id names one order. *)
LEMMA UniqMembers ==
    ASSUME NEW q \in Seq(Orders), Uniq(q)
    PROVE  \A o, p \in ToSet(q) : o.id = p.id => o = p
BY IdsOfSet DEF Uniq

(* Two lists one after the other. *)
LEMMA JoinedOrders ==
    ASSUME NEW q \in Seq(Orders), NEW s \in Seq(Orders)
    PROVE  /\ ToSet(q \o s) = ToSet(q) \cup ToSet(s)
           /\ IdsOf(q \o s) = IdsOf(q) \cup IdsOf(s)
           /\ Uniq(q) /\ Uniq(s) /\ IdsOf(q) \cap IdsOf(s) = {} => Uniq(q \o s)
<1> DEFINE l == q \o s
<1>1. /\ l \in Seq(Orders) /\ Len(q) \in Nat /\ Len(s) \in Nat /\ Len(l) = Len(q) + Len(s)
      /\ DOMAIN l = 1 .. Len(l) /\ DOMAIN q = 1 .. Len(q) /\ DOMAIN s = 1 .. Len(s)
      /\ \A k \in 1 .. Len(l) : l[k] = IF k <= Len(q) THEN q[k] ELSE s[k - Len(q)]
  OBVIOUS
<1> HIDE DEF l
<1>2. \A k \in 1 .. Len(q) : k \in 1 .. Len(l) /\ l[k] = q[k]
  BY <1>1
<1>3. \A k \in 1 .. Len(s) : k + Len(q) \in 1 .. Len(l) /\ l[k + Len(q)] = s[k]
  BY <1>1
<1>4. \A k \in 1 .. Len(l) : \/ k \in 1 .. Len(q) /\ l[k] = q[k]
                             \/ k - Len(q) \in 1 .. Len(s) /\ l[k] = s[k - Len(q)]
  BY <1>1
<1>5. /\ ToSet(l) = {l[k] : k \in 1 .. Len(l)} /\ ToSet(q) = {q[k] : k \in 1 .. Len(q)}
      /\ ToSet(s) = {s[k] : k \in 1 .. Len(s)}
  BY <1>1, IdsOfSet
<1>6. ToSet(l) = ToSet(q) \cup ToSet(s)
  <2>1. ASSUME NEW o \in ToSet(l) PROVE o \in ToSet(q) \cup ToSet(s)
    <3>1. PICK k \in 1 .. Len(l) : o = l[k]
      BY <1>5
    <3> QED BY <1>4, <1>5, <3>1
  <2>2. ASSUME NEW o \in ToSet(q) PROVE o \in ToSet(l)
    BY <1>2, <1>5
  <2>3. ASSUME NEW o \in ToSet(s) PROVE o \in ToSet(l)
    BY <1>3, <1>5
  <2> QED BY <2>1, <2>2, <2>3
<1>7. /\ IdsOf(l) = {o.id : o \in ToSet(l)} /\ IdsOf(q) = {o.id : o \in ToSet(q)}
      /\ IdsOf(s) = {o.id : o \in ToSet(s)}
  BY <1>1, IdsOfSet
<1>8. IdsOf(l) = IdsOf(q) \cup IdsOf(s)
  BY <1>6, <1>7
<1>9. ASSUME Uniq(q), Uniq(s), IdsOf(q) \cap IdsOf(s) = {},
             NEW i \in 1 .. Len(l), NEW j \in 1 .. Len(l), l[i].id = l[j].id
      PROVE  i = j
  <2>1. \A k \in 1 .. Len(q) : q[k].id \in IdsOf(q)
    BY <1>5, <1>7
  <2>2. \A k \in 1 .. Len(s) : s[k].id \in IdsOf(s)
    BY <1>5, <1>7
  <2>3. CASE i \in 1 .. Len(q) /\ l[i] = q[i] /\ j \in 1 .. Len(q) /\ l[j] = q[j]
    BY <1>9, <2>3 DEF Uniq
  <2>4. CASE i - Len(q) \in 1 .. Len(s) /\ l[i] = s[i - Len(q)] /\ j - Len(q) \in 1 .. Len(s) /\ l[j] = s[j - Len(q)]
    <3>1. i - Len(q) = j - Len(q)
      BY <1>9, <2>4 DEF Uniq
    <3> QED BY <1>1, <3>1
  <2>5. CASE i \in 1 .. Len(q) /\ l[i] = q[i] /\ j - Len(q) \in 1 .. Len(s) /\ l[j] = s[j - Len(q)]
    BY <1>9, <2>1, <2>2, <2>5
  <2>6. CASE i - Len(q) \in 1 .. Len(s) /\ l[i] = s[i - Len(q)] /\ j \in 1 .. Len(q) /\ l[j] = q[j]
    BY <1>9, <2>1, <2>2, <2>6
  <2> QED BY <1>4, <2>3, <2>4, <2>5, <2>6
<1>10. Uniq(q) /\ Uniq(s) /\ IdsOf(q) \cap IdsOf(s) = {} => Uniq(l)
  BY <1>9 DEF Uniq
<1> QED BY <1>6, <1>8, <1>10 DEF l

(* A selection and the rest have no id in common, and all ids together. *)
LEMMA KeptSplits ==
    ASSUME NEW q \in Seq(Orders), Uniq(q), NEW K \in SUBSET ToSet(q)
    PROVE  /\ IdsOf(Kept(q, K)) \cap IdsOf(Kept(q, ToSet(q) \ K)) = {}
           /\ IdsOf(Kept(q, K)) \cup IdsOf(Kept(q, ToSet(q) \ K)) = IdsOf(q)
<1>1. IdsOf(q) = {o.id : o \in ToSet(q)}
  BY IdsOfSet
<1>2. IdsOf(Kept(q, K)) = {o.id : o \in K}
  <2>1. ToSet(q) \cap K = K
    OBVIOUS
  <2> QED BY <2>1, KeptOrders
<1>3. IdsOf(Kept(q, ToSet(q) \ K)) = {o.id : o \in ToSet(q) \ K}
  <2>1. ToSet(q) \cap (ToSet(q) \ K) = ToSet(q) \ K
    OBVIOUS
  <2> QED BY <2>1, KeptOrders
<1>4. \A o, p \in ToSet(q) : o.id = p.id => o = p
  BY UniqMembers
<1> QED BY <1>1, <1>2, <1>3, <1>4

-----------------------------------------------------------------------------
(* The calls between bars. *)

(* Setting statuses touches nothing else. *)
LEMMA SetStatusBook ==
    ASSUME NEW b \in Books, NEW ids, NEW s \in Statuses
    PROVE  /\ SetStatus(b, ids, s) \in Books
           /\ SetStatus(b, ids, s).pos = b.pos
           /\ SetStatus(b, ids, s).queue = b.queue
           /\ SetStatus(b, ids, s).stops = b.stops
           /\ SetStatus(b, ids, s).tp = b.tp
           /\ SetStatus(b, ids, s).tpSide = b.tpSide
           /\ SetStatus(b, ids, s).liq = b.liq
           /\ SetStatus(b, ids, s).lastClose = b.lastClose
           /\ \A i \in Ids : SetStatus(b, ids, s).status[i] = IF i \in ids THEN s ELSE b.status[i]
BY DEF SetStatus, Books

(* Orders whose status leaves NEW leave their list. *)
LEMMA Dropped ==
    ASSUME NEW b, NEW X, Sound(b, X), NEW c \in Books, NEW ids,
           c.queue = Without(b.queue, ids) \/ (c.queue = b.queue /\ ids \cap IdsOf(b.queue) = {}),
           c.stops = Without(b.stops, ids),
           \A i \in Ids : (c.status[i] = "NEW") = (b.status[i] = "NEW" /\ i \notin ids)
    PROVE  Sound(c, X \ ids)
<1>1. b \in Books /\ b.queue \in Seq(Orders) /\ b.stops \in Seq(Orders)
  BY DEF Sound, Books
<1>2. Uniq(c.stops) /\ IdsOf(c.stops) = IdsOf(b.stops) \ ids
  BY <1>1, WithoutOrders DEF Sound
<1>3. Uniq(c.queue) /\ IdsOf(c.queue) = IdsOf(b.queue) \ ids
  BY <1>1, WithoutOrders DEF Sound
<1>4. {i \in Ids : c.status[i] = "NEW"} = {i \in Ids : b.status[i] = "NEW"} \ ids
  OBVIOUS
<1> QED BY <1>2, <1>3, <1>4 DEF Sound

LEMMA DropStopsSound ==
    ASSUME NEW b, NEW X, Sound(b, X), NEW gone \in SUBSET ToSet(b.stops)
    PROVE  /\ Sound(DropStops(b, gone), X)
           /\ DropStops(b, gone).pos = b.pos
           /\ DropStops(b, gone).queue = b.queue
           /\ DropStops(b, gone).stops = Without(b.stops, {o.id : o \in gone})
           /\ DropStops(b, gone).tp = b.tp
           /\ DropStops(b, gone).tpSide = b.tpSide
           /\ DropStops(b, gone).liq = b.liq
           /\ DropStops(b, gone).lastClose = b.lastClose
           /\ ToSet(DropStops(b, gone).stops) = ToSet(b.stops) \ gone
<1> DEFINE ids == {o.id : o \in gone}
           c == DropStops(b, gone)
           d == SetStatus(b, ids, "CANCELED")
<1>1. b \in Books /\ b.stops \in Seq(Orders)
  BY DEF Sound, Books
<1>2. /\ d \in Books /\ d.pos = b.pos /\ d.queue = b.queue /\ d.stops = b.stops /\ d.tp = b.tp
      /\ d.tpSide = b.tpSide /\ d.liq = b.liq /\ d.lastClose = b.lastClose
      /\ \A i \in Ids : d.status[i] = IF i \in ids THEN "CANCELED" ELSE b.status[i]
  BY <1>1, SetStatusBook DEF Statuses
<1>3. c = [d EXCEPT !.stops = Without(@, ids)]
  BY DEF DropStops
<1> HIDE DEF d, c, ids
<1>4. Without(b.stops, ids) \in Seq(Orders)
  BY <1>1, WithoutOrders
<1>5. /\ c \in Books /\ c.pos = b.pos /\ c.queue = b.queue /\ c.stops = Without(b.stops, ids)
      /\ c.tp = b.tp /\ c.tpSide = b.tpSide /\ c.liq = b.liq /\ c.lastClose = b.lastClose
      /\ \A i \in Ids : c.status[i] = IF i \in ids THEN "CANCELED" ELSE b.status[i]
  BY <1>2, <1>3, <1>4 DEF Books
<1>6. ids \subseteq IdsOf(b.stops)
  BY <1>1, IdsOfSet DEF ids
<1>7. ids \cap IdsOf(b.queue) = {} /\ X \ ids = X
  BY <1>6 DEF Sound
<1>8. Sound(c, X \ ids)
  BY <1>5, <1>7, Dropped
<1>9. ToSet(c.stops) = ToSet(b.stops) \ gone
  <2>1. \A o, p \in ToSet(b.stops) : o.id = p.id => o = p
    BY <1>1, UniqMembers DEF Sound
  <2>2. ToSet(c.stops) = {o \in ToSet(b.stops) : o.id \notin ids}
    BY <1>1, <1>5, WithoutOrders
  <2> QED BY <2>1, <2>2 DEF ids
<1> QED BY <1>5, <1>7, <1>8, <1>9 DEF c, ids

(* Between bars no order is out of its list. *)
LEMMA CancelSound ==
    ASSUME NEW b, Sound(b, {}), NEW ids
    PROVE  Sound(cancel(b, ids), {}) /\ cancel(b, ids).pos = b.pos /\ cancel(b, ids).liq = b.liq
<1> DEFINE live == {i \in ids : b.status[i] = "NEW"}
           d == SetStatus(b, live, "CANCELED")
           c == cancel(b, ids)
<1>1. b \in Books /\ b.queue \in Seq(Orders) /\ b.stops \in Seq(Orders)
  BY DEF Sound, Books
<1>2. /\ d \in Books /\ d.pos = b.pos /\ d.queue = b.queue /\ d.stops = b.stops
      /\ d.liq = b.liq
      /\ \A i \in Ids : d.status[i] = IF i \in live THEN "CANCELED" ELSE b.status[i]
  BY <1>1, SetStatusBook DEF Statuses
<1>3. c = [d EXCEPT !.queue = Without(@, live), !.stops = Without(@, live)]
  BY DEF cancel
<1> HIDE DEF d, c, live
<1>4. Without(b.stops, live) \in Seq(Orders) /\ Without(b.queue, live) \in Seq(Orders)
  BY <1>1, WithoutOrders
<1>5. /\ c \in Books /\ c.pos = b.pos /\ c.queue = Without(b.queue, live)
      /\ c.stops = Without(b.stops, live) /\ c.liq = b.liq
      /\ \A i \in Ids : c.status[i] = IF i \in live THEN "CANCELED" ELSE b.status[i]
  BY <1>2, <1>3, <1>4 DEF Books
<1>6. Sound(c, {} \ live)
  BY <1>5, Dropped
<1>7. {} \ live = {}
  OBVIOUS
<1> QED BY <1>5, <1>6, <1>7 DEF c

(* What a cancellation takes out of the lists. *)
LEMMA CancelTakes ==
    ASSUME NEW b, Sound(b, {}), NEW ids
    PROVE  /\ ToSet(cancel(b, ids).queue) = {o \in ToSet(b.queue) : o.id \notin ids}
           /\ ToSet(cancel(b, ids).stops) = {o \in ToSet(b.stops) : o.id \notin ids}
           /\ \A i \in Ids : cancel(b, ids).status[i] = "NEW" => b.status[i] = "NEW"
           /\ cancel(b, ids).lastClose = b.lastClose
<1> DEFINE live == {i \in ids : b.status[i] = "NEW"}
           d == SetStatus(b, live, "CANCELED")
           c == cancel(b, ids)
<1>1. b \in Books /\ b.queue \in Seq(Orders) /\ b.stops \in Seq(Orders)
  BY DEF Sound, Books
<1>2. /\ d \in Books /\ d.queue = b.queue /\ d.stops = b.stops /\ d.lastClose = b.lastClose
      /\ \A i \in Ids : d.status[i] = IF i \in live THEN "CANCELED" ELSE b.status[i]
  BY <1>1, SetStatusBook DEF Statuses
<1>3. c = [d EXCEPT !.queue = Without(@, live), !.stops = Without(@, live)]
  BY DEF cancel
<1>4. \A o \in ToSet(b.queue) \cup ToSet(b.stops) : o.id \in live <=> o.id \in ids
  <2>1. \A o \in ToSet(b.queue) \cup ToSet(b.stops) : b.status[o.id] = "NEW"
    BY <1>1, IdsOfSet DEF Sound
  <2> QED BY <2>1
<1> HIDE DEF d, c, live
<1>5. /\ c.queue = Without(b.queue, live) /\ c.stops = Without(b.stops, live) /\ c.lastClose = b.lastClose
      /\ c.status = d.status
  BY <1>2, <1>3 DEF Books
<1>6. /\ ToSet(c.queue) = {o \in ToSet(b.queue) : o.id \notin live}
      /\ ToSet(c.stops) = {o \in ToSet(b.stops) : o.id \notin live}
  BY <1>1, <1>5, WithoutOrders
<1>7. \A i \in Ids : c.status[i] = "NEW" => b.status[i] = "NEW"
  BY <1>2, <1>5
<1> QED BY <1>4, <1>5, <1>6, <1>7 DEF c

LEMMA CancelAllSound ==
    ASSUME NEW b, Sound(b, {})
    PROVE  Sound(cancel_all(b), {}) /\ cancel_all(b).pos = b.pos /\ cancel_all(b).liq = b.liq
<1> DEFINE ids == IdsOf(b.queue) \cup IdsOf(b.stops)
           d == SetStatus(b, ids, "CANCELED")
           c == cancel_all(b)
<1>1. b \in Books
  BY DEF Sound, Books
<1>2. /\ d \in Books /\ d.pos = b.pos /\ d.liq = b.liq
      /\ \A i \in Ids : d.status[i] = IF i \in ids THEN "CANCELED" ELSE b.status[i]
  BY <1>1, SetStatusBook DEF Statuses
<1>3. c = [d EXCEPT !.queue = <<>>, !.stops = <<>>, !.tp = 0, !.tpSide = 0]
  BY DEF cancel_all
<1> HIDE DEF d, c
<1>4. /\ c \in Books /\ c.pos = b.pos /\ c.queue = <<>> /\ c.stops = <<>> /\ c.liq = b.liq
      /\ \A i \in Ids : c.status[i] = IF i \in ids THEN "CANCELED" ELSE b.status[i]
  <2>1. <<>> \in Seq(Orders) /\ 0 \in Nat /\ 0 \in -1..1
    OBVIOUS
  <2> QED BY <1>2, <1>3, <2>1 DEF Books
<1>5. IdsOf(<<>>) = {} /\ Uniq(<<>>)
  BY DEF IdsOf, Uniq
<1>6. {i \in Ids : c.status[i] = "NEW"} = {}
  BY <1>4 DEF Sound
<1> QED BY <1>4, <1>5, <1>6 DEF Sound, c

LEMMA SubmitSound ==
    ASSUME NEW b, Sound(b, {}), NEW o \in Orders, o.id \in Ids
    PROVE  Sound(submit(b, o), {}) /\ submit(b, o).pos = b.pos /\ submit(b, o).liq = b.liq
<1> DEFINE d == SetStatus(b, {o.id}, "NEW")
           e == SetStatus(b, {o.id}, "REJECTED")
           c == submit(b, o)
<1>1. b \in Books /\ b.queue \in Seq(Orders) /\ b.stops \in Seq(Orders)
  BY DEF Sound, Books
<1>2. /\ d \in Books /\ d.pos = b.pos /\ d.queue = b.queue /\ d.stops = b.stops /\ d.liq = b.liq
      /\ \A i \in Ids : d.status[i] = IF i = o.id THEN "NEW" ELSE b.status[i]
  BY <1>1, SetStatusBook DEF Statuses
<1>3. /\ e \in Books /\ e.pos = b.pos /\ e.queue = b.queue /\ e.stops = b.stops /\ e.liq = b.liq
      /\ \A i \in Ids : e.status[i] = IF i = o.id THEN "REJECTED" ELSE b.status[i]
  BY <1>1, SetStatusBook DEF Statuses
<1>4. CASE b.status[o.id] # "NONE"
  BY <1>4 DEF submit
<1>5. CASE b.status[o.id] = "NONE" /\ c = e
  <2>1. {i \in Ids : e.status[i] = "NEW"} = {i \in Ids : b.status[i] = "NEW"}
    BY <1>3, <1>5
  <2> HIDE DEF c, e
  <2>2. Sound(e, {})
    BY <1>3, <2>1 DEF Sound
  <2> QED BY <1>3, <1>5, <2>2 DEF c
<1>6. CASE b.status[o.id] = "NONE"
           /\ (c = [d EXCEPT !.queue = Append(@, o)] \/ c = [d EXCEPT !.stops = Append(@, o)])
  <2> HIDE DEF c, d
  <2>1. {i \in Ids : d.status[i] = "NEW"} = {i \in Ids : b.status[i] = "NEW"} \cup {o.id}
    BY <1>2
  <2>2. o.id \notin IdsOf(b.queue) \cup IdsOf(b.stops)
    BY <1>6 DEF Sound
  <2>3. ASSUME NEW q \in Seq(Orders), Uniq(q), o.id \notin IdsOf(q)
        PROVE  /\ Append(q, o) \in Seq(Orders) /\ Uniq(Append(q, o))
               /\ IdsOf(Append(q, o)) = IdsOf(q) \cup {o.id}
    <3> DEFINE t == Append(q, o)
    <3>1. /\ t \in Seq(Orders) /\ Len(t) = Len(q) + 1 /\ t[Len(q) + 1] = o /\ Len(q) \in Nat
          /\ \A k \in 1 .. Len(q) : t[k] = q[k]
      BY <2>3
    <3>2. IdsOf(q) = {q[k].id : k \in 1 .. Len(q)} /\ IdsOf(t) = {t[k].id : k \in 1 .. Len(t)}
      BY <2>3, <3>1 DEF IdsOf
    <3> HIDE DEF t
    <3>3. \A k \in 1 .. Len(t) : k = Len(q) + 1 \/ k \in 1 .. Len(q)
      BY <3>1
    <3>4. Len(q) + 1 \in 1 .. Len(t) /\ \A k \in 1 .. Len(q) : k \in 1 .. Len(t)
      BY <3>1
    <3>5. Uniq(t)
      BY <2>3, <3>1, <3>2, <3>3 DEF Uniq
    <3>6. IdsOf(t) = IdsOf(q) \cup {o.id}
      <4>1. ASSUME NEW i \in IdsOf(t) PROVE i \in IdsOf(q) \cup {o.id}
        BY <3>1, <3>2, <3>3
      <4>2. ASSUME NEW i \in IdsOf(q) \cup {o.id} PROVE i \in IdsOf(t)
        <5>1. CASE i = o.id
          BY <3>1, <3>2, <3>4, <5>1
        <5>2. CASE i \in IdsOf(q)
          BY <3>1, <3>2, <3>4, <5>2
        <5> QED BY <5>1, <5>2
      <4> QED BY <4>1, <4>2
    <3> QED BY <3>1, <3>5, <3>6 DEF t
  <2>4. CASE c = [d EXCEPT !.queue = Append(@, o)]
    <3>1. /\ Append(b.queue, o) \in Seq(Orders) /\ Uniq(Append(b.queue, o))
          /\ IdsOf(Append(b.queue, o)) = IdsOf(b.queue) \cup {o.id}
      BY <1>1, <2>2, <2>3 DEF Sound
    <3>2. /\ c \in Books /\ c.pos = b.pos /\ c.liq = b.liq /\ c.queue = Append(b.queue, o)
          /\ c.stops = b.stops /\ c.status = d.status
      BY <1>2, <2>4, <3>1 DEF Books
    <3>3. Sound(c, {})
      BY <2>1, <2>2, <3>1, <3>2 DEF Sound
    <3> QED BY <3>2, <3>3 DEF c
  <2>5. CASE c = [d EXCEPT !.stops = Append(@, o)]
    <3>1. /\ Append(b.stops, o) \in Seq(Orders) /\ Uniq(Append(b.stops, o))
          /\ IdsOf(Append(b.stops, o)) = IdsOf(b.stops) \cup {o.id}
      BY <1>1, <2>2, <2>3 DEF Sound
    <3>2. /\ c \in Books /\ c.pos = b.pos /\ c.liq = b.liq /\ c.stops = Append(b.stops, o)
          /\ c.queue = b.queue /\ c.status = d.status
      BY <1>2, <2>5, <3>1 DEF Books
    <3>3. Sound(c, {})
      BY <2>1, <2>2, <3>1, <3>2 DEF Sound
    <3> QED BY <3>2, <3>3 DEF c
  <2> QED BY <1>6, <2>4, <2>5
<1> QED BY <1>4, <1>5, <1>6 DEF submit

-----------------------------------------------------------------------------
(* Execution. *)

LEMMA SignFacts ==
    ASSUME NEW x \in Int
    PROVE  /\ sign(x) \in {-1, 0, 1} /\ abs(x) \in Nat
           /\ (sign(x) = 1 <=> x > 0) /\ (sign(x) = -1 <=> x < 0) /\ (sign(x) = 0 <=> x = 0)
           /\ (x >= 0 => abs(x) = x) /\ (x <= 0 => abs(x) = -x)
BY DEF sign, abs

(* What a reduce-only order may execute reduces the position. *)
LEMMA QtyReduces ==
    ASSUME NEW b \in Books, NEW o \in Orders
    PROVE  /\ ExecutableQty(b, o) \in Nat /\ ExecutableQty(b, o) <= o.qty
           /\ b.pos + o.side * ExecutableQty(b, o) \in Int
           /\ ~o.ro => ExecutableQty(b, o) = o.qty
           /\ o.ro /\ ExecutableQty(b, o) > 0 =>
                 /\ sign(b.pos) = -o.side /\ ExecutableQty(b, o) <= abs(b.pos)
                 /\ abs(b.pos + o.side * ExecutableQty(b, o)) = abs(b.pos) - ExecutableQty(b, o)
                 /\ sign(b.pos + o.side * ExecutableQty(b, o)) \in {0, sign(b.pos)}
           /\ o.ro /\ sign(b.pos) = -o.side /\ o.qty >= abs(b.pos) =>
                 /\ ExecutableQty(b, o) = abs(b.pos)
                 /\ b.pos + o.side * ExecutableQty(b, o) = 0
           /\ o.ro /\ sign(b.pos) # -o.side => ExecutableQty(b, o) = 0
<1> DEFINE q == ExecutableQty(b, o)
<1>1. b.pos \in Int /\ o.qty \in Nat /\ o.ro \in BOOLEAN /\ (o.side = 1 \/ o.side = -1)
  BY DEF Books, Orders
<1>2. sign(b.pos) = IF b.pos > 0 THEN 1 ELSE IF b.pos < 0 THEN -1 ELSE 0
  BY DEF sign
<1>3. abs(b.pos) = IF b.pos < 0 THEN -b.pos ELSE b.pos
  BY DEF abs
<1>4. q = IF ~o.ro THEN o.qty
          ELSE IF sign(b.pos) # -o.side THEN 0
          ELSE IF o.qty < abs(b.pos) THEN o.qty ELSE abs(b.pos)
  BY DEF ExecutableQty
<1> HIDE DEF q
<1>5. q \in Nat /\ q <= o.qty
  BY <1>1, <1>2, <1>3, <1>4
<1>6. CASE o.side = 1
  <2>1. o.side * q = q
    BY <1>5, <1>6
  <2> QED BY <1>1, <1>2, <1>3, <1>4, <1>5, <1>6, <2>1 DEF q, sign, abs
<1>7. CASE o.side = -1
  <2>1. o.side * q = -q
    BY <1>5, <1>7
  <2> QED BY <1>1, <1>2, <1>3, <1>4, <1>5, <1>7, <2>1 DEF q, sign, abs
<1> QED BY <1>1, <1>6, <1>7

(* The protective stops, the take-profit and the liquidation level of a     *)
(* position that closed are gone, and nothing else.                        *)
ClosedFrom(b, X, old, c) ==
    /\ Sound(c, X) /\ c.pos = b.pos /\ c.queue = b.queue /\ c.lastClose = b.lastClose /\ c.liq = 0
    /\ ToSet(c.stops) = ToSet(b.stops) \ Protecting(b, sign(old))
    /\ IF b.tpSide # 0 /\ b.tpSide # sign(old)
       THEN c.tp = b.tp /\ c.tpSide = b.tpSide
       ELSE c.tp = 0 /\ c.tpSide = 0

LEMMA ClosedBook ==
    ASSUME NEW b, NEW X, Sound(b, X), NEW old \in Int
    PROVE  ClosedFrom(b, X, old, OnPositionClosed(b, old))
<1> DEFINE gone == Protecting(b, sign(old))
           d == DropStops(b, gone)
           keepTp == b.tpSide # 0 /\ b.tpSide # sign(old)
           c == OnPositionClosed(b, old)
<1>1. gone \in SUBSET ToSet(b.stops)
  BY DEF Protecting
<1> HIDE DEF gone
<1>2. /\ Sound(d, X) /\ d.pos = b.pos /\ d.queue = b.queue /\ d.tp = b.tp /\ d.tpSide = b.tpSide
      /\ d.lastClose = b.lastClose /\ ToSet(d.stops) = ToSet(b.stops) \ gone
  BY <1>1, DropStopsSound
<1>3. c = [d EXCEPT !.tp     = IF keepTp THEN @ ELSE 0,
                    !.tpSide = IF keepTp THEN @ ELSE 0,
                    !.liq    = 0]
  BY DEF OnPositionClosed, gone
<1> HIDE DEF d, c
<1>4. d \in Books /\ 0 \in Nat /\ 0 \in -1..1
  BY <1>2 DEF Sound
<1>5. /\ c \in Books /\ c.pos = d.pos /\ c.queue = d.queue /\ c.stops = d.stops
      /\ c.lastClose = d.lastClose /\ c.liq = 0 /\ c.status = d.status
      /\ IF keepTp THEN c.tp = d.tp /\ c.tpSide = d.tpSide ELSE c.tp = 0 /\ c.tpSide = 0
  BY <1>3, <1>4 DEF Books
<1>6. Sound(c, X)
  BY <1>2, <1>5 DEF Sound
<1> QED BY <1>2, <1>5, <1>6 DEF c, gone, ClosedFrom

(* The position an order leaves, whether that closes the old one, and its fill. *)
After(b, o) == b.pos + o.side * ExecutableQty(b, o)

Closes(b, o) == b.pos # 0 /\ sign(After(b, o)) # sign(b.pos)

FillMade(b, o, price, reason) ==
    [id |-> o.id, side |-> o.side, qty |-> ExecutableQty(b, o), price |-> price,
     ro |-> o.ro, before |-> b.pos, reason |-> reason]

(* What an execution does to the book and the fills. *)
ExecutionOf(r, X, o, price, reason, c) ==
    /\ c \in Runs /\ Sound(c.b, X \ {o.id})
    /\ c.b.queue = r.b.queue /\ c.b.lastClose = r.b.lastClose
    /\ c.b.pos = After(r.b, o)
    /\ c.fills = IF ExecutableQty(r.b, o) = 0 THEN r.fills
                 ELSE Append(r.fills, FillMade(r.b, o, price, reason))
    /\ IF Closes(r.b, o)
       THEN /\ c.b.liq = 0
            /\ ToSet(c.b.stops) = ToSet(r.b.stops) \ Protecting(r.b, sign(r.b.pos))
            /\ IF r.b.tpSide # 0 /\ r.b.tpSide # sign(r.b.pos)
               THEN c.b.tp = r.b.tp /\ c.b.tpSide = r.b.tpSide
               ELSE c.b.tp = 0 /\ c.b.tpSide = 0
       ELSE /\ c.b.liq = r.b.liq /\ c.b.stops = r.b.stops
            /\ c.b.tp = r.b.tp /\ c.b.tpSide = r.b.tpSide

LEMMA ExecuteBook ==
    ASSUME NEW r \in Runs, NEW X, Sound(r.b, X), NEW o \in Orders, o.id \in X \cup {NoId},
           NEW price \in Int, NEW reason \in Reasons
    PROVE  ExecutionOf(r, X, o, price, reason, Execute(r, o, price, reason))
<1> DEFINE b == r.b
           qty == ExecutableQty(b, o)
           st == IF qty <= 0 THEN "CANCELED" ELSE "FILLED"
           d == SetStatus(b, {o.id}, st)
           e == [d EXCEPT !.pos = After(b, o)]
           c == Execute(r, o, price, reason)
<1>1. b \in Books /\ r = [b |-> b, fills |-> r.fills] /\ r.fills \in Seq(Fills)
  BY DEF Runs
<1>2. /\ qty \in Nat /\ After(b, o) \in Int /\ (qty = 0 => After(b, o) = b.pos)
      /\ o.side \in {-1, 1} /\ o.ro \in BOOLEAN /\ o.id \in Nat
  <2>1. b.pos \in Int /\ o.side \in {-1, 1} /\ o.ro \in BOOLEAN /\ o.id \in Nat
    BY <1>1 DEF Books, Orders
  <2>2. qty \in Nat /\ b.pos + o.side * qty \in Int
    BY <1>1, QtyReduces
  <2> QED BY <2>1, <2>2 DEF After
<1> HIDE DEF qty
<1>3. /\ d \in Books /\ d.pos = b.pos /\ d.queue = b.queue /\ d.stops = b.stops /\ d.tp = b.tp
      /\ d.tpSide = b.tpSide /\ d.liq = b.liq /\ d.lastClose = b.lastClose
      /\ \A i \in Ids : d.status[i] = IF i = o.id THEN st ELSE b.status[i]
  <2>1. st \in Statuses
    BY DEF Statuses
  <2> QED BY <1>1, <2>1, SetStatusBook
<1>4. /\ e \in Books /\ e.pos = After(b, o) /\ e.queue = b.queue /\ e.stops = b.stops /\ e.tp = b.tp
      /\ e.tpSide = b.tpSide /\ e.liq = b.liq /\ e.lastClose = b.lastClose /\ e.status = d.status
  <2> HIDE DEF d
  <2> QED BY <1>2, <1>3 DEF Books
<1>5. Sound(e, X \ {o.id}) /\ Sound(d, X \ {o.id})
  <2>1. {i \in Ids : d.status[i] = "NEW"} = {i \in Ids : b.status[i] = "NEW"} \ {o.id}
    BY <1>3
  <2>2. o.id \notin IdsOf(b.queue) \cup IdsOf(b.stops)
    BY BookAssumption DEF Sound, NoId
  <2> HIDE DEF d, e
  <2> QED BY <1>3, <1>4, <2>1, <2>2 DEF Sound
<1> HIDE DEF d, e, st
<1>6. CASE qty = 0
  <2>1. c = [b |-> d, fills |-> r.fills]
    <3>1. c = [r EXCEPT !.b = SetStatus(b, {o.id}, "CANCELED")]
      BY <1>2, <1>6 DEF Execute, qty
    <3>2. d = SetStatus(b, {o.id}, "CANCELED")
      BY <1>2, <1>6 DEF d, st
    <3> QED BY <1>1, <3>1, <3>2
  <2>2. ~Closes(b, o)
    BY <1>2, <1>6 DEF Closes
  <2> HIDE DEF c
  <2>3. c \in Runs
    BY <1>1, <1>3, <2>1 DEF Runs
  <2> QED BY <1>2, <1>3, <1>5, <1>6, <2>1, <2>2, <2>3 DEF c, qty, ExecutionOf
<1>7. CASE qty # 0
  <2> DEFINE f == FillMade(b, o, price, reason)
             g == IF Closes(b, o) THEN OnPositionClosed(e, b.pos) ELSE e
  <2>1. c = [b |-> g, fills |-> Append(r.fills, f)]
    <3>1. ~(qty <= 0)
      BY <1>2, <1>7
    <3>2. e = [SetStatus(b, {o.id}, "FILLED") EXCEPT !.pos = b.pos + o.side * qty]
      BY <3>1 DEF e, d, st, After, qty
    <3> QED BY <3>1, <3>2 DEF Execute, qty, Closes, After, FillMade
  <2>2. f \in Fills
    BY <1>1, <1>2 DEF FillMade, Fills, Books, qty
  <2> HIDE DEF f, c
  <2>3. Append(r.fills, f) \in Seq(Fills)
    BY <1>1, <2>2
  <2>4. /\ Sound(g, X \ {o.id}) /\ g.queue = b.queue /\ g.lastClose = b.lastClose /\ g.pos = After(b, o)
        /\ IF Closes(b, o)
           THEN /\ g.liq = 0
                /\ ToSet(g.stops) = ToSet(b.stops) \ Protecting(b, sign(b.pos))
                /\ IF b.tpSide # 0 /\ b.tpSide # sign(b.pos)
                   THEN g.tp = b.tp /\ g.tpSide = b.tpSide
                   ELSE g.tp = 0 /\ g.tpSide = 0
           ELSE g.liq = b.liq /\ g.stops = b.stops /\ g.tp = b.tp /\ g.tpSide = b.tpSide
    <3>1. CASE Closes(b, o)
      <4>1. Protecting(e, sign(b.pos)) = Protecting(b, sign(b.pos))
        BY <1>4 DEF Protecting
      <4>2. b.pos \in Int
        BY <1>1 DEF Books
      <4> DEFINE h == OnPositionClosed(e, b.pos)
      <4>3. /\ Sound(h, X \ {o.id}) /\ h.pos = e.pos /\ h.queue = e.queue /\ h.lastClose = e.lastClose
            /\ h.liq = 0 /\ ToSet(h.stops) = ToSet(e.stops) \ Protecting(e, sign(b.pos))
            /\ IF e.tpSide # 0 /\ e.tpSide # sign(b.pos)
               THEN h.tp = e.tp /\ h.tpSide = e.tpSide
               ELSE h.tp = 0 /\ h.tpSide = 0
        <5>1. ClosedFrom(e, X \ {o.id}, b.pos, h)
          BY <1>5, <4>2, ClosedBook
        <5> HIDE DEF h
        <5> QED BY <5>1 DEF ClosedFrom
      <4>4. g = h
        BY <3>1
      <4> HIDE DEF g, h
      <4> QED BY <1>4, <3>1, <4>1, <4>3, <4>4
    <3>2. CASE ~Closes(b, o)
      BY <1>4, <1>5, <3>2
    <3> QED BY <3>1, <3>2
  <2> HIDE DEF g
  <2>5. c \in Runs
    BY <2>1, <2>3, <2>4 DEF Runs, Sound
  <2> QED BY <1>2, <1>7, <2>1, <2>4, <2>5 DEF c, qty, f, ExecutionOf
<1> QED BY <1>6, <1>7

-----------------------------------------------------------------------------
(* The loops of a bar: what every execution keeps, the whole loop keeps. *)

(* The first element of a set by three keys. *)
IsLeast(S, a, p, i, x) ==
    \A y \in S : \/ a[x] < a[y]
                 \/ a[x] = a[y] /\ (p[x] < p[y] \/ (p[x] = p[y] /\ i[x] <= i[y]))

LEMMA LeastByKeys ==
    ASSUME NEW S, S # {}, NEW a \in [S -> Nat], NEW p \in [S -> Nat], NEW i \in [S -> Nat]
    PROVE  \E x \in S : IsLeast(S, a, p, i, x)
<1>1. ASSUME NEW T \in SUBSET S, T # {}, NEW k \in [S -> Nat]
      PROVE  \E x \in T : \A y \in T : k[x] <= k[y]
  <2> DEFINE K == {k[x] : x \in T}
  <2>1. K \in SUBSET Nat /\ K # {}
    BY <1>1
  <2>2. PICK m \in K : \A n \in K : m <= n
    <3> HIDE DEF K
    <3> QED BY <2>1, LeastNat
  <2> QED BY <2>2
<1>2. PICK x1 \in S : \A y \in S : a[x1] <= a[y]
  BY <1>1
<1> DEFINE T == {y \in S : a[y] = a[x1]}
<1>3. PICK x2 \in T : \A y \in T : p[x2] <= p[y]
  <2>1. T \in SUBSET S /\ T # {}
    OBVIOUS
  <2> HIDE DEF T
  <2> QED BY <1>1, <2>1
<1> DEFINE U == {y \in T : p[y] = p[x2]}
<1>4. PICK x3 \in U : \A y \in U : i[x3] <= i[y]
  <2>1. U \in SUBSET S /\ U # {}
    OBVIOUS
  <2> HIDE DEF U
  <2> QED BY <1>1, <2>1
<1>5. ASSUME NEW y \in S
      PROVE  \/ a[x3] < a[y]
             \/ a[x3] = a[y] /\ (p[x3] < p[y] \/ (p[x3] = p[y] /\ i[x3] <= i[y]))
  <2>1. /\ a[x3] \in Nat /\ a[y] \in Nat /\ p[x3] \in Nat /\ p[y] \in Nat
        /\ a[x3] = a[x1] /\ p[x3] = p[x2]
    OBVIOUS
  <2>2. CASE a[y] # a[x1]
    BY <1>2, <2>1, <2>2
  <2>3. CASE a[y] = a[x1] /\ p[y] # p[x2]
    BY <1>3, <2>1, <2>3
  <2>4. CASE a[y] = a[x1] /\ p[y] = p[x2]
    BY <1>4, <2>1, <2>4
  <2> QED BY <2>2, <2>3, <2>4
<1>6. x3 \in S
  OBVIOUS
<1> QED BY <1>5, <1>6 DEF IsLeast

TriggerSet == [kind : {"STOP", "TP", "LIQ"}, level : Nat, up : BOOLEAN, id : Nat, prio : Nat]

(* Where a trigger comes from. *)
LEMMA TriggerSource ==
    ASSUME NEW b \in Books, NEW tr \in Triggers(b)
    PROVE  /\ tr \in TriggerSet
           /\ tr.kind = "STOP" => \E o \in ToSet(b.stops) :
                 /\ o.wait = 0 /\ o.id = tr.id /\ o.stop = tr.level /\ tr.up = (o.side = 1)
           /\ tr.kind = "TP" => /\ b.pos # 0 /\ b.tp # 0 /\ b.tpSide \in {0, sign(b.pos)}
                                /\ tr.level = b.tp /\ tr.up = (b.pos > 0)
           /\ tr.kind = "LIQ" => b.pos # 0 /\ b.liq # 0
<1> DEFINE live == {o \in ToSet(b.stops) : o.wait = 0}
           hasTp == b.pos # 0 /\ b.tp # 0 /\ b.tpSide \in {0, sign(b.pos)}
           hasLiq == b.pos # 0 /\ b.liq # 0
           st(o) == [kind |-> "STOP", level |-> o.stop, up |-> o.side = 1, id |-> o.id, prio |-> 1]
           tp == [kind |-> "TP", level |-> b.tp, up |-> b.pos > 0, id |-> NoId, prio |-> 2]
           lq == [kind |-> "LIQ", level |-> b.liq, up |-> b.pos < 0, id |-> NoId, prio |-> 0]
<1>1. b.pos \in Int /\ b.tp \in Nat /\ b.liq \in Nat /\ ToSet(b.stops) \subseteq Orders
  BY IdsOfSet DEF Books
<1>2. Triggers(b) = {st(o) : o \in live} \cup (IF hasTp THEN {tp} ELSE {}) \cup (IF hasLiq THEN {lq} ELSE {})
  BY DEF Triggers
<1>3. CASE \E o \in live : tr = st(o)
  <2>1. PICK o \in live : tr = st(o)
    BY <1>3
  <2>2. o \in Orders
    BY <1>1
  <2>3. o.stop \in Nat /\ o.id \in Nat
    BY <2>2 DEF Orders
  <2>4. tr \in TriggerSet /\ tr.kind = "STOP"
    BY <2>1, <2>3 DEF TriggerSet
  <2> QED BY <2>1, <2>4
<1>4. CASE hasTp /\ tr = tp
  <2>1. tr \in TriggerSet
    BY <1>1, <1>4 DEF TriggerSet, NoId
  <2> QED BY <1>4, <2>1
<1>5. CASE hasLiq /\ tr = lq
  <2>1. tr \in TriggerSet
    BY <1>1, <1>5 DEF TriggerSet, NoId
  <2> QED BY <1>5, <2>1
<1> HIDE DEF st, tp, lq, hasTp, hasLiq, live
<1> QED BY <1>2, <1>3, <1>4, <1>5

(* The gap at the open. *)
LEMMA GapStays ==
    ASSUME NEW I, NEW r \in I, NEW o \in Int, \A x \in I : x.b \in Books,
           \A x \in I : \A tr \in Triggers(x.b) :
              (IF tr.up THEN o >= tr.level ELSE o <= tr.level) => Fire(x, tr, o) \in I
    PROVE  GapAtOpen(r, o) \in I
<1> DEFINE n == Rounds(r.b)
           behind(b) == {tr \in Triggers(b) : IF tr.up THEN o >= tr.level ELSE o <= tr.level}
           first(S)  == CHOOSE x \in S : \A y \in S :
                        x.prio < y.prio \/ (x.prio = y.prio /\ x.id <= y.id)
           step(acc) == IF behind(acc.b) = {} THEN acc ELSE Fire(acc, first(behind(acc.b)), o)
           G == [k \in 0 .. n |-> I]
           F == [p \in (1 .. n) \X I |-> step(p[2])]
           run == CHOOSE f : f = [k \in 0 .. n |-> IF k = 0 THEN r ELSE step(f[k - 1])]
<1>0. n \in Nat
  BY DEF Rounds, Books
<1>1. ASSUME NEW x \in I PROVE step(x) \in I
  <2>1. CASE behind(x.b) = {}
    BY <2>1
  <2>2. CASE behind(x.b) # {}
    <3> DEFINE S == behind(x.b)
               a == [y \in S |-> 0]
               p == [y \in S |-> y.prio]
               i == [y \in S |-> y.id]
    <3>1. \A y \in S : y \in Triggers(x.b) /\ y.prio \in Nat /\ y.id \in Nat
      BY TriggerSource DEF TriggerSet
    <3> HIDE DEF S
    <3>2. a \in [S -> Nat] /\ p \in [S -> Nat] /\ i \in [S -> Nat] /\ S # {}
      BY <2>2, <3>1 DEF S
    <3>3. \E u \in S : IsLeast(S, a, p, i, u)
      <4> HIDE DEF a, p, i
      <4> QED BY <3>2, LeastByKeys, Zenon
    <3>4. \E u \in S : \A y \in S : u.prio < y.prio \/ (u.prio = y.prio /\ u.id <= y.id)
      BY <3>3 DEF IsLeast
    <3>5. first(S) \in S
      BY <3>4
    <3> QED BY <2>2, <3>1, <3>5 DEF S
  <2> QED BY <2>1, <2>2
<1> HIDE DEF step, n
<1>2. PICK f : /\ f = [k \in 0 .. n |-> f[k]] /\ f[0] = r
               /\ \A k \in 1 .. n : f[k] = F[<<k, f[k - 1]>>]
               /\ \A k \in 0 .. n : f[k] \in G[k]
  <2>1. StepsWithin(n, F, G) /\ r \in G[0]
    BY <1>0, <1>1 DEF StepsWithin
  <2> HIDE DEF F, G
  <2>2. \E g : IsRecursion(g, n, r, F, G)
    BY <1>0, <2>1, RecursionExists, Zenon
  <2> QED BY <2>2 DEF IsRecursion
<1>3. f = [k \in 0 .. n |-> IF k = 0 THEN r ELSE step(f[k - 1])]
  <2>1. ASSUME NEW k \in 0 .. n PROVE f[k] = IF k = 0 THEN r ELSE step(f[k - 1])
    <3>1. CASE k = 0
      BY <1>0, <1>2, <3>1
    <3>2. CASE k # 0
      <4>1. k \in 1 .. n /\ k - 1 \in 0 .. n
        BY <1>0, <3>2
      <4>2. f[k - 1] \in I /\ f[k] = F[<<k, f[k - 1]>>]
        BY <1>2, <4>1
      <4> QED BY <3>2, <4>1, <4>2
    <3> QED BY <3>1, <3>2
  <2>2. f = [k \in 0 .. n |-> f[k]]
    BY <1>2
  <2> QED BY <2>1, <2>2
<1>4. run = [k \in 0 .. n |-> IF k = 0 THEN r ELSE step(run[k - 1])]
  BY <1>3
<1> HIDE DEF run
<1>5. run[n] \in I
  <2> DEFINE S == {k \in 0 .. n : run[k] \in I}
  <2>1. 0 \in S
    BY <1>0, <1>4
  <2>2. ASSUME NEW k \in 0 .. (n - 1), k \in S PROVE k + 1 \in S
    <3>1. k + 1 \in 0 .. n /\ k + 1 # 0 /\ (k + 1) - 1 = k
      BY <1>0
    <3>2. run[k + 1] = step(run[(k + 1) - 1])
      BY <1>4, <3>1
    <3> QED BY <1>1, <2>2, <3>1, <3>2
  <2> HIDE DEF S
  <2>3. 0 .. n \subseteq S
    BY <1>0, <2>1, <2>2, InductionUpTo
  <2> QED BY <1>0, <2>3 DEF S
<1>6. GapAtOpen(r, o) = run[n]
  BY DEF GapAtOpen, run, n, step
<1> QED BY <1>5, <1>6

(* One piece of the path: the triggers between the price and the end of the piece, *)
(* the first of them, and what a round does.                                       *)
Within(up, to, b, cur) ==
    {tr \in Triggers(b) : /\ tr.up = up
                          /\ IF up THEN cur <= tr.level /\ tr.level <= to
                             ELSE to <= tr.level /\ tr.level <= cur}

Sooner(up, x, y) == IF up THEN x.level < y.level ELSE x.level > y.level

NotLater(up, x, y) ==
    \/ Sooner(up, x, y)
    \/ x.level = y.level /\ (x.prio < y.prio \/ (x.prio = y.prio /\ x.id <= y.id))

FirstHit(up, S) == CHOOSE x \in S : \A y \in S : NotLater(up, x, y)

WalkStep(up, to, acc) ==
    LET S  == Within(up, to, acc.r.b, acc.cur)
        tr == FirstHit(up, S)
    IN  IF to = acc.cur \/ S = {} THEN acc
        ELSE [r |-> Fire(acc.r, tr, tr.level), cur |-> tr.level]

LEMMA FirstHitIs ==
    ASSUME NEW up \in BOOLEAN, NEW to \in Int, NEW cur \in Int, NEW b \in Books,
           Within(up, to, b, cur) # {}
    PROVE  /\ FirstHit(up, Within(up, to, b, cur)) \in Within(up, to, b, cur)
           /\ \A y \in Within(up, to, b, cur) : NotLater(up, FirstHit(up, Within(up, to, b, cur)), y)
<1> DEFINE S == Within(up, to, b, cur)
           a == [y \in S |-> IF up THEN y.level ELSE cur - y.level]
           p == [y \in S |-> y.prio]
           i == [y \in S |-> y.id]
<1>1. \A y \in S : /\ y.prio \in Nat /\ y.id \in Nat /\ y.level \in Nat
                   /\ ~up => cur - y.level \in Nat
  <2> SUFFICES ASSUME NEW y \in S
               PROVE  y.prio \in Nat /\ y.id \in Nat /\ y.level \in Nat /\ (~up => cur - y.level \in Nat)
    OBVIOUS
  <2>1. y \in TriggerSet
    BY TriggerSource DEF Within
  <2>2. y.level \in Nat /\ (~up => y.level <= cur)
    BY <2>1 DEF Within, TriggerSet
  <2> HIDE DEF S
  <2> QED BY <2>1, <2>2 DEF TriggerSet
<1>2. S # {}
  OBVIOUS
<1> HIDE DEF S
<1>3. a \in [S -> Nat] /\ p \in [S -> Nat] /\ i \in [S -> Nat]
  BY <1>1
<1>4. PICK u \in S : IsLeast(S, a, p, i, u)
  <2> HIDE DEF a, p, i
  <2> QED BY <1>2, <1>3, LeastByKeys, Zenon
<1>5. ASSUME NEW y \in S PROVE NotLater(up, u, y)
  <2>1. /\ a[u] = (IF up THEN u.level ELSE cur - u.level) /\ p[u] = u.prio /\ i[u] = u.id
        /\ a[y] = (IF up THEN y.level ELSE cur - y.level) /\ p[y] = y.prio /\ i[y] = y.id
    OBVIOUS
  <2>2. \/ a[u] < a[y]
        \/ a[u] = a[y] /\ (p[u] < p[y] \/ (p[u] = p[y] /\ i[u] <= i[y]))
    BY <1>4 DEF IsLeast
  <2>3. u.level \in Nat /\ y.level \in Nat
    BY <1>1
  <2> HIDE DEF a, p, i
  <2> QED BY <2>1, <2>2, <2>3 DEF NotLater, Sooner
<1>6. FirstHit(up, S) \in S /\ \A y \in S : NotLater(up, FirstHit(up, S), y)
  <2> HIDE DEF a, p, i
  <2> QED BY <1>5 DEF FirstHit
<1> QED BY <1>6 DEF S

(* A piece of the path is as many rounds as there can be triggers. *)
LEMMA WalkRounds ==
    ASSUME NEW r, NEW from, NEW to, NEW U, NEW G, Rounds(r.b) \in Nat,
           [r |-> r, cur |-> from] \in G[0], \A k \in 0 .. Rounds(r.b) : G[k] \subseteq U,
           \A k \in 1 .. Rounds(r.b) : \A x \in G[k - 1] : WalkStep(to > from, to, x) \in G[k]
    PROVE  \E x \in G[Rounds(r.b)] : WalkSegment(r, from, to) = x.r
<1> DEFINE n == Rounds(r.b)
           z == [r |-> r, cur |-> from]
           step(x) == WalkStep(to > from, to, x)
           F == [p \in (1 .. n) \X U |-> step(p[2])]
           run == CHOOSE f : f = [k \in 0 .. n |-> IF k = 0 THEN z ELSE step(f[k - 1])]
<1>0. n \in Nat /\ z \in G[0] /\ \A k \in 0 .. n : G[k] \subseteq U
  OBVIOUS
<1>1. \A k \in 1 .. n : \A x \in G[k - 1] : step(x) \in G[k]
  OBVIOUS
<1>6. WalkSegment(r, from, to) = run[n].r
  BY DEF WalkSegment, WalkStep, FirstHit, NotLater, Sooner, Within
<1> HIDE DEF step, n, z
<1>2. PICK f : /\ f = [k \in 0 .. n |-> f[k]] /\ f[0] = z
               /\ \A k \in 1 .. n : f[k] = F[<<k, f[k - 1]>>]
               /\ \A k \in 0 .. n : f[k] \in G[k]
  <2>1. StepsWithin(n, F, G)
    <3>1. ASSUME NEW k \in 1 .. n, NEW v \in G[k - 1] PROVE F[<<k, v>>] \in G[k]
      <4>1. k - 1 \in 0 .. n
        BY <1>0
      <4>2. v \in U
        BY <1>0, <4>1
      <4> QED BY <1>1, <4>2
    <3> HIDE DEF F
    <3> QED BY <3>1 DEF StepsWithin
  <2> HIDE DEF F
  <2>2. \E g : IsRecursion(g, n, z, F, G)
    BY <1>0, <2>1, RecursionExists, Zenon
  <2> QED BY <2>2 DEF IsRecursion
<1>3. f = [k \in 0 .. n |-> IF k = 0 THEN z ELSE step(f[k - 1])]
  <2>1. ASSUME NEW k \in 0 .. n PROVE f[k] = IF k = 0 THEN z ELSE step(f[k - 1])
    <3>1. CASE k = 0
      BY <1>0, <1>2, <3>1
    <3>2. CASE k # 0
      <4>1. k \in 1 .. n /\ k - 1 \in 0 .. n
        BY <1>0, <3>2
      <4>2. f[k - 1] \in U /\ f[k] = F[<<k, f[k - 1]>>]
        BY <1>0, <1>2, <4>1
      <4> QED BY <3>2, <4>1, <4>2
    <3> QED BY <3>1, <3>2
  <2>2. f = [k \in 0 .. n |-> f[k]]
    BY <1>2
  <2> QED BY <2>1, <2>2
<1>4. run = [k \in 0 .. n |-> IF k = 0 THEN z ELSE step(run[k - 1])]
  BY <1>3
<1> HIDE DEF run
<1>5. run[n] \in G[n]
  <2> DEFINE S == {k \in 0 .. n : run[k] \in G[k]}
  <2>1. 0 \in S
    BY <1>0, <1>4
  <2>2. ASSUME NEW k \in 0 .. (n - 1), k \in S PROVE k + 1 \in S
    <3>1. k + 1 \in 0 .. n /\ k + 1 # 0 /\ (k + 1) - 1 = k /\ k + 1 \in 1 .. n
      BY <1>0
    <3>2. run[k + 1] = step(run[(k + 1) - 1])
      BY <1>4, <3>1
    <3> QED BY <1>1, <2>2, <3>1, <3>2
  <2> HIDE DEF S
  <2>3. 0 .. n \subseteq S
    BY <1>0, <2>1, <2>2, InductionUpTo
  <2> QED BY <1>0, <2>3 DEF S
<1> QED BY <1>5, <1>6 DEF n

(* What every execution between two prices keeps, a piece of the path between them keeps. *)
LEMMA WalkStays ==
    ASSUME NEW I, NEW r \in I, NEW lo \in Int, NEW hi \in Int,
           NEW from \in lo .. hi, NEW to \in lo .. hi, \A x \in I : x.b \in Books,
           \A x \in I : \A tr \in Triggers(x.b) : \A p \in lo .. hi : Fire(x, tr, p) \in I
    PROVE  WalkSegment(r, from, to) \in I
<1> DEFINE n == Rounds(r.b)
           up == to > from
           J == [r : I, cur : lo .. hi]
           z == [r |-> r, cur |-> from]
           G == [k \in 0 .. n |-> J]
<1>0. n \in Nat /\ z \in J /\ up \in BOOLEAN /\ to \in Int
  BY DEF Rounds, Books
<1>1. ASSUME NEW x \in J PROVE WalkStep(up, to, x) \in J
  <2> DEFINE S == Within(up, to, x.r.b, x.cur)
             tr == FirstHit(up, S)
  <2>1. x.r \in I /\ x.r.b \in Books /\ x.cur \in lo .. hi /\ x.cur \in Int
    OBVIOUS
  <2>2. CASE S = {} \/ to = x.cur
    BY <2>2 DEF WalkStep
  <2>3. CASE S # {} /\ to # x.cur
    <3>1. tr \in S
      <4> HIDE DEF up
      <4> QED BY <1>0, <2>1, <2>3, FirstHitIs
    <3>2. WalkStep(up, to, x) = [r |-> Fire(x.r, tr, tr.level), cur |-> tr.level]
      <4> HIDE DEF up
      <4> QED BY <2>3 DEF WalkStep
    <3> HIDE DEF tr, up
    <3>3. tr \in Triggers(x.r.b) /\ ((x.cur <= tr.level /\ tr.level <= to) \/ (to <= tr.level /\ tr.level <= x.cur))
      BY <3>1 DEF Within
    <3>4. tr.level \in Nat
      BY <2>1, <3>3, TriggerSource DEF TriggerSet
    <3>5. tr.level \in lo .. hi
      BY <2>1, <3>3, <3>4
    <3>6. Fire(x.r, tr, tr.level) \in I
      BY <2>1, <3>3, <3>5
    <3> QED BY <3>2, <3>5, <3>6
  <2> QED BY <2>2, <2>3
<1> HIDE DEF n, J, z
<1>2. /\ z \in G[0] /\ \A k \in 0 .. n : G[k] \subseteq J
      /\ \A k \in 1 .. n : \A x \in G[k - 1] : WalkStep(up, to, x) \in G[k]
  BY <1>0, <1>1
<1> HIDE DEF G
<1>3. \E x \in G[n] : WalkSegment(r, from, to) = x.r
  BY <1>0, <1>2, WalkRounds DEF n, z
<1>4. G[n] = J
  BY <1>0 DEF G
<1> QED BY <1>3, <1>4 DEF J

IsBar(bar) ==
    /\ bar.o \in Int /\ bar.h \in Int /\ bar.l \in Int /\ bar.c \in Int
    /\ bar.l <= bar.o /\ bar.o <= bar.h /\ bar.l <= bar.c /\ bar.c <= bar.h

(* All triggers of a bar. *)
LEMMA TriggersStay ==
    ASSUME NEW I, NEW r \in I, NEW bar, IsBar(bar), \A x \in I : x.b \in Books,
           \A x \in I : \A tr \in Triggers(x.b) : \A p \in bar.l .. bar.h : Fire(x, tr, p) \in I
    PROVE  WalkTriggers(r, bar) \in I
<1> DEFINE g == GapAtOpen(r, bar.o)
           p == Path(g.b, bar)
<1>1. /\ bar.l \in Int /\ bar.h \in Int /\ bar.o \in bar.l .. bar.h /\ bar.c \in bar.l .. bar.h
      /\ bar.l \in bar.l .. bar.h /\ bar.h \in bar.l .. bar.h /\ bar.o \in Int
  BY DEF IsBar
<1>2. g \in I
  BY <1>1, GapStays
<1> HIDE DEF g
<1>3. /\ p[1] \in bar.l .. bar.h /\ p[2] \in bar.l .. bar.h
      /\ p[3] \in bar.l .. bar.h /\ p[4] \in bar.l .. bar.h
  BY <1>1 DEF Path
<1> HIDE DEF p
<1> DEFINE s1 == WalkSegment(g, p[1], p[2])
           s2 == WalkSegment(s1, p[2], p[3])
           s3 == WalkSegment(s2, p[3], p[4])
<1>4. s1 \in I
  BY <1>1, <1>2, <1>3, WalkStays
<1> HIDE DEF s1
<1>5. s2 \in I
  BY <1>1, <1>3, <1>4, WalkStays
<1> HIDE DEF s2
<1>6. s3 \in I
  BY <1>1, <1>3, <1>5, WalkStays
<1> HIDE DEF s3
<1>7. InsideBar(g, bar) = s3
  BY DEF InsideBar, WalkPath, s1, s2, s3, p
<1> QED BY <1>6, <1>7 DEF WalkTriggers, g

(* The orders due at the open of a bar, and the book they left. *)
Ready(b) == {o \in ToSet(b.queue) : o.wait = 0}
Due(b) == Kept(b.queue, Ready(b))
Opened(r) == [r EXCEPT !.b.queue = Kept(@, ToSet(@) \ Ready(r.b))]

(* The market orders of a bar, one after the other. *)
LEMMA MarketStays ==
    ASSUME NEW r, NEW bar, NEW U, NEW G, Len(Due(r.b)) \in Nat, Opened(r) \in G[0],
           \A k \in 0 .. Len(Due(r.b)) : G[k] \subseteq U,
           \A k \in 1 .. Len(Due(r.b)) : \A x \in G[k - 1] : Execute(x, Due(r.b)[k], bar.o, "MARKET") \in G[k]
    PROVE  FillMarketOrders(r, bar) \in G[Len(Due(r.b))]
<1> DEFINE due == Due(r.b)
           n == Len(due)
           z == Opened(r)
           step(k, x) == Execute(x, due[k], bar.o, "MARKET")
           F == [p \in (1 .. n) \X U |-> step(p[1], p[2])]
           run == CHOOSE f : f = [k \in 0 .. n |-> IF k = 0 THEN z ELSE step(k, f[k - 1])]
<1>0. n \in Nat /\ z \in G[0] /\ \A k \in 0 .. n : G[k] \subseteq U
  OBVIOUS
<1>1. \A k \in 1 .. n : \A x \in G[k - 1] : step(k, x) \in G[k]
  OBVIOUS
<1>6. FillMarketOrders(r, bar) = run[n]
  BY DEF FillMarketOrders, Due, Ready, Opened
<1> HIDE DEF step, n, z, due
<1>2. PICK f : /\ f = [k \in 0 .. n |-> f[k]] /\ f[0] = z
               /\ \A k \in 1 .. n : f[k] = F[<<k, f[k - 1]>>]
               /\ \A k \in 0 .. n : f[k] \in G[k]
  <2>1. StepsWithin(n, F, G)
    <3>1. ASSUME NEW k \in 1 .. n, NEW v \in G[k - 1] PROVE F[<<k, v>>] \in G[k]
      <4>1. k - 1 \in 0 .. n
        BY <1>0
      <4>2. v \in U
        BY <1>0, <4>1
      <4> QED BY <1>1, <4>2
    <3> HIDE DEF F
    <3> QED BY <3>1 DEF StepsWithin
  <2> HIDE DEF F
  <2>2. \E g : IsRecursion(g, n, z, F, G)
    BY <1>0, <2>1, RecursionExists, Zenon
  <2> QED BY <2>2 DEF IsRecursion
<1>3. f = [k \in 0 .. n |-> IF k = 0 THEN z ELSE step(k, f[k - 1])]
  <2>1. ASSUME NEW k \in 0 .. n PROVE f[k] = IF k = 0 THEN z ELSE step(k, f[k - 1])
    <3>1. CASE k = 0
      BY <1>0, <1>2, <3>1
    <3>2. CASE k # 0
      <4>1. k \in 1 .. n /\ k - 1 \in 0 .. n
        BY <1>0, <3>2
      <4>2. f[k - 1] \in U /\ f[k] = F[<<k, f[k - 1]>>]
        BY <1>0, <1>2, <4>1
      <4> QED BY <3>2, <4>1, <4>2
    <3> QED BY <3>1, <3>2
  <2>2. f = [k \in 0 .. n |-> f[k]]
    BY <1>2
  <2> QED BY <2>1, <2>2
<1>4. run = [k \in 0 .. n |-> IF k = 0 THEN z ELSE step(k, run[k - 1])]
  BY <1>3
<1> HIDE DEF run
<1>5. run[n] \in G[n]
  <2> DEFINE S == {k \in 0 .. n : run[k] \in G[k]}
  <2>1. 0 \in S
    BY <1>0, <1>4
  <2>2. ASSUME NEW k \in 0 .. (n - 1), k \in S PROVE k + 1 \in S
    <3>1. k + 1 \in 0 .. n /\ k + 1 # 0 /\ (k + 1) - 1 = k /\ k + 1 \in 1 .. n
      BY <1>0
    <3>2. run[k + 1] = step(k + 1, run[(k + 1) - 1])
      BY <1>4, <3>1
    <3> QED BY <1>1, <2>2, <3>1, <3>2
  <2> HIDE DEF S
  <2>3. 0 .. n \subseteq S
    BY <1>0, <2>1, <2>2, InductionUpTo
  <2> QED BY <1>0, <2>3 DEF S
<1> QED BY <1>5, <1>6 DEF n, due

-----------------------------------------------------------------------------
(* A bar. *)

(* A fill inside lo .. hi that reduces when its order is reduce-only. *)
FillOk(f, lo, hi) ==
    /\ lo <= f.price /\ f.price <= hi
    /\ f.ro => /\ abs(f.before + f.side * f.qty) < abs(f.before)
               /\ sign(f.before + f.side * f.qty) \in {0, sign(f.before)}

(* The fills so far are in order, and a liquidation level that is set      *)
(* belongs to the position the bar began with.                             *)
RunOk(r, was, lo, hi) ==
    /\ r \in Runs
    /\ r.b.pos = 0 => r.b.liq = 0
    /\ r.b.liq # 0 => sign(r.b.pos) = sign(was)
    /\ \A k \in 1 .. Len(r.fills) : FillOk(r.fills[k], lo, hi)

LEMMA ExecuteOk ==
    ASSUME NEW r, NEW was \in Int, NEW lo \in Int, NEW hi \in Int, RunOk(r, was, lo, hi),
           NEW X, Sound(r.b, X), NEW o \in Orders, o.id \in X \cup {NoId},
           NEW price \in lo .. hi, NEW reason \in Reasons
    PROVE  /\ RunOk(Execute(r, o, price, reason), was, lo, hi)
           /\ Sound(Execute(r, o, price, reason).b, X \ {o.id})
<1> DEFINE c == Execute(r, o, price, reason)
           f == FillMade(r.b, o, price, reason)
           q == ExecutableQty(r.b, o)
<1>1. r \in Runs /\ r.b \in Books /\ r.fills \in Seq(Fills) /\ price \in Int /\ r.b.pos \in Int
  BY DEF RunOk, Sound, Runs, Books
<1>2. /\ c \in Runs /\ Sound(c.b, X \ {o.id}) /\ c.b.pos = After(r.b, o)
      /\ c.fills = IF q = 0 THEN r.fills ELSE Append(r.fills, f)
      /\ IF Closes(r.b, o) THEN c.b.liq = 0 ELSE c.b.liq = r.b.liq
  <2>1. ExecutionOf(r, X, o, price, reason, c)
    BY <1>1, ExecuteBook
  <2> QED BY <2>1 DEF ExecutionOf
<1> HIDE DEF c
<1>3. c.b.liq # 0 => c.b.pos # 0 /\ sign(c.b.pos) = sign(was)
  <2> SUFFICES ASSUME c.b.liq # 0 PROVE c.b.pos # 0 /\ sign(c.b.pos) = sign(was)
    OBVIOUS
  <2>1. r.b.liq # 0 /\ ~Closes(r.b, o)
    BY <1>2
  <2>2. r.b.pos # 0 /\ sign(r.b.pos) = sign(was)
    BY <2>1 DEF RunOk
  <2>3. sign(After(r.b, o)) = sign(r.b.pos)
    BY <2>1, <2>2 DEF Closes
  <2>4. After(r.b, o) \in Int
    BY <1>1, QtyReduces DEF After
  <2> QED BY <1>1, <1>2, <2>2, <2>3, <2>4, SignFacts
<1>4. ASSUME q # 0 PROVE FillOk(f, lo, hi)
  <2>1. q \in Nat /\ q > 0
    BY <1>1, <1>4, QtyReduces
  <2>2. /\ f.price = price /\ f.ro = o.ro /\ f.before = r.b.pos /\ f.side = o.side /\ f.qty = q
    BY DEF FillMade
  <2>3. o.ro => /\ abs(r.b.pos + o.side * q) = abs(r.b.pos) - q
                /\ sign(r.b.pos + o.side * q) \in {0, sign(r.b.pos)}
    BY <1>1, <2>1, QtyReduces
  <2>4. abs(r.b.pos) \in Nat
    BY <1>1, SignFacts
  <2> HIDE DEF f, q
  <2> QED BY <2>1, <2>2, <2>3, <2>4 DEF FillOk
<1>5. \A k \in 1 .. Len(c.fills) : FillOk(c.fills[k], lo, hi)
  <2>1. CASE q = 0
    BY <1>2, <2>1 DEF RunOk
  <2>2. CASE q # 0
    <3> HIDE DEF f
    <3>2. c.fills = Append(r.fills, f)
      BY <1>2, <2>2
    <3>3. /\ Len(r.fills) \in Nat /\ Len(c.fills) = Len(r.fills) + 1 /\ c.fills[Len(r.fills) + 1] = f
          /\ \A k \in 1 .. Len(r.fills) : c.fills[k] = r.fills[k]
      BY <1>1, <3>2
    <3> SUFFICES ASSUME NEW k \in 1 .. Len(c.fills) PROVE FillOk(c.fills[k], lo, hi)
      OBVIOUS
    <3>4. k = Len(r.fills) + 1 \/ k \in 1 .. Len(r.fills)
      BY <3>3
    <3> QED BY <1>4, <2>2, <3>3, <3>4 DEF RunOk
  <2> QED BY <2>1, <2>2
<1>6. RunOk(c, was, lo, hi)
  BY <1>2, <1>3, <1>5 DEF RunOk
<1> QED BY <1>2, <1>6 DEF c

(* A trigger that fires is the execution of one order on the book without  *)
(* what fired.                                                             *)
FiredAs(r, tr, price, s, o, reason) ==
    /\ Fire(r, tr, price) = Execute(s, o, price, reason)
    /\ s.fills = r.fills /\ s.b.pos = r.b.pos /\ s.b.queue = r.b.queue
    /\ s.b.lastClose = r.b.lastClose
    /\ Sound(s.b, {o.id} \ {NoId})
    /\ \/ /\ tr.kind = "STOP" /\ o \in ToSet(r.b.stops)
          /\ o.wait = 0 /\ o.stop = tr.level /\ tr.up = (o.side = 1)
          /\ ToSet(s.b.stops) = ToSet(r.b.stops) \ {o}
          /\ s.b.tp = r.b.tp /\ s.b.tpSide = r.b.tpSide /\ s.b.liq = r.b.liq
          /\ reason \in {"STOP", "ENTRY"}
       \/ /\ tr.kind = "TP" /\ o.id = NoId /\ o.ro /\ o.side = -sign(r.b.pos) /\ o.qty = abs(r.b.pos)
          /\ s.b.stops = r.b.stops /\ s.b.tp = 0 /\ s.b.tpSide = 0 /\ s.b.liq = r.b.liq
          /\ reason = "TP"
       \/ /\ tr.kind = "LIQ" /\ o.id = NoId /\ o.ro /\ o.side = -sign(r.b.pos) /\ o.qty = abs(r.b.pos)
          /\ s.b.stops = r.b.stops /\ s.b.tp = r.b.tp /\ s.b.tpSide = r.b.tpSide /\ s.b.liq = 0
          /\ reason = "LIQ"

LEMMA FireIsExecution ==
    ASSUME NEW r \in Runs, Sound(r.b, {}), NEW tr \in Triggers(r.b), NEW price \in Int
    PROVE  \E s \in Runs, o \in Orders, reason \in Reasons : FiredAs(r, tr, price, s, o, reason)
<1> DEFINE b == r.b
           whole == [id |-> NoId, side |-> -sign(b.pos), qty |-> abs(b.pos), stop |-> tr.level,
                     ro |-> TRUE, wait |-> 0]
<1>1. /\ b \in Books /\ r = [b |-> b, fills |-> r.fills] /\ r.fills \in Seq(Fills) /\ b.pos \in Int
      /\ b.stops \in Seq(Orders)
  BY DEF Runs, Books
<1>2. tr \in TriggerSet /\ tr.kind \in {"STOP", "TP", "LIQ"} /\ tr.level \in Nat
  BY <1>1, TriggerSource DEF TriggerSet
<1>3. tr.kind # "STOP" => /\ whole \in Orders /\ whole.id = NoId /\ whole.ro
                          /\ whole.side = -sign(b.pos) /\ whole.qty = abs(b.pos)
  <2> SUFFICES ASSUME tr.kind # "STOP"
               PROVE  whole \in Orders
    OBVIOUS
  <2>1. b.pos # 0
    BY <1>1, <1>2, TriggerSource
  <2>2. sign(b.pos) \in {-1, 1} /\ abs(b.pos) \in Nat
    BY <1>1, <2>1, SignFacts
  <2>3. -sign(b.pos) \in {-1, 1}
    BY <2>2
  <2> QED BY <1>2, <2>2, <2>3 DEF Orders, NoId
<1>4. CASE tr.kind = "STOP"
  <2> DEFINE o == CHOOSE x \in ToSet(b.stops) : x.id = tr.id
             s == [r EXCEPT !.b.stops = Without(@, {tr.id})]
             reason == IF sign(b.pos) = -o.side THEN "STOP" ELSE "ENTRY"
  <2>1. PICK x \in ToSet(b.stops) : /\ x.wait = 0 /\ x.id = tr.id /\ x.stop = tr.level
                                    /\ tr.up = (x.side = 1)
    BY <1>1, <1>4, TriggerSource
  <2>2. o \in ToSet(b.stops) /\ o.id = tr.id
    BY <2>1
  <2>3. o = x
    BY <1>1, <2>1, <2>2, UniqMembers DEF Sound
  <2>4. Fire(r, tr, price) = Execute(s, o, price, reason)
    BY <1>4 DEF Fire
  <2> HIDE DEF o
  <2>5. o \in Orders /\ o.id \in IdsOf(b.stops)
    BY <1>1, <2>2, IdsOfSet
  <2>6. o.id \in Ids /\ o.id # NoId
    BY <2>5, BookAssumption DEF Sound, NoId
  <2>7. /\ Without(b.stops, {tr.id}) \in Seq(Orders)
        /\ IdsOf(Without(b.stops, {tr.id})) = IdsOf(b.stops) \ {o.id}
        /\ Uniq(Without(b.stops, {tr.id}))
        /\ ToSet(Without(b.stops, {tr.id})) = {y \in ToSet(b.stops) : y.id # o.id}
    BY <1>1, <2>2, WithoutOrders DEF Sound
  <2>8. /\ s.fills = r.fills /\ s.b = [b EXCEPT !.stops = Without(@, {tr.id})]
        /\ s = [b |-> s.b, fills |-> s.fills]
    BY <1>1
  <2> HIDE DEF s
  <2>9. /\ s.b \in Books /\ s.b.pos = b.pos /\ s.b.queue = b.queue /\ s.b.lastClose = b.lastClose
        /\ s.b.stops = Without(b.stops, {tr.id}) /\ s.b.status = b.status
        /\ s.b.tp = b.tp /\ s.b.tpSide = b.tpSide /\ s.b.liq = b.liq
    BY <1>1, <2>7, <2>8 DEF Books
  <2>10. s \in Runs
    BY <1>1, <2>8, <2>9 DEF Runs
  <2>11. {o.id} \ {NoId} = {o.id}
    BY <2>6
  <2>12. Sound(s.b, {o.id})
    BY <2>5, <2>7, <2>9 DEF Sound
  <2>13. ToSet(s.b.stops) = ToSet(b.stops) \ {o}
    <3>1. \A y \in ToSet(b.stops) : y.id = o.id <=> y = o
      BY <1>1, <2>2, UniqMembers DEF Sound
    <3> QED BY <2>7, <2>9, <3>1
  <2>14. reason \in Reasons /\ reason \in {"STOP", "ENTRY"}
    BY DEF Reasons
  <2> HIDE DEF reason
  <2>15. FiredAs(r, tr, price, s, o, reason)
    BY <1>4, <2>1, <2>2, <2>3, <2>4, <2>8, <2>9, <2>11, <2>12, <2>13, <2>14 DEF FiredAs
  <2> QED BY <2>5, <2>10, <2>14, <2>15
<1>5. CASE tr.kind = "TP"
  <2> DEFINE s == [r EXCEPT !.b = [@ EXCEPT !.tp = 0, !.tpSide = 0]]
  <2>1. Fire(r, tr, price) = Execute(s, whole, price, "TP")
    BY <1>5 DEF Fire
  <2>2. /\ s.fills = r.fills /\ s.b = [b EXCEPT !.tp = 0, !.tpSide = 0]
        /\ s = [b |-> s.b, fills |-> s.fills]
    BY <1>1
  <2> HIDE DEF s, whole
  <2>3. /\ s.b \in Books /\ s.b.pos = b.pos /\ s.b.queue = b.queue /\ s.b.lastClose = b.lastClose
        /\ s.b.stops = b.stops /\ s.b.status = b.status
        /\ s.b.tp = 0 /\ s.b.tpSide = 0 /\ s.b.liq = b.liq
    <3>1. 0 \in Nat /\ 0 \in -1..1
      OBVIOUS
    <3> QED BY <1>1, <2>2, <3>1 DEF Books
  <2>4. s \in Runs
    BY <1>1, <2>2, <2>3 DEF Runs
  <2>5. {whole.id} \ {NoId} = {} /\ whole \in Orders /\ "TP" \in Reasons
    BY <1>3, <1>5 DEF Reasons
  <2>6. Sound(s.b, {})
    BY <2>3 DEF Sound
  <2>7. FiredAs(r, tr, price, s, whole, "TP")
    BY <1>3, <1>5, <2>1, <2>2, <2>3, <2>5, <2>6 DEF FiredAs
  <2> QED BY <2>4, <2>5, <2>7
<1>6. CASE tr.kind = "LIQ"
  <2> DEFINE s == [r EXCEPT !.b.liq = 0]
  <2>1. Fire(r, tr, price) = Execute(s, whole, price, "LIQ")
    BY <1>6 DEF Fire
  <2>2. /\ s.fills = r.fills /\ s.b = [b EXCEPT !.liq = 0]
        /\ s = [b |-> s.b, fills |-> s.fills]
    BY <1>1
  <2> HIDE DEF s, whole
  <2>3. /\ s.b \in Books /\ s.b.pos = b.pos /\ s.b.queue = b.queue /\ s.b.lastClose = b.lastClose
        /\ s.b.stops = b.stops /\ s.b.status = b.status
        /\ s.b.tp = b.tp /\ s.b.tpSide = b.tpSide /\ s.b.liq = 0
    <3>1. 0 \in Nat
      OBVIOUS
    <3> QED BY <1>1, <2>2, <3>1 DEF Books
  <2>4. s \in Runs
    BY <1>1, <2>2, <2>3 DEF Runs
  <2>5. {whole.id} \ {NoId} = {} /\ whole \in Orders /\ "LIQ" \in Reasons
    BY <1>3, <1>6 DEF Reasons
  <2>6. Sound(s.b, {})
    BY <2>3 DEF Sound
  <2>7. FiredAs(r, tr, price, s, whole, "LIQ")
    BY <1>3, <1>6, <2>1, <2>2, <2>3, <2>5, <2>6 DEF FiredAs
  <2> QED BY <2>4, <2>5, <2>7
<1> QED BY <1>2, <1>4, <1>5, <1>6

LEMMA FireOk ==
    ASSUME NEW r, NEW was \in Int, NEW lo \in Int, NEW hi \in Int, RunOk(r, was, lo, hi),
           Sound(r.b, {}), NEW tr \in Triggers(r.b), NEW price \in lo .. hi
    PROVE  RunOk(Fire(r, tr, price), was, lo, hi) /\ Sound(Fire(r, tr, price).b, {})
<1>0. r \in Runs /\ price \in Int
  BY DEF RunOk
<1>1. PICK s \in Runs, o \in Orders, reason \in Reasons : FiredAs(r, tr, price, s, o, reason)
  BY <1>0, FireIsExecution
<1>2. RunOk(s, was, lo, hi)
  BY <1>1 DEF RunOk, FiredAs
<1> DEFINE X == {o.id} \ {NoId}
<1>3. o.id \in X \cup {NoId} /\ X \ {o.id} = {} /\ Sound(s.b, X)
  BY <1>1 DEF FiredAs
<1> HIDE DEF X
<1>4. RunOk(Execute(s, o, price, reason), was, lo, hi) /\ Sound(Execute(s, o, price, reason).b, X \ {o.id})
  BY <1>2, <1>3, ExecuteOk
<1> QED BY <1>1, <1>3, <1>4 DEF FiredAs

(* The orders due at the open leave the queue and are the ones in flight. *)
LEMMA OpenedBook ==
    ASSUME NEW r \in Runs, Sound(r.b, {})
    PROVE  /\ Due(r.b) \in Seq(Orders) /\ Uniq(Due(r.b)) /\ ToSet(Due(r.b)) = Ready(r.b)
           /\ Opened(r) \in Runs /\ Opened(r).fills = r.fills
           /\ Sound(Opened(r).b, IdsOf(Due(r.b)))
           /\ Opened(r).b.queue = Kept(r.b.queue, ToSet(r.b.queue) \ Ready(r.b))
           /\ Opened(r).b.pos = r.b.pos /\ Opened(r).b.stops = r.b.stops
           /\ Opened(r).b.tp = r.b.tp /\ Opened(r).b.tpSide = r.b.tpSide
           /\ Opened(r).b.liq = r.b.liq /\ Opened(r).b.lastClose = r.b.lastClose
<1> DEFINE b == r.b
           K == Ready(b)
           rest == Kept(b.queue, ToSet(b.queue) \ K)
           c == Opened(r)
<1>1. /\ b \in Books /\ r = [b |-> b, fills |-> r.fills] /\ r.fills \in Seq(Fills)
      /\ b.queue \in Seq(Orders) /\ Uniq(b.queue)
  BY DEF Runs, Books, Sound
<1>2. K \in SUBSET ToSet(b.queue) /\ ToSet(b.queue) \cap K = K
  BY DEF Ready
<1>3. /\ Due(b) \in Seq(Orders) /\ Uniq(Due(b)) /\ ToSet(Due(b)) = K
  BY <1>1, <1>2, KeptOrders DEF Due
<1>4. rest \in Seq(Orders) /\ Uniq(rest)
  BY <1>1, KeptOrders
<1>5. IdsOf(Due(b)) \cap IdsOf(rest) = {} /\ IdsOf(Due(b)) \cup IdsOf(rest) = IdsOf(b.queue)
  BY <1>1, <1>2, KeptSplits DEF Due
<1>6. /\ c.fills = r.fills /\ c.b = [b EXCEPT !.queue = rest] /\ c = [b |-> c.b, fills |-> c.fills]
  BY <1>1 DEF Opened
<1> HIDE DEF c, rest, K
<1>7. /\ c.b \in Books /\ c.b.pos = b.pos /\ c.b.queue = rest /\ c.b.stops = b.stops /\ c.b.tp = b.tp
      /\ c.b.tpSide = b.tpSide /\ c.b.liq = b.liq /\ c.b.lastClose = b.lastClose
      /\ c.b.status = b.status
  BY <1>1, <1>4, <1>6 DEF Books
<1>8. c \in Runs
  BY <1>1, <1>6, <1>7 DEF Runs
<1>9. Sound(c.b, IdsOf(Due(b)))
  BY <1>4, <1>5, <1>7 DEF Sound
<1> QED BY <1>3, <1>6, <1>7, <1>8, <1>9 DEF c, rest, K

(* The ids of a list without doubles, from its k-th order on. *)
IdsFrom(q, k) == {q[j].id : j \in k .. Len(q)}

LEMMA IdsFromFacts ==
    ASSUME NEW q \in Seq(Orders), Uniq(q)
    PROVE  /\ IdsFrom(q, 1) = IdsOf(q) /\ IdsFrom(q, Len(q) + 1) = {}
           /\ \A k \in 1 .. Len(q) : /\ q[k] \in Orders /\ q[k].id \in IdsFrom(q, k)
                                      /\ IdsFrom(q, k) \ {q[k].id} = IdsFrom(q, k + 1)
<1>1. Len(q) \in Nat /\ DOMAIN q = 1 .. Len(q) /\ \A k \in 1 .. Len(q) : q[k] \in Orders
  OBVIOUS
<1>2. IdsFrom(q, 1) = IdsOf(q)
  BY <1>1 DEF IdsFrom, IdsOf
<1>3. IdsFrom(q, Len(q) + 1) = {}
  BY <1>1 DEF IdsFrom
<1>4. ASSUME NEW k \in 1 .. Len(q)
      PROVE  q[k].id \in IdsFrom(q, k) /\ IdsFrom(q, k) \ {q[k].id} = IdsFrom(q, k + 1)
  <2>1. k \in k .. Len(q) /\ \A j \in k .. Len(q) : j \in 1 .. Len(q) /\ (j = k \/ j \in (k + 1) .. Len(q))
    BY <1>1
  <2>2. \A j \in (k + 1) .. Len(q) : j \in k .. Len(q) /\ j # k /\ j \in 1 .. Len(q)
    BY <1>1
  <2>3. \A j \in (k + 1) .. Len(q) : q[j].id # q[k].id
    BY <2>2 DEF Uniq
  <2> QED BY <2>1, <2>2, <2>3 DEF IdsFrom
<1> QED BY <1>1, <1>2, <1>3, <1>4

(* After the market orders no order is out of its list. *)
LEMMA MarketOk ==
    ASSUME NEW r, NEW was \in Int, NEW bar, IsBar(bar), RunOk(r, was, bar.l, bar.h), Sound(r.b, {})
    PROVE  /\ RunOk(FillMarketOrders(r, bar), was, bar.l, bar.h)
           /\ Sound(FillMarketOrders(r, bar).b, {})
<1> DEFINE due == Due(r.b)
           n == Len(due)
           G == [k \in 0 .. n |-> {x \in Runs : /\ RunOk(x, was, bar.l, bar.h)
                                               /\ Sound(x.b, IdsFrom(due, k + 1))}]
<1>1. r \in Runs /\ bar.l \in Int /\ bar.h \in Int /\ bar.o \in bar.l .. bar.h
  BY DEF RunOk, IsBar
<1>2. /\ due \in Seq(Orders) /\ Uniq(due) /\ Opened(r) \in Runs /\ Opened(r).fills = r.fills
      /\ Sound(Opened(r).b, IdsOf(due))
      /\ Opened(r).b.pos = r.b.pos /\ Opened(r).b.liq = r.b.liq
  BY <1>1, OpenedBook
<1> HIDE DEF due
<1>3. n \in Nat
  BY <1>2
<1>4. /\ IdsFrom(due, 1) = IdsOf(due) /\ IdsFrom(due, n + 1) = {}
      /\ \A k \in 1 .. n : /\ due[k] \in Orders /\ due[k].id \in IdsFrom(due, k)
                            /\ IdsFrom(due, k) \ {due[k].id} = IdsFrom(due, k + 1)
  BY <1>2, IdsFromFacts
<1> HIDE DEF n
<1>5. Opened(r) \in G[0]
  <2>1. RunOk(Opened(r), was, bar.l, bar.h)
    BY <1>2 DEF RunOk
  <2>2. 0 \in 0 .. n /\ 0 + 1 = 1
    BY <1>3
  <2> QED BY <1>2, <1>4, <2>1, <2>2
<1>6. \A k \in 0 .. n : G[k] \subseteq Runs
  OBVIOUS
<1>7. ASSUME NEW k \in 1 .. n, NEW x \in G[k - 1]
      PROVE  Execute(x, due[k], bar.o, "MARKET") \in G[k]
  <2>1. k - 1 \in 0 .. n /\ (k - 1) + 1 = k /\ k \in 0 .. n
    BY <1>3
  <2> DEFINE X == IdsFrom(due, k)
             c == Execute(x, due[k], bar.o, "MARKET")
  <2>2. RunOk(x, was, bar.l, bar.h) /\ Sound(x.b, X) /\ due[k].id \in X \cup {NoId} /\ due[k] \in Orders
    BY <1>4, <2>1
  <2>3. "MARKET" \in Reasons
    BY DEF Reasons
  <2> HIDE DEF X, c
  <2>4. RunOk(c, was, bar.l, bar.h) /\ Sound(c.b, X \ {due[k].id})
    BY <1>1, <2>2, <2>3, ExecuteOk DEF c
  <2>5. X \ {due[k].id} = IdsFrom(due, k + 1) /\ c \in Runs
    BY <1>4, <2>4 DEF X, RunOk
  <2> QED BY <2>1, <2>4, <2>5 DEF c
<1> HIDE DEF G
<1>8. FillMarketOrders(r, bar) \in G[n]
  BY <1>3, <1>5, <1>6, <1>7, MarketStays DEF n, due
<1>9. n \in 0 .. n
  BY <1>3
<1> QED BY <1>4, <1>8, <1>9 DEF G

LEMMA WalkOk ==
    ASSUME NEW r, NEW was \in Int, NEW bar, IsBar(bar), RunOk(r, was, bar.l, bar.h), Sound(r.b, {})
    PROVE  /\ RunOk(WalkTriggers(r, bar), was, bar.l, bar.h)
           /\ Sound(WalkTriggers(r, bar).b, {})
<1> DEFINE I == {x \in Runs : RunOk(x, was, bar.l, bar.h) /\ Sound(x.b, {})}
<1>1. r \in I
  BY DEF RunOk
<1>2. \A x \in I : x.b \in Books
  BY DEF Sound
<1>3. ASSUME NEW x \in I, NEW tr \in Triggers(x.b), NEW p \in bar.l .. bar.h
      PROVE  Fire(x, tr, p) \in I
  <2>1. bar.l \in Int /\ bar.h \in Int
    BY DEF IsBar
  <2>2. RunOk(Fire(x, tr, p), was, bar.l, bar.h) /\ Sound(Fire(x, tr, p).b, {})
    BY <2>1, FireOk
  <2> QED BY <2>2 DEF RunOk
<1> HIDE DEF I
<1>4. WalkTriggers(r, bar) \in I
  BY <1>1, <1>2, <1>3, TriggersStay
<1> QED BY <1>4 DEF I

(* The end of a bar: no orphan is left, and an order that waited sees the next. *)
LEMMA AfterWalkSound ==
    ASSUME NEW b, Sound(b, {}), NEW bar, bar.c \in Nat
    PROVE  /\ Sound(AfterWalk(b, bar), {})
           /\ AfterWalk(b, bar).pos = b.pos /\ AfterWalk(b, bar).liq = b.liq
           /\ AfterWalk(b, bar).tp = b.tp /\ AfterWalk(b, bar).tpSide = b.tpSide
           /\ \A o \in ToSet(AfterWalk(b, bar).stops) : o.ro =>
                 \/ sign(b.pos) = -o.side
                 \/ \E e \in ToSet(AfterWalk(b, bar).queue) \cup ToSet(AfterWalk(b, bar).stops) :
                       ~e.ro /\ e.side = -o.side
<1> DEFINE entries == {o.side : o \in {x \in ToSet(b.queue) \cup ToSet(b.stops) : ~x.ro}}
           gone == {o \in ToSet(b.stops) : o.ro /\ sign(b.pos) # -o.side /\ -o.side \notin entries}
           d == DropStops(b, gone)
           seen(q) == [k \in DOMAIN q |-> [q[k] EXCEPT !.wait = 0]]
           c == AfterWalk(b, bar)
<1>1. /\ Sound(d, {}) /\ d.pos = b.pos /\ d.queue = b.queue /\ d.liq = b.liq /\ d.tp = b.tp
      /\ d.tpSide = b.tpSide /\ ToSet(d.stops) = ToSet(b.stops) \ gone
  <2>1. gone \in SUBSET ToSet(b.stops)
    OBVIOUS
  <2> HIDE DEF gone
  <2> QED BY <2>1, DropStopsSound
<1>2. c = [d EXCEPT !.lastClose = bar.c, !.queue = seen(@), !.stops = seen(@)]
  BY DEF AfterWalk, ExpireOrphanStops
<1> HIDE DEF d, c
<1>3. ASSUME NEW q \in Seq(Orders)
      PROVE  /\ seen(q) \in Seq(Orders) /\ IdsOf(seen(q)) = IdsOf(q) /\ (Uniq(q) => Uniq(seen(q)))
             /\ \A o \in ToSet(seen(q)) : \E x \in ToSet(q) : o.ro = x.ro /\ o.side = x.side
             /\ \A x \in ToSet(q) : \E o \in ToSet(seen(q)) : o.ro = x.ro /\ o.side = x.side
  <2> DEFINE t == seen(q)
  <2>1. Len(q) \in Nat /\ DOMAIN q = 1 .. Len(q) /\ \A k \in 1 .. Len(q) : q[k] \in Orders
    BY <1>3
  <2>2. ASSUME NEW k \in 1 .. Len(q)
        PROVE  /\ t[k] \in Orders /\ t[k].id = q[k].id /\ t[k].ro = q[k].ro /\ t[k].side = q[k].side
    BY <2>1, SMTT(20) DEF Orders
  <2>3. t = [k \in 1 .. Len(q) |-> t[k]]
    BY <2>1
  <2> HIDE DEF t
  <2>4. t \in Seq(Orders) /\ Len(t) = Len(q) /\ DOMAIN t = 1 .. Len(q)
    BY <2>1, <2>2, <2>3
  <2>5. ToSet(t) = {t[k] : k \in 1 .. Len(q)} /\ ToSet(q) = {q[k] : k \in 1 .. Len(q)}
    BY <2>1, <2>4 DEF ToSet
  <2>6. IdsOf(t) = IdsOf(q)
    BY <2>1, <2>2, <2>4 DEF IdsOf
  <2>7. Uniq(q) => Uniq(t)
    BY <2>2, <2>4 DEF Uniq
  <2>8. \A o \in ToSet(t) : \E x \in ToSet(q) : o.ro = x.ro /\ o.side = x.side
    BY <2>2, <2>5
  <2>9. \A x \in ToSet(q) : \E o \in ToSet(t) : o.ro = x.ro /\ o.side = x.side
    BY <2>2, <2>5
  <2> QED BY <2>4, <2>6, <2>7, <2>8, <2>9 DEF t
<1> HIDE DEF seen
<1>4. d \in Books /\ d.queue \in Seq(Orders) /\ d.stops \in Seq(Orders)
  BY <1>1 DEF Sound, Books
<1>5. seen(d.queue) \in Seq(Orders) /\ seen(d.stops) \in Seq(Orders)
  BY <1>3, <1>4
<1>6. /\ c \in Books /\ c.pos = d.pos /\ c.liq = d.liq /\ c.tp = d.tp /\ c.tpSide = d.tpSide
      /\ c.queue = seen(d.queue) /\ c.stops = seen(d.stops) /\ c.status = d.status
  BY <1>2, <1>4, <1>5 DEF Books
<1>7. Sound(c, {})
  BY <1>1, <1>3, <1>4, <1>6 DEF Sound
<1>8. ASSUME NEW o \in ToSet(c.stops), o.ro, sign(b.pos) # -o.side
      PROVE  \E e \in ToSet(c.queue) \cup ToSet(c.stops) : ~e.ro /\ e.side = -o.side
  <2>1. PICK x \in ToSet(d.stops) : o.ro = x.ro /\ o.side = x.side
    BY <1>3, <1>4, <1>6
  <2>2. x \in ToSet(b.stops) /\ x \notin gone
    BY <1>1
  <2>3. -x.side \in entries
    BY <1>8, <2>1, <2>2
  <2>4. PICK y \in ToSet(b.queue) \cup ToSet(b.stops) : ~y.ro /\ y.side = -o.side
    BY <2>1, <2>3
  <2>5. y \in ToSet(d.queue) \cup ToSet(d.stops)
    BY <1>1, <2>4
  <2>6. PICK e \in ToSet(c.queue) \cup ToSet(c.stops) : e.ro = y.ro /\ e.side = y.side
    BY <1>3, <1>4, <1>6, <2>5
  <2> QED BY <2>4, <2>6
<1> QED BY <1>1, <1>6, <1>7, <1>8 DEF c

(* A whole bar, from a book at rest to a book at rest. *)
BarOk(b, bar, r) ==
    /\ Sound(r.b, {}) /\ (r.b.pos = 0 => r.b.liq = 0)
    /\ r.b.liq # 0 => sign(r.b.pos) = sign(b.pos)
    /\ r.fills \in Seq(Fills)
    /\ \A k \in 1 .. Len(r.fills) : FillOk(r.fills[k], bar.l, bar.h)
    /\ \A o \in ToSet(r.b.stops) : o.ro =>
          \/ sign(r.b.pos) = -o.side
          \/ \E e \in ToSet(r.b.queue) \cup ToSet(r.b.stops) : ~e.ro /\ e.side = -o.side

LEMMA OnBarSound ==
    ASSUME NEW b, Sound(b, {}), b.pos = 0 => b.liq = 0, NEW bar, IsBar(bar), bar.c \in Nat,
           NEW due
    PROVE  BarOk(b, bar, on_bar(b, bar, due))
<1> DEFINE z == [b |-> b, fills |-> <<>>]
           m == FillMarketOrders(z, bar)
           w == WalkTriggers(m, bar)
           r == on_bar(b, bar, due)
<1>1. b \in Books /\ b.pos \in Int
  BY DEF Sound, Books
<1>2. RunOk(z, b.pos, bar.l, bar.h) /\ Sound(z.b, {})
  <2>1. z.b = b /\ z.fills = <<>> /\ <<>> \in Seq(Fills) /\ Len(<<>>) = 0
    OBVIOUS
  <2>2. z \in Runs
    BY <1>1 DEF Runs
  <2> HIDE DEF z
  <2> QED BY <2>1, <2>2 DEF RunOk
<1> HIDE DEF z
<1>3. RunOk(m, b.pos, bar.l, bar.h) /\ Sound(m.b, {})
  BY <1>1, <1>2, MarketOk
<1> HIDE DEF m
<1>4. RunOk(w, b.pos, bar.l, bar.h) /\ Sound(w.b, {})
  BY <1>1, <1>3, WalkOk
<1> HIDE DEF w
<1>5. r.b = AfterWalk(w.b, bar) /\ r.fills = w.fills
  BY DEF on_bar, w, m, z
<1> HIDE DEF r
<1>6. /\ Sound(r.b, {}) /\ r.b.pos = w.b.pos /\ r.b.liq = w.b.liq
      /\ \A o \in ToSet(r.b.stops) : o.ro =>
            \/ sign(w.b.pos) = -o.side
            \/ \E e \in ToSet(r.b.queue) \cup ToSet(r.b.stops) : ~e.ro /\ e.side = -o.side
  BY <1>4, <1>5, AfterWalkSound
<1>7. w.fills \in Seq(Fills)
  BY <1>4 DEF RunOk, Runs
<1> QED BY <1>4, <1>5, <1>6, <1>7 DEF RunOk, r, BarOk
=============================================================================

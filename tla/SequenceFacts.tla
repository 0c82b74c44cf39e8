--------------------------- MODULE SequenceFacts ---------------------------
(***************************************************************************)
(* Facts the proofs share: induction over the natural numbers in a form    *)
(* that speaks of a set instead of a predicate, functions defined by       *)
(* recursion, what a selection from a list is, and ranks in a finite set.  *)
(***************************************************************************)
EXTENDS Lists, FiniteSets, FiniteSetTheorems, FunctionTheorems, WellFoundedInduction, TLAPS

(* A set of natural numbers that is not empty has a least element. *)
LEMMA LeastNat ==
    ASSUME NEW S \in SUBSET Nat, S # {}
    PROVE  \E m \in S : \A n \in S : m <= n
<1>1. PICK m \in S : \A n \in S : ~(<<n, m>> \in OpToRel(<, Nat))
  BY NatLessThanWellFounded, WFMin
<1>2. \A n \in S : <<n, m>> \in OpToRel(<, Nat) <=> n < m
  BY DEF OpToRel
<1>3. m \in Nat /\ \A n \in S : n \in Nat /\ ~(n < m)
  BY <1>1, <1>2
<1> QED BY <1>3

(* Induction from 0 up to n. *)
LEMMA InductionUpTo ==
    ASSUME NEW n \in Nat, NEW S, 0 \in S, \A i \in 0 .. (n - 1) : i \in S => i + 1 \in S
    PROVE  0 .. n \subseteq S
<1> SUFFICES ASSUME (0 .. n) \ S # {} PROVE FALSE
  OBVIOUS
<1>0. (0 .. n) \ S \in SUBSET Nat
  OBVIOUS
<1>1. PICK m \in (0 .. n) \ S : \A k \in (0 .. n) \ S : m <= k
  BY <1>0, LeastNat
<1>2. m # 0 /\ m - 1 \in 0 .. (n - 1) /\ m - 1 \in S
  BY <1>1
<1> QED BY <1>1, <1>2

(* f[0] is x, every further value comes from the one before it by F, and   *)
(* the values stay in the sets G[0] .. G[n].                               *)
IsRecursion(f, n, x, F, G) ==
    /\ f = [k \in 0 .. n |-> f[k]] /\ f[0] = x
    /\ \A k \in 1 .. n : f[k] = F[<<k, f[k - 1]>>]
    /\ \A k \in 0 .. n : f[k] \in G[k]

StepsWithin(n, F, G) == \A k \in 1 .. n : \A v \in G[k - 1] : F[<<k, v>>] \in G[k]

(* A function defined by recursion on 1 .. n exists. *)
LEMMA RecursionExists ==
    ASSUME NEW n \in Nat, NEW G, NEW x \in G[0], NEW F, StepsWithin(n, F, G)
    PROVE  \E f : IsRecursion(f, n, x, F, G)
<1> USE DEF IsRecursion, StepsWithin
<1> DEFINE Good(m, f) == /\ f = [k \in 0 .. m |-> f[k]] /\ f[0] = x
                         /\ \A k \in 1 .. m : f[k] = F[<<k, f[k - 1]>>]
                         /\ \A k \in 0 .. m : f[k] \in G[k]
           S == {m \in 0 .. n : \E f : Good(m, f)}
<1>1. 0 \in S
  <2> DEFINE f == [k \in 0 .. 0 |-> x]
  <2>1. f[0] = x /\ f = [k \in 0 .. 0 |-> f[k]]
    OBVIOUS
  <2>2. Good(0, f)
    BY <2>1
  <2> HIDE DEF f, Good
  <2> QED BY <2>2
<1>2. ASSUME NEW m \in 0 .. (n - 1), m \in S PROVE m + 1 \in S
  <2>1. PICK f : Good(m, f)
    BY <1>2
  <2> DEFINE g == [k \in 0 .. (m + 1) |-> IF k = m + 1 THEN F[<<m + 1, f[m]>>] ELSE f[k]]
  <2>2. F[<<m + 1, f[m]>>] \in G[m + 1]
    <3>1. m + 1 \in 1 .. n /\ (m + 1) - 1 = m /\ f[m] \in G[m]
      BY <2>1
    <3> QED BY <3>1
  <2>3. ASSUME NEW k \in 0 .. (m + 1)
        PROVE  /\ k = 0 => g[k] = x
               /\ k # 0 => g[k] = F[<<k, g[k - 1]>>]
               /\ g[k] \in G[k]
    <3>1. CASE k = m + 1
      BY <2>2, <3>1
    <3>2. CASE k # m + 1
      <4>1. k \in 0 .. m /\ g[k] = f[k]
        BY <3>2
      <4>2. k # 0 => k \in 1 .. m /\ k - 1 \in 0 .. m /\ g[k - 1] = f[k - 1]
        BY <4>1
      <4> QED BY <2>1, <4>1, <4>2
    <3> QED BY <3>1, <3>2
  <2>4. g = [k \in 0 .. (m + 1) |-> g[k]]
    OBVIOUS
  <2> HIDE DEF g
  <2>5. 0 \in 0 .. (m + 1) /\ \A k \in 1 .. (m + 1) : k \in 0 .. (m + 1) /\ k # 0
    OBVIOUS
  <2>6. Good(m + 1, g)
    BY <2>3, <2>4, <2>5
  <2> HIDE DEF Good
  <2> QED BY <2>6
<1>3. n \in S
  <2> HIDE DEF S
  <2> QED BY <1>1, <1>2, InductionUpTo
<1> QED BY <1>3

(* What a selection is: the members that are in the set, each once, in their order. *)
LEMMA KeptSelects ==
    ASSUME NEW V, NEW q \in Seq(V), NEW K
    PROVE  /\ Kept(q, K) \in Seq(V)
           /\ \E m \in [1 .. Len(Kept(q, K)) -> 1 .. Len(q)] :
                 /\ \A j \in 1 .. Len(Kept(q, K)) : Kept(q, K)[j] = q[m[j]] /\ q[m[j]] \in K
                 /\ \A i, j \in 1 .. Len(Kept(q, K)) : i < j => m[i] < m[j]
                 /\ \A a \in 1 .. Len(q) : q[a] \in K => \E j \in 1 .. Len(Kept(q, K)) : m[j] = a
<1> DEFINE n == Len(q)
           Step(i, t) == IF q[i] \in K THEN Append(t, q[i]) ELSE t
           Selects(i, t, m) ==
                 /\ \A j \in 1 .. Len(t) : t[j] = q[m[j]] /\ q[m[j]] \in K
                 /\ \A k, j \in 1 .. Len(t) : k < j => m[k] < m[j]
                 /\ \A a \in 1 .. i : q[a] \in K => \E j \in 1 .. Len(t) : m[j] = a
           G == [i \in 0 .. n |-> {t \in Seq(V) : \E m \in [1 .. Len(t) -> 1 .. i] : Selects(i, t, m)}]
           F == [p \in (1 .. n) \X Seq(V) |-> Step(p[1], p[2])]
           kept == CHOOSE f : f = [i \in 0 .. n |->
                        IF i = 0 THEN <<>> ELSE IF q[i] \in K THEN Append(f[i - 1], q[i]) ELSE f[i - 1]]
<1>0. n \in Nat /\ \A i \in 1 .. n : q[i] \in V
  OBVIOUS
<1>1. <<>> \in G[0]
  <2>1. <<>> \in Seq(V) /\ Len(<<>>) = 0
    OBVIOUS
  <2> DEFINE m == [j \in 1 .. 0 |-> 0]
  <2>2. m \in [1 .. Len(<<>>) -> 1 .. 0] /\ Selects(0, <<>>, m)
    BY <2>1
  <2>3. 0 \in 0 .. n
    BY <1>0
  <2> HIDE DEF m, Selects, n
  <2>4. \E w \in [1 .. Len(<<>>) -> 1 .. 0] : Selects(0, <<>>, w)
    BY <2>2
  <2> QED BY <2>1, <2>3, <2>4
<1>2. ASSUME NEW i \in 1 .. n, NEW t \in G[i - 1] PROVE Step(i, t) \in G[i] /\ t \in Seq(V)
  <2>1. i - 1 \in 0 .. n /\ i \in 0 .. n
    BY <1>0
  <2>2. t \in Seq(V) /\ \E m \in [1 .. Len(t) -> 1 .. (i - 1)] : Selects(i - 1, t, m)
    <3> HIDE DEF Selects
    <3> QED BY <2>1
  <2>3. PICK m \in [1 .. Len(t) -> 1 .. (i - 1)] : Selects(i - 1, t, m)
    BY <2>2
  <2>4. Len(t) \in Nat
    BY <2>2
  <2>5. CASE q[i] \notin K
    <3>1. m \in [1 .. Len(t) -> 1 .. i]
      BY <1>0, <2>3
    <3>2. Selects(i, t, m)
      <4>1. \A a \in 1 .. i : a = i \/ a \in 1 .. (i - 1)
        BY <1>0
      <4> QED BY <2>3, <2>5, <4>1
    <3> HIDE DEF Selects
    <3> QED BY <2>1, <2>2, <2>5, <3>1, <3>2
  <2>6. CASE q[i] \in K
    <3> DEFINE u == Append(t, q[i])
               l == Len(t)
               w == [j \in 1 .. (l + 1) |-> IF j = l + 1 THEN i ELSE m[j]]
    <3>1. u \in Seq(V) /\ Len(u) = l + 1 /\ u[l + 1] = q[i] /\ \A j \in 1 .. l : u[j] = t[j]
      BY <1>0, <2>2
    <3> HIDE DEF u
    <3>2. w \in [1 .. Len(u) -> 1 .. i]
      BY <1>0, <2>3, <2>4, <3>1
    <3>3. \A j \in 1 .. l : w[j] = m[j] /\ m[j] \in 1 .. (i - 1)
      <4> SUFFICES ASSUME NEW j \in 1 .. l PROVE w[j] = m[j] /\ m[j] \in 1 .. (i - 1)
        OBVIOUS
      <4>1. j \in 1 .. (l + 1) /\ j # l + 1
        BY <2>4
      <4> QED BY <2>3, <4>1
    <3>4. w[l + 1] = i
      BY <2>4
    <3> HIDE DEF w
    <3>5. \A j \in 1 .. (l + 1) : j = l + 1 \/ j \in 1 .. l
      BY <2>4
    <3>6. Selects(i, u, w)
      <4>1. ASSUME NEW j \in 1 .. (l + 1) PROVE u[j] = q[w[j]] /\ q[w[j]] \in K
        BY <2>3, <2>6, <3>1, <3>3, <3>4, <3>5
      <4>2. ASSUME NEW k \in 1 .. (l + 1), NEW j \in 1 .. (l + 1), k < j PROVE w[k] < w[j]
        <5>1. k \in 1 .. l
          BY <2>4, <4>2
        <5>2. CASE j = l + 1
          BY <1>0, <3>3, <3>4, <5>1, <5>2
        <5>3. CASE j \in 1 .. l
          BY <2>3, <3>3, <4>2, <5>1, <5>3
        <5> QED BY <3>5, <5>2, <5>3
      <4>3. ASSUME NEW a \in 1 .. i, q[a] \in K PROVE \E j \in 1 .. (l + 1) : w[j] = a
        <5>1. CASE a = i
          <6>1. l + 1 \in 1 .. (l + 1)
            BY <2>4
          <6> QED BY <3>4, <5>1, <6>1
        <5>2. CASE a \in 1 .. (i - 1)
          <6>1. PICK j \in 1 .. l : m[j] = a
            BY <2>3, <4>3, <5>2
          <6>2. j \in 1 .. (l + 1)
            BY <2>4
          <6> QED BY <3>3, <6>1, <6>2
        <5> QED BY <1>0, <5>1, <5>2
      <4> QED BY <3>1, <4>1, <4>2, <4>3
    <3> HIDE DEF Selects
    <3> QED BY <2>1, <2>2, <2>6, <3>1, <3>2, <3>6 DEF u
  <2> QED BY <2>2, <2>5, <2>6
<1>3. ASSUME NEW i \in 1 .. n, NEW t \in G[i - 1] PROVE F[<<i, t>>] = Step(i, t)
  BY <1>2
<1> HIDE DEF G, F
<1>4. PICK f : /\ f = [i \in 0 .. n |-> f[i]] /\ f[0] = <<>>
               /\ \A i \in 1 .. n : f[i] = F[<<i, f[i - 1]>>]
               /\ \A i \in 0 .. n : f[i] \in G[i]
  <2> HIDE DEF n, Step
  <2>1. \A i \in 1 .. n : \A t \in G[i - 1] : F[<<i, t>>] \in G[i]
    BY <1>2, <1>3
  <2>2. n \in Nat /\ StepsWithin(n, F, G)
    BY <1>0, <2>1 DEF StepsWithin
  <2>3. \E g : IsRecursion(g, n, <<>>, F, G)
    BY <1>1, <2>2, RecursionExists, Zenon
  <2> QED BY <2>3 DEF IsRecursion
<1>5. f = [i \in 0 .. n |-> IF i = 0 THEN <<>> ELSE IF q[i] \in K THEN Append(f[i - 1], q[i]) ELSE f[i - 1]]
  <2>1. ASSUME NEW i \in 0 .. n
        PROVE  f[i] = IF i = 0 THEN <<>> ELSE IF q[i] \in K THEN Append(f[i - 1], q[i]) ELSE f[i - 1]
    <3>1. CASE i = 0
      BY <1>0, <1>4, <3>1
    <3>2. CASE i # 0
      <4>1. i \in 1 .. n /\ f[i - 1] \in G[i - 1]
        BY <1>0, <1>4, <3>2
      <4>2. f[i] = F[<<i, f[i - 1]>>]
        BY <1>4, <4>1
      <4> QED BY <1>3, <3>2, <4>1, <4>2
    <3> QED BY <3>1, <3>2
  <2>2. f = [i \in 0 .. n |-> f[i]]
    BY <1>4
  <2> QED BY <2>1, <2>2
<1>6. kept = [i \in 0 .. n |-> IF i = 0 THEN <<>> ELSE IF q[i] \in K THEN Append(kept[i - 1], q[i]) ELSE kept[i - 1]]
  BY <1>5
<1> HIDE DEF kept
<1>7. \A i \in 0 .. n : kept[i] \in G[i]
  <2> DEFINE S == {i \in 0 .. n : kept[i] \in G[i]}
  <2>1. 0 \in S
    BY <1>0, <1>1, <1>6
  <2>2. ASSUME NEW i \in 0 .. (n - 1), i \in S PROVE i + 1 \in S
    <3>1. i + 1 \in 1 .. n /\ i + 1 \in 0 .. n /\ (i + 1) - 1 = i
      BY <1>0
    <3>2. kept[i + 1] = Step(i + 1, kept[i])
      <4>1. i + 1 # 0
        BY <1>0
      <4>2. kept[i + 1] = IF q[i + 1] \in K THEN Append(kept[(i + 1) - 1], q[i + 1]) ELSE kept[(i + 1) - 1]
        BY <1>6, <3>1, <4>1
      <4> QED BY <3>1, <4>2
    <3> QED BY <1>2, <2>2, <3>1, <3>2
  <2> HIDE DEF S
  <2>3. 0 .. n \subseteq S
    BY <1>0, <2>1, <2>2, InductionUpTo
  <2> QED BY <2>3 DEF S
<1>8. Kept(q, K) = kept[n]
  BY DEF Kept, kept
<1>9. kept[n] \in G[n]
  BY <1>0, <1>7
<1>10. kept[n] \in Seq(V) /\ \E m \in [1 .. Len(kept[n]) -> 1 .. n] : Selects(n, kept[n], m)
  <2> HIDE DEF Selects
  <2> QED BY <1>0, <1>9 DEF G
<1> QED BY <1>8, <1>10

(* The members of a selection, and that a member is selected once. *)
LEMMA KeptMembers ==
    ASSUME NEW V, NEW q \in Seq(V), NEW K
    PROVE  /\ Kept(q, K) \in Seq(V)
           /\ \A j \in 1 .. Len(Kept(q, K)) : \E a \in 1 .. Len(q) : Kept(q, K)[j] = q[a] /\ q[a] \in K
           /\ \A a \in 1 .. Len(q) : q[a] \in K => \E j \in 1 .. Len(Kept(q, K)) : Kept(q, K)[j] = q[a]
           /\ Len(Kept(q, K)) <= Len(q)
<1> DEFINE t == Kept(q, K)
<1>1. t \in Seq(V) /\ Len(t) \in Nat /\ Len(q) \in Nat
  BY KeptSelects
<1>2. PICK m \in [1 .. Len(t) -> 1 .. Len(q)] :
                 /\ \A j \in 1 .. Len(t) : t[j] = q[m[j]] /\ q[m[j]] \in K
                 /\ \A i, j \in 1 .. Len(t) : i < j => m[i] < m[j]
                 /\ \A a \in 1 .. Len(q) : q[a] \in K => \E j \in 1 .. Len(t) : m[j] = a
  BY KeptSelects
<1> HIDE DEF t
<1>3. Len(t) <= Len(q)
  <2> DEFINE S == {j \in 0 .. Len(t) : j # 0 => j <= m[j]}
  <2>1. 0 \in S
    BY <1>1
  <2>2. ASSUME NEW j \in 0 .. (Len(t) - 1), j \in S PROVE j + 1 \in S
    <3>1. j + 1 \in 1 .. Len(t) /\ j + 1 \in 0 .. Len(t)
      BY <1>1
    <3>2. m[j + 1] \in 1 .. Len(q)
      BY <1>2, <3>1
    <3>3. CASE j = 0
      BY <1>1, <3>1, <3>2, <3>3
    <3>4. CASE j # 0
      <4>1. j \in 1 .. Len(t) /\ j < j + 1 /\ m[j] \in 1 .. Len(q) /\ j <= m[j]
        BY <1>1, <1>2, <2>2, <3>4
      <4>2. m[j] < m[j + 1]
        BY <1>2, <3>1, <4>1
      <4> QED BY <1>1, <3>1, <3>2, <4>1, <4>2
    <3> QED BY <3>3, <3>4
  <2> HIDE DEF S
  <2>3. 0 .. Len(t) \subseteq S
    BY <1>1, <2>1, <2>2, InductionUpTo
  <2>4. Len(t) # 0 => Len(t) <= m[Len(t)] /\ m[Len(t)] \in 1 .. Len(q)
    BY <1>1, <1>2, <2>3 DEF S
  <2> QED BY <1>1, <2>4
<1>4. \A j \in 1 .. Len(t) : \E a \in 1 .. Len(q) : t[j] = q[a] /\ q[a] \in K
  BY <1>2
<1>5. \A a \in 1 .. Len(q) : q[a] \in K => \E j \in 1 .. Len(t) : t[j] = q[a]
  BY <1>2
<1> QED BY <1>1, <1>3, <1>4, <1>5 DEF t

(* Two places of a selection are two places of the list. *)
LEMMA KeptPlaces ==
    ASSUME NEW V, NEW q \in Seq(V), NEW K
    PROVE  \A i, j \in 1 .. Len(Kept(q, K)) : i # j =>
              \E a, b \in 1 .. Len(q) : a # b /\ Kept(q, K)[i] = q[a] /\ Kept(q, K)[j] = q[b]
<1> DEFINE t == Kept(q, K)
<1>1. Len(t) \in Nat
  BY KeptMembers
<1>2. PICK m \in [1 .. Len(t) -> 1 .. Len(q)] :
                 /\ \A j \in 1 .. Len(t) : t[j] = q[m[j]] /\ q[m[j]] \in K
                 /\ \A i, j \in 1 .. Len(t) : i < j => m[i] < m[j]
                 /\ \A a \in 1 .. Len(q) : q[a] \in K => \E j \in 1 .. Len(t) : m[j] = a
  BY KeptSelects
<1> HIDE DEF t
<1>3. ASSUME NEW i \in 1 .. Len(t), NEW j \in 1 .. Len(t), i # j
      PROVE  \E a, b \in 1 .. Len(q) : a # b /\ t[i] = q[a] /\ t[j] = q[b]
  <2>1. i < j \/ j < i
    BY <1>1, <1>3
  <2>2. m[i] # m[j] /\ m[i] \in 1 .. Len(q) /\ m[j] \in 1 .. Len(q)
    BY <1>2, <2>1
  <2> QED BY <1>2, <2>2
<1> QED BY <1>3 DEF t

(* b are the members of q that are in K, in their order. *)
SelectedFrom(q, b, K) ==
    \E m \in [1 .. Len(b) -> 1 .. Len(q)] :
        /\ \A j \in 1 .. Len(b) : b[j] = q[m[j]] /\ q[m[j]] \in K
        /\ \A i, j \in 1 .. Len(b) : i < j => m[i] < m[j]
        /\ \A a \in 1 .. Len(q) : q[a] \in K => \E j \in 1 .. Len(b) : m[j] = a

(* A filter selects. *)
LEMMA KeptIsSelected ==
    ASSUME NEW V, NEW q \in Seq(V), NEW K
    PROVE  SelectedFrom(q, Kept(q, K), K)
  BY KeptSelects DEF SelectedFrom

(* The list after its head. *)
LEMMA TailFacts ==
    ASSUME NEW V, NEW q \in Seq(V), q # <<>>
    PROVE  /\ Len(q) \in Nat /\ Len(q) > 0 /\ Head(q) = q[1] /\ q[1] \in V
           /\ Tail(q) \in Seq(V) /\ Len(Tail(q)) = Len(q) - 1
           /\ \A i \in 1 .. (Len(q) - 1) : Tail(q)[i] = q[i + 1]
OBVIOUS

(* The list with one more at its end. *)
LEMMA AppendFacts ==
    ASSUME NEW V, NEW q \in Seq(V), NEW x \in V
    PROVE  /\ Len(q) \in Nat /\ Append(q, x) \in Seq(V) /\ Len(Append(q, x)) = Len(q) + 1
           /\ Append(q, x)[Len(q) + 1] = x
           /\ \A i \in 1 .. Len(q) : Append(q, x)[i] = q[i] /\ q[i] \in V
OBVIOUS

-----------------------------------------------------------------------------
(* Ranks. *)

(* R orders S: of two members one is in front of the other. *)
OrderedBy(R, S) ==
    /\ \A a \in S : <<a, a>> \notin R
    /\ \A a, b \in S : a # b => <<a, b>> \in R \/ <<b, a>> \in R
    /\ \A a, b, d \in S : <<a, b>> \in R /\ <<b, d>> \in R => <<a, d>> \in R

InFront(R, S, a) == {b \in S : <<b, a>> \in R}

Ranked(R, S) ==
    /\ Cardinality(S) \in Nat
    /\ \A a \in S : Cardinality(InFront(R, S, a)) \in 0 .. (Cardinality(S) - 1)
    /\ \A a, b \in S : <<a, b>> \in R <=> Cardinality(InFront(R, S, a)) < Cardinality(InFront(R, S, b))
    /\ \A a, b \in S : Cardinality(InFront(R, S, a)) = Cardinality(InFront(R, S, b)) => a = b
    /\ \A k \in 0 .. (Cardinality(S) - 1) : \E a \in S : Cardinality(InFront(R, S, a)) = k

(* In an ordered finite set a member is known by how many are in front of it, *)
(* and every number below the size is that of a member.                       *)
LEMMA RankFacts ==
    ASSUME NEW S, IsFiniteSet(S), NEW R, OrderedBy(R, S)
    PROVE  Ranked(R, S)
<1> DEFINE n == Cardinality(S)
           F == [a \in S |-> InFront(R, S, a)]
           c == [a \in S |-> Cardinality(F[a])]
<1>1. n \in Nat
  BY FS_CardinalityType
<1>2. \A a \in S : F[a] \subseteq S /\ a \notin F[a] /\ F[a] = InFront(R, S, a)
  BY DEF InFront, OrderedBy
<1>3. \A a \in S : \A b \in S : b \in F[a] <=> <<b, a>> \in R
  BY DEF InFront
<1>4. \A a \in S : IsFiniteSet(F[a]) /\ c[a] \in 0 .. (n - 1)
  <2> TAKE a \in S
  <2>1. IsFiniteSet(F[a]) /\ Cardinality(F[a]) <= n /\ Cardinality(F[a]) # n
    BY <1>2, FS_Subset
  <2>2. Cardinality(F[a]) \in Nat
    BY <2>1, FS_CardinalityType
  <2> QED BY <1>1, <2>1, <2>2
<1> HIDE DEF F, n
<1>5. ASSUME NEW a \in S, NEW b \in S, <<a, b>> \in R PROVE c[a] < c[b]
  <2>1. F[a] \subseteq F[b]
    BY <1>2, <1>3, <1>5 DEF OrderedBy
  <2>2. F[a] # F[b]
    BY <1>2, <1>3, <1>5
  <2>3. Cardinality(F[a]) <= Cardinality(F[b]) /\ Cardinality(F[a]) # Cardinality(F[b])
    BY <1>4, <2>1, <2>2, FS_Subset
  <2>4. c[a] \in 0 .. (n - 1) /\ c[b] \in 0 .. (n - 1)
    BY <1>4
  <2> QED BY <1>1, <2>3, <2>4
<1> HIDE DEF c
<1>6. \A a, b \in S : c[a] = c[b] => a = b
  <2> SUFFICES ASSUME NEW a \in S, NEW b \in S, a # b PROVE c[a] # c[b]
    OBVIOUS
  <2>1. c[a] < c[b] \/ c[b] < c[a]
    BY <1>5 DEF OrderedBy
  <2>2. c[a] \in 0 .. (n - 1) /\ c[b] \in 0 .. (n - 1)
    BY <1>4
  <2> QED BY <1>1, <2>1, <2>2
<1>7. \A a, b \in S : c[a] < c[b] => <<a, b>> \in R
  <2> SUFFICES ASSUME NEW a \in S, NEW b \in S, c[a] < c[b], <<a, b>> \notin R PROVE FALSE
    OBVIOUS
  <2>1. c[a] \in 0 .. (n - 1) /\ c[b] \in 0 .. (n - 1)
    BY <1>4
  <2>2. a = b \/ c[b] < c[a]
    BY <1>5 DEF OrderedBy
  <2> QED BY <1>1, <2>1, <2>2
<1>8. \A k \in 0 .. (n - 1) : \E a \in S : c[a] = k
  <2> DEFINE T == 0 .. (n - 1)
  <2>1. c \in [S -> T]
    BY <1>4 DEF c
  <2>2. c \in Injection(S, T)
    <3> HIDE DEF T
    <3> QED BY <1>6, <2>1, Zenon DEF Injection, IsInjective
  <2>3. IsFiniteSet(T) /\ Cardinality(T) = n
    <3>1. 0 \in Int /\ n - 1 \in Int
      BY <1>1
    <3>2. IsFiniteSet(T) /\ Cardinality(T) = IF 0 > n - 1 THEN 0 ELSE (n - 1) - 0 + 1
      BY <3>1, FS_Interval
    <3> QED BY <1>1, <3>2
  <2> HIDE DEF T
  <2>4. c \in Surjection(S, T)
    BY <2>2, <2>3, FS_Injection DEF n
  <2>5. \A k \in T : \E a \in S : c[a] = k
    BY <2>4 DEF Surjection
  <2> QED BY <2>5 DEF T
<1>9. \A a \in S : c[a] = Cardinality(InFront(R, S, a))
  BY <1>2 DEF c
<1> QED BY <1>1, <1>4, <1>5, <1>6, <1>7, <1>8, <1>9 DEF n, Ranked

(* A finite set of numbers that is not empty has a largest and a smallest member. *)
LEMMA HasExtremes ==
    ASSUME NEW S \in SUBSET Int, IsFiniteSet(S), S # {}
    PROVE  /\ \E a \in S : \A b \in S : a >= b
           /\ \E a \in S : \A b \in S : a <= b
<1> DEFINE R == {p \in S \X S : p[1] < p[2]}
           n == Cardinality(S)
           c == [a \in S |-> Cardinality(InFront(R, S, a))]
<1>1. \A a, b \in S : <<a, b>> \in R <=> a < b
  OBVIOUS
<1> HIDE DEF R
<1>2. OrderedBy(R, S)
  BY <1>1 DEF OrderedBy
<1>3. /\ n \in Nat
      /\ \A a \in S : c[a] \in 0 .. (n - 1)
      /\ \A a, b \in S : <<a, b>> \in R <=> c[a] < c[b]
      /\ \A k \in 0 .. (n - 1) : \E a \in S : c[a] = k
  <2>1. /\ Cardinality(S) \in Nat
        /\ \A a \in S : Cardinality(InFront(R, S, a)) \in 0 .. (Cardinality(S) - 1)
        /\ \A a, b \in S : <<a, b>> \in R <=> Cardinality(InFront(R, S, a)) < Cardinality(InFront(R, S, b))
        /\ \A k \in 0 .. (Cardinality(S) - 1) : \E a \in S : Cardinality(InFront(R, S, a)) = k
    <3>1. Ranked(R, S)
      BY <1>2, RankFacts
    <3> QED BY <3>1 DEF Ranked
  <2>2. \A a \in S : c[a] = Cardinality(InFront(R, S, a))
    OBVIOUS
  <2> HIDE DEF c
  <2> QED BY <2>1, <2>2
<1> HIDE DEF c, n
<1>4. 0 \in 0 .. (n - 1) /\ n - 1 \in 0 .. (n - 1)
  <2>1. PICK a \in S : TRUE
    OBVIOUS
  <2>2. c[a] \in 0 .. (n - 1)
    BY <1>3
  <2> QED BY <1>3, <2>2
<1>5. PICK top \in S, low \in S : c[top] = n - 1 /\ c[low] = 0
  BY <1>3, <1>4
<1>6. \A b \in S : ~(top < b) /\ ~(b < low)
  <2> TAKE b \in S
  <2>1. c[b] \in 0 .. (n - 1)
    BY <1>3
  <2>2. ~(c[top] < c[b]) /\ ~(c[b] < c[low])
    BY <1>3, <1>5, <2>1
  <2> QED BY <1>1, <1>3, <2>2
<1>7. \A b \in S : top >= b /\ low <= b
  BY <1>6
<1> QED BY <1>7

(* The numbers of a finite set from the smallest on: each once, rising. *)
Rising(S, q) ==
    /\ q \in Seq(S) /\ Len(q) = Cardinality(S)
    /\ \A i, j \in 1 .. Len(q) : i < j => q[i] < q[j]
    /\ \A m \in S : \E i \in 1 .. Len(q) : q[i] = m

LEMMA SeqWider ==
    ASSUME NEW S, NEW T, S \subseteq T, NEW q \in Seq(S)
    PROVE  q \in Seq(T)
<1>1. Len(q) \in Nat /\ q \in [1 .. Len(q) -> S]
  OBVIOUS
<1>2. q \in [1 .. Len(q) -> T]
  BY <1>1
<1> QED BY <1>1, <1>2

LEMMA AscendingRises ==
    ASSUME NEW S \in SUBSET Int, IsFiniteSet(S)
    PROVE  Rising(S, Ascending(S))
<1> DEFINE N == Cardinality(S)
           R == {p \in S \X S : p[1] < p[2]}
           c == [m \in S |-> Cardinality(Under(S, m))]
           q == Ascending(S)
<1>1. N \in Nat
  BY FS_CardinalityType
<1>2. \A a, b \in S : <<a, b>> \in R <=> a < b
  OBVIOUS
<1>3. \A a \in S : InFront(R, S, a) = Under(S, a)
  BY <1>2 DEF InFront, Under
<1> HIDE DEF R
<1>4. OrderedBy(R, S)
  BY <1>2 DEF OrderedBy
<1>5. Ranked(R, S)
  BY <1>4, RankFacts
<1>6. q = [k \in 1 .. N |-> CHOOSE m \in S : c[m] = k - 1]
  BY DEF Ascending
<1>7. /\ \A a \in S : c[a] \in 0 .. (N - 1)
      /\ \A a, b \in S : a < b <=> c[a] < c[b]
      /\ \A a, b \in S : c[a] = c[b] => a = b
      /\ \A k \in 0 .. (N - 1) : \E a \in S : c[a] = k
  <2> DEFINE d == [a \in S |-> Cardinality(InFront(R, S, a))]
  <2>1. \A a \in S : c[a] = d[a]
    BY <1>3
  <2>2. /\ \A a \in S : d[a] \in 0 .. (N - 1)
        /\ \A a, b \in S : <<a, b>> \in R <=> d[a] < d[b]
        /\ \A a, b \in S : d[a] = d[b] => a = b
        /\ \A k \in 0 .. (N - 1) : \E a \in S : d[a] = k
    BY <1>5 DEF Ranked
  <2> HIDE DEF d, c, N
  <2> QED BY <1>2, <2>1, <2>2
<1> HIDE DEF c, N, q
<1>8. \A k \in 1 .. N : q[k] \in S /\ c[q[k]] = k - 1
  <2> TAKE k \in 1 .. N
  <2>1. k - 1 \in 0 .. (N - 1)
    BY <1>1
  <2>2. \E a \in S : c[a] = k - 1
    BY <1>7, <2>1
  <2> QED BY <1>6, <2>2
<1>9. q \in Seq(S) /\ Len(q) = N
  <2>1. q \in [1 .. N -> S]
    BY <1>6, <1>8
  <2> QED BY <1>1, <2>1
<1>10. ASSUME NEW i \in 1 .. N, NEW j \in 1 .. N, i < j PROVE q[i] < q[j]
  <2>1. c[q[i]] < c[q[j]] /\ q[i] \in S /\ q[j] \in S
    BY <1>1, <1>8, <1>10
  <2> QED BY <1>7, <2>1
<1>11. ASSUME NEW m \in S PROVE \E i \in 1 .. N : q[i] = m
  <2>1. c[m] + 1 \in 1 .. N /\ (c[m] + 1) - 1 = c[m]
    BY <1>1, <1>7
  <2>2. q[c[m] + 1] \in S /\ c[q[c[m] + 1]] = c[m]
    BY <1>8, <2>1
  <2>3. q[c[m] + 1] = m
    BY <1>7, <2>2
  <2> QED BY <2>1, <2>3
<1> QED BY <1>9, <1>10, <1>11 DEF Rising, q, N

=============================================================================

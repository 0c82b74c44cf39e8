------------------------------- MODULE Lists -------------------------------
(***************************************************************************)
(* Lists as the code filters and sorts them: [x for x in q if ...], where  *)
(* the condition is a set of members, so that facts about a selection can  *)
(* be stated for every condition at once, and sorted(numbers).             *)
(***************************************************************************)
EXTENDS Integers, Sequences, FiniteSets

(* The members of q that are in K, in their order. *)
Kept(q, K) ==
    LET kept[i \in 0..Len(q)] ==
            IF i = 0 THEN <<>>
            ELSE IF q[i] \in K THEN Append(kept[i - 1], q[i]) ELSE kept[i - 1]
    IN  kept[Len(q)]

(* The numbers of S from the smallest on, each at the place of its rank. *)
Under(S, m) == {x \in S : x < m}
Ascending(S) == [k \in 1..Cardinality(S) |-> CHOOSE m \in S : Cardinality(Under(S, m)) = k - 1]

=============================================================================

---------------------------- MODULE OrderRouter -----------------------------
(***************************************************************************)
(* The order router (execution/router.py): one call per order id, the      *)
(* stored acknowledgement for a repeated one, and the reconciliation of an *)
(* order whose call failed.                                                *)
(*                                                                         *)
(* The venue behind it is external.  A call may fail before or after it    *)
(* reached the venue; the venue keeps one order per id, as the paper       *)
(* broker does (paper_broker.py:163), and may be able to tell what became  *)
(* of an order (ReconcilableVenue), a question that may fail as well.  The *)
(* caller may repeat an id with the same content (a retry) or with another *)
(* (a mistake).                                                            *)
(***************************************************************************)
EXTENDS Naturals

CONSTANTS
    OrderIds, Contents,
    BadContents,       \* contents the venue refuses
    MaxSubmits         \* bound: calls of submit

VARIABLES
    rtKnown,           \* _requests and _acks: per id the request and its ack
    rtVenue,           \* the venue: per id the content and its status
    rtReconciles,      \* is the venue a ReconcilableVenue
    rtArrived,         \* per id: calls that arrived at the venue
    rtUnsure,          \* ids with a failed call that nobody could explain
    rtAnswer,          \* what the last submit returned
    rtSubmits          \* calls of submit

rtVars == <<rtKnown, rtVenue, rtReconciles, rtArrived, rtUnsure, rtAnswer, rtSubmits>>

NoOrder == [content |-> "none", status |-> "none"]

RouterInit ==
    /\ rtKnown = [i \in OrderIds |-> NoOrder]
    /\ rtVenue = [i \in OrderIds |-> NoOrder]
    /\ rtReconciles \in BOOLEAN
    /\ rtArrived = [i \in OrderIds |-> 0]
    /\ rtUnsure = {}
    /\ rtAnswer = [id |-> "none", content |-> "none", status |-> "none"]
    /\ rtSubmits = 0

Responded(i, c, status) ==
    /\ rtAnswer' = [id |-> i, content |-> c, status |-> status]
    /\ rtSubmits < MaxSubmits /\ rtSubmits' = rtSubmits + 1
    /\ UNCHANGED rtReconciles

Recorded(i, c, status) ==
    /\ rtKnown' = [rtKnown EXCEPT ![i] = [content |-> c, status |-> status]]
    /\ Responded(i, c, status)

(* The venue's side of a call that arrives: a known id is a duplicate, a   *)
(* bad order is rejected and remembered, any other is taken.               *)
Arrives(i, c) ==
    /\ rtArrived' = [rtArrived EXCEPT ![i] = @ + 1]
    /\ rtVenue' = IF rtVenue[i] # NoOrder THEN rtVenue
                  ELSE [rtVenue EXCEPT ![i] =
                          [content |-> c,
                           status |-> IF c \in BadContents THEN "REJECTED" ELSE "NEW"]]

(* An id the router knows never reaches the venue again. *)
SubmitKnown(i, c) ==
    /\ rtKnown[i] # NoOrder
    /\ Responded(i, c, IF rtKnown[i].content = c THEN rtKnown[i].status ELSE "DUPLICATE")
    /\ UNCHANGED <<rtKnown, rtVenue, rtArrived, rtUnsure>>

SubmitTaken(i, c) ==
    /\ rtKnown[i] = NoOrder
    /\ Arrives(i, c)
    /\ Recorded(i, c, IF rtVenue[i] # NoOrder THEN "DUPLICATE" ELSE rtVenue'[i].status)
    /\ UNCHANGED rtUnsure

(* Fault: the venue is not asked. *)
FaultyRecovered(i) == "none"

(* _reconcile: what the venue says of the order, "none" if it has none.    *)
Recovered(i) == rtVenue'[i].status

(* The call fails; the venue explains what became of it. *)
SubmitReconciled(i, c) ==
    /\ rtKnown[i] = NoOrder /\ rtReconciles
    /\ Arrives(i, c) \/ UNCHANGED <<rtVenue, rtArrived>>
    /\ IF Recovered(i) = "none"
       THEN Responded(i, c, "VENUE_ERROR") /\ UNCHANGED rtKnown
       ELSE Recorded(i, c, Recovered(i))
    /\ UNCHANGED rtUnsure

(* The call fails, and the venue cannot be asked or the question fails: the *)
(* id is not remembered, so that the caller may try again.                 *)
SubmitUnexplained(i, c) ==
    /\ rtKnown[i] = NoOrder
    /\ Arrives(i, c) \/ UNCHANGED <<rtVenue, rtArrived>>
    /\ Responded(i, c, "VENUE_ERROR")
    /\ rtUnsure' = rtUnsure \cup {i}
    /\ UNCHANGED rtKnown

RouterNext ==
    \E i \in OrderIds, c \in Contents :
        \/ SubmitKnown(i, c) \/ SubmitTaken(i, c)
        \/ SubmitReconciled(i, c) \/ SubmitUnexplained(i, c)

-----------------------------------------------------------------------------
(* The caller is told the truth, and an order is placed once.  An order    *)
(* reported NEW is live at the venue; an order reported as failed or       *)
(* rejected is not, and no second call of its id has arrived, unless a     *)
(* failed call of that id could not be explained.  (OrderRouter.submit,    *)
(* _reconcile)                                                             *)
RouterIsTruthful ==
    \A i \in OrderIds :
        /\ rtKnown[i].status = "NEW" => rtVenue[i].status = "NEW"
        /\ i \notin rtUnsure =>
              /\ rtArrived[i] <= 1
              /\ rtKnown[i].content = rtVenue[i].content
              /\ rtKnown[i].status = rtVenue[i].status
              /\ rtAnswer.id = i /\ rtAnswer.status = "VENUE_ERROR"
                     => rtVenue[i] = NoOrder

=============================================================================

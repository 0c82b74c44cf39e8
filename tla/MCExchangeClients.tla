-------------------------- MODULE MCExchangeClients --------------------------
(***************************************************************************)
(* The clients of the exchange side by side: a behaviour is one of the     *)
(* WebSocket client, of the REST client or of a loop over pages.  The      *)
(* parts share no state; "part" says which of them runs, and the others    *)
(* stand still.                                                            *)
(***************************************************************************)
EXTENDS WsClient, RestClient, Pagination

VARIABLE part

clientVars == <<part, wsVars, rcVars, pgVars>>

WsOff ==
    /\ wsTask = [c \in Conns |-> [NewTask EXCEPT !.pc = "done"]]
    /\ wsQueue = <<>> /\ wsStops = 0 /\ wsError = {} /\ wsConsumer = "left"
    /\ wsSeen = [c \in Conns |-> [n |-> 0, kind |-> "disconnected"]]

PageOff ==
    /\ pgJob = [kind |-> "trades", lo |-> 0, hi |-> LastKey, now |-> LastKey + 1]
    /\ pgData = {} /\ pgCursor = 0 /\ pgPrev = <<>> /\ pgGot = <<>> /\ pgSeams = {} /\ pgMismatches = <<>>
    /\ pgSeen = {} /\ pgRequests = 0
    /\ pgStatus = "done" /\ pgFault = FALSE

ClientsInit ==
    /\ RestInit
    /\ \/ part = "websocket" /\ WsInit /\ PageOff
       \/ part = "rest" /\ WsOff /\ PageOff
       \/ part = "pages" /\ WsOff /\ PageInit

ClientsNext ==
    /\ UNCHANGED part
    /\ \/ part = "websocket" /\ WsNext /\ UNCHANGED <<rcVars, pgVars>>
       \/ part = "rest" /\ RestNext /\ UNCHANGED <<wsVars, pgVars>>
       \/ part = "pages" /\ PageNext /\ UNCHANGED <<wsVars, rcVars>>

ClientsSpec ==
    ClientsInit /\ [][ClientsNext]_clientVars /\ WsFairness /\ RestFairness /\ PageFairness

(* The clients make progress: calls and loops end, a dead connection is    *)
(* dropped, and the consumer learns of a failure.                          *)
ClientsMakeProgress == CallEnds /\ PagingEnds /\ SilentIsDropped /\ FailureReachesConsumer

=============================================================================

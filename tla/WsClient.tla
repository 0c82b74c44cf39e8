------------------------------ MODULE WsClient ------------------------------
(***************************************************************************)
(* The WebSocket client: one task per connection, each opening sessions    *)
(* and backing off between them, a bounded queue they share, and the one   *)
(* consumer that must learn of every way they can end.                     *)
(*                                                                         *)
(* Source: ingest/ws_client.py (BinanceWsClient), ingest/reconnect.py      *)
(* (Backoff, HeartbeatWatchdog, CloseClass).                               *)
(*                                                                         *)
(* An item of the queue is a control record or a frame, numbered per       *)
(* connection in the order it was given to _put, which is the order it is  *)
(* recorded in.  Time is the silence of a connection, counted in steps     *)
(* since its last frame.  A receive that times out before the watchdog has *)
(* expired by its own clock only receives again, which is no step here.    *)
(* The length of a pause is the ceiling of the back-off; equal jitter      *)
(* keeps at least half of it.                                              *)
(***************************************************************************)
EXTENDS Integers, Sequences, FiniteSets

CONSTANTS
    Conns,          \* the connections, MARKET and PUBLIC
    QueueSize,      \* queue_size
    MaxConnects,    \* BOUND and code: max_connects
    MaxFrames,      \* BOUND: frames of one connection
    Timeout         \* heartbeat_timeout_s

ASSUME WsAssumption ==
    /\ QueueSize \in Nat \ {0} /\ MaxConnects \in Nat /\ MaxFrames \in Nat
    /\ Timeout \in Nat \ {0} /\ "none" \notin Conns     \* the stop signal is of no connection

VARIABLES
    wsTask,      \* per connection: its task and what it waits for
    wsQueue,     \* _queue
    wsStops,     \* stop signals that wait for room in the queue
    wsError,     \* _crash and _fatal
    wsConsumer,  \* items(): "run", "returned", "crash", "fatal" or "left"
    wsSeen       \* per connection: number and kind of the last item consumed

wsVars == <<wsTask, wsQueue, wsStops, wsError, wsConsumer, wsSeen>>

CloseClass ==
    {"NORMAL", "GOING_AWAY", "TRANSIENT", "SERVER_ERROR", "RATE_LIMITED",
     "HEARTBEAT_TIMEOUT", "PROTOCOL_ERROR", "HANDSHAKE_REJECTED"}

FATAL == {"PROTOCOL_ERROR", "HANDSHAKE_REJECTED"}
IMMEDIATE == {"NORMAL", "GOING_AWAY"}

(* What the two classifiers make of a close code and of an HTTP status. *)
ClassifyCloseCode(code) ==
    CASE code = 1000 -> "NORMAL"
      [] code \in {1001, 1012} -> "GOING_AWAY"
      [] code \in {1011, 1013, 1014} \cup 4000..4999 -> "SERVER_ERROR"
      [] code = 1008 -> "RATE_LIMITED"
      [] code \in {1002, 1003, 1007, 1009, 1010} -> "PROTOCOL_ERROR"
      [] OTHER -> "TRANSIENT"

ClassifyHttpStatus(status) ==
    CASE status \in {418, 429} -> "RATE_LIMITED"
      [] status \in 500..599 -> "SERVER_ERROR"
      [] status \in 400..499 \ {418, 429} -> "HANDSHAKE_REJECTED"
      [] OTHER -> "TRANSIENT"

(* The classes that are told apart: an open session is closed with a fatal *)
(* or an immediate one, a handshake fails with a fatal or a transient one; *)
(* a session is also lost to silence.                                      *)
SessionCloses == {ClassifyCloseCode(c) : c \in {1002, 1012}}
HandshakeCloses == {ClassifyHttpStatus(s) : s \in {404, 503}}

(* Backoff.ceiling with base 1, factor 2 and a cap. *)
Ceiling(attempt) ==
    CASE attempt = 0 -> 1 [] attempt = 1 -> 2 [] attempt = 2 -> 4 [] OTHER -> 8

-----------------------------------------------------------------------------
Stop == [conn |-> "none", kind |-> "stop", n |-> 0]

(* The records of a task: "attempt" is backoff.attempt, "opens" the        *)
(* attempts of _run_conn, "since" the disconnects since the last frame.    *)
NewTask ==
    [pc |-> "start", item |-> Stop, then |-> "none", opens |-> 0, attempt |-> 0,
     healthy |-> FALSE, silence |-> 0, recorded |-> 0, frames |-> 0, pause |-> 0, since |-> 0,
     cls |-> "TRANSIENT"]

WsInit ==
    /\ wsTask = [c \in Conns |-> NewTask]
    /\ wsQueue = <<>>
    /\ wsStops = 0
    /\ wsError = {}
    /\ wsConsumer = "run"
    /\ wsSeen = [c \in Conns |-> [n |-> 0, kind |-> "disconnected"]]

Done(c) == wsTask[c].pc \in {"returned", "raised", "done"}

(* _put: the item is recorded at once, and the task waits for room. *)
Putting(t, c, kind, then) ==
    [t EXCEPT !.pc = "put", !.then = then, !.recorded = @ + 1,
              !.item = [conn |-> c, kind |-> kind, n |-> t.recorded + 1]]

Lost(t, c, cls) == [Putting(t, c, "disconnected", "after") EXCEPT !.cls = cls, !.since = @ + 1]

Step(c, t) ==
    /\ wsTask' = [wsTask EXCEPT ![c] = t]
    /\ UNCHANGED <<wsQueue, wsStops, wsError, wsConsumer, wsSeen>>

(* _run_conn: the next round of the loop, which ends at max_connects. *)
Loop(c) ==
    /\ wsTask[c].pc \in {"start", "sleep"}
    /\ Step(c, IF wsTask[c].opens >= MaxConnects
                 THEN [wsTask[c] EXCEPT !.pc = "returned"]
                 ELSE [wsTask[c] EXCEPT !.pc = "connect", !.opens = @ + 1, !.pause = 0])

(* _session: the handshake succeeds, or fails with a class. *)
Connect(c) ==
    /\ wsTask[c].pc = "connect"
    /\ \/ Step(c, [Putting(wsTask[c], c, "connected", "recv") EXCEPT !.healthy = FALSE])
       \/ \E cls \in HandshakeCloses : Step(c, Lost(wsTask[c], c, cls))

ReceivedFrame(t, c) ==
    [Putting(t, c, "frame", "recv") EXCEPT
        !.frames = @ + 1, !.silence = 0, !.healthy = TRUE, !.since = 0,
        !.attempt = IF t.healthy THEN @ ELSE 0]

(* A frame of a stream: the heart beats, the first one of a session resets *)
(* the back-off, and the frame is put.                                     *)
Receive(c) ==
    /\ wsTask[c].pc = "recv" /\ wsTask[c].frames < MaxFrames
    /\ Step(c, ReceivedFrame(wsTask[c], c))

(* A frame that does not parse only beats the heart. *)
ReceiveBad(c) ==
    /\ wsTask[c].pc = "recv" /\ wsTask[c].silence > 0
    /\ Step(c, [wsTask[c] EXCEPT !.silence = 0])

Closed(c) ==
    /\ wsTask[c].pc = "recv"
    /\ \E cls \in SessionCloses : Step(c, Lost(wsTask[c], c, cls))

Expired(t) == t.silence >= Timeout
(* The receive times out and the watchdog has expired. *)
RecvTimeout(c) ==
    /\ wsTask[c].pc = "recv" /\ Expired(wsTask[c])
    /\ Step(c, Lost(wsTask[c], c, "HEARTBEAT_TIMEOUT"))

Waits(t) == (t.pc = "recv" \/ t.item.kind = "frame") /\ t.silence < Timeout

(* Time passes on every open session, those that wait for the queue too. *)
Tick ==
    /\ \E c \in Conns : Waits(wsTask[c])
    /\ wsTask' = [c \in Conns |->
                    IF Waits(wsTask[c]) THEN [wsTask[c] EXCEPT !.silence = @ + 1] ELSE wsTask[c]]
    /\ UNCHANGED <<wsQueue, wsStops, wsError, wsConsumer, wsSeen>>

(* An exception no class is known for ends the task. *)
Crash(c) ==
    /\ wsTask[c].pc \in {"connect", "recv"}
    /\ Step(c, [wsTask[c] EXCEPT !.pc = "raised"])

(* The item is put once there is room; a new session starts its watchdog. *)
PutItem(c) ==
    /\ wsTask[c].pc = "put" /\ Len(wsQueue) < QueueSize
    /\ wsQueue' = Append(wsQueue, wsTask[c].item)
    /\ wsTask' = [wsTask EXCEPT ![c].pc = wsTask[c].then, ![c].then = "none", ![c].item = Stop,
                                ![c].silence = IF wsTask[c].item.kind # "frame" THEN 0 ELSE @]
    /\ UNCHANGED <<wsStops, wsError, wsConsumer, wsSeen>>

(* Fault: a class that reconnects at once does so every time. *)
FaultyDelay(t) == IF t.cls \in IMMEDIATE THEN 0 ELSE Ceiling(t.attempt)

Delay(t) ==
    IF t.cls \in IMMEDIATE /\ t.attempt = 0 THEN 0 ELSE Ceiling(t.attempt)

(* After a disconnect was put: a fatal one is reported with a stop signal, *)
(* any other one is followed by a pause.                                   *)
AfterLoss(c) ==
    /\ wsTask[c].pc = "after"
    /\ IF wsTask[c].cls \in FATAL
         THEN /\ wsError' = wsError \cup {"fatal"}
              /\ wsTask' = [wsTask EXCEPT ![c].pc = "put", ![c].item = Stop, ![c].then = "returned"]
         ELSE /\ wsTask' = [wsTask EXCEPT ![c].pc = "sleep", ![c].pause = Delay(wsTask[c]),
                                          ![c].attempt = @ + 1, ![c].cls = "TRANSIENT"]
              /\ UNCHANGED wsError
    /\ UNCHANGED <<wsQueue, wsStops, wsConsumer, wsSeen>>

Signal(raised) == raised \/ \A d \in Conns : Done(d)
(* _on_task_done, called by the loop after the task has ended. *)
OnTaskDone(c) ==
    /\ wsTask[c].pc \in {"returned", "raised"}
    /\ wsTask' = [wsTask EXCEPT ![c].pc = "done"]
    /\ wsError' = IF wsTask[c].pc = "raised" THEN wsError \cup {"crash"} ELSE wsError
    /\ IF ~Signal(wsTask[c].pc = "raised")
         THEN UNCHANGED <<wsQueue, wsStops>>
         ELSE IF Len(wsQueue) < QueueSize
                THEN wsQueue' = Append(wsQueue, Stop) /\ UNCHANGED wsStops
                ELSE wsStops' = wsStops + 1 /\ UNCHANGED wsQueue
    /\ UNCHANGED <<wsConsumer, wsSeen>>

(* The stop task gets its room. *)
PutStop ==
    /\ wsStops > 0 /\ Len(wsQueue) < QueueSize
    /\ wsQueue' = Append(wsQueue, Stop)
    /\ wsStops' = wsStops - 1
    /\ UNCHANGED <<wsTask, wsError, wsConsumer, wsSeen>>

(* aclose: the tasks that still run are cancelled, with what they put. *)
Close ==
    /\ wsTask' = [c \in Conns |-> [NewTask EXCEPT !.pc = "done"]]
    /\ UNCHANGED <<wsStops, wsError>>

Ended ==
    CASE "crash" \in wsError -> "crash"
      [] "crash" \notin wsError /\ "fatal" \in wsError -> "fatal"
      [] OTHER -> IF \A c \in Conns : Done(c) THEN "returned" ELSE "run"

(* items: one item is taken; a stop signal is answered by what it is for. *)
Consume ==
    /\ wsConsumer = "run" /\ wsQueue # <<>>
    /\ wsQueue' = Tail(wsQueue)
    /\ IF Head(wsQueue) = Stop
         THEN /\ wsConsumer' = Ended
              /\ IF Ended = "run" THEN UNCHANGED <<wsTask, wsStops, wsError>> ELSE Close
              /\ UNCHANGED wsSeen
         ELSE /\ wsSeen' = [wsSeen EXCEPT ![Head(wsQueue).conn] =
                              [n |-> Head(wsQueue).n, kind |-> Head(wsQueue).kind]]
              /\ UNCHANGED <<wsTask, wsStops, wsError, wsConsumer>>

(* The consumer leaves the loop of its own accord. *)
Leave ==
    /\ wsConsumer = "run"
    /\ wsConsumer' = "left"
    /\ Close
    /\ UNCHANGED <<wsQueue, wsSeen>>

TaskStep(c) ==
    \/ Loop(c) \/ Connect(c) \/ Receive(c) \/ ReceiveBad(c) \/ Closed(c) \/ RecvTimeout(c)
    \/ Crash(c) \/ PutItem(c) \/ AfterLoss(c) \/ OnTaskDone(c)

WsNext == Tick \/ PutStop \/ Consume \/ Leave \/ (\E c \in Conns : TaskStep(c))

WsSpec == WsInit /\ [][WsNext]_wsVars

(* The loop runs what is ready, timers fire, and a blocked put is woken in *)
(* the order of its arrival, so that room goes to it again and again until *)
(* it has used it.  No frame, close or crash need ever come.               *)
WsFairness ==
    /\ WF_wsVars(Consume) /\ WF_wsVars(Tick) /\ SF_wsVars(PutStop)
    /\ \A c \in Conns :
         /\ WF_wsVars(Loop(c)) /\ WF_wsVars(RecvTimeout(c)) /\ WF_wsVars(AfterLoss(c))
         /\ WF_wsVars(OnTaskDone(c)) /\ SF_wsVars(PutItem(c))

-----------------------------------------------------------------------------
(* A connection is not opened in a hot loop: after two losses in a row     *)
(* without a frame between them the pause of _run_conn is the full ceiling *)
(* of the back-off for that many failures.  The back-off is reset by a     *)
(* frame, never by a handshake that merely succeeded.                      *)
BackoffHolds ==
    \A c \in Conns :
        wsTask[c].pc = "sleep" /\ wsTask[c].since >= 2
            => wsTask[c].pause >= Ceiling(wsTask[c].since - 1)

(* While the consumer runs, what it has consumed of a connection, what is  *)
(* queued and what waits to be put are together what was recorded, in that *)
(* order: two producers and a full queue lose and reorder nothing within a *)
(* connection, so a recorded session replays what the consumer saw.        *)
RecordedIsDelivered ==
    \A c \in Conns :
        LET mine == {k \in DOMAIN wsQueue : wsQueue[k].conn = c}
            waiting == IF wsTask[c].pc = "put" /\ wsTask[c].item # Stop THEN 1 ELSE 0
        IN wsConsumer = "run" =>
             /\ \A j, k \in mine : j < k => wsQueue[j].n < wsQueue[k].n
             /\ {wsQueue[k].n : k \in mine} = (wsSeen[c].n + 1)..(wsTask[c].recorded - waiting)

(* The consumer is never given a frame outside a session: it follows the   *)
(* "connected" record of its connection and precedes the "disconnected"    *)
(* one, and no session starts before the last one was reported lost.       *)
SessionsBracketed ==
    [][\A c \in Conns : wsSeen'[c] # wsSeen[c] =>
          \/ wsSeen[c].kind = "disconnected" /\ wsSeen'[c].kind # "frame"
          \/ wsSeen[c].kind # "disconnected" /\ wsSeen'[c].kind # "connected"]_wsVars

(* A task that crashed, a fatal close, or the end of all tasks always      *)
(* reaches the consumer, with the queue full or not.                       *)
FailureReachesConsumer ==
    (wsError # {} \/ \A c \in Conns : Done(c)) ~> wsConsumer # "run"

(* A session that stays silent is dropped: the two clocks never make the   *)
(* client wait on a dead connection for good.                              *)
SilentIsDropped ==
    \A c \in Conns :
        wsTask[c].pc = "recv" /\ wsTask[c].silence >= Timeout
            ~> wsTask[c].pc # "recv" \/ wsTask[c].silence = 0

(* A connection is sound: it backs off, loses nothing, and brackets its    *)
(* sessions.                                                               *)
ConnectionsAreSound == [](BackoffHolds /\ RecordedIsDelivered) /\ SessionsBracketed

=============================================================================

----------------------------- MODULE LiveStream -----------------------------
(***************************************************************************)
(* The live event stream: the listener on the database channel, the hub    *)
(* with its ring of past events and a bounded queue per subscriber, and    *)
(* the SSE streams that resume from the last event id they have seen.      *)
(*                                                                         *)
(* Source: api/live.py (LiveHub, PgLiveSource), api/routers/stream.py,     *)
(* api/services.py (ensure_live, aclose).                                  *)
(*                                                                         *)
(* An event is its number and its kind.  The client reads at its own pace, *)
(* drops its connection at any time and comes back with the last id it has *)
(* seen or with none, also to a process that has restarted and counts      *)
(* from one again.                                                         *)
(***************************************************************************)
EXTENDS Integers, Sequences, FiniteSets, SequencesExt, Lists

CONSTANTS
    Clients,
    Kinds,
    LiveQueueSize,   \* queue_size
    ReplaySize,      \* replay_size
    MaxEvents,       \* BOUND: notifications of one process
    MaxStreams       \* BOUND: streams opened by one client

ASSUME LiveAssumption ==
    /\ LiveQueueSize \in Nat \ {0} /\ ReplaySize \in Nat
    /\ MaxEvents \in Nat /\ MaxStreams \in Nat

VARIABLES
    lsSource,   \* PgLiveSource: "idle", "connecting", "up", "backoff" or "stopped"
    lsHub,      \* LiveHub: the events published (all of them: a history) and _closed
    lsSub,      \* per client: its subscription
    lsClient    \* per client: the last id it has seen (0: none), streams opened

lsVars == <<lsSource, lsHub, lsSub, lsClient>>

EndMark == [seq |-> 0, kind |-> "none"]     \* the None that ends a stream

Open == {"backlog", "live", "get"}       \* where a stream is in its loop

NoSub == [pc |-> "off", kinds |-> {}, backlog |-> <<>>, queue |-> <<>>, dropped |-> 0,
          closed |-> FALSE, late |-> FALSE, from |-> 0, due |-> {}, seen |-> <<>>]

LiveInit ==
    /\ lsSource = "idle"
    /\ lsHub = [log |-> <<>>, closed |-> FALSE]
    /\ lsSub = [c \in Clients |-> NoSub]
    /\ lsClient = [c \in Clients |-> [last |-> 0, streams |-> 0]]

LastSeq == Len(lsHub.log)

(* _ring: the last replay_size events. *)
Ring == SubSeq(lsHub.log, IF LastSeq > ReplaySize THEN LastSeq - ReplaySize + 1 ELSE 1, LastSeq)

(* Fault: the last event seen is sent again. *)
FaultyReplayAfter(last, kinds) == Kept(Ring, {e \in ToSet(Ring) : e.seq >= last /\ e.kind \in kinds})

ReplayAfter(last, kinds) == Kept(Ring, {e \in ToSet(Ring) : e.seq > last /\ e.kind \in kinds})

-----------------------------------------------------------------------------
(* PgLiveSource. *)

(* The first stream starts the listener, and so does one that finds it     *)
(* over.                                                                   *)
EnsureStarted == IF lsSource \in {"idle", "stopped"} THEN "connecting" ELSE lsSource

SourceConnects ==
    /\ lsSource = "connecting"
    /\ lsSource' \in {"up", "backoff"}
    /\ UNCHANGED <<lsHub, lsSub, lsClient>>

SourceLost ==
    /\ lsSource = "up" /\ lsSource' = "backoff"
    /\ UNCHANGED <<lsHub, lsSub, lsClient>>

SourceRetries ==
    /\ lsSource = "backoff" /\ lsSource' = "connecting"
    /\ UNCHANGED <<lsHub, lsSub, lsClient>>

-----------------------------------------------------------------------------
(* LiveHub. *)

(* publish, for one subscriber: a full queue loses its oldest item. *)
Offered(sub, e) ==
    IF sub.pc \notin Open \/ e.kind \notin sub.kinds THEN sub
    ELSE IF Len(sub.queue) >= LiveQueueSize
           THEN [sub EXCEPT !.queue = Append(Tail(@), e), !.dropped = @ + 1]
           ELSE [sub EXCEPT !.queue = Append(@, e)]

(* A transaction that notified commits while the listener is up, also      *)
(* between close() and stop(): the hub publishes the event.  A payload     *)
(* that does not decode is ignored, and changes nothing.                   *)
Publish(k) ==
    /\ lsSource = "up" /\ LastSeq < MaxEvents
    /\ LET e == [seq |-> LastSeq + 1, kind |-> k]
       IN  /\ lsHub' = [lsHub EXCEPT !.log = Append(@, e)]
           /\ lsSub' = [c \in Clients |-> Offered(lsSub[c], e)]
    /\ UNCHANGED <<lsSource, lsClient>>

(* subscribe: the backlog is taken and the queue registered in one step.   *)
(* due is a history variable: the numbers this stream owes its client from *)
(* the past.                                                               *)
OpenStream(c, kinds, resume) ==
    /\ lsSub[c].pc \in {"off", "ended"} /\ lsClient[c].streams < MaxStreams
    /\ LET backlog == IF resume THEN ReplayAfter(lsClient[c].last, kinds) ELSE <<>>
           first == IF resume THEN lsClient[c].last + 1 ELSE LastSeq + 1
       IN  lsSub' = [lsSub EXCEPT ![c] =
               [NoSub EXCEPT !.pc = "backlog", !.kinds = kinds, !.backlog = backlog,
                             !.late = lsHub.closed, !.from = LastSeq,
                             !.due = {i \in first..LastSeq : /\ i > LastSeq - ReplaySize
                                                             /\ lsHub.log[i].kind \in kinds}]]
    /\ lsClient' = [lsClient EXCEPT ![c].streams = @ + 1]
    /\ lsSource' = EnsureStarted
    /\ UNCHANGED lsHub

(* live: one event goes out; a client that has gone is noticed here. *)
Sent(c, e, sub) ==
    /\ lsSub' = [lsSub EXCEPT ![c] = [sub EXCEPT !.seen = Append(@, e.seq)]]
    /\ lsClient' = [lsClient EXCEPT ![c].last = e.seq]

SendBacklog(c) ==
    /\ lsSub[c].pc = "backlog" /\ lsSub[c].backlog # <<>>
    /\ Sent(c, Head(lsSub[c].backlog), [lsSub[c] EXCEPT !.backlog = Tail(@)])
    /\ UNCHANGED <<lsSource, lsHub>>

(* events(): the backlog is through; a hub that was closed at the start    *)
(* ends the stream.                                                        *)
GoLive(c) ==
    /\ lsSub[c].pc = "backlog" /\ lsSub[c].backlog = <<>>
    /\ lsSub' = [lsSub EXCEPT ![c].pc = IF lsSub[c].late THEN "ended" ELSE "live"]
    /\ UNCHANGED <<lsSource, lsHub, lsClient>>

(* The top of the loop, the only place where closed is looked at; the      *)
(* get() that follows waits for an item.                                   *)
NextItem(c) ==
    /\ lsSub[c].pc = "live"
    /\ lsSub' = [lsSub EXCEPT ![c].pc = IF lsSub[c].closed /\ lsSub[c].queue = <<>> THEN "ended" ELSE "get"]
    /\ UNCHANGED <<lsSource, lsHub, lsClient>>

SendNext(c) ==
    /\ lsSub[c].pc = "get" /\ lsSub[c].queue # <<>> /\ Head(lsSub[c].queue) # EndMark
    /\ Sent(c, Head(lsSub[c].queue), [lsSub[c] EXCEPT !.pc = "live", !.queue = Tail(@)])
    /\ UNCHANGED <<lsSource, lsHub>>

EndStream(c) ==
    /\ lsSub[c].pc = "get" /\ lsSub[c].queue # <<>> /\ Head(lsSub[c].queue) = EndMark
    /\ lsSub' = [lsSub EXCEPT ![c].pc = "ended"]
    /\ UNCHANGED <<lsSource, lsHub, lsClient>>

(* The client disconnects, or max_events were sent. *)
LeaveStream(c) ==
    /\ lsSub[c].pc \in Open
    /\ lsSub' = [lsSub EXCEPT ![c].pc = "off"]
    /\ UNCHANGED <<lsSource, lsHub, lsClient>>

(* Fault: a stream that waits is not woken. *)
FaultyClosing(sub) ==
    IF sub.pc \notin Open THEN sub
    ELSE [sub EXCEPT !.closed = TRUE]

(* close(), for one subscriber: only a stream that waits on an empty queue *)
(* needs the None.                                                         *)
Closing(sub) ==
    IF sub.pc \notin Open THEN sub
    ELSE [sub EXCEPT !.closed = TRUE, !.queue = IF @ = <<>> THEN <<EndMark>> ELSE @]

CloseHub ==
    /\ ~lsHub.closed
    /\ lsHub' = [lsHub EXCEPT !.closed = TRUE]
    /\ lsSub' = [c \in Clients |-> Closing(lsSub[c])]
    /\ UNCHANGED <<lsSource, lsClient>>

SourceStops ==
    /\ lsHub.closed /\ lsSource # "stopped"
    /\ lsSource' = "stopped"
    /\ UNCHANGED <<lsHub, lsSub, lsClient>>

(* The process is gone, with its numbers and its ring; the clients keep    *)
(* the last id they have seen.                                             *)
RestartApi ==
    /\ lsHub.log # <<>>
    /\ lsSource' = "idle"
    /\ lsHub' = [log |-> <<>>, closed |-> FALSE]
    /\ lsSub' = [c \in Clients |-> NoSub]
    /\ UNCHANGED lsClient

StreamStep(c) == SendBacklog(c) \/ GoLive(c) \/ NextItem(c) \/ SendNext(c) \/ EndStream(c)

LiveNext ==
    \/ SourceConnects \/ SourceLost \/ SourceRetries \/ CloseHub \/ SourceStops \/ RestartApi
    \/ \E k \in Kinds : Publish(k)
    \/ \E c \in Clients :
         \/ \E kinds \in {Kinds} \cup {{k} : k \in Kinds}, resume \in BOOLEAN : OpenStream(c, kinds, resume)
         \/ StreamStep(c) \/ LeaveStream(c)

LiveSpec == LiveInit /\ [][LiveNext]_lsVars

(* A connected client reads what is sent. *)
LiveFairness == \A c \in Clients : WF_lsVars(StreamStep(c))

-----------------------------------------------------------------------------
(* What an open stream owes: the past it asked for, as far as the ring     *)
(* still held it, and every event of its kinds since.                      *)
Owed(sub) == sub.due \cup {i \in (sub.from + 1)..LastSeq : lsHub.log[i].kind \in sub.kinds}

Seqs(q) == {q[i].seq : i \in DOMAIN q} \ {0}

(* A stream is exact: its numbers rise, none twice, and every event it     *)
(* owes was sent, waits, or is counted in dropped.  No event falls between *)
(* the replay of the ring and the queue, or comes through both.  A None    *)
(* that a late event pushes out of a closing stream is counted too, so the *)
(* count is exact until close (live.py subscribe, publish, close).         *)
StreamIsExact ==
    \A c \in Clients :
        LET s == lsSub[c]
            kept == ToSet(s.seen) \cup Seqs(s.backlog) \cup Seqs(s.queue)
        IN  /\ \A i, j \in DOMAIN s.seen : i < j => s.seen[i] < s.seen[j]
            /\ s.pc \in Open => kept \subseteq Owed(s)
            /\ s.pc \in Open /\ ~s.closed =>
                 Cardinality(Owed(s)) = Len(s.seen) + Len(s.backlog) + Len(s.queue) + s.dropped

(* Every stream of a hub that is closed ends: the shutdown of the API does *)
(* not wait for a stream for ever, whatever its queue held at the time.    *)
StreamsEnd ==
    \A c \in Clients : lsHub.closed /\ lsSub[c].pc \in Open ~> lsSub[c].pc \in {"off", "ended"}

=============================================================================

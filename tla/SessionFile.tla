---------------------------- MODULE SessionFile ----------------------------
(***************************************************************************)
(* The recording of a session of frames and control records in a file, and *)
(* its replay: by stream, in the order of arrival or of the time stamps,   *)
(* at the pace of the recording or at once.                                *)
(*                                                                         *)
(* Source: ingest/recorder.py (SessionRecorder), ingest/replay.py          *)
(* (iter_items, read_session, ReplayFeed).                                 *)
(*                                                                         *)
(* A record is its kind, its stream and its time stamp; the wall clock of  *)
(* the recording may jump back.  The recorder may be closed, aborted by an *)
(* exception, or die with the process; a later recording writes the same   *)
(* path.  The replay runs at speed 1.                                      *)
(***************************************************************************)
EXTENDS Integers, Sequences, FiniteSetsExt, SequencesExt, Lists

CONSTANTS
    Streams,       \* the kinds of stream a frame can belong to
    Stamps,        \* time stamps
    MaxItems,      \* BOUND: items of all recordings
    MaxSessions    \* BOUND: recordings of one path

ASSUME SessionFileAssumption == Stamps \subseteq Nat /\ MaxItems \in Nat /\ MaxSessions \in Nat

VARIABLES
    sfRec,     \* the recorder: "closed", "open", "footer" (written) or "flushed"
    sfPart,    \* content of path.part, <<>> if there is none
    sfFinal,   \* content of path, <<>> if there is none
    sfCount,   \* frames of the recorder; recordings begun and items written (history)
    sfFeed     \* the ReplayFeed: its source, its place in it, its clocks

sfVars == <<sfRec, sfPart, sfFinal, sfCount, sfFeed>>

Header == [kind |-> "header", stream |-> "none", ts |-> 0]
Footer(n) == [kind |-> "footer", stream |-> "none", ts |-> n]
Items == {[kind |-> "frame", stream |-> s, ts |-> t] : s \in Streams, t \in Stamps}
           \cup {[kind |-> "control", stream |-> "none", ts |-> t] : t \in Stamps}

NoFeed == [on |-> FALSE, source |-> <<>>, at |-> 0, env |-> 0, wall |-> 0, regressions |-> 0,
           keep |-> Streams, order |-> "arrival"]

FileInit ==
    /\ sfRec = "closed" /\ sfPart = <<>> /\ sfFinal = <<>>
    /\ sfCount = [frames |-> 0, sessions |-> 0, items |-> 0]
    /\ sfFeed = NoFeed

(* open: a new .part with the header. *)
OpenFile ==
    /\ sfRec = "closed" /\ sfCount.sessions < MaxSessions /\ ~sfFeed.on
    /\ sfRec' = "open"
    /\ sfPart' = <<Header>>
    /\ sfCount' = [sfCount EXCEPT !.frames = 0, !.sessions = @ + 1]
    /\ UNCHANGED <<sfFinal, sfFeed>>

(* write: one line, counted if it is a frame. *)
WriteItem ==
    /\ sfRec = "open" /\ sfCount.items < MaxItems
    /\ \E i \in Items :
         /\ sfPart' = Append(sfPart, i)
         /\ sfCount' = [sfCount EXCEPT !.items = @ + 1,
                                     !.frames = IF i.kind = "frame" THEN @ + 1 ELSE @]
    /\ UNCHANGED <<sfRec, sfFinal, sfFeed>>

(* close, in its steps: the footer, the close of the file, the rename. *)
WriteFooter ==
    /\ sfRec = "open"
    /\ sfPart' = Append(sfPart, Footer(sfCount.frames))
    /\ sfRec' = "footer"
    /\ UNCHANGED <<sfFinal, sfCount, sfFeed>>

FlushFile ==
    /\ sfRec = "footer"
    /\ sfRec' = "flushed"
    /\ UNCHANGED <<sfPart, sfFinal, sfCount, sfFeed>>

RenameFile ==
    /\ sfRec = "flushed"
    /\ sfFinal' = sfPart /\ sfPart' = <<>> /\ sfRec' = "closed"
    /\ UNCHANGED <<sfCount, sfFeed>>

(* abort: the part is closed and removed. *)
AbortFile ==
    /\ sfRec = "open"
    /\ sfPart' = <<>> /\ sfRec' = "closed"
    /\ UNCHANGED <<sfFinal, sfCount, sfFeed>>

(* The process dies: what was not flushed may be lost from the part, which *)
(* stays behind.                                                           *)
CrashFile ==
    /\ sfRec # "closed"
    /\ \E n \in 0..Len(sfPart) :
         /\ sfRec = "flushed" => n = Len(sfPart)
         /\ sfPart' = SubSeq(sfPart, 1, n)
    /\ sfRec' = "closed"
    /\ UNCHANGED <<sfFinal, sfCount, sfFeed>>

-----------------------------------------------------------------------------
(* iter_items: frames of the streams asked for and all control records. *)
Wanted(r, keep) == r.kind = "control" \/ (r.kind = "frame" /\ r.stream \in keep)
IterItems(file, keep) == Kept(file, {r \in ToSet(file) : Wanted(r, keep)})

(* Fault: a sort that is not stable. *)
FaultyEarlier(items, i) ==
    {j \in DOMAIN items : items[j].ts < items[i].ts \/ (items[j].ts = items[i].ts /\ j > i)}

(* A stable sort by the time stamp: the k-th is the one that k - 1 others  *)
(* come before.                                                            *)
Earlier(items, i) ==
    {j \in DOMAIN items : items[j].ts < items[i].ts \/ (items[j].ts = items[i].ts /\ j < i)}

SortByStamp(items) ==
    [k \in DOMAIN items |-> items[CHOOSE i \in DOMAIN items : Cardinality(Earlier(items, i)) = k - 1]]

Source(file, keep, order) ==
    IF order = "ingest_ts" THEN SortByStamp(IterItems(file, keep)) ELSE IterItems(file, keep)

(* A ReplayFeed reads the header and takes its items from the file.      *)
StartReplay ==
    /\ sfRec = "closed" /\ sfFinal # <<>> /\ ~sfFeed.on
    /\ Head(sfFinal) = Header
    /\ \E keep \in SUBSET Streams, order \in {"arrival", "ingest_ts"} :
         sfFeed' = [NoFeed EXCEPT !.on = TRUE, !.keep = keep, !.order = order,
                                  !.source = Source(sfFinal, keep, order)]
    /\ UNCHANGED <<sfRec, sfPart, sfFinal, sfCount>>

Wider(x, y) == IF x < y THEN y ELSE x

(* The item at the place of the feed is handed on once the wall clock has  *)
(* come as far as the envelope of the time stamps: a jump back of the      *)
(* recorded clock counts as a regression and is not waited for.            *)
Due(feed, ts, env) ==
    [feed EXCEPT !.at = @ + 1, !.env = env,
        !.regressions = IF feed.at > 0 /\ ts < feed.source[feed.at].ts THEN @ + 1 ELSE @,
        !.wall = Wider(@, env - feed.source[1].ts)]

Replay ==
    /\ sfFeed.on /\ sfFeed.at < Len(sfFeed.source)
    /\ LET ts == sfFeed.source[sfFeed.at + 1].ts
       IN sfFeed' = Due(sfFeed, ts, IF sfFeed.at = 0 THEN ts ELSE Wider(sfFeed.env, ts))
    /\ UNCHANGED <<sfRec, sfPart, sfFinal, sfCount>>

FileNext ==
    \/ OpenFile \/ WriteItem \/ WriteFooter \/ FlushFile \/ RenameFile \/ AbortFile \/ CrashFile
    \/ StartReplay \/ Replay

FileSpec == FileInit /\ [][FileNext]_sfVars

-----------------------------------------------------------------------------
(* A file under the final name is always a whole recording: a header, the  *)
(* items and a footer that counts the frames among them.  A crash, an      *)
(* exception or a second recording of the path never leaves a half one.    *)
FinalIsComplete ==
    sfFinal # <<>> =>
        LET n == Len(sfFinal)
        IN /\ n >= 2 /\ sfFinal[1] = Header
           /\ \A i \in 2..(n - 1) : sfFinal[i].kind \in {"frame", "control"}
           /\ sfFinal[n] = Footer(Cardinality({i \in 2..(n - 1) : sfFinal[i].kind = "frame"}))

(* source is what is wanted of the file, each record once: place[j] is where *)
(* the j-th of it was recorded.                                            *)
ReadAlong(place, source, file, keep, order) ==
    /\ \A j \in DOMAIN source : source[j] = file[place[j]]
    /\ {place[j] : j \in DOMAIN source} = {a \in DOMAIN file : Wanted(file[a], keep)}
    /\ \A i, j \in DOMAIN source : i < j =>
         \/ order = "ingest_ts" /\ source[i].ts < source[j].ts
         \/ (order = "ingest_ts" => source[i].ts = source[j].ts) /\ place[i] < place[j]

(* A replay hands on the control records and the frames of the chosen      *)
(* streams, each once: in the order they were recorded, or by time stamp   *)
(* with ties in that order.                                                *)
ReplayIsRecording ==
    sfFeed.on =>
        \E place \in [DOMAIN sfFeed.source -> {a \in DOMAIN sfFinal : Wanted(sfFinal[a], sfFeed.keep)}] :
            ReadAlong(place, sfFeed.source, sfFinal, sfFeed.keep, sfFeed.order)

(* The replay takes as long as the recorded clock ever was ahead of its    *)
(* first stamp, never longer: the steps back of the clock cost no time.    *)
ReplayKeepsPace ==
    sfFeed.on /\ sfFeed.at > 0 =>
        sfFeed.wall = Max({sfFeed.source[i].ts : i \in 1..sfFeed.at}) - sfFeed.source[1].ts

(* A recorded session can be relied on: the file is whole, and its replay is *)
(* the recording, at its pace.                                              *)
RecordingIsFaithful == FinalIsComplete /\ ReplayIsRecording /\ ReplayKeepsPace

=============================================================================

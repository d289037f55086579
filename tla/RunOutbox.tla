----------------------------- MODULE RunOutbox -----------------------------
(***************************************************************************)
(* The output of one run, from the engine's progress callback to the        *)
(* control plane's verdict that it holds all of it: the outbox of a         *)
(* runState (runner/internal/cloud/client_outbox.go, client_gates.go and    *)
(* the requeueing in client.go) and the part of the portal that stores      *)
(* progress and judges it complete (portal/apps/emisar/lib/emisar/runs.ex).  *)
(*                                                                          *)
(* Output goes out in messages numbered by seq.  The portal keeps one text   *)
(* per seq and counts them; it calls the output complete when the terminal   *)
(* result names the same count and no drops.  Lines merge into a queued      *)
(* message, a failed send requeues, a full outbox drops, a lost connection   *)
(* takes what is on the wire with it, and none of this may make the verdict  *)
(* lie.  Admission, acknowledgement and other runs are RunnerClient's.       *)
(***************************************************************************)
EXTENDS Naturals, Sequences, FiniteSets, SequencesExt

CONSTANTS
    Streams,            \* stdout and stderr
    Nothing,
    MaxPendingPerRun,
    MaxChunk,           \* pieces of output that fit a message: maxProgressChunkBytes
    MaxPieces           \* bound: pieces of output the action emits

ASSUME RunOutboxAssumption ==
    /\ MaxPendingPerRun \in Nat \ {0}
    /\ MaxChunk \in Nat \ {0}
    /\ MaxPieces \in Nat

-----------------------------------------------------------------------------
(* A piece of output is its stream and its position in what was emitted. *)

Pieces == Streams \X (1 .. MaxPieces)

Started == [kind |-> "started"]

Progress(seq, stream, text) ==
    [kind |-> "progress", seq |-> seq, stream |-> stream, text |-> text]

\* action_result: progress_chunks and dropped_progress_chunks.
Result(chunks, drops) == [kind |-> "result", chunks |-> chunks, drops |-> drops]

\* failedDispatchResult sets neither count, and progress_chunks goes out as 0.
Uncounted == Result(0, 0)

IsProgress(m) == m.kind = "progress"

Output == [kind : {"progress"}, seq : Nat \ {0}, stream : Streams, text : Seq(Pieces)]

Results == [kind : {"result"}, chunks : Nat, drops : Nat]

Messages == {Started} \cup Output \cup Results

\* nil is no message and no queue.
ASSUME NothingAssumption == Nothing \notin Messages /\ Nothing \notin Seq(Messages)

VARIABLES
    \* the runState and its handler
    status,       \* "gates", "running", "finished", or "gone" from Client.runs
    pending, attempted, progressSeq, dropped,
    terminal,     \* a result whose durable completion is owed, or Nothing
    minted,       \* enqueueProgressChunk's message on its way to enqueue
    emitted,      \* every piece the action has put out
    \* the dispatch log
    logged,       \* the recorded result, or Nothing
    acked,
    \* the connection
    session,      \* "up" or "down"
    sender,       \* what drainOnce has yet to send, or Nothing
    wire,
    announced,    \* this session was told of the start, or need not be
    \* the portal's run
    events,       \* run events: seq -> <<stream, text>>
    verdict,      \* "none" while the run is open, then "complete" or "incomplete"
    \* history
    lost          \* output was dropped, refused or lost on the way, or not counted

outbox  == <<pending, attempted, progressSeq, dropped, terminal, minted>>
portal  == <<events, verdict>>
vars == <<status, outbox, emitted, logged, acked, session, sender, wire, announced, portal, lost>>

TypeOK ==
    /\ status \in {"gates", "running", "finished", "gone"}
    /\ emitted \in Seq(Pieces) /\ Len(emitted) <= MaxPieces
    /\ progressSeq \in 0 .. Len(emitted) /\ dropped \in 0 .. progressSeq
    /\ attempted \in Nat
    /\ pending \in Seq(Messages) /\ wire \in Seq(Messages)
    /\ sender \in Seq(Messages) \cup {Nothing}
    /\ minted \in Output \cup {Nothing}
    /\ terminal \in Results \cup {Nothing} /\ logged \in Results \cup {Nothing}
    /\ \A i \in DOMAIN pending :
          IsProgress(pending[i]) =>
              /\ pending[i].seq \in 1 .. progressSeq
              /\ Len(pending[i].text) \in 1 .. MaxChunk
    /\ session \in {"up", "down"}
    /\ announced \in BOOLEAN /\ acked \in BOOLEAN /\ lost \in BOOLEAN
    /\ DOMAIN events \subseteq 1 .. Len(emitted)
    /\ verdict \in {"none", "complete", "incomplete"}

Init ==
    /\ status = "gates"
    /\ pending = << >> /\ attempted = 0 /\ progressSeq = 0 /\ dropped = 0
    /\ terminal = Nothing /\ minted = Nothing /\ emitted = << >>
    /\ logged = Nothing /\ acked = FALSE
    /\ session = "up" /\ sender = Nothing /\ wire = << >> /\ announced = FALSE
    /\ events = << >> /\ verdict = "none"
    /\ lost = FALSE

-----------------------------------------------------------------------------
(* The handler. *)

MarkRunStarted ==
    /\ status = "gates"
    /\ status' = "running"
    /\ pending' = Append(pending, Started)
    /\ UNCHANGED <<attempted, progressSeq, dropped, terminal, minted, emitted, logged, acked,
                   session, sender, wire, announced, portal, lost>>

\* Mutant of Merges: the size of the message is tested before the piece joins.
MergesOneMore(stream) ==
    LET last == Len(pending) IN
    /\ last > attempted
    /\ IsProgress(pending[last])
    /\ pending[last].stream = stream
    /\ Len(pending[last].text) <= MaxChunk

\* A piece may join the last message, unless a Send may have shown it already.
Merges(stream) ==
    LET last == Len(pending) IN
    /\ last > attempted
    /\ IsProgress(pending[last])
    /\ pending[last].stream = stream
    /\ Len(pending[last].text) < MaxChunk

\* enqueueProgressChunk.  The engine's mutex admits one call at a time.
EnqueueProgressChunk(stream) ==
    /\ status = "running" /\ minted = Nothing /\ Len(emitted) < MaxPieces
    /\ LET piece == <<stream, Len(emitted) + 1>> IN
       /\ emitted' = Append(emitted, piece)
       /\ IF Merges(stream)
          THEN /\ pending' = [pending EXCEPT ![Len(pending)].text = Append(@, piece)]
               /\ UNCHANGED <<progressSeq, minted>>
          ELSE /\ progressSeq' = progressSeq + 1
               /\ minted' = Progress(progressSeq + 1, stream, <<piece>>)
               /\ UNCHANGED pending
    /\ UNCHANGED <<status, attempted, dropped, terminal, logged, acked, session, sender, wire,
                   announced, portal, lost>>

\* enqueue, in a critical section of its own.  attempted is not told of the
\* eviction of a message it covers.
Enqueue ==
    /\ minted # Nothing
    /\ minted' = Nothing
    /\ LET oldest == SelectInSeq(pending, IsProgress) IN
       IF Len(pending) < MaxPendingPerRun
       THEN pending' = Append(pending, minted) /\ UNCHANGED <<dropped, lost>>
       ELSE /\ dropped' = dropped + 1
            /\ lost' = TRUE
            /\ pending' = IF oldest = 0 THEN pending
                          ELSE Append(RemoveAt(pending, oldest), minted)
    /\ UNCHANGED <<status, attempted, progressSeq, terminal, emitted, logged, acked, session,
                   sender, wire, announced, portal>>

\* The result is recorded and queued past the cap, or held until it can be.
Completed(r, queue) ==
    \/ /\ logged' = r /\ terminal' = Nothing
       /\ pending' = Append(queue, r)
    \/ /\ logged' = logged /\ terminal' = r
       /\ pending' = queue

\* The engine returns: its result carries the counts; that of an engine error, a
\* panic or a refusing gate does not.
FinishRun ==
    /\ status \in {"gates", "running"} /\ minted = Nothing
    /\ status' = "finished"
    /\ \/ status = "running" /\ Completed(Result(progressSeq, dropped), pending) /\ UNCHANGED lost
       \/ Completed(Uncounted, pending) /\ lost' = TRUE
    /\ UNCHANGED <<attempted, progressSeq, dropped, minted, emitted, acked, session, sender,
                   wire, announced, portal>>

-----------------------------------------------------------------------------
(* The sender: drainOnce. *)

\* retryTerminalPersistence, and the outbox is taken.
TakeOutbox ==
    /\ session = "up" /\ sender = Nothing /\ status # "gone"
    /\ pending # << >> \/ status = "finished"
    /\ \/ /\ terminal = Nothing
          /\ sender' = pending
          /\ UNCHANGED <<logged, terminal>>
       \/ /\ terminal # Nothing
          /\ \/ logged' = terminal /\ terminal' = Nothing /\ sender' = Append(pending, terminal)
             \/ sender' = pending /\ UNCHANGED <<logged, terminal>>
    /\ pending' = << >> /\ attempted' = 0
    /\ UNCHANGED <<status, progressSeq, dropped, minted, emitted, acked, session, wire,
                   announced, portal, lost>>

\* The frame leaves the runner.
OnWire(m) ==
    /\ wire' = Append(wire, m)
    /\ announced' = (announced \/ m = Started)

Send ==
    /\ session = "up" /\ sender \notin {Nothing, << >>}
    /\ OnWire(Head(sender))
    /\ sender' = Tail(sender)
    /\ UNCHANGED <<status, outbox, emitted, logged, acked, session, portal, lost>>

\* Mutant of Requeued: the prefix that was handed to Send is not protected.
RequeuedUnprotected == pending' = sender \o pending /\ UNCHANGED attempted

\* The messages from the failed one on go back to the front, and are protected.
Requeued ==
    /\ pending' = sender \o pending
    /\ attempted' = Len(sender)

\* Send fails, though the frame may be on its way.
SendFails ==
    /\ sender \notin {Nothing, << >>}
    /\ Requeued
    /\ sender' = Nothing /\ session' = "down"
    /\ OnWire(Head(sender)) \/ UNCHANGED <<wire, announced>>
    /\ UNCHANGED <<status, progressSeq, dropped, terminal, minted, emitted, logged, acked,
                   portal, lost>>

\* The tail is sent; a finished run with nothing left is removed.
SentAll ==
    /\ sender = << >>
    /\ sender' = Nothing
    /\ status' = IF status = "finished" /\ terminal = Nothing /\ pending = << >>
                 THEN "gone" ELSE status
    /\ UNCHANGED <<outbox, emitted, logged, acked, session, wire, announced, portal, lost>>

-----------------------------------------------------------------------------
(* Connections and processes. *)

\* The receive loop or the heartbeat fails; a Send under way fails with it.
ConnectionFails ==
    /\ session = "up" /\ sender = Nothing
    /\ session' = "down"
    /\ UNCHANGED <<status, outbox, emitted, logged, acked, sender, wire, announced, portal, lost>>

\* requeueUnacknowledgedResults: a removed run comes back for its result only.
WithResult(queue) ==
    IF logged # Nothing /\ ~ acked /\ queue = << >> THEN <<logged>> ELSE queue

\* Mutant of WithStart: the start is queued after the output.
WithStartLast(queue) ==
    IF status = "running" /\ ~ Contains(queue, Started) THEN Append(queue, Started) ELSE queue

\* requeueActiveStarts
WithStart(queue) ==
    IF status = "running" /\ ~ Contains(queue, Started) THEN <<Started>> \o queue ELSE queue

\* Mutant of Protected: the requeued start pushes a message out of the prefix.
ProtectedUnshifted == attempted

\* The protected prefix grows with the start requeued ahead of it.
Protected == IF WithStart(pending) # pending THEN attempted + 1 ELSE attempted

\* The old connection's frames are lost: the portal heeds only the newest one.
Connect ==
    /\ session = "down" /\ sender = Nothing
    /\ session' = "up"
    /\ LET queue == WithStart(WithResult(pending)) IN
       /\ pending' = queue
       /\ attempted' = Protected
       /\ status' = IF status = "gone" /\ queue # << >> THEN "finished" ELSE status
    /\ wire' = << >>
    /\ announced' = (status \notin {"gates", "running"})
    /\ lost' = (lost \/ \E i \in DOMAIN wire : /\ IsProgress(wire[i])
                                               /\ wire[i].seq \notin DOMAIN events
                                               /\ ~ Contains(pending, wire[i]))
    /\ UNCHANGED <<progressSeq, dropped, terminal, minted, emitted, logged, acked, sender, portal>>

\* The process dies.  The next one has the log: a recorded result, or a
\* reservation it answers with outcome_unknown, which knows no counts.
Crash ==
    /\ status # "gone"
    /\ status' = "gone"
    /\ pending' = << >> /\ attempted' = 0 /\ progressSeq' = 0 /\ dropped' = 0
    /\ terminal' = Nothing /\ minted' = Nothing
    /\ logged' = IF logged = Nothing THEN Uncounted ELSE logged
    /\ session' = "down" /\ sender' = Nothing
    /\ lost' = TRUE
    /\ UNCHANGED <<emitted, acked, wire, announced, portal>>

-----------------------------------------------------------------------------
(* The portal, one frame at a time. *)

\* append_event: closed runs and known seqs are refused, and so is what exceeds
\* the run's budget.
AppendEvent(m) ==
    IF verdict # "none" \/ m.seq \in DOMAIN events
    THEN UNCHANGED <<events, lost>>
    ELSE \/ /\ events' = [s \in DOMAIN events \cup {m.seq} |->
                            IF s = m.seq THEN <<m.stream, m.text>> ELSE events[s]]
            /\ UNCHANGED lost
         \/ lost' = TRUE /\ UNCHANGED events

\* output_complete?
OutputComplete(m) ==
    /\ m.drops = 0
    /\ m.chunks = Cardinality(DOMAIN events)

\* The acknowledgement reaches a runner that is still connected and done.
Acknowledgeable == session = "up" /\ logged # Nothing /\ pending = << >> /\ terminal = Nothing

ReceiveStarted ==
    /\ wire # << >> /\ Head(wire) = Started
    /\ wire' = Tail(wire)
    /\ UNCHANGED <<status, outbox, emitted, logged, acked, session, sender, announced, portal,
                   lost>>

ReceiveProgress ==
    /\ wire # << >> /\ IsProgress(Head(wire))
    /\ wire' = Tail(wire)
    /\ AppendEvent(Head(wire))
    /\ UNCHANGED <<status, outbox, emitted, logged, acked, session, sender, announced, verdict>>

\* finalize_from_connection.  The first result that is stored decides.
ReceiveResult ==
    /\ wire # << >> /\ Head(wire).kind = "result"
    /\ wire' = Tail(wire)
    /\ verdict' = IF verdict # "none" THEN verdict
                  ELSE IF OutputComplete(Head(wire)) THEN "complete" ELSE "incomplete"
    /\ \/ UNCHANGED <<acked, status>>
       \/ /\ Acknowledgeable
          /\ acked' = TRUE
          /\ status' = "gone"
    /\ UNCHANGED <<outbox, emitted, logged, session, sender, announced, events, lost>>

\* A failed finalize stores nothing; the result comes again.
FinalizeFails ==
    /\ wire # << >> /\ Head(wire).kind = "result" /\ verdict = "none"
    /\ wire' = Tail(wire)
    /\ UNCHANGED <<status, outbox, emitted, logged, acked, session, sender, announced, portal,
                   lost>>

-----------------------------------------------------------------------------
Handler == MarkRunStarted \/ (\E st \in Streams : EnqueueProgressChunk(st)) \/ Enqueue \/ FinishRun

Sender == TakeOutbox \/ Send \/ SendFails \/ SentAll

Portal == ReceiveStarted \/ ReceiveProgress \/ ReceiveResult \/ FinalizeFails

Next == Handler \/ Sender \/ Portal \/ ConnectionFails \/ Connect \/ Crash

Spec == Init /\ [][Next]_vars

-----------------------------------------------------------------------------
(* Properties. *)

\* The portal shows its events in the order of seq.
Before(s, i, t, j) == s < t \/ (s = t /\ i < j)

\* The events hold every piece the action emitted, once, in order, under its own
\* stream, and nothing else.
ShowsAll ==
    /\ \A k \in DOMAIN emitted : \E s \in DOMAIN events : Contains(events[s][2], emitted[k])
    /\ \A s, t \in DOMAIN events : \A i \in DOMAIN events[s][2], j \in DOMAIN events[t][2] :
          Before(s, i, t, j) => events[s][2][i][2] < events[t][2][j][2]
    /\ \A s \in DOMAIN events : \A i \in DOMAIN events[s][2] :
          events[s][2][i][1] = events[s][1] /\ Contains(emitted, events[s][2][i])

\* When the portal judges the engine's own result complete, its events are all of
\* the output - across merges, failed and repeated sends, reconnects, drops and
\* crashes.
CompleteMeansAll == verdict = "complete" /\ logged # Uncounted => ShowsAll

\* Nor is it denied without cause: the portal calls the output incomplete only if
\* a message was dropped, refused or lost with a connection, or the result had no
\* counts.  A send that failed and was repeated is no cause.
IncompleteMeansLost == verdict = "incomplete" => lost

\* The portal's verdict on the output is right either way.
VerdictRight == CompleteMeansAll /\ IncompleteMeansLost

Copies == {pending[i] : i \in DOMAIN pending}
          \cup {wire[i] : i \in DOMAIN wire}
          \cup (IF sender = Nothing THEN {} ELSE {sender[i] : i \in DOMAIN sender})

\* What the comment on runState.attempted asks for: the bytes behind a seq the
\* portal holds, or may hold, never change.
OneTextPerSeq ==
    \A m \in Copies : IsProgress(m) =>
        /\ m.seq \in DOMAIN events => events[m.seq] = <<m.stream, m.text>>
        /\ \A n \in Copies : IsProgress(n) /\ n.seq = m.seq => n = m

\* On every connection the start of an active run precedes its output.
AnnouncedFirst == (\E i \in DOMAIN wire : IsProgress(wire[i])) => announced

\* The comment on MaxPendingPerRun: it bounds the outbox.  The start and the
\* result may exceed it; the output may not.
OutboxBounded ==
    Cardinality({i \in DOMAIN pending : IsProgress(pending[i])}) <= MaxPendingPerRun

\* What the MCP API says of output_complete, whoever made the result: a progress
\* chunk that is missing is "never a silent gap".
NeverSilentGap == verdict = "complete" => ShowsAll

=============================================================================

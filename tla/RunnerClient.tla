---------------------------- MODULE RunnerClient ----------------------------
(***************************************************************************)
(* The runner's control-plane client (runner/internal/cloud/client.go,     *)
(* client_dispatch.go, client_gates.go, client_outbox.go): admission of    *)
(* dispatches, the per-request outboxes that outlive a connection, the     *)
(* sender, cancels, acknowledgements, reconnects and restarts.             *)
(*                                                                         *)
(* Three kinds of goroutine interleave: the session (dial, requeue, receive *)
(* and handle one frame at a time), the sender of that session, and one     *)
(* handler per started run.  A step is one critical section; sections that *)
(* no other goroutine can tell apart are merged.  A runState is an object:  *)
(* the map, the sender and a handler each hold a pointer, and the map may   *)
(* have moved on.  The dispatch log is the atomic ledger DispatchLog shows  *)
(* it to be, in which a commit may fail.  Progress output is left to        *)
(* RunOutbox.                                                              *)
(***************************************************************************)
EXTENDS Naturals, Sequences, FiniteSets, SequencesExt

CONSTANTS
    Requests,           \* request ids
    Digests,            \* digests of the execution facts of a dispatch
    Objects,            \* addresses of runState objects: a bound, see Allocate
    Nothing,            \* nil
    MaxConcurrentRuns,
    DedupRingSize,
    MaxPendingPerRun,
    LogMayWedge,        \* a rollback of the log may fail: unusable until restart
    LateRedelivery      \* a redelivery the control plane decided on before it had the
                        \* result may reach the runner after the acknowledgement

ASSUME RunnerClientAssumption ==
    /\ Objects \subseteq Nat /\ IsFiniteSet(Objects)
    /\ MaxConcurrentRuns \in Nat \ {0}
    /\ DedupRingSize \in Nat \ {0}
    /\ MaxPendingPerRun \in Nat \ {0}
    /\ LogMayWedge \in BOOLEAN
    /\ LateRedelivery \in BOOLEAN

-----------------------------------------------------------------------------
(* Messages and records. *)

\* Terminal results the log records: of the engine, of a stopped engine, of a
\* gate or a panic, of a cancel that came first, of a reservation that outlived
\* its process.
Recorded == {"ran", "stopped", "failed", "cancelled", "outcome_unknown"}

\* Terminal results that are only sent: dispatch_reservation_failed,
\* dispatch_id_conflict and dispatch_undecodable.
Refusals == {"reservation_failed", "id_conflict", "undecodable"}

Results == Recorded \cup Refusals

\* action_started and the concurrency_cap_reached error are answered by nothing.
Messages == Results \cup {"started", "capped"}

Record == [state  : {"none", "reserved", "completed", "acknowledged"},
           digest : Digests \cup {Nothing},
           result : Recorded \cup {Nothing}]

NoRecord == [state |-> "none", digest |-> Nothing, result |-> Nothing]

\* runState.  handler: the goroutine at work on it, if it ever had one.
RunState == [id : Requests, digest : Digests \cup {Nothing},
             pending : Seq(Messages), terminal : Recorded \cup {Nothing},
             started : BOOLEAN, finished : BOOLEAN, canceled : BOOLEAN,
             handler : {"none", "gates", "engine"}]

NewState(q, d) ==
    [id |-> q, digest |-> d, pending |-> << >>, terminal |-> Nothing,
     started |-> FALSE, finished |-> FALSE, canceled |-> FALSE, handler |-> "none"]

TransientState(q, msg) ==
    [NewState(q, Nothing) EXCEPT !.finished = TRUE, !.pending = <<msg>>]

\* nil is no object, result or record of any kind.
ASSUME NothingAssumption ==
    /\ Nothing \notin Objects /\ Nothing \notin Recorded
    /\ Nothing \notin RunState
    /\ Nothing \notin [Requests -> Record]
    /\ Nothing \notin [id : Requests, digest : Digests]

-----------------------------------------------------------------------------
VARIABLES
    \* the process
    runs,            \* Client.runs: request id -> address of its runState
    heap,            \* address -> runState
    preCanceled,     \* preCanceledOrder
    finalizeRetries,
    closing,
    session,         \* "down", "up" or "ending" (cancelled, loops not yet joined)
    sender,          \* at: where drainOnce is; obj: its s; msgs: still to send
    answering,       \* a pending reservation startRun has yet to answer
    \* the dispatch log
    ring,
    limbo,           \* Nothing, or the ring an unusable log may load instead
    \* the control plane
    owed,            \* ids whose result it received in this session and did not answer
    settled,         \* ids it has acknowledged
    \* history
    executions,      \* engine entries per id since its last acknowledgement; 2 is many
    reported,        \* recorded result sent per id since it was reserved
    disagreed,       \* ids for which two different ones were sent
    inherited,       \* ids a previous process left reserved
    denied,          \* ids cancelled before their dispatch, not yet answered
    spent,           \* those whose tombstone a reservation that then failed has consumed
    orphaned         \* ids whose state was removed under a handler at work

client  == <<runs, heap, preCanceled, finalizeRetries, closing, session, sender, answering>>
log     == <<ring, limbo>>
history == <<executions, reported, disagreed, inherited, denied, spent, orphaned>>
cloud   == <<owed, settled>>
vars    == <<client, log, cloud, history>>

Idle == [at |-> "idle", obj |-> 0, msgs |-> << >>]

Wedged == limbo # Nothing

Mapped(q) == runs[q] # Nothing

Active(o) == heap[o] # Nothing /\ heap[o].handler # "none"

TypeOK ==
    /\ runs \in [Requests -> Objects \cup {Nothing}]
    /\ \A o \in Objects : heap[o] = Nothing \/ heap[o] \in RunState
    /\ \A q \in Requests : Mapped(q) => heap[runs[q]] # Nothing /\ heap[runs[q]].id = q
    /\ preCanceled \in Seq(Requests) /\ Len(preCanceled) <= DedupRingSize
    /\ finalizeRetries \subseteq Requests
    /\ closing \in BOOLEAN
    /\ session \in {"down", "up", "ending"}
    /\ sender.at \in {"idle", "sending", "removing"}
    /\ sender # Idle => heap[sender.obj] # Nothing
    /\ ring \in [Requests -> Record]
    /\ Wedged => limbo \in [Requests -> Record]

Init ==
    /\ runs = [q \in Requests |-> Nothing]
    /\ heap = [o \in Objects |-> Nothing]
    /\ preCanceled = << >> /\ finalizeRetries = {}
    /\ closing = FALSE /\ session = "down" /\ sender = Idle /\ answering = Nothing
    /\ ring = [q \in Requests |-> NoRecord] /\ limbo = Nothing
    /\ owed = {} /\ settled = {}
    /\ executions = [q \in Requests |-> 0]
    /\ reported = [q \in Requests |-> Nothing]
    /\ disagreed = {} /\ inherited = {} /\ denied = {} /\ spent = {} /\ orphaned = {}

-----------------------------------------------------------------------------
(* Objects. *)

\* What garbage collection leaves of the objects h.
Live(h, r, snd) ==
    [o \in Objects |-> IF \/ \E q \in Requests : r[q] = o
                          \/ snd # Idle /\ snd.obj = o
                          \/ h[o] # Nothing /\ h[o].handler # "none"
                       THEN h[o] ELSE Nothing]

\* Bound: a step that needs more runStates at once than Objects is not taken.
CanAllocate == \E o \in Objects : heap[o] = Nothing

Allocate == CHOOSE o \in Objects : heap[o] = Nothing

Install(q, s) ==
    /\ CanAllocate
    /\ runs' = [runs EXCEPT ![q] = Allocate]
    /\ heap' = [heap EXCEPT ![Allocate] = s]

\* removeRun deletes by id, whatever object the id maps to by now.
RemoveRun(q, snd) ==
    /\ runs' = [runs EXCEPT ![q] = Nothing]
    /\ heap' = Live(heap, runs', snd)

-----------------------------------------------------------------------------
(* The dispatch log: dedupRing's operations, each atomic under its mutex. *)

\* commitTransitionLocked succeeds, or fails with the log rolled back, or fails
\* with the rollback failed too.
Commit(next) == ring' = next /\ UNCHANGED limbo

CommitFails(next) ==
    /\ UNCHANGED ring
    /\ \/ UNCHANGED limbo
       \/ LogMayWedge /\ limbo' = next

Reserved(q, d) ==
    [ring EXCEPT ![q] = [state |-> "reserved", digest |-> d, result |-> Nothing]]

\* Mutant of Reservations: a completed record may be evicted before its ack.
ReservationsEvictUnacked(q, d) ==
    IF Cardinality({p \in Requests : ring[p].state # "none"}) < DedupRingSize
    THEN {Reserved(q, d)}
    ELSE {[Reserved(q, d) EXCEPT ![p] = NoRecord] :
             p \in {p \in Requests : ring[p].state \in {"completed", "acknowledged"}}}

\* reserve on an unknown id: a full ring gives up an acknowledged record.
Reservations(q, d) ==
    IF Cardinality({p \in Requests : ring[p].state # "none"}) < DedupRingSize
    THEN {Reserved(q, d)}
    ELSE {[Reserved(q, d) EXCEPT ![p] = NoRecord] :
             p \in {p \in Requests : ring[p].state = "acknowledged"}}

\* complete(s, r) returns nil iff ok.
Complete(s, r, ok) ==
    LET mine == ~ Wedged /\ ring[s.id].digest = s.digest
        next == [ring EXCEPT ![s.id].state = "completed", ![s.id].result = r]
        same == mine /\ ring[s.id].result = r
    IN  IF mine /\ ring[s.id].state = "reserved"
        THEN IF ok THEN Commit(next) ELSE CommitFails(next)
        ELSE ok = same /\ UNCHANGED log

\* Mutant of Finished: the result is queued although its record is not durable.
FinishedQueuesAnyway(s, r, ok) ==
    [s EXCEPT !.finished = TRUE, !.pending = Append(@, r), !.terminal = Nothing]

\* Mutant of HandlerDone: the result that could not be completed is dropped.
HandlerDoneDropsTerminal(s) == [s EXCEPT !.handler = "none", !.terminal = Nothing]

\* finishRun, and retryTerminalPersistence on the result it could not complete.
Finished(s, r, ok) ==
    [s EXCEPT !.finished = TRUE,
              !.pending = IF ok THEN Append(@, r) ELSE @,
              !.terminal = IF ok THEN Nothing ELSE r]

-----------------------------------------------------------------------------
(* Frames from the control plane.  The session handles one at a time. *)

Receiving == session = "up" /\ answering = Nothing

EndSession == session' = "ending"

\* len(c.runs)
RunStates == Cardinality({q \in Requests : Mapped(q)})

\* Mutant of TransientFits: replies may fill the space kept for recorded results.
TransientFitsEverywhere(q) ==
    /\ ~ closing
    /\ IF Mapped(q) THEN Len(heap[runs[q]].pending) < MaxPendingPerRun
       ELSE RunStates < MaxConcurrentRuns + 2 * DedupRingSize

\* enqueueTransientLocked: one tranche of runStates is kept for recorded results.
TransientFits(q) ==
    /\ ~ closing
    /\ IF Mapped(q) THEN Len(heap[runs[q]].pending) < MaxPendingPerRun
       ELSE RunStates < MaxConcurrentRuns + DedupRingSize

AddTransient(q, msg) ==
    IF Mapped(q)
    THEN /\ heap' = [heap EXCEPT ![runs[q]].pending = Append(@, msg)]
         /\ UNCHANGED runs
    ELSE Install(q, TransientState(q, msg))

\* A reply that does not fit is errResponseBacklogFull: the session ends.
Reply(q, msg) ==
    IF TransientFits(q) THEN AddTransient(q, msg) /\ UNCHANGED session
    ELSE EndSession /\ UNCHANGED <<runs, heap>>

maxRunStates == MaxConcurrentRuns + 2 * DedupRingSize

\* startRun on an id no runState has; a frame for one that is mapped is ignored.
Dispatched(q) ==
    /\ Receiving /\ ~ closing /\ ~ Mapped(q)
    /\ q \in settled => LateRedelivery

Keeps == <<finalizeRetries, closing, sender, cloud>>

\* inspect fails on an unusable log ...
InspectFails(q) ==
    /\ Dispatched(q) /\ Wedged
    /\ Reply(q, "reservation_failed")
    /\ UNCHANGED <<preCanceled, answering, log, Keeps, history>>

\* ... or knows the id: handleReservationDecision.
ReplayResult(q, d) ==
    /\ Dispatched(q) /\ ~ Wedged
    /\ ring[q].state \in {"completed", "acknowledged"} /\ ring[q].digest = d
    /\ Reply(q, ring[q].result)
    /\ UNCHANGED <<preCanceled, answering, log, Keeps, history>>

RefuseConflict(q, d) ==
    /\ Dispatched(q) /\ ~ Wedged
    /\ ring[q].state # "none" /\ ring[q].digest # d
    /\ Reply(q, "id_conflict")
    /\ UNCHANGED <<preCanceled, answering, log, Keeps, history>>

FindPending(q, d) ==
    /\ Dispatched(q) /\ ~ Wedged
    /\ ring[q].state = "reserved" /\ ring[q].digest = d
    /\ answering' = [id |-> q, digest |-> d]
    /\ UNCHANGED <<runs, heap, preCanceled, session, log, Keeps, history>>

\* enqueueDurableResult, after c.mu was released.
AnswerPending ==
    /\ answering # Nothing
    /\ answering' = Nothing
    /\ LET q == answering.id
       IN  IF RunStates >= maxRunStates \/ Mapped(q)
           THEN EndSession /\ UNCHANGED <<runs, heap, log>>
           ELSE /\ UNCHANGED session
                /\ \E ok \in BOOLEAN :
                     LET s == NewState(q, answering.digest) IN
                     /\ Complete(s, "outcome_unknown", ok)
                     /\ Install(q, Finished(s, "outcome_unknown", ok))
    /\ UNCHANGED <<preCanceled, Keeps, history>>

\* Mutant of Unknown: reserve without having inspected the record.
UnknownNotInspected(q) == Dispatched(q) /\ ~ Wedged

\* An id the log does not know.
Unknown(q) == Dispatched(q) /\ ~ Wedged /\ ring[q].state = "none"

PreCanceled(q) == \E i \in DOMAIN preCanceled : preCanceled[i] = q

\* consumePreCancelLocked; an id is in the order once.
ConsumePreCancel(q) ==
    IF PreCanceled(q)
    THEN \E i \in DOMAIN preCanceled :
            preCanceled[i] = q /\ preCanceled' = RemoveAt(preCanceled, i)
    ELSE UNCHANGED preCanceled

\* Mutant of ActiveRuns: a run still at the gates is not counted.
ActiveRunsStarted == {q \in Requests : Mapped(q) /\ heap[runs[q]].started
                                      /\ ~ heap[runs[q]].finished}

\* countActiveRunsLocked
ActiveRuns == {q \in Requests : Mapped(q) /\ ~ heap[runs[q]].finished}

\* Mutant of RefuseAtCap: the cap is tested for a cancelled id too, after its
\* tombstone was consumed.
RefuseAtCapAnyway(q) ==
    /\ Unknown(q)
    /\ Cardinality(ActiveRuns) >= MaxConcurrentRuns
    /\ ConsumePreCancel(q)
    /\ Reply(q, "capped")
    /\ UNCHANGED <<answering, log, Keeps, history>>

RefuseAtCap(q) ==
    /\ Unknown(q) /\ ~ PreCanceled(q)
    /\ Cardinality(ActiveRuns) >= MaxConcurrentRuns
    /\ Reply(q, "capped")
    /\ UNCHANGED <<preCanceled, answering, log, Keeps, history>>

\* Past the cap test: admitted unless there are too many runStates.
Admitted(q) ==
    /\ Unknown(q)
    /\ \/ PreCanceled(q)
       \/ /\ Cardinality(ActiveRuns) < MaxConcurrentRuns
          /\ RunStates < maxRunStates

RefuseBacklog(q) ==
    /\ Unknown(q) /\ ~ PreCanceled(q)
    /\ Cardinality(ActiveRuns) < MaxConcurrentRuns
    /\ RunStates >= maxRunStates
    /\ EndSession
    /\ UNCHANGED <<runs, heap, preCanceled, answering, log, Keeps, history>>

\* The ring is full of unacknowledged records, or the commit fails: the tombstone
\* of a cancel is consumed by then.
ReserveFails(q, d) ==
    /\ Admitted(q)
    /\ ConsumePreCancel(q)
    /\ \/ Reservations(q, d) = {} /\ UNCHANGED log
       \/ \E next \in Reservations(q, d) : CommitFails(next)
    /\ Reply(q, "reservation_failed")
    /\ spent' = spent \cup (denied \cap {q})
    /\ UNCHANGED <<answering, Keeps, executions, reported, disagreed, inherited, denied,
                   orphaned>>

\* A cancel came first: the reservation is completed at once.
CancelBeforeStart(q, d) ==
    /\ Admitted(q) /\ PreCanceled(q)
    /\ ConsumePreCancel(q)
    /\ \E reserved \in Reservations(q, d), ok \in BOOLEAN :
         LET s == NewState(q, d)
             completed == [reserved EXCEPT ![q].state = "completed", ![q].result = "cancelled"]
         IN  /\ IF ok THEN Commit(completed)
                ELSE /\ ring' = reserved
                     /\ \/ UNCHANGED limbo
                        \/ LogMayWedge /\ limbo' = completed
             /\ Install(q, Finished(s, "cancelled", ok))
    /\ reported' = [reported EXCEPT ![q] = Nothing]
    /\ denied' = denied \ {q} /\ spent' = spent \ {q}
    /\ UNCHANGED <<answering, session, Keeps, executions, disagreed, inherited, orphaned>>

StartRun(q, d) ==
    /\ Admitted(q) /\ ~ PreCanceled(q)
    /\ \E reserved \in Reservations(q, d) : Commit(reserved)
    /\ Install(q, [NewState(q, d) EXCEPT !.handler = "gates"])
    /\ reported' = [reported EXCEPT ![q] = Nothing]
    /\ UNCHANGED <<preCanceled, answering, session, Keeps, executions, disagreed, inherited,
                   denied, spent, orphaned>>

\* refuseUndecodableDispatch; what does not fit is dropped, the session goes on.
RefuseUndecodable(q) ==
    /\ Dispatched(q) /\ TransientFits(q)
    /\ AddTransient(q, "undecodable")
    /\ UNCHANGED <<preCanceled, answering, session, log, Keeps, history>>

\* cancelRun: cancel the run's context, or remember an unknown id.
CancelActive(q) ==
    /\ Receiving /\ Mapped(q) /\ Active(runs[q])
    /\ heap' = [heap EXCEPT ![runs[q]].canceled = TRUE]
    /\ UNCHANGED <<runs, preCanceled, answering, session, log, Keeps, history>>

\* Mutant of RememberPreCancel: nothing is evicted.
RememberPreCancelUnbounded(q) ==
    /\ Receiving /\ ~ Mapped(q) /\ (Wedged \/ ring[q].state = "none")
    /\ ~ PreCanceled(q)
    /\ preCanceled' = Append(preCanceled, q)
    /\ denied' = denied \cup {q} /\ spent' = spent \ {q}
    /\ UNCHANGED <<runs, heap, answering, session, log, Keeps, executions, reported,
                   disagreed, inherited, orphaned>>

\* rememberPreCancelLocked; contains is false on an unusable log.
RememberPreCancel(q) ==
    /\ Receiving /\ ~ Mapped(q) /\ (Wedged \/ ring[q].state = "none")
    /\ ~ PreCanceled(q)
    /\ LET full == Len(preCanceled) >= DedupRingSize
           kept == IF full THEN Tail(preCanceled) ELSE preCanceled
       IN  /\ preCanceled' = Append(kept, q)
           /\ denied' = (denied \ IF full THEN {Head(preCanceled)} ELSE {}) \cup {q}
    /\ spent' = (spent \cap denied') \ {q}
    /\ UNCHANGED <<runs, heap, answering, session, log, Keeps, executions, reported,
                   disagreed, inherited, orphaned>>

\* ackRun.  An acknowledgement ahead of the outbox, of an unfinished run or of an
\* unusable log is dropped.
Acked(q) ==
    /\ Receiving /\ q \in owed
    /\ owed' = owed \ {q} /\ settled' = settled \cup {q}

Premature(q) ==
    Mapped(q) /\ LET s == heap[runs[q]]
                 IN  ~ s.finished \/ s.pending # << >> \/ s.terminal # Nothing

AckDropped(q) ==
    /\ Acked(q)
    /\ Premature(q) \/ Wedged \/ ring[q].state = "reserved"
    /\ UNCHANGED <<client, log, history>>

Acknowledged(q) == [ring EXCEPT ![q].state = "acknowledged"]

AckFails(q) ==
    /\ Acked(q)
    /\ ~ Premature(q) /\ ~ Wedged /\ ring[q].state = "completed"
    /\ CommitFails(Acknowledged(q))
    /\ UNCHANGED <<client, history>>

\* An id the log does not know (a refusal was acknowledged) needs no commit.
AckRun(q) ==
    /\ Acked(q)
    /\ ~ Premature(q) /\ ~ Wedged /\ ring[q].state # "reserved"
    /\ IF ring[q].state = "completed" THEN Commit(Acknowledged(q)) ELSE UNCHANGED log
    /\ finalizeRetries' = finalizeRetries \ {q}
    /\ RemoveRun(q, sender)
    /\ executions' = [executions EXCEPT ![q] = 0]
    /\ UNCHANGED <<preCanceled, closing, session, sender, answering, reported, disagreed,
                   inherited, denied, spent, orphaned>>

\* retryFinalization on a finalize_failed error.
FinalizeFailed(q) ==
    /\ Receiving /\ q \in owed
    /\ owed' = owed \ {q} /\ UNCHANGED settled
    /\ ~ Wedged /\ ring[q].state = "completed" /\ q \notin finalizeRetries
    /\ TransientFits(q)
    /\ AddTransient(q, ring[q].result)
    /\ finalizeRetries' = finalizeRetries \cup {q}
    /\ UNCHANGED <<preCanceled, closing, session, sender, answering, log, history>>

\* ... with the retry spent, no result to retry, or no room.
FinalizeFailedIgnored(q) ==
    /\ Receiving /\ q \in owed
    /\ owed' = owed \ {q} /\ UNCHANGED settled
    /\ Wedged \/ ring[q].state # "completed" \/ q \in finalizeRetries \/ ~ TransientFits(q)
    /\ UNCHANGED <<client, log, history>>

-----------------------------------------------------------------------------
(* Handlers: handleRun. *)

\* Both gates pass; markRunStarted, and the engine is entered.
PassGates(o) ==
    /\ Active(o) /\ heap[o].handler = "gates"
    /\ heap' = [heap EXCEPT ![o].handler = "engine", ![o].started = TRUE,
                            ![o].pending = Append(@, "started")]
    /\ LET q == heap[o].id IN
       executions' = [executions EXCEPT ![q] = IF @ = 0 THEN 1 ELSE 2]
    /\ UNCHANGED <<runs, preCanceled, finalizeRetries, closing, session, sender, answering,
                   log, cloud, reported, disagreed, inherited, denied, spent, orphaned>>

\* finishRun with what the gates, the engine or the recovered panic made of it;
\* the handler returns.
HandlerResults(s) ==
    IF s.handler = "gates" THEN {"failed"}
    ELSE {"ran"} \cup IF s.canceled THEN {"stopped"} ELSE {}

HandlerDone(s) == [s EXCEPT !.handler = "none"]

FinishRun(o) ==
    /\ Active(o)
    /\ \E r \in HandlerResults(heap[o]), ok \in BOOLEAN :
         /\ Complete(heap[o], r, ok)
         /\ heap' = Live([heap EXCEPT ![o] = HandlerDone(Finished(heap[o], r, ok))], runs, sender)
    /\ UNCHANGED <<runs, preCanceled, finalizeRetries, closing, session, sender, answering,
                   cloud, history>>

-----------------------------------------------------------------------------
(* The sender: drainOnce on one runState of its snapshot after the other.  A    *)
(* state of the snapshot stays mapped until the sender comes to it, so taking   *)
(* them from the map at that time is the same.                                 *)

\* retryTerminalPersistence, then take the outbox.
TakeOutbox(q) ==
    /\ session # "down" /\ sender = Idle /\ Mapped(q)
    /\ LET o == runs[q]
           s == heap[o]
           Take(t) ==
               /\ sender' = [at |-> "sending", obj |-> o, msgs |-> t.pending]
               /\ heap' = [heap EXCEPT ![o] = [t EXCEPT !.pending = << >>]]
       IN  \/ s.terminal = Nothing /\ (s.pending # << >> \/ s.finished)
              /\ Take(s) /\ UNCHANGED log
           \/ s.terminal # Nothing /\ \E ok \in BOOLEAN :
                 /\ Complete(s, s.terminal, ok)
                 /\ Take(Finished(s, s.terminal, ok))
    /\ UNCHANGED <<runs, preCanceled, finalizeRetries, closing, session, answering, cloud,
                   history>>

\* The control plane receives message m for id q.
Delivered(q, m) ==
    /\ reported' = IF m \in Recorded THEN [reported EXCEPT ![q] = m] ELSE reported
    /\ disagreed' = IF m \in Recorded /\ reported[q] \notin {Nothing, m}
                    THEN disagreed \cup {q} ELSE disagreed
    /\ UNCHANGED <<executions, inherited, denied, spent, orphaned>>

Send ==
    /\ session = "up" /\ sender.at = "sending" /\ sender.msgs # << >>
    /\ sender' = [sender EXCEPT !.msgs = Tail(@)]
    /\ LET q == heap[sender.obj].id
           m == Head(sender.msgs)
       IN  /\ Delivered(q, m)
           /\ owed' = IF m \in Results THEN owed \cup {q} ELSE owed
    /\ UNCHANGED <<runs, heap, preCanceled, finalizeRetries, closing, session, answering, log,
                   settled>>

\* Send fails, though the control plane may have the message: requeue and end.
SendFails ==
    /\ sender.at = "sending" /\ sender.msgs # << >>
    /\ sender' = Idle
    /\ heap' = Live([heap EXCEPT ![sender.obj].pending = sender.msgs \o @], runs, sender')
    /\ EndSession
    /\ \/ UNCHANGED history
       \/ Delivered(heap[sender.obj].id, Head(sender.msgs))
    /\ UNCHANGED <<runs, preCanceled, finalizeRetries, closing, answering, log, cloud>>

\* The tail is sent: a finished run with an empty outbox is to be removed ...
SentAll ==
    /\ sender.at = "sending" /\ sender.msgs = << >>
    /\ LET s == heap[sender.obj] IN
       IF s.finished /\ s.terminal = Nothing /\ s.pending = << >>
       THEN sender' = [sender EXCEPT !.at = "removing"] /\ UNCHANGED heap
       ELSE sender' = Idle /\ heap' = Live(heap, runs, sender')
    /\ UNCHANGED <<runs, preCanceled, finalizeRetries, closing, session, answering, log, cloud,
                   history>>

\* ... in a critical section of its own.
RemoveSent ==
    /\ sender.at = "removing"
    /\ sender' = Idle
    /\ LET q == heap[sender.obj].id IN
       /\ RemoveRun(q, sender')
       /\ orphaned' = orphaned \cup IF Mapped(q) /\ Active(runs[q]) THEN {q} ELSE {}
    /\ UNCHANGED <<preCanceled, finalizeRetries, closing, session, answering, log, cloud,
                   executions, reported, disagreed, inherited, denied, spent>>

-----------------------------------------------------------------------------
(* Sessions and processes. *)

\* Mutant of Unacknowledged: a result sent once is not sent again.
UnacknowledgedUnsent == {q \in Requests : ring[q].state = "completed" /\ reported[q] = Nothing}

\* unacknowledgedResults
Unacknowledged == IF Wedged THEN {} ELSE {q \in Requests : ring[q].state = "completed"}

\* requeueUnacknowledgedResults on the state, if any, of one id.
WithResult(s, r) ==
    IF s.pending = << >> THEN [s EXCEPT !.pending = <<r>>, !.finished = TRUE] ELSE s

\* requeueActiveStarts
WithStart(s) ==
    IF s.started /\ ~ s.finished /\ ~ Contains(s.pending, "started")
    THEN [s EXCEPT !.pending = <<"started">> \o @] ELSE s

\* A dial succeeds and the state is advertised: recorded results not yet
\* acknowledged, and the starts of active runs, go back into the outboxes.
Connect ==
    /\ session = "down" /\ ~ closing
    /\ session' = "up"
    /\ LET fresh == {q \in Unacknowledged : ~ Mapped(q)}
       IN  \E place \in [fresh -> {o \in Objects : heap[o] = Nothing}] :
             /\ \A p, q \in fresh : place[p] = place[q] => p = q
             /\ runs' = [q \in Requests |-> IF q \in fresh THEN place[q] ELSE runs[q]]
             /\ heap' = [o \in Objects |->
                  IF \E q \in fresh : place[q] = o
                  THEN LET q == CHOOSE q \in fresh : place[q] = o
                       IN  TransientState(q, ring[q].result)
                  ELSE IF heap[o] = Nothing \/ \A q \in Requests : runs[q] # o THEN heap[o]
                  ELSE WithStart(IF heap[o].id \in Unacknowledged
                                 THEN WithResult(heap[o], ring[heap[o].id].result)
                                 ELSE heap[o])]
    /\ UNCHANGED <<preCanceled, finalizeRetries, closing, sender, answering, log, cloud, history>>

\* The receive, the heartbeat or the advertisement fails, or a rotation is due.
SessionFails ==
    /\ Receiving
    /\ EndSession
    /\ UNCHANGED <<runs, heap, preCanceled, finalizeRetries, closing, sender, answering, log,
                   cloud, history>>

\* The loops are joined.  Answers under way are lost with the connection.
SessionEnds ==
    /\ session = "ending" /\ sender = Idle /\ answering = Nothing
    /\ session' = "down"
    /\ owed' = {}
    /\ UNCHANGED <<runs, heap, preCanceled, finalizeRetries, closing, sender, answering, log,
                   settled, history>>

\* Mutant of Shutdown: only runs that reported their start are cancelled.
ShutdownStarted ==
    /\ session = "down" /\ ~ closing
    /\ closing' = TRUE
    /\ heap' = [o \in Objects |->
         IF Active(o) /\ heap[o].started /\ \E q \in Requests : runs[q] = o
         THEN [heap[o] EXCEPT !.canceled = TRUE] ELSE heap[o]]
    /\ UNCHANGED <<runs, preCanceled, finalizeRetries, session, sender, answering, log, cloud,
                   history>>

\* shutdown: a terminal frame, a rejected credential or a signal.
Shutdown ==
    /\ session = "down" /\ ~ closing
    /\ closing' = TRUE
    /\ heap' = [o \in Objects |->
         IF Active(o) /\ \E q \in Requests : runs[q] = o
         THEN [heap[o] EXCEPT !.canceled = TRUE] ELSE heap[o]]
    /\ UNCHANGED <<runs, preCanceled, finalizeRetries, session, sender, answering, log, cloud,
                   history>>

\* The next process starts from what the log holds.
Restart ==
    /\ runs' = [q \in Requests |-> Nothing]
    /\ heap' = [o \in Objects |-> Nothing]
    /\ preCanceled' = << >> /\ finalizeRetries' = {}
    /\ closing' = FALSE /\ session' = "down" /\ sender' = Idle /\ answering' = Nothing
    /\ ring' \in {ring, IF Wedged THEN limbo ELSE ring}
    /\ limbo' = Nothing
    /\ owed' = {}
    /\ inherited' = {q \in Requests : ring'[q].state = "reserved"}
    /\ denied' = {} /\ spent' = {} /\ orphaned' = {}
    /\ UNCHANGED <<settled, executions, reported, disagreed>>

\* Run returns once the handlers are done, and the process exits.
Exit == closing /\ (\A o \in Objects : ~ Active(o)) /\ Restart

Crash == ~ closing /\ Restart

-----------------------------------------------------------------------------
Frame(q) ==
    \/ InspectFails(q) \/ RefuseAtCap(q) \/ RefuseBacklog(q) \/ RefuseUndecodable(q)
    \/ \E d \in Digests :
          \/ ReplayResult(q, d) \/ RefuseConflict(q, d) \/ FindPending(q, d)
          \/ ReserveFails(q, d) \/ CancelBeforeStart(q, d) \/ StartRun(q, d)
    \/ CancelActive(q) \/ RememberPreCancel(q)
    \/ AckDropped(q) \/ AckFails(q) \/ AckRun(q) \/ FinalizeFailed(q) \/ FinalizeFailedIgnored(q)

Handler == \E o \in Objects : PassGates(o) \/ FinishRun(o)

Sender == (\E q \in Requests : TakeOutbox(q)) \/ Send \/ SendFails \/ SentAll \/ RemoveSent

Process == Connect \/ SessionFails \/ SessionEnds \/ Shutdown \/ Exit \/ Crash

Next == (\E q \in Requests : Frame(q)) \/ AnswerPending \/ Handler \/ Sender \/ Process

Spec == Init /\ [][Next]_vars

\* The goroutines run, a dial and the process exit succeed in the end; drainOnce
\* comes to every runState; of infinitely many attempts to send, to retry a
\* commit and to acknowledge, some succeed.  The gates return and so does an
\* engine whose context is cancelled; an action may otherwise run on.
Fairness ==
    /\ \A o \in Objects :
          /\ WF_vars(PassGates(o))
          /\ WF_vars(FinishRun(o) /\ heap[o].canceled)
    /\ \A q \in Requests :
          /\ SF_vars(TakeOutbox(q) /\ session = "up")
          /\ SF_vars(Send /\ heap[sender.obj].id = q)
          /\ SF_vars(AckRun(q))
    /\ WF_vars(SentAll \/ RemoveSent) /\ WF_vars(AnswerPending)
    /\ WF_vars(SessionEnds) /\ SF_vars(Connect) /\ WF_vars(Exit)

FairSpec == Spec /\ Fairness

-----------------------------------------------------------------------------
(* Properties. *)

\* Engine.Run is entered at most once for a request id until its result is
\* acknowledged: whatever is redelivered, whichever commit or rollback of the log
\* fails and wherever the process dies between reserve, start, complete and ack.
AtMostOnce == \A q \in Requests : executions[q] <= 1

\* Handlers at work never exceed MaxConcurrentRuns, but for those of ids whose state
\* RemoveSent took from a handler.  startRun counts the unfinished states of
\* Client.runs, to which sender, acknowledgements, replays and reconnects add and
\* from which they remove, while handlers go on with the objects they hold.
CapRespected ==
    Cardinality({o \in Objects : Active(o) /\ heap[o].id \notin orphaned}) <= MaxConcurrentRuns

\* "MaxConcurrentRuns caps the number of in-flight actions."  Does not hold of an id
\* redelivered late, whose new run the sender removes with the old one, by id.
HardCap == Cardinality({o \in Objects : Active(o)}) <= MaxConcurrentRuns

\* All recorded results the control plane sees of one reservation are the same:
\* what finishRun sends, what a reconnect or a redelivery replays, and what the
\* next process says of a reservation it finds pending.
OneOutcome == disagreed = {}

\* A reservation in the log has an owner that will complete it: a handler at work,
\* a terminal result held for retryTerminalPersistence, or, after a restart, the
\* redelivery that turns it into outcome_unknown.  Without one its slot in the ring
\* would be lost, and the control plane never answered.
ReservationOwned ==
    \A q \in Requests : ring[q].state = "reserved" =>
        \/ q \in inherited
        \/ Mapped(q) /\ LET s == heap[runs[q]] IN s.handler # "none" \/ s.terminal # Nothing

\* dispatch_reservation_failed tells the control plane "action was not executed".  As
\* long as the log is usable it is not queued for an id whose action was, with its
\* result unacknowledged.
TruthfulRefusal ==
    \A q \in Requests : Mapped(q) /\ Contains(heap[runs[q]].pending, "reservation_failed")
        => executions[q] = 0 \/ Wedged

\* The message at its word.  Does not hold once inspect fails on an unusable log.
RefusedNotExecuted ==
    \A q \in Requests : Mapped(q) /\ Contains(heap[runs[q]].pending, "reservation_failed")
        => executions[q] = 0

\* A cancel that overtook its run_action keeps it from starting, also when the
\* dispatch first meets the cap, a full backlog or an unusable log, until its
\* tombstone is evicted, the process ends, or a reservation consumes it and fails.
CancelHolds == \A o \in Objects : Active(o) => heap[o].id \notin denied \ spent

\* "a cancel/action ordering race fails closed".  Does not hold of the dispatch that
\* follows one whose reservation failed.
EarlyCancelFailsClosed == \A o \in Objects : Active(o) => heap[o].id \notin denied

\* Client.runs stays within maxRunStates although a reconnect adds a state for every
\* unacknowledged result without testing the limit: replies leave room for them.
RunsBounded == RunStates <= maxRunStates

\* As long as the runner reconnects now and then, every recorded result is
\* acknowledged: lost sends, lost and failed acknowledgements, a spent finalize
\* retry and crashes only delay it.
ResultAcknowledged ==
    []<>(session = "down") =>
        \A q \in Requests : ring[q].state = "completed" ~> ring[q].state # "completed"

\* Shutdown reaches every handler, so that Run returns.
ShutdownCompletes == closing ~> ~ closing

=============================================================================

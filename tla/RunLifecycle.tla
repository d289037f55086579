---------------------------- MODULE RunLifecycle ----------------------------
(* The life of dispatched runs between the portal and one runner: the run rows *)
(* of Emisar.Runs, the processes that write them (a socket per connection, the *)
(* operators' requests, the DispatchTimeout sweep), the websocket, and the     *)
(* admission side of the runner's cloud.Client over its durable log.           *)
(*                                                                             *)
(* A portal process reads, decides and writes in separate transactions, so it  *)
(* is a list of steps still to take; a step that writes a row re-reads it      *)
(* under the row's lock, and only that step is atomic.                         *)
EXTENDS Naturals, Sequences, FiniteSets, SequencesExt

CONSTANTS
    MaxRun,             \* runs are 1 .. MaxRun, in the order of inserted_at
    MaxConcurrentRuns,  \* the runner's cap
    Running,            \* bound: the runs under way in the initial state
    MaxConnection,      \* bound: connection generations
    MaxFaults           \* bound: disconnects, crashes, failed writes, repetitions

ASSUME RunAssumption ==
    /\ MaxRun \in Nat \ {0} /\ MaxConcurrentRuns \in Nat \ {0}
    /\ Running \subseteq 1 .. MaxRun /\ Cardinality(Running) =< MaxConcurrentRuns
    /\ MaxConnection \in Nat \ {0} /\ MaxFaults \in Nat

Runs == 1 .. MaxRun

\* What a terminal row says: the runner's result was stored; the run was cancelled
\* or given up while queued and never ran; the dispatch was refused; the outcome of
\* a delivered dispatch was never learned.
NeverRan == {"cancelled", "unreached"}
Terminal == NeverRan \cup {"finished", "refused", "expired"}
Inflight == {"sent", "running", "cancelling"}
Status   == {"none", "pending"} \cup Inflight \cup Terminal

VARIABLES
    \* the portal's database
    status,      \* a run's status
    generation,  \* the connection its row was sent on, 0 for nil
    lease,       \* the connection that owns the runner, 0 when none does
    \* the portal's processes: the steps each has yet to take
    todo,
    seen,        \* results the socket stored and acknowledged
    resumes,     \* :resume_runs messages in the socket's mailbox
    drains,      \* :dispatch_queued messages in it
    mailbox,     \* :cloud_to_runner messages in it, not yet pushed
    \* the websocket
    down, up,
    \* the runner
    entry,       \* Client.runs: nothing, a queued cap error or result, a handler
    ledger,      \* the durable log's record of the request
    canceled,    \* handlers whose context is cancelled
    announced,   \* handlers whose start was sent on this connection
    preCanceled, retried,
    \* bounds and history
    connections, faults,
    starts,      \* how often the action was started
    onWire,      \* runs whose latest claim was followed by a frame
    repeated     \* runs that had two frames for one claim

rows    == <<status, generation>>
socket  == <<seen, resumes, drains, mailbox>>
runner  == <<entry, ledger, canceled, announced, preCanceled, retried, starts>>
bounds  == <<connections, faults>>
history == <<onWire, repeated>>
vars == <<rows, lease, todo, socket, down, up, runner, bounds, history>>

\* A socket per connection, a request per run, and the one sweep.
Sweeper   == <<"sweep", 0>>
Processes == ({"socket"} \X (1 .. MaxConnection)) \cup ({"operator"} \X Runs) \cup {Sweeper}

Steps ==
    [op : {"queue"}, run : {0}, from : {"none"}, at : {0}]
    \cup [op : {"dispatch", "redeliver", "cancel", "resolve_pending"},
          run : Runs, from : {"none"}, at : {0}]
    \cup [op : {"recover", "resolve_running"}, run : Runs, from : Inflight, at : {0}]
    \cup [op : {"expire"}, run : Runs, from : {"pending"} \cup Inflight, at : {0}]
    \cup [op : {"claim"}, run : Runs, from : {"pending", "sent"}, at : 1 .. MaxConnection]
    \cup [op : {"run_action", "resolve", "resolve_due"},
          run : Runs, from : {"none"}, at : 1 .. MaxConnection]

Step(op, r, from, at) == [op |-> op, run |-> r, from |-> from, at |-> at]
Queue == Step("queue", 0, "none", 0)

Frame(type, r) == [type |-> type, run |-> r]
Frames(types) == [type : types, run : Runs]

TypeOK ==
    /\ status \in [Runs -> Status]
    /\ generation \in [Runs -> 0 .. MaxConnection]
    /\ \A r \in Runs : /\ status[r] = "sent" => generation[r] # 0
                       /\ status[r] \in {"none", "pending"} => generation[r] = 0
    /\ lease \in {0, connections}
    /\ todo \in [Processes -> Seq(Steps)]
    /\ seen \subseteq Runs /\ resumes \in Nat /\ drains \in Nat
    /\ mailbox \in Seq(Frames({"run_action", "cancel"}))
    /\ down \in Seq(Frames({"run_action", "cancel", "ack", "finalize_failed"}))
    /\ up \in Seq(Frames({"started", "result", "capped"})
                  \cup {Frame("runner_state", 0)})
    /\ entry \in [Runs -> {"none", "capped", "handler", "result"}]
    /\ ledger \in [Runs -> {"none", "reserved", "completed", "acknowledged"}]
    /\ Cardinality({r \in Runs : entry[r] = "handler"}) =< MaxConcurrentRuns
    /\ \A r \in Runs : /\ entry[r] = "handler" => ledger[r] = "reserved"
                       /\ entry[r] = "capped" => ledger[r] = "none"
    /\ canceled \subseteq Runs /\ announced \subseteq Runs
    /\ preCanceled \subseteq Runs /\ retried \subseteq Runs
    /\ connections \in 0 .. MaxConnection /\ faults \in 0 .. MaxFaults
    /\ starts \in [Runs -> Nat]
    /\ onWire \subseteq Runs /\ repeated \subseteq Runs

\* Every run's row as its creation and first dispatch would find it, or left it.
Initially(under, fresh) == [r \in Runs |-> IF r \in Running THEN under ELSE fresh]

\* A runner on its first connection; the runs under way are announced.
Init ==
    /\ status = Initially("running", "none") /\ generation = Initially(1, 0)
    /\ lease = 1
    /\ todo = [p \in Processes |-> << >>]
    /\ seen = {} /\ resumes = 0 /\ drains = 0 /\ mailbox = << >>
    /\ down = << >> /\ up = << >>
    /\ entry = Initially("handler", "none") /\ ledger = Initially("reserved", "none")
    /\ canceled = {} /\ announced = Running /\ preCanceled = {} /\ retried = {}
    /\ connections = 1 /\ faults = 0
    /\ starts = Initially(1, 0)
    /\ onWire = Running /\ repeated = {}

Fault == faults < MaxFaults /\ faults' = faults + 1 /\ UNCHANGED connections

-----------------------------------------------------------------------------
(* Steps of the portal's processes. *)

\* transition_from, under the row's lock: only a row still in the expected status
\* is written.
Moved(r, from, to, at) ==
    IF status[r] = from
    THEN status' = [status EXCEPT ![r] = to] /\ generation' = [generation EXCEPT ![r] = at]
    ELSE UNCHANGED rows

\* Mutant of MarkErrored: a row of any status but a terminal one is written.
MarkErroredUnfenced(r, from) ==
    IF status[r] \in Terminal THEN UNCHANGED rows
    ELSE Moved(r, status[r], IF from = "pending" THEN "unreached" ELSE "expired", generation[r])

\* mark_errored, fenced to the status its caller saw.
MarkErrored(r, from) ==
    Moved(r, from, IF from = "pending" THEN "unreached" ELSE "expired", generation[r])

\* What a process does next: it takes its first step, which may put others in its
\* place.
Continue(p, more) == todo' = [todo EXCEPT ![p] = more \o Tail(@)]

At(p, op) == todo[p] # << >> /\ Head(todo[p]).op = op

Oldest == {r \in Runs : status[r] = "pending" /\ \A s \in 1 .. (r - 1) : status[s] # "pending"}

\* dispatch_to_runner reads the row and the connection before it claims the row ...
Claims(r) ==
    IF status[r] = "pending" /\ lease # 0 THEN <<Step("claim", r, "pending", lease)>> ELSE << >>

DispatchToRunner(p) ==
    /\ At(p, "dispatch")
    /\ Continue(p, Claims(Head(todo[p]).run))
    /\ UNCHANGED <<rows, lease, socket, down, up, runner, bounds, history>>

\* ... and dispatch_queued_for_runner does it for the oldest pending run.
DispatchQueued(p) ==
    /\ At(p, "queue")
    /\ Continue(p, IF Oldest = {} THEN << >> ELSE Claims(CHOOSE r \in Oldest : TRUE))
    /\ UNCHANGED <<rows, lease, socket, down, up, runner, bounds, history>>

\* redeliver_to_runner: only to the connection the row was sent on.
RedeliverToRunner(p) ==
    /\ At(p, "redeliver")
    /\ LET r == Head(todo[p]).run
       IN  Continue(p, IF status[r] = "sent" /\ lease # 0 /\ lease = generation[r]
                       THEN <<Step("claim", r, "sent", lease)>> ELSE << >>)
    /\ UNCHANGED <<rows, lease, socket, down, up, runner, bounds, history>>

\* deliver_run_action: the claim, then the delivery to the generation read before it.
Claim(p) ==
    /\ At(p, "claim")
    /\ LET s == Head(todo[p])
       IN  /\ Moved(s.run, s.from, "sent", s.at)
           /\ Continue(p, IF status[s.run] = s.from
                          THEN <<Step("run_action", s.run, "none", s.at)>> ELSE << >>)
           /\ onWire' = IF status[s.run] = s.from /\ s.from = "pending"
                        THEN onWire \ {s.run} ELSE onWire
    /\ UNCHANGED <<lease, socket, down, up, runner, bounds, repeated>>

\* ... or the payload is no longer authorized: mark_refused, whatever the status ...
MarkRefused(p) ==
    /\ At(p, "claim")
    /\ LET r == Head(todo[p]).run
       IN  status[r] \notin Terminal /\ Moved(r, status[r], "refused", generation[r])
    /\ Continue(p, << >>)
    /\ Fault
    /\ UNCHANGED <<lease, socket, down, up, runner, history>>

\* ... or the claim finds that the initiator lost access: the queue moves on.
RefuseInitiator(p) ==
    /\ At(p, "claim") /\ Head(todo[p]).from = "pending"
    /\ LET r == Head(todo[p]).run
       IN  status[r] = "pending" /\ Moved(r, "pending", "refused", 0)
    /\ Continue(p, IF p[1] = "operator" THEN << >> ELSE <<Queue>>)
    /\ Fault
    /\ UNCHANGED <<lease, socket, down, up, runner, history>>

\* A message to the owning socket, which need not be the next it handles; two frames
\* for one claim are remembered.
Publish(r, frames) ==
    /\ mailbox' = mailbox \o frames
    /\ onWire' = onWire \cup {r}
    /\ repeated' = repeated \cup (onWire \cap {r})

\* deliver_to_runner drops a frame for a connection that no longer owns the runner.
Deliver(p) ==
    /\ At(p, "run_action")
    /\ LET s == Head(todo[p])
       IN  IF lease = s.at THEN Publish(s.run, <<Frame("run_action", s.run)>>)
           ELSE UNCHANGED <<mailbox, history>>
    /\ Continue(p, << >>)
    /\ UNCHANGED <<rows, lease, seen, resumes, drains, down, up, runner, bounds>>

\* recover_inflight_run of a row read in status `from`: its frame again, and the
\* cancellation it waits for.  It reads the connection and delivers to it: one step,
\* as a connection lost between the two loses the frames as one lost afterwards.
RecoverInflight(p) ==
    /\ At(p, "recover")
    /\ LET s == Head(todo[p])
       IN  IF lease = 0 THEN UNCHANGED <<mailbox, history>>
           ELSE Publish(s.run, <<Frame("run_action", s.run)>>
                               \o IF s.from = "cancelling" THEN <<Frame("cancel", s.run)>>
                                  ELSE << >>)
    /\ Continue(p, << >>)
    /\ UNCHANGED <<rows, lease, seen, resumes, drains, down, up, runner, bounds>>

\* deliver_cancel_to_runner, after the cancellation committed; likewise one step.
DeliverCancel(p) ==
    /\ At(p, "cancel")
    /\ mailbox' = IF lease = 0 THEN mailbox
                  ELSE Append(mailbox, Frame("cancel", Head(todo[p]).run))
    /\ Continue(p, << >>)
    /\ UNCHANGED <<rows, lease, seen, resumes, drains, down, up, runner, bounds, history>>

Rows(in) == {r \in Runs : status[r] \in in}

\* The rows of S, oldest first (ids grow with time, so a listing by id is one too): the
\* one listing in this set.
Pages(S) == {page \in [1 .. Cardinality(S) -> S] :
               \A i, j \in DOMAIN page : i < j => page[i] < page[j]}

\* resolve_stale_dispatch reads the connection again.
ResolveStale(p) ==
    /\ At(p, "resolve") \/ At(p, "resolve_due")
    /\ LET s == Head(todo[p])
       IN  Continue(p, CASE lease = 0 \/ s.op = "resolve_due" ->
                              <<Step("expire", s.run, "sent", 0)>>
                         [] lease # 0 /\ s.op = "resolve" /\ lease = s.at ->
                              <<Step("redeliver", s.run, "none", 0)>>
                         [] OTHER -> << >>)
    /\ UNCHANGED <<rows, lease, socket, down, up, runner, bounds, history>>

ResolvePending(p) ==
    /\ At(p, "resolve_pending")
    /\ Continue(p, IF lease # 0 THEN <<Queue>>
                   ELSE <<Step("expire", Head(todo[p]).run, "pending", 0)>>)
    /\ UNCHANGED <<rows, lease, socket, down, up, runner, bounds, history>>

ResolveRunning(p) ==
    /\ At(p, "resolve_running")
    /\ LET s == Head(todo[p])
       IN  Continue(p, IF lease # 0 THEN << >> ELSE <<Step("expire", s.run, s.from, 0)>>)
    /\ UNCHANGED <<rows, lease, socket, down, up, runner, bounds, history>>

\* A dispatch given up frees the queue for the next one.
Expire(p) ==
    /\ At(p, "expire")
    /\ LET s == Head(todo[p])
       IN  /\ MarkErrored(s.run, s.from)
           /\ Continue(p, IF s.from = "sent" /\ status[s.run] = "sent"
                          THEN <<Queue>> ELSE << >>)
    /\ UNCHANGED <<lease, socket, down, up, runner, bounds, history>>

PortalStep(p) ==
    \/ DispatchQueued(p)  \/ DispatchToRunner(p) \/ RedeliverToRunner(p)
    \/ Claim(p)           \/ Deliver(p)          \/ RecoverInflight(p)
    \/ DeliverCancel(p)   \/ ResolveStale(p)     \/ ResolvePending(p)
    \/ ResolveRunning(p)  \/ Expire(p)

-----------------------------------------------------------------------------
(* What starts a process: operators, the sweep. *)

Idle(p) == todo[p] = << >>

Start(p, steps) == Idle(p) /\ todo' = [todo EXCEPT ![p] = steps]

\* A run is inserted as pending and dispatched by the request that made it.
Create(r) ==
    /\ status[r] = "none" /\ \A s \in 1 .. (r - 1) : status[s] # "none"
    /\ status' = [status EXCEPT ![r] = "pending"]
    /\ Start(<<"operator", r>>, <<Step("dispatch", r, "none", 0)>>)
    /\ UNCHANGED <<generation, lease, socket, down, up, runner, bounds, history>>

\* request_run_cancellation_locked: a queued run is cancelled at once, a delivered
\* one when the runner says so.
Cancel(r) ==
    /\ \/ Moved(r, "pending", "cancelled", 0) /\ status[r] = "pending"
          /\ Start(<<"operator", r>>, << >>)
       \/ /\ status[r] \in {"sent", "running"}
          /\ Moved(r, status[r], "cancelling", generation[r])
          /\ Start(<<"operator", r>>, <<Step("cancel", r, "none", 0)>>)
    /\ UNCHANGED <<lease, socket, down, up, runner, bounds, history>>

CancelAgain(r) ==
    /\ status[r] = "cancelling" /\ Fault
    /\ Start(<<"operator", r>>, <<Step("cancel", r, "none", 0)>>)
    /\ UNCHANGED <<rows, lease, socket, down, up, runner, history>>

\* DispatchTimeout.execute reads one page of rows after the other; what a page says
\* of a row or of the connection is only a hint when its turn comes.
\* sweep_sent: a row past its deadline, or one without a connection, is resolved; a
\* row of this connection is redelivered.
SentVerdict(r, due) ==
    CASE r \in due -> Step("resolve_due", r, "none", generation[r])
      [] r \notin due /\ lease = 0 -> Step("resolve", r, "none", generation[r])
      [] OTHER -> Step("redeliver", r, "none", 0)

SweepSent ==
    \E due \in SUBSET Rows({"sent"}) :
    \E found \in Pages({r \in Rows({"sent"}) : r \in due \/ lease \in {0, generation[r]}}) :
        /\ found # << >>
        /\ Start(Sweeper, [i \in DOMAIN found |-> SentVerdict(found[i], due)])
        /\ IF lease # 0 /\ \E i \in DOMAIN found : found[i] \notin due
           THEN Fault ELSE UNCHANGED bounds
        /\ UNCHANGED <<rows, lease, socket, down, up, runner, history>>

\* sweep_pending moves the queue of a connected runner once.
SweepPending ==
    \E found \in Pages(Rows({"pending"})) :
        /\ found # << >>
        /\ Start(Sweeper, IF lease # 0 THEN <<Queue>>
                          ELSE [i \in DOMAIN found |->
                                  Step("resolve_pending", found[i], "none", 0)])
        /\ UNCHANGED <<rows, lease, socket, down, up, runner, bounds, history>>

SweepRunning ==
    \E found \in Pages(Rows({"running", "cancelling"})) :
        /\ lease = 0 /\ found # << >>
        /\ Start(Sweeper, [i \in DOMAIN found |->
                             Step("resolve_running", found[i], status[found[i]], 0)])
        /\ UNCHANGED <<rows, lease, socket, down, up, runner, bounds, history>>

-----------------------------------------------------------------------------
(* The socket that owns the runner handles one message at a time. *)

Socket == <<"socket", lease>>

SocketFree == lease # 0 /\ Idle(Socket)

\* resume_runs_for_runner lists the runs in flight; the queue moves only if there
\* are none.
ResumeRuns ==
    /\ SocketFree /\ resumes > 0
    /\ resumes' = resumes - 1
    /\ \E found \in Pages(Rows(Inflight)) :
          Start(Socket, IF found = << >> THEN <<Queue>>
                        ELSE [i \in DOMAIN found |->
                                Step("recover", found[i], status[found[i]], 0)])
    /\ UNCHANGED <<rows, lease, seen, drains, mailbox, down, up, runner, bounds, history>>

DrainQueue ==
    /\ SocketFree /\ drains > 0
    /\ drains' = drains - 1
    /\ Start(Socket, <<Queue>>)
    /\ UNCHANGED <<rows, lease, seen, resumes, mailbox, down, up, runner, bounds, history>>

\* handle_info of a :cloud_to_runner message: pushed to the connection it was sent to.
\* What handle_in answers meanwhile is ahead of it.
PushFrame ==
    /\ SocketFree /\ mailbox # << >>
    /\ down' = Append(down, Head(mailbox))
    /\ mailbox' = Tail(mailbox)
    /\ UNCHANGED <<rows, lease, todo, seen, resumes, drains, up, runner, bounds, history>>

Received(type) == SocketFree /\ up # << >> /\ Head(up).type = type /\ up' = Tail(up)

\* Every runner_state, on connecting or later, asks for a reconciliation.
RunnerState ==
    /\ Received("runner_state")
    /\ resumes' = resumes + 1
    /\ UNCHANGED <<rows, lease, todo, seen, drains, mailbox, down, runner, bounds, history>>

\* mark_started_from_connection.
ActionStarted ==
    /\ Received("started")
    /\ LET r == Head(up).run IN Moved(r, "sent", "running", generation[r])
    /\ UNCHANGED <<lease, todo, socket, down, runner, bounds, history>>

\* apply_runner_error on a cap refusal: a run still :sent goes back to the queue.
CapError ==
    /\ Received("capped")
    /\ Moved(Head(up).run, "sent", "pending", 0)
    /\ UNCHANGED <<lease, todo, socket, down, runner, bounds, history>>

\* mark_finished: a result settles a row of any status that is not terminal.
MarkFinished(r) ==
    IF status[r] \in Terminal THEN UNCHANGED rows
    ELSE Moved(r, status[r], "finished", generation[r])

\* action_result: stored, then acknowledged.
ActionResult ==
    /\ Received("result")
    /\ LET r == Head(up).run
       IN  /\ IF r \in seen THEN UNCHANGED <<rows, drains>>
              ELSE MarkFinished(r) /\ drains' = drains + 1
           /\ seen' = seen \cup {r}
           /\ down' = Append(down, Frame("ack", r))
    /\ UNCHANGED <<lease, todo, resumes, mailbox, runner, bounds, history>>

\* Mutant of FinalizeFails: a result that was not stored is acknowledged.
FinalizeFailsAcknowledged ==
    /\ Received("result") /\ Head(up).run \notin seen
    /\ down' = Append(down, Frame("ack", Head(up).run))
    /\ Fault
    /\ UNCHANGED <<rows, lease, todo, socket, runner, history>>

\* The store fails: the socket tells the runner and does not remember the result.
FinalizeFails ==
    /\ Received("result") /\ Head(up).run \notin seen
    /\ down' = Append(down, Frame("finalize_failed", Head(up).run))
    /\ Fault
    /\ UNCHANGED <<rows, lease, todo, socket, runner, history>>

-----------------------------------------------------------------------------
(* The runner. *)

Arrived(type) == lease # 0 /\ down # << >> /\ Head(down).type = type /\ down' = Tail(down)

Portal == <<rows, lease, todo, socket>>

ActiveRuns == {r \in Runs : entry[r] = "handler"}

\* Mutant of Known: an acknowledged record is forgotten.
KnownUntilAcknowledged(r) == ledger[r] \in {"reserved", "completed"}

\* inspect: an acknowledged record still answers for its request.
Known(r) == ledger[r] # "none"

\* Mutant of AtCap: off by one.
AtCapLate == Cardinality(ActiveRuns) > MaxConcurrentRuns

AtCap == Cardinality(ActiveRuns) >= MaxConcurrentRuns

\* startRun.  A frame for a run in Client.runs is ignored; a known id is answered
\* from the log; a tombstone cancels before the start; the cap refuses without a
\* record; and the rest is reserved and started.
RunAction ==
    /\ Arrived("run_action")
    /\ LET r == Head(down).run
           known == Known(r)
           stopped == ~ known /\ r \in preCanceled
           full == ~ known /\ ~ stopped /\ AtCap
       IN  IF entry[r] # "none" THEN UNCHANGED runner
           ELSE /\ entry' = [entry EXCEPT ![r] = CASE known \/ stopped -> "result"
                                                   [] full -> "capped"
                                                   [] OTHER -> "handler"]
                /\ ledger' = [ledger EXCEPT ![r] =
                     CASE stopped \/ @ = "reserved" -> "completed"
                       [] ~ known /\ ~ stopped /\ ~ full -> "reserved"
                       [] OTHER -> @]
                /\ preCanceled' = IF known THEN preCanceled ELSE preCanceled \ {r}
                /\ starts' = [starts EXCEPT ![r] = IF known \/ stopped \/ full THEN @ ELSE @ + 1]
                /\ UNCHANGED <<canceled, announced, retried>>
    /\ UNCHANGED <<Portal, up, bounds, history>>

\* cancelRun.
CancelRun ==
    /\ Arrived("cancel")
    /\ LET r == Head(down).run
       IN  /\ canceled' = IF entry[r] = "handler" THEN canceled \cup {r} ELSE canceled
           /\ preCanceled' = IF entry[r] = "none" /\ ledger[r] = "none"
                             THEN preCanceled \cup {r} ELSE preCanceled
    /\ UNCHANGED <<Portal, up, entry, ledger, announced, retried, starts, bounds, history>>

\* ackRun: an acknowledgement ahead of a queued copy is dropped.
AckRun ==
    /\ Arrived("ack")
    /\ LET r == Head(down).run
           taken == entry[r] = "none" /\ ledger[r] = "completed"
       IN  /\ ledger' = IF taken THEN [ledger EXCEPT ![r] = "acknowledged"] ELSE ledger
           /\ retried' = IF taken THEN retried \ {r} ELSE retried
    /\ UNCHANGED <<Portal, up, entry, canceled, announced, preCanceled, starts, bounds, history>>

\* retryFinalization, once for a request.
RetryFinalization ==
    /\ Arrived("finalize_failed")
    /\ LET r == Head(down).run
           again == ledger[r] = "completed" /\ r \notin retried
       IN  /\ entry' = IF again THEN [entry EXCEPT ![r] = "result"] ELSE entry
           /\ retried' = IF again THEN retried \cup {r} ELSE retried
    /\ UNCHANGED <<Portal, up, ledger, canceled, announced, preCanceled, starts, bounds, history>>

\* The handler ends: its result is recorded and queued.
Finish(r) ==
    /\ entry[r] = "handler"
    /\ entry' = [entry EXCEPT ![r] = "result"]
    /\ ledger' = [ledger EXCEPT ![r] = "completed"]
    /\ canceled' = canceled \ {r}
    /\ UNCHANGED <<Portal, down, up, announced, preCanceled, retried, starts, bounds, history>>

\* drainOnce: what is queued for a run goes out, a finished run leaves Client.runs.
SendQueued(r) ==
    /\ lease # 0
    /\ LET news == IF starts[r] > 0 /\ r \notin announced /\ ledger[r] \in {"reserved", "completed"}
                   THEN <<Frame("started", r)>> ELSE << >>
       IN  \/ /\ entry[r] = "handler" /\ news # << >>
              /\ up' = up \o news
              /\ announced' = announced \cup {r} /\ UNCHANGED entry
           \/ /\ entry[r] \in {"capped", "result"}
              /\ up' = Append(IF entry[r] = "result" THEN up \o news ELSE up, Frame(entry[r], r))
              /\ announced' = announced \cup {r}
              /\ entry' = [entry EXCEPT ![r] = "none"]
    /\ UNCHANGED <<Portal, down, ledger, canceled, preCanceled, retried, starts, bounds, history>>

\* Readvertise: a reload, or a change of the packs' executables.
Readvertise ==
    /\ lease # 0 /\ Fault
    /\ up' = Append(up, Frame("runner_state", 0))
    /\ UNCHANGED <<Portal, down, runner, history>>

-----------------------------------------------------------------------------
(* Connections. *)

\* A new connection owns the runner: its state, the starts of unfinished runs and
\* every result without an acknowledgement are sent again.
Connect ==
    /\ lease = 0 /\ connections < MaxConnection
    /\ connections' = connections + 1 /\ lease' = connections + 1
    /\ up' = <<Frame("runner_state", 0)>> /\ down' = << >>
    /\ seen' = {} /\ resumes' = 0 /\ drains' = 0 /\ mailbox' = << >>
    /\ entry' = [r \in Runs |-> IF ledger[r] = "completed" THEN "result" ELSE entry[r]]
    /\ announced' = {}
    /\ UNCHANGED <<rows, todo, ledger, canceled, preCanceled, retried, starts, faults, history>>

\* What was on the way is lost, with the socket's messages; a portal process goes on
\* with its steps.
Lost ==
    /\ lease' = 0 /\ up' = << >> /\ down' = << >> /\ mailbox' = << >>
    /\ UNCHANGED <<rows, todo, seen, resumes, drains, history>>

Disconnect == lease # 0 /\ Fault /\ Lost /\ UNCHANGED runner

\* The runner's process ends: only its log stays.
Crash ==
    /\ Fault /\ Lost
    /\ entry' = [r \in Runs |-> "none"]
    /\ canceled' = {} /\ announced' = {} /\ preCanceled' = {} /\ retried' = {}
    /\ UNCHANGED <<ledger, starts>>

PortalSocket ==
    ResumeRuns \/ DrainQueue \/ PushFrame \/ RunnerState \/ ActionStarted \/ CapError \/ ActionResult

RunnerReceives == RunAction \/ CancelRun \/ AckRun \/ RetryFinalization

Next ==
    \/ \E p \in Processes : PortalStep(p) \/ MarkRefused(p) \/ RefuseInitiator(p)
    \/ \E r \in Runs : \/ Create(r) \/ Cancel(r) \/ CancelAgain(r)
                       \/ Finish(r) \/ SendQueued(r)
    \/ SweepSent \/ SweepPending \/ SweepRunning
    \/ PortalSocket \/ FinalizeFails \/ RunnerReceives
    \/ Readvertise \/ Connect \/ Disconnect \/ Crash

Spec == Init /\ [][Next]_vars

\* Processes take their steps, a connected socket and a running runner handle what
\* they have, actions end, and the sweep comes to every row.  Nobody has to
\* reconnect, dispatch or cancel.
Fairness ==
    /\ \A p \in Processes : WF_vars(PortalStep(p))
    /\ SF_vars(SweepSent) /\ SF_vars(SweepPending) /\ SF_vars(SweepRunning)
    /\ \A r \in Runs : WF_vars(Finish(r)) /\ WF_vars(SendQueued(r))
    /\ WF_vars(PortalSocket) /\ WF_vars(RunnerReceives)

LiveSpec == Spec /\ Fairness

-----------------------------------------------------------------------------
(* Properties. *)

\* Redelivery by the sweep, by a reconnect and by a readvertisement, crashes and late
\* frames never start an action twice, while the log keeps the request's record.
AtMostOnce == \A r \in Runs : starts[r] =< 1

\* The runner's record of a result becomes acknowledged, and thereby evictable and
\* never sent again, only when the portal has settled the run.
AckedMeansSettled ==
    \A r \in Runs : ledger[r] = "acknowledged" => status[r] \in Terminal

\* A run the portal settled as never having run, because it was cancelled in the
\* queue or its runner was away, was not and will not be started, unless two frames
\* were sent for one claim of its row.
NeverRanHolds ==
    \A r \in Runs : status[r] \in NeverRan => starts[r] = 0 \/ r \in repeated

\* A run whose cancellation was requested is settled in the end.  It does not hold when
\* the cancel crosses a cap refusal: see the README's observations.
CancellationSettles == \A r \in Runs : status[r] = "cancelling" ~> status[r] \in Terminal
=============================================================================

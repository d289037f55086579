----------------------------- MODULE Execution -----------------------------
(***************************************************************************)
(* One call of Engine.Run on Linux: the gates before the action, its       *)
(* process and the descendants of that, the output on its way through the  *)
(* pipes, streamPipe and the redactor, the watcher that signals the        *)
(* process group on a cancel or at the deadline, and the verdict.          *)
(*                                                                         *)
(* Processes fork, close their output, leave the group and come back,      *)
(* ignore SIGTERM or never end, as they like.  SIGKILL ends a process at   *)
(* once.  Output is counted in pieces; what the redactor makes of them is  *)
(* left out, except that it holds pieces back and may need more room than  *)
(* they did.                                                               *)
(***************************************************************************)
EXTENDS Naturals, FiniteSets

CONSTANTS
    Leader,        \* the process Execute starts, which leads the group
    Descendants,   \* bound: the processes forked by it or by one another
    Streams,       \* stdout and stderr
    Limit,         \* Limits.MaxStdoutBytes and MaxStderrBytes, in pieces
    MaxPieces      \* bound: pieces written to a stream

ASSUME LeaderAssumption == Leader \notin Descendants
ASSUME LimitAssumption == Limit \in Nat \ {0}
ASSUME BoundAssumption == MaxPieces \in Nat

VARIABLES
    pc,        \* where Run and Execute are
    ctx,       \* tctx.Err()
    verdict,   \* the Status in the Result of Execute
    result,    \* the Status in the Result of Run
    audited,   \* the last journal entry of Run: none, the start, the end, or a failure
    alive,     \* processes
    group,     \* those in the leader's group
    holders,   \* those with the write ends of the output pipes
    unborn,    \* descendants not yet forked
    exitCode,  \* of the leader; "tolerated": not zero, but in success_exit_codes
    stream,    \* the way of each stream, see Fresh
    cut,       \* WaitDelay has closed the pipes
    closed,    \* the relays are closed
    watcher,   \* the goroutine in watch
    done,      \* processLifecycle.done
    finished,  \* processFinished is closed
    stranger,  \* who has the group id after the group: took it before or after done
    hit        \* a signal reached the stranger

procs == <<alive, group, holders, unborn, exitCode>>
outcome == <<verdict, result, audited>>
signals == <<watcher, done, finished, stranger, hit>>
vars == <<pc, ctx, outcome, procs, stream, cut, closed, signals>>

Procs == {Leader} \cup Descendants

Phases == {"gates", "plan", "wait", "copy", "kill", "finish", "close", "watcher",
           "relay", "flush", "returned"}

Verdicts == {"none", "ok", "nonzero", "timeout", "cancelled", "failed"}

\* What Run says without asking for an execution, and after one.
Refusals == {"validation_failed", "blocked_by_admission", "unknown_action", "error"}

Results == Refusals \cup {"success", "failed", "timed_out", "cancelled"}

\* A stream before its first piece: pieces written, in the kernel's pipe, in the
\* partial line of streamPipe's buffer, shipped to OnChunk, held back by the
\* redactor, kept by boundedOutput; truncation; the copying goroutine of os/exec and
\* the goroutine of streamPipe.
Fresh == [written |-> 0, pipe |-> 0, held |-> 0, shipped |-> 0, tail |-> 0,
          visible |-> 0, truncated |-> FALSE, copier |-> "none", reader |-> "none"]

\* Types; of the output no more is kept than the action's limit.
TypeOK ==
    /\ pc \in Phases
    /\ ctx \in {"none", "deadline", "canceled"}
    /\ verdict \in Verdicts
    /\ result \in Results \cup {"none"}
    /\ audited \in {"none", "start", "end", "failed"}
    /\ alive \subseteq Procs /\ group \subseteq Procs /\ holders \subseteq Procs
    /\ unborn \subseteq Descendants
    /\ exitCode \in {"none", "zero", "tolerated", "other"}
    /\ stream \in [Streams ->
          [written : 0 .. MaxPieces, pipe : 0 .. MaxPieces, held : 0 .. MaxPieces,
           shipped : 0 .. MaxPieces, tail : 0 .. MaxPieces, visible : 0 .. Limit,
           truncated : BOOLEAN, copier : {"none", "reading", "writing", "done"},
           reader : {"none", "reading", "done"}]]
    /\ cut \in BOOLEAN /\ closed \in BOOLEAN
    /\ watcher \in {"none", "select", "grace", "off"}
    /\ done \in BOOLEAN /\ finished \in BOOLEAN
    /\ stranger \in {"none", "early", "late"}
    /\ hit \in BOOLEAN

Init ==
    /\ pc = "gates" /\ ctx = "none" /\ verdict = "none" /\ result = "none"
    /\ audited = "none"
    /\ alive = {} /\ group = {} /\ holders = {} /\ unborn = Descendants
    /\ exitCode = "none"
    /\ stream = [s \in Streams |-> Fresh]
    /\ cut = FALSE /\ closed = FALSE
    /\ watcher = "none" /\ done = FALSE /\ finished = FALSE
    /\ stranger = "none" /\ hit = FALSE

-----------------------------------------------------------------------------
(* The caller and the clock. *)

\* A cancel, or a shutdown, cancels the context of the run.
Cancel ==
    /\ ctx = "none" /\ pc # "returned"
    /\ ctx' = "canceled"
    /\ UNCHANGED <<pc, outcome, procs, stream, cut, closed, signals>>

\* The timeout of the plan runs from the start of Execute.
Deadline ==
    /\ ctx = "none" /\ pc \notin {"gates", "returned"}
    /\ ctx' = "deadline"
    /\ UNCHANGED <<pc, outcome, procs, stream, cut, closed, signals>>

-----------------------------------------------------------------------------
(* The processes of the action. *)

Dies(dead, code) ==
    /\ alive' = alive \ dead /\ group' = group \ dead /\ holders' = holders \ dead
    /\ exitCode' = IF Leader \in dead THEN code ELSE exitCode
    /\ UNCHANGED unborn

Exit(p) ==
    /\ p \in alive
    /\ \E code \in {"zero", "tolerated", "other"} :
          /\ p # Leader => code = "other"
          /\ Dies({p}, code)
    /\ UNCHANGED <<pc, ctx, outcome, stream, cut, closed, signals>>

Fork(p) ==
    /\ p \in alive
    /\ \E c \in unborn :
          /\ unborn' = unborn \ {c}
          /\ alive' = alive \cup {c}
          /\ group' = IF p \in group THEN group \cup {c} ELSE group
          /\ holders' = IF p \in holders THEN holders \cup {c} ELSE holders
    /\ UNCHANGED <<pc, ctx, outcome, exitCode, stream, cut, closed, signals>>

Regroup(members) ==
    /\ group' = members
    /\ UNCHANGED <<pc, ctx, outcome, alive, holders, unborn, exitCode,
                   stream, cut, closed, signals>>

\* setsid, or setpgid into another group of the session.  The kernel refuses setsid to
\* the leader of a group and setpgid to the leader of a session: Leader is the former
\* only, so that it may move to the runner's group.
LeaveGroup(p) ==
    /\ p \in group
    /\ Regroup(group \ {p})

\* setpgid back: into a group that exists, or that has the caller's own id.
JoinGroup(p) ==
    /\ p \in alive \ group /\ (group # {} \/ p = Leader)
    /\ Regroup(group \cup {p})

CloseOutput(p) ==
    /\ p \in holders
    /\ holders' = holders \ {p}
    /\ UNCHANGED <<pc, ctx, outcome, alive, group, unborn, exitCode,
                   stream, cut, closed, signals>>

WriteOutput(p, s) ==
    /\ p \in holders /\ ~ cut
    /\ stream[s].written < MaxPieces
    /\ stream' = [stream EXCEPT ![s].written = @ + 1, ![s].pipe = @ + 1]
    /\ UNCHANGED <<pc, ctx, outcome, procs, cut, closed, signals>>

\* Once the leader is reaped and the group empty, the kernel may give its id to a
\* process of somebody else.
Recycle ==
    /\ stranger = "none" /\ pc \notin {"gates", "plan", "wait"}
    /\ exitCode # "none" /\ group = {}
    /\ stranger' = IF done THEN "late" ELSE "early"
    /\ UNCHANGED <<pc, ctx, outcome, procs, stream, cut, closed, watcher, done,
                   finished, hit>>

\* killGroup: kill(-pid, sig).  Whoever has the group gets the signal.
KillGroup(dead, code) ==
    /\ Dies(dead, code)
    /\ hit' = (hit \/ stranger # "none")

\* processLifecycle.signal, under its lock.
Signal(sig) ==
    \/ done /\ UNCHANGED <<procs, hit>>
    \/ ~ done /\ \E dead \in SUBSET group :
                    /\ sig = "KILL" => dead = group
                    /\ KillGroup(dead, "other")

-----------------------------------------------------------------------------
(* processLifecycle.watch. *)

WatchContext ==
    /\ watcher = "select" /\ ctx # "none"
    /\ Signal("TERM")
    /\ watcher' = "grace"
    /\ UNCHANGED <<pc, ctx, outcome, stream, cut, closed, done, finished, stranger>>

\* Mutant of WatchGrace: no SIGKILL follows the SIGTERM.
GraceNotEnforced ==
    /\ watcher = "grace"
    /\ watcher' = "off"
    /\ UNCHANGED <<pc, ctx, outcome, procs, stream, cut, closed, done, finished,
                   stranger, hit>>

\* The timer of CancelGrace.
WatchGrace ==
    /\ watcher = "grace"
    /\ Signal("KILL")
    /\ watcher' = "off"
    /\ UNCHANGED <<pc, ctx, outcome, stream, cut, closed, done, finished, stranger>>

WatchFinished ==
    /\ watcher \in {"select", "grace"} /\ finished
    /\ watcher' = "off"
    /\ UNCHANGED <<pc, ctx, outcome, procs, stream, cut, closed, done, finished,
                   stranger, hit>>

-----------------------------------------------------------------------------
(* The output: os/exec copies each pipe to a relay, streamPipe reads that. *)

\* One read of the copying goroutine: a piece, the end of file when no process has
\* the pipe any more, or an error when it is closed.
CopyRead(s) ==
    /\ stream[s].copier = "reading"
    /\ \/ /\ ~ cut /\ stream[s].pipe > 0
          /\ stream' = [stream EXCEPT ![s].pipe = @ - 1, ![s].copier = "writing"]
       \/ /\ cut \/ (stream[s].pipe = 0 /\ holders = {})
          /\ stream' = [stream EXCEPT ![s].copier = "done"]
    /\ UNCHANGED <<pc, ctx, outcome, procs, cut, closed, signals>>

\* Mutant of Take: no room is left, and more is taken.
TakeUnbounded(f, n) == IF f.truncated THEN {f} ELSE {[f EXCEPT !.visible = @ + n]}

\* boundedOutput.take of n pieces: everything, or what there is room for.
Take(f, n) ==
    IF f.truncated \/ n = 0 THEN {f}
    ELSE {[f EXCEPT !.truncated = TRUE]}
         \cup (IF f.visible + n > Limit THEN {} ELSE {[f EXCEPT !.visible = @ + n]})

\* OnChunk: the redactor emits what it need not hold back.
OnChunk(f, n) ==
    UNION {Take([f EXCEPT !.tail = f.tail + n - k], k) : k \in 0 .. f.tail + n}

\* The limit of streamPipe, then ship.
Ship(f, n) ==
    IF n = 0 THEN {f}
    ELSE IF f.shipped >= Limit THEN {[f EXCEPT !.truncated = TRUE]}
    ELSE OnChunk([f EXCEPT !.shipped = @ + n], n)

\* The relay passes a piece from one goroutine to the other: the rest of a line,
\* which is shipped, or a part of one, which streamPipe keeps.
StreamRead(s) ==
    /\ stream[s].copier = "writing" /\ stream[s].reader = "reading"
    /\ LET n == stream[s].held + 1
           f == [stream[s] EXCEPT !.copier = "reading", !.held = 0]
       IN  \E g \in Ship(f, n) \cup {[f EXCEPT !.held = n]} : stream' = [stream EXCEPT ![s] = g]
    /\ UNCHANGED <<pc, ctx, outcome, procs, cut, closed, signals>>

\* End of file on the relay: a last line without its end is shipped as well.
StreamEnd(s) ==
    /\ closed /\ stream[s].reader = "reading"
    /\ \E g \in Ship([stream[s] EXCEPT !.reader = "done", !.held = 0], stream[s].held) :
          stream' = [stream EXCEPT ![s] = g]
    /\ UNCHANGED <<pc, ctx, outcome, procs, cut, closed, signals>>

-----------------------------------------------------------------------------
(* Engine.Run up to Execute. *)

\* Run ends with this status and an event, whose failure leaves the status alone.
Return(status) ==
    /\ result' = status
    /\ audited' \in {"end", "failed"}
    /\ pc' = "returned"

\* Reason, admission, registry, risk and arguments are tested in turn.
Refuse ==
    /\ pc = "gates"
    /\ \E status \in Refusals \ {"error"} : Return(status)
    /\ UNCHANGED <<ctx, verdict, procs, stream, cut, closed, signals>>

EmitExecError == Return("error")

\* A template does not render, or the script is missing or not the one loaded; later,
\* the plan is invalid or its user cannot be switched to.
PlanFails ==
    /\ pc \in {"gates", "plan"}
    /\ EmitExecError
    /\ UNCHANGED <<ctx, verdict, procs, stream, cut, closed, signals>>

\* Nothing is executed unless the start event is durable.
RecordStart ==
    /\ pc = "gates"
    /\ \/ audited' = "start" /\ pc' = "plan" /\ UNCHANGED result
       \/ audited' = "failed" /\ pc' = "returned" /\ result' = "error"
    /\ UNCHANGED <<ctx, verdict, procs, stream, cut, closed, signals>>

ContextVerdict == IF ctx = "deadline" THEN "timeout" ELSE "cancelled"

\* The context has ended, or the process does not start.
NotStarted ==
    /\ pc = "plan"
    /\ verdict' = IF ctx # "none" THEN ContextVerdict ELSE "failed"
    /\ pc' = "flush"
    /\ UNCHANGED <<ctx, result, audited, procs, stream, cut, closed, signals>>

Started ==
    /\ pc = "plan" /\ ctx = "none"
    /\ alive' = {Leader} /\ group' = {Leader} /\ holders' = {Leader}
    /\ stream' = [s \in Streams |->
                    [stream[s] EXCEPT !.copier = "reading", !.reader = "reading"]]
    /\ watcher' = "select"
    /\ pc' = "wait"
    /\ UNCHANGED <<ctx, outcome, unborn, exitCode, cut, closed, done, finished,
                   stranger, hit>>

-----------------------------------------------------------------------------
(* Execute: cmd.Wait and after. *)

\* Process.Wait reaps the leader; the timer of WaitDelay starts.
Reap ==
    /\ pc = "wait" /\ exitCode # "none"
    /\ pc' = "copy"
    /\ UNCHANGED <<ctx, outcome, procs, stream, cut, closed, signals>>

Copied == \A s \in Streams : stream[s].copier = "done"

WaitDelay ==
    /\ pc = "copy" /\ ~ Copied /\ ~ cut
    /\ cut' = TRUE
    /\ UNCHANGED <<pc, ctx, outcome, procs, stream, closed, signals>>

\* runErr and contextErr, and the Status they lead to.  ErrWaitDelay gives way to
\* an exit status.  An error of streamPipe, the first case of the switch, does not occur:
\* it reads an io.Pipe that Execute ends with Close, which is io.EOF.
WaitReturns ==
    /\ pc = "copy" /\ Copied
    /\ verdict' = CASE ctx # "none" -> ContextVerdict
                    [] ctx = "none" /\ exitCode = "zero" -> IF cut THEN "failed" ELSE "ok"
                    [] OTHER -> "nonzero"
    /\ pc' = "kill"
    /\ UNCHANGED <<ctx, result, audited, procs, stream, cut, closed, signals>>

\* Mutant of KillRemaining: the group is killed after a cancel or a timeout only.
KillOnlyIfStopped ==
    /\ pc = "kill"
    /\ IF verdict \in {"timeout", "cancelled"} THEN Signal("KILL") ELSE UNCHANGED <<procs, hit>>
    /\ pc' = "finish"
    /\ UNCHANGED <<ctx, outcome, stream, cut, closed, watcher, done, finished,
                   stranger>>

\* Whoever is left in the group goes, however the action ended.
KillRemaining ==
    /\ pc = "kill"
    /\ Signal("KILL")
    /\ pc' = "finish"
    /\ UNCHANGED <<ctx, outcome, stream, cut, closed, watcher, done, finished,
                   stranger>>

Finish ==
    /\ pc = "finish"
    /\ done' = TRUE
    /\ pc' = "close"
    /\ UNCHANGED <<ctx, outcome, procs, stream, cut, closed, watcher, finished,
                   stranger, hit>>

CloseFinished ==
    /\ pc = "close"
    /\ finished' = TRUE
    /\ pc' = "watcher"
    /\ UNCHANGED <<ctx, outcome, procs, stream, cut, closed, watcher, done,
                   stranger, hit>>

\* <-watcherDone, then the relays are closed.
CloseRelays ==
    /\ pc = "watcher" /\ watcher = "off"
    /\ closed' = TRUE
    /\ pc' = "relay"
    /\ UNCHANGED <<ctx, outcome, procs, stream, cut, signals>>

\* Mutant of AwaitReaders: Execute does not wait for the readers.
AwaitReadersSkipped ==
    /\ pc = "relay"
    /\ pc' = "flush"
    /\ UNCHANGED <<ctx, outcome, procs, stream, cut, closed, signals>>

\* wg.Wait
AwaitReaders ==
    /\ pc = "relay"
    /\ \A s \in Streams : stream[s].reader = "done"
    /\ pc' = "flush"
    /\ UNCHANGED <<ctx, outcome, procs, stream, cut, closed, signals>>

-----------------------------------------------------------------------------
(* Engine.Run after Execute. *)

\* classifyOutcome.  The redaction, the parser or the schema of a structured
\* output may turn success down.
Classified ==
    CASE verdict = "ok" -> {"success", "validation_failed"}
      [] verdict = "nonzero" /\ exitCode = "tolerated" -> {"success", "validation_failed"}
      [] verdict = "nonzero" /\ exitCode # "tolerated" -> {"failed"}
      [] verdict = "timeout"   -> {"timed_out"}
      [] verdict = "cancelled" -> {"cancelled"}
      [] OTHER -> {"error"}

Flushed(s) == Take([stream[s] EXCEPT !.tail = 0], stream[s].tail)

\* The tails the redactors held back, the classification and the terminal event.
Conclude ==
    /\ pc = "flush"
    /\ \E flushed \in [Streams -> UNION {Flushed(s) : s \in Streams}] :
          /\ \A s \in Streams : flushed[s] \in Flushed(s)
          /\ stream' = flushed
    /\ \E status \in Classified : Return(status)
    /\ UNCHANGED <<ctx, verdict, procs, cut, closed, signals>>

-----------------------------------------------------------------------------
\* Bound: a process that has left the group is followed until Run returns.
Process ==
    /\ pc # "returned"
    /\ \/ \E p \in Procs : Exit(p) \/ Fork(p) \/ CloseOutput(p)
                         \/ LeaveGroup(p) \/ JoinGroup(p)
       \/ \E p \in Procs, s \in Streams : WriteOutput(p, s)

Output == \E s \in Streams : CopyRead(s) \/ StreamRead(s) \/ StreamEnd(s)

Watch == WatchContext \/ WatchGrace \/ WatchFinished

Run ==
    \/ Refuse \/ PlanFails \/ RecordStart \/ NotStarted \/ Started
    \/ Reap \/ WaitReturns \/ KillRemaining \/ Finish \/ CloseFinished
    \/ CloseRelays \/ AwaitReaders \/ Conclude

Next == Cancel \/ Deadline \/ Process \/ Recycle \/ Watch \/ Output \/ WaitDelay \/ Run

Spec == Init /\ [][Next]_vars

\* Timers fire and goroutines run; nothing is assumed of the processes.
LiveSpec ==
    /\ Spec
    /\ WF_vars(Run) /\ WF_vars(Watch) /\ WF_vars(Deadline) /\ WF_vars(WaitDelay)
    /\ \A s \in Streams : WF_vars(CopyRead(s) \/ StreamRead(s)) /\ WF_vars(StreamEnd(s))

-----------------------------------------------------------------------------
(* Properties. *)

\* No process of the action's group outlives the action, whether it ended by itself,
\* at the deadline or by a cancel, and whether or not it held the pipes that Wait
\* looks at.
NoneOutlive == pc = "returned" => group = {}

\* What processLifecycle is for: nobody who got the group id after finish is ever
\* signalled, however the watcher's timer and the end of the action meet.
SignalsStop == stranger = "late" => ~ hit

\* The comments after cmd.Wait and on processLifecycle: the group is signalled until it
\* is gone, and not after.
GroupEnds == NoneOutlive /\ SignalsStop

\* The comment on processLifecycle without that restriction: "a delayed hard-kill
\* cannot target a recycled process-group id".
NeverRecycled == ~ hit

\* A success whose output is not marked as truncated shows all that the action
\* wrote: nothing was left in a pipe, in a partial line or in the redactor.
ShowsAll(s) == stream[s].truncated \/ stream[s].visible = stream[s].written
SuccessShowsAll ==
    result = "success" /\ exitCode = "zero" => \A s \in Streams : ShowsAll(s)

\* The same of an exit code that success_exit_codes tolerates.
ToleratedShowsAll == result = "success" => \A s \in Streams : ShowsAll(s)

\* The comment after cmd.Wait as it stands: "no action process outlives its action".
NoProcessOutlives == pc = "returned" => alive = {}

\* Timeout and cancel end the action, and Run returns, whatever the processes do with
\* SIGTERM, their pipes and the group; the one way out is a leader that moves to another
\* group and never ends, for which cmd.Wait waits without a bound.
LeaderEscapes == <>(Leader \in alive \ group) /\ <>[](Leader \in alive)
RunReturns == <>(pc = "returned") \/ LeaderEscapes
=============================================================================

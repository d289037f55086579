-------------------------- MODULE ExecutionProofs --------------------------
(***************************************************************************)
(* GroupEnds and SuccessShowsAll for any number of descendants, streams    *)
(* and pieces: whatever the processes of an action do, its group is empty  *)
(* when Run returns, nobody who took the group id after finish is          *)
(* signalled, and a success shows all that the action wrote.               *)
(***************************************************************************)
EXTENDS Execution, TLAPS

\* Where Run is after KillRemaining, or without a process ever started.
Over == {"finish", "close", "watcher", "relay", "flush", "returned"}

\* Before Execute starts a process the group is empty; after KillRemaining it is for
\* good, since nobody joins an empty group but the leader, which is dead by then.
GroupInv ==
    /\ pc \in {"gates", "plan"} \cup Over => group = {}
    /\ done => pc \in Over

\* The leader lives at "wait" only, and until it has an exit code.
LeaderInv ==
    /\ unborn \subseteq Descendants
    /\ pc \in {"gates", "plan"} => alive = {} /\ exitCode = "none"
    /\ exitCode # "none" => Leader \notin alive
    /\ pc # "wait" => Leader \notin alive

\* The kill at "kill" is not suppressed, because done is set after it; a stranger
\* that came after done finds every later signal suppressed.
SignalInv ==
    /\ stranger \in {"none", "early", "late"}
    /\ stranger = "late" => done
    /\ hit => stranger = "early"

EInv == GroupInv /\ LeaderInv /\ SignalInv

LEMMA InitInv == Init => EInv
  BY DEF Init, EInv, GroupInv, LeaderInv, SignalInv, Over

\* A signal never adds to the group, revives nobody, and hits a stranger only before
\* done.
LEMMA SignalSafe ==
    ASSUME NEW sig, EInv, Signal(sig), UNCHANGED <<stranger, done>>,
           pc' = pc \/ (pc = "kill" /\ pc' = "finish")
    PROVE  /\ group' \subseteq group
           /\ sig = "KILL" /\ ~ done => group' = {}
           /\ LeaderInv' /\ SignalInv'
<1>1. CASE done /\ UNCHANGED <<procs, hit>>
  BY <1>1 DEF EInv, LeaderInv, SignalInv, procs
<1>2. CASE ~ done /\ \E dead \in SUBSET group :
                /\ sig = "KILL" => dead = group
                /\ KillGroup(dead, "other")
  <2>1. PICK dead \in SUBSET group :
          /\ sig = "KILL" => dead = group
          /\ KillGroup(dead, "other")
    BY <1>2
  <2>2. /\ group' = group \ dead /\ hit' = (hit \/ stranger # "none")
        /\ alive' = alive \ dead /\ unborn' = unborn
        /\ exitCode' = IF Leader \in dead THEN "other" ELSE exitCode
    BY <2>1 DEF KillGroup, Dies
  <2>3. stranger # "late"
    BY <1>2 DEF EInv, SignalInv
  <2>4. LeaderInv'
    BY <2>2 DEF EInv, GroupInv, LeaderInv
  <2> QED BY <2>1, <2>2, <2>3, <2>4 DEF EInv, SignalInv
<1> QED BY <1>1, <1>2 DEF Signal

\* The processes of the action: an empty group stays empty once the leader is dead.
LEMMA ProcessInv ==
    ASSUME EInv, Process
    PROVE  EInv'
<1>1. ASSUME NEW p \in Procs, Exit(p) PROVE EInv'
  <2>1. PICK code : Dies({p}, code)
    BY <1>1 DEF Exit
  <2>2. /\ alive' = alive \ {p} /\ group' = group \ {p} /\ unborn' = unborn
        /\ exitCode' = IF Leader \in {p} THEN code ELSE exitCode
        /\ UNCHANGED <<pc, signals>>
    BY <1>1, <2>1 DEF Exit, Dies
  <2>3. LeaderInv'
    BY <1>1, <2>2 DEF Exit, EInv, LeaderInv
  <2> QED BY <2>2, <2>3 DEF EInv, GroupInv, SignalInv, signals
<1>2. ASSUME NEW p \in Procs, Fork(p) PROVE EInv'
  <2>1. LeaderInv'
    BY <1>2, LeaderAssumption DEF Fork, EInv, LeaderInv
  <2> QED BY <1>2, <2>1 DEF Fork, EInv, GroupInv, SignalInv, signals
<1>3. ASSUME NEW p \in Procs, LeaveGroup(p) PROVE EInv'
  BY <1>3 DEF LeaveGroup, Regroup, EInv, GroupInv, LeaderInv, SignalInv, signals
<1>4. ASSUME NEW p \in Procs, CloseOutput(p) PROVE EInv'
  BY <1>4 DEF CloseOutput, EInv, GroupInv, LeaderInv, SignalInv, signals
<1>5. ASSUME NEW p \in Procs, NEW s \in Streams, WriteOutput(p, s) PROVE EInv'
  BY <1>5 DEF WriteOutput, EInv, GroupInv, LeaderInv, SignalInv, signals, procs
<1>6. ASSUME NEW p \in Procs, JoinGroup(p) PROVE EInv'
  <2>1. pc \notin {"gates", "plan"} \cup Over
    BY <1>6 DEF JoinGroup, EInv, GroupInv, LeaderInv, Over
  <2> QED BY <1>6, <2>1 DEF JoinGroup, Regroup, EInv, GroupInv, LeaderInv, SignalInv, signals
<1> QED BY <1>1, <1>2, <1>3, <1>4, <1>5, <1>6 DEF Process

LEMMA WatchInv ==
    ASSUME EInv, Watch
    PROVE  EInv'
<1>1. CASE WatchContext
  <2>1. Signal("TERM") /\ UNCHANGED <<pc, stranger, done>>
    BY <1>1 DEF WatchContext
  <2>2. group' \subseteq group /\ LeaderInv' /\ SignalInv'
    BY <2>1, SignalSafe
  <2> QED BY <2>1, <2>2 DEF EInv, GroupInv
<1>2. CASE WatchGrace
  <2>1. Signal("KILL") /\ UNCHANGED <<pc, stranger, done>>
    BY <1>2 DEF WatchGrace
  <2>2. group' \subseteq group /\ LeaderInv' /\ SignalInv'
    BY <2>1, SignalSafe
  <2> QED BY <2>1, <2>2 DEF EInv, GroupInv
<1>3. CASE WatchFinished
  BY <1>3 DEF WatchFinished, EInv, GroupInv, LeaderInv, SignalInv, procs
<1> QED BY <1>1, <1>2, <1>3 DEF Watch

LEMMA OutputInv ==
    ASSUME EInv, Output
    PROVE  EInv'
<1>1. ASSUME NEW s \in Streams, CopyRead(s) \/ StreamRead(s) \/ StreamEnd(s)
      PROVE  UNCHANGED <<pc, procs, signals>>
  BY <1>1 DEF CopyRead, StreamRead, StreamEnd
<1>2. UNCHANGED <<pc, procs, signals>>
  BY <1>1 DEF Output
<1> QED BY <1>2 DEF EInv, GroupInv, LeaderInv, SignalInv, procs, signals

LEMMA RunInv ==
    ASSUME EInv, Run
    PROVE  EInv'
<1>1. CASE Refuse \/ PlanFails \/ RecordStart \/ NotStarted
  BY <1>1 DEF Refuse, PlanFails, EmitExecError, RecordStart, NotStarted, Return, EInv, GroupInv,
              LeaderInv, SignalInv, Over, procs, signals
<1>2. CASE Started
  <2>1. LeaderInv'
    <3>1. exitCode' = "none"
      BY <1>2 DEF Started, EInv, LeaderInv
    <3> QED BY <1>2, <3>1 DEF Started, EInv, LeaderInv
  <2> QED BY <1>2, <2>1 DEF Started, EInv, GroupInv, SignalInv, Over
<1>3. CASE Reap \/ WaitReturns
  BY <1>3 DEF Reap, WaitReturns, EInv, GroupInv, LeaderInv, SignalInv, Over, procs, signals
<1>4. CASE KillRemaining
  <2>1. pc = "kill" /\ pc' = "finish" /\ Signal("KILL") /\ UNCHANGED <<stranger, done>>
    BY <1>4 DEF KillRemaining
  <2>2. ~ done
    BY <2>1 DEF EInv, GroupInv, Over
  <2>3. group' = {} /\ LeaderInv' /\ SignalInv'
    BY <2>1, <2>2, SignalSafe
  <2> QED BY <2>1, <2>2, <2>3 DEF EInv, GroupInv
<1>5. CASE Finish
  BY <1>5 DEF Finish, EInv, GroupInv, LeaderInv, SignalInv, Over, procs
<1>6. CASE CloseFinished \/ CloseRelays \/ AwaitReaders
  BY <1>6 DEF CloseFinished, CloseRelays, AwaitReaders, EInv, GroupInv, LeaderInv, SignalInv, Over,
              procs, signals
<1>7. CASE Conclude
  BY <1>7 DEF Conclude, Return, EInv, GroupInv, LeaderInv, SignalInv, Over, procs, signals
<1> QED BY <1>1, <1>2, <1>3, <1>4, <1>5, <1>6, <1>7 DEF Run

LEMMA EInvStep ==
    ASSUME EInv, [Next]_vars
    PROVE  EInv'
<1>1. CASE Cancel \/ Deadline \/ WaitDelay
  BY <1>1 DEF Cancel, Deadline, WaitDelay, EInv, GroupInv, LeaderInv, SignalInv, procs, signals
<1>2. CASE Recycle
  BY <1>2 DEF Recycle, EInv, GroupInv, LeaderInv, SignalInv, procs
<1>3. CASE UNCHANGED vars
  BY <1>3 DEF vars, EInv, GroupInv, LeaderInv, SignalInv, procs, signals
<1> QED BY <1>1, <1>2, <1>3, ProcessInv, WatchInv, OutputInv, RunInv DEF Next

\* For every tree of processes and every interleaving of exits, forks, signals and
\* timers, the action's group is empty when Run returns and is never signalled later.
THEOREM GroupAlwaysEnds == Spec => []GroupEnds
<1>1. EInv => GroupEnds
  BY DEF EInv, GroupInv, SignalInv, Over, GroupEnds, NoneOutlive, SignalsStop
<1> QED BY <1>1, InitInv, EInvStep, PTL DEF Spec

-----------------------------------------------------------------------------
(* The way of the output. *)

Way == [written : Nat, pipe : Nat, held : Nat, shipped : Nat, tail : Nat, visible : 0 .. Limit,
        truncated : BOOLEAN, copier : {"none", "reading", "writing", "done"},
        reader : {"none", "reading", "done"}]

\* Pieces between the process and ship: in the pipe, in the hands of the copying
\* goroutine, in a partial line.
Underway(f) == f.pipe + f.held + IF f.copier = "writing" THEN 1 ELSE 0

\* No piece is invented, and none is lost on the way without a mark.
Conserved(f) ==
    /\ f.written <= MaxPieces
    /\ Underway(f) + f.shipped <= f.written
    /\ f.tail <= f.shipped
    /\ f.truncated \/ Underway(f) + f.tail + f.visible = f.written

\* The goroutines end when there is nothing left for them, or the pipes are cut.
Drained(f) ==
    /\ f.copier = "done" /\ ~ cut => f.pipe = 0 /\ holders = {}
    /\ f.reader = "done" => f.held = 0 /\ closed

FlowInv ==
    /\ stream \in [Streams -> Way]
    /\ \A s \in Streams : Conserved(stream[s]) /\ Drained(stream[s])

Ended == \A s \in Streams : stream[s].copier = "done" /\ stream[s].reader = "done"

\* What each place in Run says of the goroutines and of the verdict.
PhaseInv ==
    /\ pc \in {"gates", "plan"} => /\ verdict = "none" /\ holders = {}
                                   /\ \A s \in Streams : stream[s].copier = "none"
    /\ pc \in {"wait", "copy"} => verdict = "none"
    /\ closed => Copied /\ pc \in {"relay", "flush", "returned"}
    /\ pc \in {"kill", "finish", "close", "watcher", "relay"} => Copied
    /\ pc \in {"close", "watcher", "relay"} => done
    /\ pc = "flush" /\ verdict \in {"ok", "nonzero"} => done /\ Ended
    /\ verdict = "ok" => ~ cut /\ pc \notin {"gates", "plan", "wait", "copy"}
    /\ result # "none" => pc = "returned"
    /\ result = "success" => done /\ Ended

\* The parts of TypeOK that are not about the streams.
PlainTypes ==
    /\ pc \in Phases
    /\ ctx \in {"none", "deadline", "canceled"}
    /\ verdict \in Verdicts
    /\ result \in Results \cup {"none"}
    /\ audited \in {"none", "start", "end", "failed"}
    /\ alive \subseteq Procs /\ group \subseteq Procs /\ holders \subseteq Procs
    /\ unborn \subseteq Descendants
    /\ exitCode \in {"none", "zero", "tolerated", "other"}
    /\ cut \in BOOLEAN /\ closed \in BOOLEAN
    /\ watcher \in {"none", "select", "grace", "off"}
    /\ done \in BOOLEAN /\ finished \in BOOLEAN
    /\ hit \in BOOLEAN

OInv == PlainTypes /\ EInv /\ FlowInv /\ PhaseInv /\ SuccessShowsAll

-----------------------------------------------------------------------------
(* What take and ship do with a stream. *)

LEMMA LimitNat == Limit \in Nat /\ Limit > 0 /\ MaxPieces \in Nat
  BY LimitAssumption, BoundAssumption

LEMMA TakeKeeps ==
    ASSUME NEW f \in Way, NEW n \in Nat, NEW g \in Take(f, n)
    PROVE  /\ g \in Way
           /\ g.written = f.written /\ g.pipe = f.pipe /\ g.held = f.held
           /\ g.shipped = f.shipped /\ g.tail = f.tail
           /\ g.copier = f.copier /\ g.reader = f.reader
           /\ g.truncated \/ (~ f.truncated /\ g.visible = f.visible + n)
<1>1. CASE f.truncated \/ n = 0
  <2>1. g = f
    BY <1>1 DEF Take
  <2> QED BY <1>1, <2>1, LimitNat DEF Way
<1>2. CASE ~ (f.truncated \/ n = 0)
  <2>1. \/ g = [f EXCEPT !.truncated = TRUE]
        \/ f.visible + n <= Limit /\ g = [f EXCEPT !.visible = @ + n]
    BY <1>2, LimitNat DEF Take, Way
  <2>2. CASE g = [f EXCEPT !.truncated = TRUE]
    BY <2>2 DEF Way
  <2>3. CASE f.visible + n <= Limit /\ g = [f EXCEPT !.visible = @ + n]
    <3>1. f.visible + n \in 0 .. Limit
      BY <2>3, LimitNat DEF Way
    <3> QED BY <1>2, <2>3, <3>1 DEF Way
  <2> QED BY <2>1, <2>2, <2>3
<1> QED BY <1>1, <1>2

LEMMA ShipKeeps ==
    ASSUME NEW f \in Way, NEW n \in Nat, f.tail <= f.shipped, NEW g \in Ship(f, n)
    PROVE  /\ g \in Way
           /\ g.written = f.written /\ g.pipe = f.pipe /\ g.held = f.held
           /\ g.copier = f.copier /\ g.reader = f.reader
           /\ g.tail <= g.shipped /\ g.shipped <= f.shipped + n
           /\ g.truncated \/ (~ f.truncated /\ g.tail + g.visible = f.tail + f.visible + n)
<1>1. CASE n = 0
  <2>1. g = f
    BY <1>1 DEF Ship
  <2> QED BY <1>1, <2>1, LimitNat DEF Way
<1>2. CASE n # 0 /\ f.shipped >= Limit
  <2>1. g = [f EXCEPT !.truncated = TRUE]
    BY <1>2 DEF Ship
  <2>2. /\ g \in Way /\ g.truncated = TRUE
        /\ g.written = f.written /\ g.pipe = f.pipe /\ g.held = f.held
        /\ g.copier = f.copier /\ g.reader = f.reader
        /\ g.tail = f.tail /\ g.shipped = f.shipped
    BY <2>1 DEF Way
  <2>3. f.shipped \in Nat
    BY DEF Way
  <2> QED BY <2>2, <2>3
<1>3. CASE n # 0 /\ ~ (f.shipped >= Limit)
  <2> DEFINE h == [f EXCEPT !.shipped = @ + n]
  <2>1. /\ h \in Way /\ h.shipped = f.shipped + n /\ h.tail = f.tail /\ h.visible = f.visible
        /\ h.truncated = f.truncated
        /\ h.written = f.written /\ h.pipe = f.pipe /\ h.held = f.held
        /\ h.copier = f.copier /\ h.reader = f.reader
    BY DEF Way
  <2>2. g \in OnChunk(h, n)
    BY <1>3 DEF Ship
  <2> HIDE DEF h
  <2>3. PICK k \in 0 .. h.tail + n : g \in Take([h EXCEPT !.tail = h.tail + n - k], k)
    BY <2>2 DEF OnChunk
  <2> DEFINE i == [h EXCEPT !.tail = h.tail + n - k]
  <2>4. h.tail \in Nat /\ h.tail + n - k \in Nat /\ k \in Nat
    BY <2>1, <2>3 DEF Way
  <2>5. /\ i \in Way /\ i.shipped = f.shipped + n /\ i.tail = f.tail + n - k /\ i.visible = f.visible
        /\ i.truncated = f.truncated
        /\ i.written = f.written /\ i.pipe = f.pipe /\ i.held = f.held
        /\ i.copier = f.copier /\ i.reader = f.reader
    BY <2>1, <2>4 DEF Way
  <2>6. g \in Take(i, k)
    BY <2>3
  <2> HIDE DEF i
  <2>7. /\ g \in Way
        /\ g.written = i.written /\ g.pipe = i.pipe /\ g.held = i.held
        /\ g.shipped = i.shipped /\ g.tail = i.tail
        /\ g.copier = i.copier /\ g.reader = i.reader
        /\ g.truncated \/ (~ i.truncated /\ g.visible = i.visible + k)
    BY <2>4, <2>5, <2>6, TakeKeeps
  <2>8. f.tail \in Nat /\ f.shipped \in Nat /\ f.visible \in Nat
    BY LimitNat DEF Way
  <2>9. g.tail <= g.shipped /\ g.shipped <= f.shipped + n
    BY <2>4, <2>5, <2>7, <2>8
  <2>10. g.truncated \/ (~ f.truncated /\ g.tail + g.visible = f.tail + f.visible + n)
    BY <2>4, <2>5, <2>7, <2>8
  <2> QED BY <2>5, <2>7, <2>9, <2>10
<1> QED BY <1>1, <1>2, <1>3

-----------------------------------------------------------------------------
(* Steps of the processes, of the watcher and of the clock. *)

LEMMA QuietKeeps ==
    ASSUME OInv, UNCHANGED <<pc, verdict, result, stream, cut, closed, done>>,
           holders = {} => holders' = {}, result = "success" => exitCode' = exitCode
    PROVE  FlowInv' /\ PhaseInv' /\ SuccessShowsAll'
<1>1. FlowInv'
  BY DEF OInv, FlowInv, Conserved, Underway, Drained
<1>2. PhaseInv'
  BY DEF OInv, PhaseInv, Copied, Ended
<1>3. SuccessShowsAll'
  BY DEF OInv, SuccessShowsAll, ShowsAll
<1> QED BY <1>1, <1>2, <1>3

LEMMA SignalKeeps ==
    ASSUME OInv, NEW sig, Signal(sig)
    PROVE  /\ alive' \subseteq Procs /\ group' \subseteq Procs /\ holders' \subseteq holders
           /\ unborn' = unborn /\ exitCode' \in {"none", "zero", "tolerated", "other"}
           /\ hit' \in BOOLEAN /\ (done => exitCode' = exitCode)
<1>1. CASE done /\ UNCHANGED <<procs, hit>>
  BY <1>1 DEF OInv, PlainTypes, procs
<1>2. CASE ~ done /\ \E dead \in SUBSET group : KillGroup(dead, "other")
  <2>1. PICK dead \in SUBSET group : KillGroup(dead, "other")
    BY <1>2
  <2> QED BY <1>2, <2>1 DEF KillGroup, Dies, OInv, PlainTypes
<1> QED BY <1>1, <1>2 DEF Signal

LEMMA QuietSteps ==
    ASSUME OInv,
           \/ Cancel \/ Deadline \/ Recycle \/ Watch
           \/ pc # "returned" /\ \E p \in Procs : Exit(p) \/ Fork(p) \/ CloseOutput(p) \/ LeaveGroup(p) \/ JoinGroup(p)
    PROVE  PlainTypes' /\ FlowInv' /\ PhaseInv' /\ SuccessShowsAll'
<1>1. CASE Cancel \/ Deadline
  <2>1. PlainTypes'
    BY <1>1 DEF Cancel, Deadline, OInv, PlainTypes, outcome, procs, signals
  <2> QED BY <1>1, <2>1, QuietKeeps DEF Cancel, Deadline, outcome, procs, signals
<1>2. CASE Recycle
  <2>1. PlainTypes'
    BY <1>2 DEF Recycle, OInv, PlainTypes, outcome, procs
  <2> QED BY <1>2, <2>1, QuietKeeps DEF Recycle, outcome, procs
<1>3. CASE Watch
  <2>1. CASE WatchContext \/ WatchGrace
    <3>1. PICK sig : Signal(sig)
      BY <2>1 DEF WatchContext, WatchGrace
    <3>2. /\ UNCHANGED <<pc, ctx, verdict, result, audited, stream, cut, closed, done, finished, stranger>>
          /\ watcher' \in {"grace", "off"}
      BY <2>1 DEF WatchContext, WatchGrace, outcome
    <3>3. PlainTypes'
      BY <3>1, <3>2, SignalKeeps DEF OInv, PlainTypes
    <3>4. (holders = {} => holders' = {}) /\ (result = "success" => exitCode' = exitCode)
      BY <3>1, SignalKeeps DEF OInv, PhaseInv
    <3> QED BY <3>2, <3>3, <3>4, QuietKeeps
  <2>2. CASE WatchFinished
    <3>1. PlainTypes'
      BY <2>2 DEF WatchFinished, OInv, PlainTypes, outcome, procs
    <3> QED BY <2>2, <3>1, QuietKeeps DEF WatchFinished, outcome, procs
  <2> QED BY <1>3, <2>1, <2>2 DEF Watch
<1>4. CASE pc # "returned" /\ \E p \in Procs : Exit(p) \/ Fork(p) \/ CloseOutput(p) \/ LeaveGroup(p) \/ JoinGroup(p)
  <2>1. PICK p \in Procs : Exit(p) \/ Fork(p) \/ CloseOutput(p) \/ LeaveGroup(p) \/ JoinGroup(p)
    BY <1>4
  <2>2. result # "success"
    BY <1>4 DEF OInv, PhaseInv
  <2>3. UNCHANGED <<pc, ctx, verdict, result, audited, stream, cut, closed, watcher, done, finished,
                    stranger, hit>>
    BY <2>1 DEF Exit, Fork, CloseOutput, LeaveGroup, JoinGroup, Regroup, outcome, signals
  <2>4. /\ alive' \subseteq Procs /\ group' \subseteq Procs /\ holders' \subseteq Procs
        /\ unborn' \subseteq Descendants /\ exitCode' \in {"none", "zero", "tolerated", "other"}
        /\ holders = {} => holders' = {}
    <3>1. CASE Exit(p)
      BY <3>1 DEF Exit, Dies, OInv, PlainTypes
    <3>2. CASE Fork(p)
      BY <3>2 DEF Fork, OInv, PlainTypes, Procs
    <3>3. CASE CloseOutput(p) \/ LeaveGroup(p) \/ JoinGroup(p)
      BY <3>3 DEF CloseOutput, LeaveGroup, JoinGroup, Regroup, OInv, PlainTypes
    <3> QED BY <2>1, <3>1, <3>2, <3>3
  <2>5. PlainTypes'
    BY <2>3, <2>4 DEF OInv, PlainTypes
  <2> QED BY <2>2, <2>3, <2>4, <2>5, QuietKeeps
<1> QED BY <1>1, <1>2, <1>3, <1>4

-----------------------------------------------------------------------------
(* Steps of the output. *)

LEMMA StreamKeeps ==
    ASSUME OInv, NEW s \in Streams, NEW g \in Way, Conserved(g), Drained(g),
           stream' = [stream EXCEPT ![s] = g],
           UNCHANGED <<pc, ctx, outcome, procs, cut, closed, signals>>,
           pc \notin {"gates", "plan"}, result # "success",
           stream[s].copier = "done" => g.copier = "done",
           stream[s].reader = "done" => g.reader = "done"
    PROVE  PlainTypes' /\ FlowInv' /\ PhaseInv' /\ SuccessShowsAll'
<1>1. UNCHANGED <<pc, ctx, verdict, result, audited, alive, group, holders, unborn, exitCode, cut,
                  closed, watcher, done, finished, stranger, hit>>
  BY DEF outcome, procs, signals
<1>2. PlainTypes'
  BY <1>1 DEF OInv, PlainTypes
<1>3. stream \in [Streams -> Way] /\ stream'[s] = g /\ stream' \in [Streams -> Way]
      /\ \A r \in Streams : r # s => stream'[r] = stream[r]
  BY DEF OInv, FlowInv
<1>4. FlowInv'
  <2>1. ASSUME NEW r \in Streams PROVE Conserved(stream[r])' /\ Drained(stream[r])'
    <3>1. CASE r = s
      BY <1>1, <1>3, <3>1 DEF Conserved, Underway, Drained
    <3>2. CASE r # s
      <4>1. Conserved(stream[r]) /\ Drained(stream[r])
        BY DEF OInv, FlowInv
      <4> QED BY <1>1, <1>3, <3>2, <4>1 DEF Conserved, Underway, Drained
    <3> QED BY <3>1, <3>2
  <2> QED BY <1>3, <2>1 DEF FlowInv
<1>5. (Copied => Copied') /\ (Ended => Ended')
  BY <1>3 DEF Copied, Ended
<1>6. PhaseInv'
  BY <1>1, <1>5 DEF OInv, PhaseInv
<1>7. SuccessShowsAll'
  BY <1>1 DEF SuccessShowsAll
<1> QED BY <1>2, <1>4, <1>6, <1>7

LEMMA StreamFacts ==
    ASSUME OInv, NEW s \in Streams
    PROVE  /\ stream[s] \in Way /\ Conserved(stream[s]) /\ Drained(stream[s])
           /\ stream[s].written \in Nat /\ stream[s].pipe \in Nat /\ stream[s].held \in Nat
           /\ stream[s].shipped \in Nat /\ stream[s].tail \in Nat /\ stream[s].visible \in Nat
           /\ (stream[s].copier \in {"reading", "writing"} \/ holders # {} => pc \notin {"gates", "plan"})
           /\ (result = "success" => stream[s].copier = "done" /\ stream[s].reader = "done")
<1>1. stream[s] \in Way /\ Conserved(stream[s]) /\ Drained(stream[s])
  BY DEF OInv, FlowInv
<1>2. /\ stream[s].written \in Nat /\ stream[s].pipe \in Nat /\ stream[s].held \in Nat
      /\ stream[s].shipped \in Nat /\ stream[s].tail \in Nat /\ stream[s].visible \in Nat
  BY <1>1, LimitNat DEF Way
<1>3. /\ (stream[s].copier \in {"reading", "writing"} \/ holders # {} => pc \notin {"gates", "plan"})
      /\ (result = "success" => stream[s].copier = "done" /\ stream[s].reader = "done")
  BY DEF OInv, PhaseInv, Ended
<1> QED BY <1>1, <1>2, <1>3

LEMMA WriteOutputKeeps ==
    ASSUME OInv, pc # "returned", NEW p \in Procs, NEW s \in Streams, WriteOutput(p, s)
    PROVE  PlainTypes' /\ FlowInv' /\ PhaseInv' /\ SuccessShowsAll'
<1> DEFINE f == stream[s]
           g == [f EXCEPT !.written = @ + 1, !.pipe = @ + 1]
<1>1. /\ holders # {} /\ ~ cut /\ f.written < MaxPieces
      /\ stream' = [stream EXCEPT ![s].written = @ + 1, ![s].pipe = @ + 1]
      /\ UNCHANGED <<pc, ctx, outcome, procs, cut, closed, signals>>
  BY DEF WriteOutput
<1>2. stream' = [stream EXCEPT ![s] = g]
  BY <1>1
<1>3. /\ f \in Way /\ Conserved(f) /\ Drained(f) /\ f.written \in Nat /\ f.pipe \in Nat
      /\ f.held \in Nat /\ f.shipped \in Nat /\ f.tail \in Nat /\ f.visible \in Nat
      /\ pc \notin {"gates", "plan"} /\ result # "success"
  BY <1>1, StreamFacts DEF OInv, PhaseInv
<1>4. /\ g \in Way /\ g.written = f.written + 1 /\ g.pipe = f.pipe + 1 /\ g.held = f.held
      /\ g.shipped = f.shipped /\ g.tail = f.tail /\ g.visible = f.visible
      /\ g.truncated = f.truncated /\ g.copier = f.copier /\ g.reader = f.reader
  <2> HIDE DEF f
  <2>1. f.written + 1 \in Nat /\ f.pipe + 1 \in Nat
    BY <1>3
  <2> QED BY <1>3, <2>1 DEF Way
<1> HIDE DEF f, g
<1>5. Conserved(g)
  BY <1>1, <1>3, <1>4, LimitNat DEF Conserved, Underway
<1>6. Drained(g)
  BY <1>1, <1>3, <1>4 DEF Drained
<1>7. stream[s].copier = f.copier /\ stream[s].reader = f.reader
  BY DEF f
<1> QED BY <1>1, <1>2, <1>3, <1>4, <1>5, <1>6, <1>7, StreamKeeps

LEMMA CopyReadKeeps ==
    ASSUME OInv, NEW s \in Streams, CopyRead(s)
    PROVE  PlainTypes' /\ FlowInv' /\ PhaseInv' /\ SuccessShowsAll'
<1> DEFINE f == stream[s]
<1>1. f.copier = "reading" /\ UNCHANGED <<pc, ctx, outcome, procs, cut, closed, signals>>
  BY DEF CopyRead
<1>2. /\ f \in Way /\ Conserved(f) /\ Drained(f) /\ f.written \in Nat /\ f.pipe \in Nat
      /\ f.held \in Nat /\ f.shipped \in Nat /\ f.tail \in Nat /\ f.visible \in Nat
      /\ pc \notin {"gates", "plan"} /\ result # "success"
  BY <1>1, StreamFacts
<1>3. PICK g : /\ stream' = [stream EXCEPT ![s] = g]
               /\ \/ f.pipe > 0 /\ g = [f EXCEPT !.pipe = @ - 1, !.copier = "writing"]
                  \/ (cut \/ (f.pipe = 0 /\ holders = {})) /\ g = [f EXCEPT !.copier = "done"]
  <2>1. CASE f.pipe > 0 /\ stream' = [stream EXCEPT ![s].pipe = @ - 1, ![s].copier = "writing"]
    <3>1. stream' = [stream EXCEPT ![s] = [f EXCEPT !.pipe = @ - 1, !.copier = "writing"]]
      BY <2>1
    <3> QED BY <2>1, <3>1
  <2>2. CASE /\ cut \/ (f.pipe = 0 /\ holders = {})
             /\ stream' = [stream EXCEPT ![s].copier = "done"]
    <3>1. stream' = [stream EXCEPT ![s] = [f EXCEPT !.copier = "done"]]
      BY <2>2
    <3> QED BY <2>2, <3>1
  <2> QED BY <2>1, <2>2 DEF CopyRead
<1>4. /\ g \in Way /\ g.written = f.written /\ g.held = f.held
      /\ g.shipped = f.shipped /\ g.tail = f.tail /\ g.visible = f.visible
      /\ g.truncated = f.truncated /\ g.reader = f.reader
      /\ \/ f.pipe > 0 /\ g.pipe = f.pipe - 1 /\ g.copier = "writing"
         \/ (cut \/ (f.pipe = 0 /\ holders = {})) /\ g.pipe = f.pipe /\ g.copier = "done"
  <2> HIDE DEF f
  <2>1. CASE f.pipe > 0 /\ g = [f EXCEPT !.pipe = @ - 1, !.copier = "writing"]
    <3>1. f.pipe - 1 \in Nat
      BY <1>2, <2>1
    <3> QED BY <1>2, <2>1, <3>1 DEF Way
  <2>2. CASE (cut \/ (f.pipe = 0 /\ holders = {})) /\ g = [f EXCEPT !.copier = "done"]
    BY <1>2, <2>2 DEF Way
  <2> QED BY <1>3, <2>1, <2>2
<1>5. stream[s].copier = "reading" /\ stream[s].reader = f.reader
  BY <1>1
<1> HIDE DEF f
<1>6. Conserved(g)
  BY <1>1, <1>2, <1>4, LimitNat DEF Conserved, Underway
<1>7. Drained(g)
  BY <1>2, <1>4 DEF Drained
<1> QED BY <1>1, <1>2, <1>3, <1>4, <1>5, <1>6, <1>7, StreamKeeps

LEMMA StreamReadKeeps ==
    ASSUME OInv, NEW s \in Streams, StreamRead(s)
    PROVE  PlainTypes' /\ FlowInv' /\ PhaseInv' /\ SuccessShowsAll'
<1> DEFINE e == stream[s]
           n == stream[s].held + 1
           f == [stream[s] EXCEPT !.copier = "reading", !.held = 0]
<1>1. /\ e.copier = "writing" /\ e.reader = "reading"
      /\ UNCHANGED <<pc, ctx, outcome, procs, cut, closed, signals>>
  BY DEF StreamRead
<1>2. PICK g \in Ship(f, n) \cup {[f EXCEPT !.held = n]} : stream' = [stream EXCEPT ![s] = g]
  BY DEF StreamRead
<1>3. /\ e \in Way /\ Conserved(e) /\ e.written \in Nat /\ e.pipe \in Nat
      /\ e.held \in Nat /\ e.shipped \in Nat /\ e.tail \in Nat /\ e.visible \in Nat
      /\ pc \notin {"gates", "plan"} /\ result # "success" /\ n \in Nat /\ n = e.held + 1
  BY <1>1, StreamFacts
<1>4. /\ f \in Way /\ f.written = e.written /\ f.pipe = e.pipe /\ f.held = 0
      /\ f.shipped = e.shipped /\ f.tail = e.tail /\ f.visible = e.visible
      /\ f.truncated = e.truncated /\ f.copier = "reading" /\ f.reader = e.reader
  BY <1>3 DEF Way
<1> HIDE DEF f, n
<1>5. f.tail <= f.shipped
  BY <1>3, <1>4 DEF Conserved
<1>6. /\ g \in Way /\ g.written = e.written /\ g.pipe = e.pipe
      /\ g.copier = "reading" /\ g.reader = "reading" /\ g.tail <= g.shipped
      /\ g.shipped + g.held <= e.shipped + n
      /\ g.truncated \/ (~ e.truncated /\ g.held + g.tail + g.visible = e.tail + e.visible + n)
  <2>1. CASE g \in Ship(f, n)
    <3>1. /\ g \in Way
          /\ g.written = f.written /\ g.pipe = f.pipe /\ g.held = f.held
          /\ g.copier = f.copier /\ g.reader = f.reader
          /\ g.tail <= g.shipped /\ g.shipped <= f.shipped + n
          /\ g.truncated \/ (~ f.truncated /\ g.tail + g.visible = f.tail + f.visible + n)
      BY <1>3, <1>4, <1>5, <2>1, ShipKeeps
    <3>2. g.shipped \in Nat /\ g.tail \in Nat /\ g.visible \in Nat
      BY <3>1, LimitNat DEF Way
    <3> QED BY <1>1, <1>3, <1>4, <3>1, <3>2
  <2>2. CASE g = [f EXCEPT !.held = n]
    <3>1. /\ g \in Way /\ g.written = f.written /\ g.pipe = f.pipe /\ g.held = n
          /\ g.copier = f.copier /\ g.reader = f.reader
          /\ g.tail = f.tail /\ g.shipped = f.shipped /\ g.visible = f.visible
          /\ g.truncated = f.truncated
      BY <1>3, <1>4, <2>2 DEF Way
    <3>2. g.truncated \/ ~ e.truncated
      BY <1>3, <1>4, <3>1 DEF Way
    <3> QED BY <1>1, <1>3, <1>4, <1>5, <3>1, <3>2
  <2> QED BY <1>2, <2>1, <2>2
<1>7. g.shipped \in Nat /\ g.tail \in Nat /\ g.visible \in Nat /\ g.held \in Nat
  BY <1>6, LimitNat DEF Way
<1> HIDE DEF e
<1>8. Conserved(g)
  <2>1. Underway(e) = e.pipe + n /\ Underway(g) = e.pipe + g.held
    BY <1>1, <1>3, <1>6, <1>7 DEF Underway
  <2>2. e.written <= MaxPieces /\ e.pipe + n + e.shipped <= e.written
        /\ (e.truncated \/ e.pipe + n + e.tail + e.visible = e.written)
    BY <1>3, <2>1 DEF Conserved
  <2>3. e.pipe + g.held + g.shipped <= e.written
    BY <1>3, <1>6, <1>7, <2>2
  <2>4. g.truncated \/ e.pipe + g.held + g.tail + g.visible = e.written
    BY <1>3, <1>6, <1>7, <2>2
  <2> QED BY <1>6, <2>1, <2>2, <2>3, <2>4 DEF Conserved
<1>9. Drained(g)
  BY <1>6 DEF Drained
<1>10. stream[s].copier = "writing" /\ stream[s].reader = "reading"
  BY <1>1 DEF e
<1> QED BY <1>1, <1>2, <1>3, <1>6, <1>8, <1>9, <1>10, StreamKeeps

LEMMA StreamEndKeeps ==
    ASSUME OInv, NEW s \in Streams, StreamEnd(s)
    PROVE  PlainTypes' /\ FlowInv' /\ PhaseInv' /\ SuccessShowsAll'
<1> DEFINE e == stream[s]
           f == [stream[s] EXCEPT !.reader = "done", !.held = 0]
<1>1. /\ closed /\ e.reader = "reading"
      /\ UNCHANGED <<pc, ctx, outcome, procs, cut, closed, signals>>
  BY DEF StreamEnd
<1>2. PICK g \in Ship(f, e.held) : stream' = [stream EXCEPT ![s] = g]
  BY DEF StreamEnd
<1>3. /\ e \in Way /\ Conserved(e) /\ Drained(e) /\ e.written \in Nat /\ e.pipe \in Nat
      /\ e.held \in Nat /\ e.shipped \in Nat /\ e.tail \in Nat /\ e.visible \in Nat
      /\ pc \notin {"gates", "plan"} /\ result # "success"
  BY <1>1, StreamFacts DEF OInv, PhaseInv
<1>4. /\ f \in Way /\ f.written = e.written /\ f.pipe = e.pipe /\ f.held = 0
      /\ f.shipped = e.shipped /\ f.tail = e.tail /\ f.visible = e.visible
      /\ f.truncated = e.truncated /\ f.copier = e.copier /\ f.reader = "done"
  BY <1>3 DEF Way
<1> HIDE DEF f
<1>5. f.tail <= f.shipped
  BY <1>3, <1>4 DEF Conserved
<1>6. /\ g \in Way
      /\ g.written = f.written /\ g.pipe = f.pipe /\ g.held = f.held
      /\ g.copier = f.copier /\ g.reader = f.reader
      /\ g.tail <= g.shipped /\ g.shipped <= f.shipped + e.held
      /\ g.truncated \/ (~ f.truncated /\ g.tail + g.visible = f.tail + f.visible + e.held)
  BY <1>2, <1>3, <1>4, <1>5, ShipKeeps
<1>7. g.shipped \in Nat /\ g.tail \in Nat /\ g.visible \in Nat
  BY <1>6, LimitNat DEF Way
<1>8. stream[s].copier = e.copier /\ stream[s].reader = "reading"
  BY <1>1
<1> HIDE DEF e
<1>9. Conserved(g)
  BY <1>1, <1>3, <1>4, <1>6, <1>7, LimitNat DEF Conserved, Underway
<1>10. Drained(g)
  BY <1>1, <1>3, <1>4, <1>6 DEF Drained
<1> QED BY <1>1, <1>2, <1>3, <1>4, <1>6, <1>8, <1>9, <1>10, StreamKeeps

-----------------------------------------------------------------------------
(* Steps of Run. *)

LEMMA FlowSame ==
    ASSUME OInv, stream' = stream, holders = {} => holders' = {}, cut => cut', closed => closed'
    PROVE  FlowInv'
<1>1. ASSUME NEW s \in Streams PROVE Conserved(stream[s])' /\ Drained(stream[s])'
  <2>1. Conserved(stream[s]) /\ Drained(stream[s])
    BY DEF OInv, FlowInv
  <2> QED BY <2>1 DEF Conserved, Underway, Drained
<1> QED BY <1>1 DEF OInv, FlowInv

LEMMA NotExecuted ==
    ASSUME OInv, Refuse \/ PlanFails \/ RecordStart \/ NotStarted
    PROVE  PlainTypes' /\ FlowInv' /\ PhaseInv' /\ SuccessShowsAll'
<1>1. /\ pc \in {"gates", "plan"}
      /\ UNCHANGED <<ctx, alive, group, holders, unborn, exitCode, stream, cut, closed,
                     watcher, done, finished, stranger, hit>>
  BY DEF Refuse, PlanFails, RecordStart, NotStarted, procs, signals
<1>2. result = "none" /\ verdict = "none" /\ ~ closed /\ \A s \in Streams : stream[s].copier = "none"
  BY <1>1 DEF OInv, PhaseInv, PlainTypes, Phases
<1>3. /\ audited' \in {"none", "start", "end", "failed"}
      /\ \/ result' \in Refusals /\ pc' = "returned" /\ verdict' = verdict
         \/ result' = result /\ pc' = "plan" /\ verdict' = verdict
         \/ result' = result /\ pc' = "flush" /\ verdict' \in {"timeout", "cancelled", "failed"}
  <2>1. CASE Refuse \/ PlanFails
    BY <2>1 DEF Refuse, PlanFails, EmitExecError, Return, Refusals
  <2>2. CASE RecordStart
    BY <2>2 DEF RecordStart, Refusals
  <2>3. CASE NotStarted
    BY <2>3 DEF NotStarted, ContextVerdict, OInv, PlainTypes
  <2> QED BY <2>1, <2>2, <2>3
<1>4. PlainTypes'
  BY <1>1, <1>2, <1>3 DEF OInv, PlainTypes, Phases, Verdicts, Results
<1>5. FlowInv'
  BY <1>1, FlowSame
<1>6. PhaseInv'
  BY <1>1, <1>2, <1>3 DEF OInv, PhaseInv, Refusals
<1>7. SuccessShowsAll'
  BY <1>2, <1>3 DEF SuccessShowsAll, Refusals
<1> QED BY <1>4, <1>5, <1>6, <1>7

LEMMA StartedKeeps ==
    ASSUME OInv, Started
    PROVE  PlainTypes' /\ FlowInv' /\ PhaseInv' /\ SuccessShowsAll'
<1>1. /\ pc = "plan" /\ pc' = "wait" /\ alive' = {Leader} /\ group' = {Leader} /\ holders' = {Leader}
      /\ stream' = [s \in Streams |->
                       [stream[s] EXCEPT !.copier = "reading", !.reader = "reading"]]
      /\ watcher' = "select"
      /\ UNCHANGED <<ctx, verdict, result, audited, unborn, exitCode, cut, closed, done, finished,
                     stranger, hit>>
  BY DEF Started, outcome
<1>2. result = "none" /\ verdict = "none" /\ ~ closed /\ \A s \in Streams : stream[s].copier = "none"
  BY <1>1 DEF OInv, PhaseInv, PlainTypes, Phases
<1>3. ASSUME NEW s \in Streams
      PROVE  /\ stream'[s] \in Way /\ stream'[s].copier = "reading" /\ stream'[s].reader = "reading"
             /\ Conserved(stream'[s])
  <2> DEFINE f == stream[s]
             g == stream'[s]
  <2>1. /\ f \in Way /\ Conserved(f) /\ f.copier = "none"
        /\ f.held \in Nat /\ f.pipe \in Nat
    BY <1>2, StreamFacts
  <2>2. g = [f EXCEPT !.copier = "reading", !.reader = "reading"]
    BY <1>1
  <2> HIDE DEF f, g
  <2>3. /\ g \in Way /\ g.copier = "reading" /\ g.reader = "reading"
        /\ g.written = f.written /\ g.pipe = f.pipe /\ g.held = f.held /\ g.shipped = f.shipped
        /\ g.tail = f.tail /\ g.visible = f.visible /\ g.truncated = f.truncated
    BY <2>1, <2>2 DEF Way
  <2>4. Conserved(g)
    BY <2>1, <2>3 DEF Conserved, Underway
  <2> QED BY <2>3, <2>4 DEF g
<1>4. PlainTypes'
  BY <1>1 DEF OInv, PlainTypes, Phases, Procs
<1>5. FlowInv'
  <2>1. stream' \in [Streams -> Way]
    BY <1>1, <1>3
  <2> QED BY <1>3, <2>1 DEF FlowInv, Drained, Conserved, Underway
<1>6. PhaseInv'
  BY <1>1, <1>2 DEF PhaseInv
<1>7. SuccessShowsAll'
  BY <1>1, <1>2 DEF SuccessShowsAll
<1> QED BY <1>4, <1>5, <1>6, <1>7

LEMMA WaitKeeps ==
    ASSUME OInv, Reap \/ WaitDelay \/ WaitReturns
    PROVE  PlainTypes' /\ FlowInv' /\ PhaseInv' /\ SuccessShowsAll'
<1>1. /\ pc \in {"wait", "copy"}
      /\ UNCHANGED <<ctx, result, audited, alive, group, holders, unborn, exitCode, stream, closed,
                     watcher, done, finished, stranger, hit>>
      /\ \/ pc' = "copy" /\ (cut' = cut \/ cut' = TRUE) /\ verdict' = verdict
         \/ /\ pc' = "kill" /\ cut' = cut /\ Copied
            /\ verdict' \in {"timeout", "cancelled", "failed", "ok", "nonzero"}
            /\ verdict' = "ok" => ~ cut
  <2>1. CASE Reap \/ WaitDelay
    BY <2>1 DEF Reap, WaitDelay, outcome, procs, signals
  <2>2. CASE WaitReturns
    BY <2>2 DEF WaitReturns, ContextVerdict, procs, signals
  <2> QED BY <2>1, <2>2
<1>2. result = "none" /\ verdict = "none" /\ ~ closed
  BY <1>1 DEF OInv, PhaseInv, PlainTypes, Phases
<1>3. cut' \in BOOLEAN /\ (cut => cut')
  <2>1. CASE cut' = cut
    BY <2>1 DEF OInv, PlainTypes
  <2>2. CASE cut' = TRUE
    BY <2>2
  <2> QED BY <1>1, <2>1, <2>2
<1>4. PlainTypes'
  BY <1>3, <1>1 DEF OInv, PlainTypes, Phases, Verdicts
<1>5. FlowInv'
  BY <1>3, <1>1, FlowSame
<1>6. PhaseInv'
  BY <1>1, <1>2 DEF OInv, PhaseInv, Copied
<1>7. SuccessShowsAll'
  BY <1>1, <1>2 DEF SuccessShowsAll
<1> QED BY <1>4, <1>5, <1>6, <1>7

LEMMA CleanupKeeps ==
    ASSUME OInv, KillRemaining \/ Finish \/ CloseFinished \/ CloseRelays \/ AwaitReaders
    PROVE  PlainTypes' /\ FlowInv' /\ PhaseInv' /\ SuccessShowsAll'
<1>1. /\ UNCHANGED <<ctx, verdict, result, audited, stream, cut, watcher, stranger>>
      /\ \/ pc = "kill" /\ pc' = "finish" /\ UNCHANGED <<done, closed>>
         \/ pc = "finish" /\ pc' = "close" /\ done' = TRUE /\ UNCHANGED closed
         \/ pc = "close" /\ pc' = "watcher" /\ UNCHANGED <<done, closed>>
         \/ pc = "watcher" /\ pc' = "relay" /\ closed' = TRUE /\ UNCHANGED done
         \/ /\ pc = "relay" /\ pc' = "flush" /\ UNCHANGED <<done, closed>>
            /\ \A s \in Streams : stream[s].reader = "done"
      /\ finished' \in BOOLEAN
  BY DEF KillRemaining, Finish, CloseFinished, CloseRelays, AwaitReaders, outcome, signals, OInv, PlainTypes
<1>2. /\ alive' \subseteq Procs /\ group' \subseteq Procs /\ holders' \subseteq holders
      /\ unborn' = unborn /\ exitCode' \in {"none", "zero", "tolerated", "other"}
      /\ hit' \in BOOLEAN
  <2>1. CASE KillRemaining
    BY <2>1, SignalKeeps DEF KillRemaining
  <2>2. CASE Finish \/ CloseFinished \/ CloseRelays \/ AwaitReaders
    BY <2>2 DEF Finish, CloseFinished, CloseRelays, AwaitReaders, procs, signals, OInv, PlainTypes
  <2> QED BY <2>1, <2>2
<1>3. result = "none" /\ Copied
  BY <1>1 DEF OInv, PhaseInv, PlainTypes
<1>4. PlainTypes'
  BY <1>1, <1>2 DEF OInv, PlainTypes, Phases
<1>5. FlowInv'
  BY <1>1, <1>2, FlowSame
<1>6. PhaseInv'
  BY <1>1, <1>3 DEF OInv, PhaseInv, Copied, Ended
<1>7. SuccessShowsAll'
  BY <1>1, <1>3 DEF SuccessShowsAll
<1> QED BY <1>4, <1>5, <1>6, <1>7

\* A success that Wait called ok shows what went into the pipes: everything has left
\* them, and the tail the redactor held back is taken, or the mark is set.
LEMMA ConcludeKeeps ==
    ASSUME OInv, Conclude
    PROVE  PlainTypes' /\ FlowInv' /\ PhaseInv' /\ SuccessShowsAll'
<1>1. /\ pc = "flush" /\ pc' = "returned" /\ result' \in Classified /\ audited' \in {"end", "failed"}
      /\ UNCHANGED <<ctx, verdict, alive, group, holders, unborn, exitCode, cut, closed,
                     watcher, done, finished, stranger, hit>>
      /\ \A s \in Streams : stream'[s] \in Flushed(s)
      /\ stream' \in [Streams -> UNION {Flushed(s) : s \in Streams}]
  BY DEF Conclude, Return, procs, signals
<1>2. /\ result' \in Results
      /\ result' = "success" => verdict = "ok" \/ (verdict = "nonzero" /\ exitCode = "tolerated")
  BY <1>1 DEF Classified, Results, Refusals
<1>3. ASSUME NEW s \in Streams
      PROVE  /\ stream'[s] \in Way /\ Conserved(stream'[s]) /\ Drained(stream'[s])
             /\ stream'[s].copier = stream[s].copier /\ stream'[s].reader = stream[s].reader
             /\ stream'[s].tail = 0 /\ stream'[s].pipe = stream[s].pipe
             /\ stream'[s].held = stream[s].held
  <2> DEFINE e == stream[s]
             f == [stream[s] EXCEPT !.tail = 0]
             g == stream'[s]
  <2>1. /\ e \in Way /\ Conserved(e) /\ Drained(e) /\ e.written \in Nat /\ e.pipe \in Nat
        /\ e.held \in Nat /\ e.shipped \in Nat /\ e.tail \in Nat /\ e.visible \in Nat
    BY StreamFacts
  <2>2. g \in Take(f, e.tail)
    BY <1>1 DEF Flushed
  <2>3. /\ f \in Way /\ f.written = e.written /\ f.pipe = e.pipe /\ f.held = e.held
        /\ f.shipped = e.shipped /\ f.tail = 0 /\ f.visible = e.visible
        /\ f.truncated = e.truncated /\ f.copier = e.copier /\ f.reader = e.reader
    BY <2>1 DEF Way
  <2> HIDE DEF f, g
  <2>4. /\ g \in Way
        /\ g.written = f.written /\ g.pipe = f.pipe /\ g.held = f.held
        /\ g.shipped = f.shipped /\ g.tail = f.tail
        /\ g.copier = f.copier /\ g.reader = f.reader
        /\ g.truncated \/ (~ f.truncated /\ g.visible = f.visible + e.tail)
    BY <2>1, <2>2, <2>3, TakeKeeps
  <2>5. g.visible \in Nat
    BY <2>4, LimitNat DEF Way
  <2> HIDE DEF e
  <2>6. Conserved(g)
    BY <2>1, <2>3, <2>4, <2>5 DEF Conserved, Underway
  <2>7. Drained(g)
    BY <2>1, <2>3, <2>4 DEF Drained
  <2> QED BY <2>3, <2>4, <2>6, <2>7 DEF e, g
<1>4. PlainTypes'
  BY <1>1, <1>2 DEF OInv, PlainTypes, Phases
<1>5. FlowInv'
  <2>1. stream' = [s \in Streams |-> stream'[s]]
    BY <1>1
  <2>2. stream' \in [Streams -> Way]
    BY <1>3, <2>1
  <2>3. ASSUME NEW s \in Streams PROVE Conserved(stream[s])' /\ Drained(stream[s])'
    BY <1>1, <1>3 DEF Conserved, Underway, Drained
  <2> QED BY <2>2, <2>3 DEF FlowInv
<1>6. (Copied => Copied') /\ (Ended => Ended')
  BY <1>3 DEF Copied, Ended
<1>7. PhaseInv'
  BY <1>1, <1>2, <1>6 DEF OInv, PhaseInv
<1>8. SuccessShowsAll'
  <2> SUFFICES ASSUME result' = "success", exitCode = "zero", NEW s \in Streams
               PROVE  ShowsAll(s)'
    BY <1>1 DEF SuccessShowsAll
  <2>1. verdict = "ok" /\ ~ cut /\ Ended
    BY <1>1, <1>2 DEF OInv, PhaseInv
  <2>2. stream[s].pipe = 0 /\ stream[s].held = 0 /\ stream[s].copier = "done"
    BY <2>1, StreamFacts DEF Ended, Drained
  <2> DEFINE g == stream'[s]
  <2>3. g \in Way /\ Conserved(g) /\ g.pipe = 0 /\ g.held = 0 /\ g.copier = "done" /\ g.tail = 0
    BY <1>3, <2>2
  <2> HIDE DEF g
  <2>4. g.visible \in Nat
    BY <2>3, LimitNat DEF Way
  <2>5. g.truncated \/ g.visible = g.written
    BY <2>3, <2>4 DEF Conserved, Underway
  <2> QED BY <2>5 DEF ShowsAll, g
<1> QED BY <1>4, <1>5, <1>7, <1>8

-----------------------------------------------------------------------------
LEMMA InitOInv == Init => OInv
<1> SUFFICES ASSUME Init PROVE OInv
  OBVIOUS
<1>1. PlainTypes /\ SuccessShowsAll
  BY DEF Init, PlainTypes, SuccessShowsAll, Phases, Verdicts, Results
<1>4. PhaseInv
  BY DEF Init, PhaseInv, Fresh
<1>2. Fresh \in Way /\ Conserved(Fresh) /\ Drained(Fresh)
  BY LimitNat DEF Fresh, Way, Conserved, Underway, Drained
<1>3. FlowInv
  BY <1>2 DEF Init, FlowInv
<1> QED BY <1>1, <1>3, <1>4, InitInv DEF OInv

LEMMA OInvStep ==
    ASSUME OInv, [Next]_vars
    PROVE  OInv'
<1>1. EInv'
  BY EInvStep DEF OInv
<1>2. CASE UNCHANGED vars
  <2>1. UNCHANGED <<pc, ctx, verdict, result, audited, alive, group, holders, unborn, exitCode,
                    stream, cut, closed, watcher, done, finished, stranger, hit>>
    BY <1>2 DEF vars, outcome, procs, signals
  <2>2. PlainTypes'
    BY <2>1 DEF OInv, PlainTypes
  <2> QED BY <1>1, <2>1, <2>2, QuietKeeps DEF OInv
<1>3. CASE Cancel \/ Deadline \/ Recycle \/ Watch
  BY <1>1, <1>3, QuietSteps DEF OInv
<1>4. CASE Process
  BY <1>1, <1>4, QuietSteps, WriteOutputKeeps DEF Process, OInv
<1>5. CASE Output
  BY <1>1, <1>5, CopyReadKeeps, StreamReadKeeps, StreamEndKeeps DEF Output, OInv
<1>6. CASE WaitDelay \/ Run
  BY <1>1, <1>6, NotExecuted, StartedKeeps, WaitKeeps, CleanupKeeps, ConcludeKeeps DEF Run, OInv
<1> QED BY <1>2, <1>3, <1>4, <1>5, <1>6 DEF Next

THEOREM OInvHolds == Spec => []OInv
  BY InitOInv, OInvStep, PTL DEF Spec

\* The type invariant of Execution: no stage holds more pieces than were written, and
\* boundedOutput keeps no more than the action's limit.
THEOREM TypeCorrect == Spec => []TypeOK
<1>1. ASSUME OInv PROVE TypeOK
  <2>1. ASSUME NEW s \in Streams
        PROVE  stream[s] \in [written : 0 .. MaxPieces, pipe : 0 .. MaxPieces, held : 0 .. MaxPieces,
                  shipped : 0 .. MaxPieces, tail : 0 .. MaxPieces, visible : 0 .. Limit,
                  truncated : BOOLEAN, copier : {"none", "reading", "writing", "done"},
                  reader : {"none", "reading", "done"}]
    <3> DEFINE f == stream[s]
    <3>1. /\ f \in Way /\ Conserved(f) /\ f.written \in Nat /\ f.pipe \in Nat
          /\ f.held \in Nat /\ f.shipped \in Nat /\ f.tail \in Nat
      BY <1>1, StreamFacts
    <3> HIDE DEF f
    <3>2. /\ f.written \in 0 .. MaxPieces /\ f.pipe \in 0 .. MaxPieces
          /\ f.held \in 0 .. MaxPieces /\ f.shipped \in 0 .. MaxPieces /\ f.tail \in 0 .. MaxPieces
      BY <3>1, LimitNat DEF Conserved, Underway
    <3>3. f \in [written : 0 .. MaxPieces, pipe : 0 .. MaxPieces, held : 0 .. MaxPieces,
                  shipped : 0 .. MaxPieces, tail : 0 .. MaxPieces, visible : 0 .. Limit,
                  truncated : BOOLEAN, copier : {"none", "reading", "writing", "done"},
                  reader : {"none", "reading", "done"}]
      BY <3>1, <3>2 DEF Way
    <3> QED BY <3>3 DEF f
  <2>2. stream = [s \in Streams |-> stream[s]]
    BY <1>1 DEF OInv, FlowInv
  <2> QED BY <1>1, <2>1, <2>2 DEF OInv, PlainTypes, EInv, SignalInv, TypeOK
<1> QED BY <1>1, OInvHolds, PTL

\* A success that exits with zero and is not marked as truncated shows every piece that
\* the action wrote, whatever the streams, their limits and the order of the goroutines.
THEOREM SuccessAlwaysShowsAll == Spec => []SuccessShowsAll
<1>1. OInv => SuccessShowsAll
  BY DEF OInv
<1> QED BY <1>1, OInvHolds, PTL
=============================================================================

------------------------- MODULE RunLifecycleProofs -------------------------
(***************************************************************************)
(* The safety properties of RunLifecycle for any number of runs and         *)
(* connections, any cap and any number of faults, from RunAssumption.       *)
(***************************************************************************)
EXTENDS RunLifecycle, SequenceTheorems, FiniteSetTheorems, TLAPS

-----------------------------------------------------------------------------
(* The parts of TypeOK. *)

RowsOK ==
    /\ status \in [Runs -> Status] /\ generation \in [Runs -> 0 .. MaxConnection]
    /\ \A r \in Runs : /\ status[r] = "sent" => generation[r] # 0
                       /\ status[r] \in {"none", "pending"} => generation[r] = 0

TodoOK == todo \in [Processes -> Seq(Steps)]

BoxFrames == Frames({"run_action", "cancel"})

SocketOK ==
    /\ seen \subseteq Runs /\ resumes \in Nat /\ drains \in Nat
    /\ mailbox \in Seq(BoxFrames)

DownFrames == Frames({"run_action", "cancel", "ack", "finalize_failed"})
UpFrames   == Frames({"started", "result", "capped"}) \cup {Frame("runner_state", 0)}

WireOK == down \in Seq(DownFrames) /\ up \in Seq(UpFrames)

RunnerOK ==
    /\ entry \in [Runs -> {"none", "capped", "handler", "result"}]
    /\ ledger \in [Runs -> {"none", "reserved", "completed", "acknowledged"}]
    /\ \A r \in Runs : /\ entry[r] = "handler" => ledger[r] = "reserved"
                       /\ entry[r] = "capped" => ledger[r] = "none"
    /\ canceled \subseteq Runs /\ announced \subseteq Runs
    /\ preCanceled \subseteq Runs /\ retried \subseteq Runs
    /\ starts \in [Runs -> Nat]

CapOK == Cardinality(ActiveRuns) =< MaxConcurrentRuns

BoundsOK ==
    /\ lease \in {0, connections}
    /\ connections \in 0 .. MaxConnection /\ faults \in 0 .. MaxFaults

HistoryOK == onWire \subseteq Runs /\ repeated \subseteq Runs

\* An acknowledged request is on record, and so is a started one.
OnceInv ==
    \A r \in Runs : starts[r] =< 1 /\ (ledger[r] = "none" => starts[r] = 0)

\* A result is acknowledged, on the way and on the runner, when the row is settled.
SettledInv ==
    /\ \A r \in seen : status[r] \in Terminal
    /\ \A r \in Runs : \/ Contains(down, Frame("ack", r))
                       \/ ledger[r] = "acknowledged"
                       => status[r] \in Terminal

\* A row that says that the runner does not have the run, or never had it.
Unsent == {"none", "pending"} \cup NeverRan

\* A run_action is on its way, waits as a refusal, or the run is on the runner's record.
Asked(r)   == Contains(mailbox, Frame("run_action", r)) \/ Contains(down, Frame("run_action", r))
Refused(r) == Contains(up, Frame("capped", r))
Token(r)   == Asked(r) \/ Refused(r) \/ entry[r] = "capped" \/ ledger[r] # "none"

\* A process is about to send a frame for the run.
Publishing(r) ==
    \E p \in Processes : \E s \in Steps :
        Contains(todo[p], s) /\ s.run = r /\ s.op \in {"run_action", "recover"}

Once(s, x) == \A i, j \in 1 .. Len(s) : s[i] = x /\ s[j] = x => i = j

\* Its run_action is in one place: in the socket's mailbox or on the wire.
AskedOnce(r) ==
    /\ Once(mailbox, Frame("run_action", r)) /\ Once(down, Frame("run_action", r))
    /\ ~ (Contains(mailbox, Frame("run_action", r)) /\ Contains(down, Frame("run_action", r)))

\* One claim sends one frame, which is in one place until the run is started or the
\* row is queued again.
TokenOK(r) ==
    /\ Token(r) => r \in onWire /\ status[r] \notin Unsent
    /\ status[r] \in Unsent /\ r \notin onWire => ~ Publishing(r)
    /\ AskedOnce(r) /\ Once(up, Frame("capped", r))
    /\ Asked(r) => ~ Refused(r) /\ entry[r] # "capped" /\ ledger[r] = "none"
    /\ Refused(r) => entry[r] # "capped" /\ ledger[r] = "none"

TokenInv == \A r \in Runs : r \notin repeated => TokenOK(r)

-----------------------------------------------------------------------------
(* Constants, steps and frames. *)

LEMMA Constants ==
    /\ MaxRun \in Nat /\ MaxConcurrentRuns \in Nat /\ MaxConcurrentRuns > 0
    /\ MaxConnection \in Nat /\ MaxConnection > 0 /\ MaxFaults \in Nat
    /\ Runs = 1 .. MaxRun /\ IsFiniteSet(Runs) /\ 0 \notin Runs
    /\ Running \subseteq Runs /\ Cardinality(Running) =< MaxConcurrentRuns
  BY RunAssumption, FS_Interval DEF Runs

LEMMA TypeParts ==
    TypeOK <=> /\ RowsOK /\ TodoOK /\ SocketOK /\ WireOK /\ RunnerOK /\ CapOK /\ BoundsOK
               /\ HistoryOK
  BY DEF TypeOK, RowsOK, TodoOK, SocketOK, WireOK, RunnerOK, CapOK, BoundsOK, HistoryOK,
         ActiveRuns, BoxFrames, DownFrames, UpFrames

LEMMA StepKinds ==
    ASSUME NEW s \in Steps
    PROVE  /\ s.op # "queue" => s.run \in Runs
           /\ s.op = "claim" => s.from \in {"pending", "sent"} /\ s.at \in 1 .. MaxConnection
           /\ s.op = "run_action" => s.at \in 1 .. MaxConnection
           /\ s.op = "expire" => s.from \in {"pending"} \cup Inflight
           /\ s.op = "resolve_running" => s.from \in Inflight
  BY DEF Steps

LEMMA StepTypes ==
    ASSUME NEW r \in Runs, NEW at \in 1 .. MaxConnection
    PROVE  /\ Queue \in Steps
           /\ \A op \in {"dispatch", "redeliver", "cancel", "resolve_pending"} :
                 Step(op, r, "none", 0) \in Steps
           /\ \A op \in {"recover", "resolve_running"}, from \in Inflight :
                 Step(op, r, from, 0) \in Steps
           /\ \A from \in {"pending"} \cup Inflight : Step("expire", r, from, 0) \in Steps
           /\ \A from \in {"pending", "sent"} : Step("claim", r, from, at) \in Steps
           /\ \A op \in {"run_action", "resolve", "resolve_due"} :
                 Step(op, r, "none", at) \in Steps
  BY DEF Steps, Step, Queue

LEMMA QueueType == Queue \in Steps
  BY DEF Queue, Step, Steps

LEMMA StepFields ==
    ASSUME NEW op, NEW r, NEW from, NEW at
    PROVE  /\ Step(op, r, from, at).op = op /\ Step(op, r, from, at).run = r
           /\ Step(op, r, from, at).from = from /\ Step(op, r, from, at).at = at
           /\ Queue.op = "queue"
  BY DEF Step, Queue

LEMMA FrameTypes ==
    ASSUME NEW r \in Runs
    PROVE  /\ Frame("run_action", r) \in BoxFrames /\ Frame("cancel", r) \in BoxFrames
           /\ \A t \in {"run_action", "cancel", "ack", "finalize_failed"} : Frame(t, r) \in DownFrames
           /\ \A t \in {"started", "result", "capped"} : Frame(t, r) \in UpFrames
           /\ Frame("runner_state", 0) \in UpFrames
  BY DEF Frame, Frames, BoxFrames, DownFrames, UpFrames

LEMMA FrameFields ==
    ASSUME NEW t, NEW r
    PROVE  /\ Frame(t, r).type = t /\ Frame(t, r).run = r
  BY DEF Frame

LEMMA FrameEqual ==
    ASSUME NEW t, NEW r, NEW u, NEW q, Frame(t, r) = Frame(u, q)
    PROVE  t = u /\ r = q
<1>1. Frame(t, r).type = Frame(u, q).type /\ Frame(t, r).run = Frame(u, q).run
  OBVIOUS
<1> QED BY <1>1, FrameFields

LEMMA DownFrame ==
    ASSUME NEW f \in DownFrames
    PROVE  f.run \in Runs /\ f = Frame(f.type, f.run)
  BY DEF DownFrames, Frames, Frame

LEMMA UpFrame ==
    ASSUME NEW f \in UpFrames
    PROVE  /\ f.type # "runner_state" => f.run \in Runs
           /\ f = Frame(f.type, f.run)
  BY DEF UpFrames, Frames, Frame

-----------------------------------------------------------------------------
(* Queues. *)

LEMMA EmptyFacts == \A x : ~ Contains(<< >>, x) /\ Once(<< >>, x)
<1>1. Len(<< >>) = 0
  BY EmptySeq
<1> QED BY <1>1 DEF Contains, Once

LEMMA SingletonFacts ==
    ASSUME NEW S, NEW x \in S
    PROVE  <<x>> \in Seq(S) /\ \A y : Contains(<<x>>, y) <=> y = x
<1>1. <<x>> \in Seq(S) /\ Len(<<x>>) = 1 /\ <<x>>[1] = x
  OBVIOUS
<1> QED BY <1>1 DEF Contains

LEMMA AppendFacts ==
    ASSUME NEW S, NEW s \in Seq(S), NEW x \in S
    PROVE  /\ Append(s, x) \in Seq(S)
           /\ \A y : Contains(Append(s, x), y) <=> Contains(s, y) \/ y = x
           /\ \A y : Once(s, y) /\ (y = x => ~ Contains(s, y)) => Once(Append(s, x), y)
<1> DEFINE t == Append(s, x)
<1>1. /\ t \in Seq(S) /\ Len(t) = Len(s) + 1 /\ Len(s) \in Nat
      /\ \A i \in 1 .. Len(s) : t[i] = s[i]
      /\ t[Len(s) + 1] = x
  BY AppendProperties, LenProperties
<1> HIDE DEF t
<1>2. \A i \in 1 .. Len(t) : i \in 1 .. Len(s) \/ i = Len(s) + 1
  BY <1>1
<1>3. \A i \in 1 .. Len(s) : i \in 1 .. Len(t)
  BY <1>1
<1>4. Len(s) + 1 \in 1 .. Len(t)
  BY <1>1
<1>5. \A y : Contains(t, y) <=> Contains(s, y) \/ y = x
  BY <1>1, <1>2, <1>3, <1>4 DEF Contains
<1>6. ASSUME NEW y, Once(s, y), y = x => ~ Contains(s, y) PROVE Once(t, y)
  <2> SUFFICES ASSUME NEW i \in 1 .. Len(t), NEW j \in 1 .. Len(t), t[i] = y, t[j] = y
               PROVE  i = j
    BY DEF Once
  <2>1. CASE i \in 1 .. Len(s) /\ j \in 1 .. Len(s)
    BY <1>1, <1>6, <2>1 DEF Once
  <2>2. CASE i = Len(s) + 1 /\ j = Len(s) + 1
    BY <2>2
  <2>3. CASE i \in 1 .. Len(s) /\ j = Len(s) + 1
    BY <1>1, <1>6, <2>3 DEF Contains
  <2>4. CASE i = Len(s) + 1 /\ j \in 1 .. Len(s)
    BY <1>1, <1>6, <2>4 DEF Contains
  <2> QED BY <1>2, <2>1, <2>2, <2>3, <2>4
<1> QED BY <1>1, <1>5, <1>6 DEF t

LEMMA TailFacts ==
    ASSUME NEW S, NEW s \in Seq(S), s # << >>
    PROVE  /\ Head(s) \in S /\ Tail(s) \in Seq(S) /\ Contains(s, Head(s))
           /\ \A y : Contains(Tail(s), y) => Contains(s, y)
           /\ \A y : Once(s, y) => /\ Once(Tail(s), y)
                                   /\ y = Head(s) => ~ Contains(Tail(s), y)
<1> DEFINE t == Tail(s)
<1>1. /\ Head(s) = s[1] /\ Head(s) \in S
      /\ t \in Seq(S) /\ Len(t) = Len(s) - 1 /\ Len(s) \in Nat \ {0}
      /\ \A i \in 1 .. Len(t) : t[i] = s[i + 1]
  BY HeadTailProperties, EmptySeq, LenProperties
<1> HIDE DEF t
<1>2. \A i \in 1 .. Len(t) : i + 1 \in 1 .. Len(s) /\ i + 1 # 1
  BY <1>1
<1>3. 1 \in 1 .. Len(s)
  BY <1>1
<1>4. Contains(s, Head(s))
  BY <1>1, <1>3 DEF Contains
<1>5. \A y : Contains(t, y) => Contains(s, y)
  BY <1>1, <1>2 DEF Contains
<1>6. ASSUME NEW y, Once(s, y) PROVE Once(t, y)
  <2> SUFFICES ASSUME NEW i \in 1 .. Len(t), NEW j \in 1 .. Len(t), t[i] = y, t[j] = y
               PROVE  i = j
    BY DEF Once
  <2>1. s[i + 1] = y /\ s[j + 1] = y
    BY <1>1
  <2>2. i + 1 = j + 1
    BY <1>2, <1>6, <2>1 DEF Once
  <2> QED BY <2>2
<1>7. ASSUME NEW y, Once(s, y), y = Head(s), Contains(t, y) PROVE FALSE
  <2>1. PICK i \in 1 .. Len(t) : t[i] = y
    BY <1>7 DEF Contains
  <2>2. s[i + 1] = y /\ s[1] = y
    BY <1>1, <1>7, <2>1
  <2> QED BY <1>2, <1>3, <1>7, <2>2 DEF Once
<1> QED BY <1>1, <1>4, <1>5, <1>6, <1>7 DEF t

LEMMA ConcatFacts ==
    ASSUME NEW S, NEW s \in Seq(S), NEW t \in Seq(S)
    PROVE  /\ s \o t \in Seq(S)
           /\ \A y : Contains(s \o t, y) <=> Contains(s, y) \/ Contains(t, y)
<1> DEFINE u == s \o t
<1>1. /\ u \in Seq(S) /\ Len(u) = Len(s) + Len(t) /\ Len(s) \in Nat /\ Len(t) \in Nat
      /\ \A i \in 1 .. Len(s) + Len(t) : u[i] = IF i <= Len(s) THEN s[i] ELSE t[i - Len(s)]
  BY ConcatProperties, LenProperties
<1> HIDE DEF u
<1>2. \A i \in 1 .. Len(s) : i \in 1 .. Len(u) /\ u[i] = s[i]
  BY <1>1
<1>3. ASSUME NEW i \in 1 .. Len(t)
      PROVE  Len(s) + i \in 1 .. Len(u) /\ u[Len(s) + i] = t[i]
  <2>1. Len(s) + i \in 1 .. Len(s) + Len(t) /\ ~ (Len(s) + i <= Len(s)) /\ (Len(s) + i) - Len(s) = i
    BY <1>1
  <2>2. u[Len(s) + i] = t[(Len(s) + i) - Len(s)]
    BY <1>1, <2>1
  <2> QED BY <1>1, <2>1, <2>2
<1>4. \A i \in 1 .. Len(u) : \/ i \in 1 .. Len(s) /\ u[i] = s[i]
                             \/ i - Len(s) \in 1 .. Len(t) /\ u[i] = t[i - Len(s)]
  BY <1>1
<1>5. ASSUME NEW y, Contains(u, y) PROVE Contains(s, y) \/ Contains(t, y)
  <2>1. PICK i \in 1 .. Len(u) : u[i] = y
    BY <1>5 DEF Contains
  <2> QED BY <1>4, <2>1 DEF Contains
<1>6. ASSUME NEW y, Contains(s, y) \/ Contains(t, y) PROVE Contains(u, y)
  BY <1>2, <1>3, <1>6 DEF Contains
<1> QED BY <1>1, <1>5, <1>6 DEF u

LEMMA PushFacts ==
    ASSUME NEW S, NEW s \in Seq(S), NEW x \in S
    PROVE  s \o <<x>> = Append(s, x)
  OBVIOUS

LEMMA PushTwoFacts ==
    ASSUME NEW S, NEW s \in Seq(S), NEW x \in S, NEW y \in S
    PROVE  s \o (<<x>> \o <<y>>) = Append(Append(s, x), y)
<1>1. PICK t, u : t = <<x>> /\ u = <<y>> /\ t \in Seq(S) /\ u \in Seq(S)
  BY SingletonFacts
<1>2. (s \o t) \o u = s \o (t \o u)
  BY <1>1, ConcatAssociative
<1>3. s \o t = Append(s, x) /\ Append(s, x) \in Seq(S)
  BY <1>1, PushFacts
<1>4. Append(s, x) \o u = Append(Append(s, x), y)
  BY <1>1, <1>3, PushFacts
<1> QED BY <1>1, <1>2, <1>3, <1>4

\* A page lists rows of its set.
LEMMA PageFacts ==
    ASSUME NEW S, S \subseteq Runs, NEW page \in Pages(S)
    PROVE  /\ page \in Seq(S) /\ DOMAIN page = 1 .. Len(page) /\ Len(page) \in Nat
           /\ \A i \in DOMAIN page : page[i] \in S
<1>1. Cardinality(S) \in Nat
  BY Constants, FS_Subset, FS_CardinalityType
<1>2. page \in [1 .. Cardinality(S) -> S]
  BY DEF Pages
<1>3. page \in Seq(S)
  BY <1>1, <1>2
<1> QED BY <1>2, <1>3, LenProperties

\* ... and a list of steps, one for each of them, is a list of steps.
LEMMA StepList ==
    ASSUME NEW n \in Nat, NEW f, f = [i \in 1 .. n |-> f[i]], \A i \in 1 .. n : f[i] \in Steps
    PROVE  /\ f \in Seq(Steps)
           /\ \A s : Contains(f, s) => \E i \in 1 .. n : f[i] = s
<1>1. f \in Seq(Steps) /\ Len(f) = n
  OBVIOUS
<1> QED BY <1>1 DEF Contains

-----------------------------------------------------------------------------
(* What rows and lists of steps become. *)

LEMMA MovedFacts ==
    ASSUME RowsOK, NEW r \in Runs, NEW from, NEW to \in Status, NEW at \in 0 .. MaxConnection,
           to = "sent" => at # 0, to \in {"none", "pending"} => at = 0, Moved(r, from, to, at)
    PROVE  /\ RowsOK'
           /\ \A q \in Runs : status'[q] = IF q = r /\ status[r] = from THEN to ELSE status[q]
<1>1. CASE status[r] = from
  BY <1>1 DEF Moved, RowsOK
<1>2. CASE status[r] # from
  BY <1>2 DEF Moved, RowsOK, rows
<1> QED BY <1>1, <1>2

\* Steps that send no frame.
Plain(more) ==
    /\ more \in Seq(Steps)
    /\ \A s \in Steps : Contains(more, s) => s.op \notin {"run_action", "recover"}

LEMMA PlainLists ==
    /\ Plain(<< >>)
    /\ \A x \in Steps : x.op \notin {"run_action", "recover"} => Plain(<<x>>)
<1>1. << >> \in Seq(Steps)
  OBVIOUS
<1> QED BY <1>1, EmptyFacts, SingletonFacts DEF Plain

LEMMA PlainQueue == Plain(<<Queue>>)
<1>1. Queue.op = "queue"
  BY DEF Queue, Step
<1> QED BY <1>1, QueueType, PlainLists

LEMMA AtFacts ==
    ASSUME TodoOK, NEW p \in Processes, NEW op, At(p, op)
    PROVE  /\ todo[p] \in Seq(Steps) /\ todo[p] # << >> /\ Tail(todo[p]) \in Seq(Steps)
           /\ Head(todo[p]) \in Steps /\ Head(todo[p]).op = op
           /\ Contains(todo[p], Head(todo[p]))
           /\ \A s : Contains(Tail(todo[p]), s) => Contains(todo[p], s)
<1>1. todo[p] \in Seq(Steps) /\ todo[p] # << >> /\ Head(todo[p]).op = op
  BY DEF TodoOK, At
<1> QED BY <1>1, TailFacts

LEMMA ContinueFacts ==
    ASSUME TodoOK, NEW p \in Processes, NEW op, At(p, op), NEW more \in Seq(Steps),
           Continue(p, more)
    PROVE  /\ TodoOK'
           /\ \A q \in Processes : \A s : Contains(todo'[q], s) => Contains(todo[q], s) \/ Contains(more, s)
<1>1. /\ todo[p] \in Seq(Steps) /\ Tail(todo[p]) \in Seq(Steps)
      /\ \A s : Contains(Tail(todo[p]), s) => Contains(todo[p], s)
  BY AtFacts
<1>2. PICK list : list = more \o Tail(todo[p])
  OBVIOUS
<1>3. list \in Seq(Steps) /\ \A s : Contains(list, s) => Contains(more, s) \/ Contains(todo[p], s)
  BY <1>1, <1>2, ConcatFacts
<1>4. todo \in [Processes -> Seq(Steps)] /\ todo' = [todo EXCEPT ![p] = list]
  BY <1>2 DEF Continue, TodoOK
<1>5. TodoOK'
  BY <1>3, <1>4 DEF TodoOK
<1>6. \A q \in Processes : todo'[q] = IF q = p THEN list ELSE todo[q]
  BY <1>4
<1> QED BY <1>3, <1>5, <1>6

LEMMA Continued ==
    ASSUME TodoOK, NEW p \in Processes, NEW op, At(p, op), NEW more, Plain(more),
           Continue(p, more)
    PROVE  TodoOK' /\ \A r : Publishing(r)' => Publishing(r)
<1>1. /\ TodoOK'
      /\ \A q \in Processes : \A s : Contains(todo'[q], s) => Contains(todo[q], s) \/ Contains(more, s)
  BY ContinueFacts DEF Plain
<1> QED BY <1>1 DEF Plain, Publishing

LEMMA StartFacts ==
    ASSUME TodoOK, NEW p \in Processes, NEW list \in Seq(Steps), Start(p, list)
    PROVE  /\ TodoOK'
           /\ \A q \in Processes : \A s : Contains(todo'[q], s) => Contains(todo[q], s) \/ Contains(list, s)
<1>1. todo \in [Processes -> Seq(Steps)] /\ todo' = [todo EXCEPT ![p] = list]
  BY DEF Start, TodoOK
<1>2. TodoOK'
  BY <1>1 DEF TodoOK
<1>3. \A q \in Processes : todo'[q] = IF q = p THEN list ELSE todo[q]
  BY <1>1
<1> QED BY <1>2, <1>3

LEMMA StartedPlain ==
    ASSUME TodoOK, NEW p \in Processes, NEW list, Plain(list), Start(p, list)
    PROVE  TodoOK' /\ \A r : Publishing(r)' => Publishing(r)
<1>1. /\ TodoOK'
      /\ \A q \in Processes : \A s : Contains(todo'[q], s) => Contains(todo[q], s) \/ Contains(list, s)
  BY StartFacts DEF Plain
<1> QED BY <1>1 DEF Plain, Publishing

LEMMA FaultFacts ==
    ASSUME BoundsOK, Fault, lease' = lease \/ lease' = 0
    PROVE  BoundsOK'
  BY Constants DEF BoundsOK, Fault

-----------------------------------------------------------------------------
(* The inductive invariant. *)

Inv == TypeOK /\ OnceInv /\ SettledInv /\ TokenInv

LEMMA InvParts ==
    Inv <=> /\ RowsOK /\ TodoOK /\ SocketOK /\ WireOK /\ RunnerOK /\ CapOK /\ BoundsOK /\ HistoryOK
            /\ OnceInv /\ SettledInv /\ TokenInv
  BY TypeParts DEF Inv

LEMMA InvNext ==
    ASSUME RowsOK', TodoOK', SocketOK', WireOK', RunnerOK', CapOK', BoundsOK', HistoryOK',
           OnceInv', SettledInv', TokenInv'
    PROVE  Inv'
<1>1. TypeOK'
  BY DEF TypeOK, RowsOK, TodoOK, SocketOK, WireOK, RunnerOK, CapOK, BoundsOK, HistoryOK,
         ActiveRuns, BoxFrames, DownFrames, UpFrames
<1> QED BY <1>1 DEF Inv

LEMMA SettledKept ==
    ASSUME SettledInv, SocketOK, \A r \in Runs : status[r] \in Terminal => status'[r] \in Terminal,
           seen' \subseteq seen,
           \A r \in Runs : Contains(down', Frame("ack", r)) => Contains(down, Frame("ack", r)),
           \A r \in Runs : ledger'[r] = "acknowledged" => ledger[r] = "acknowledged"
    PROVE  SettledInv'
  BY DEF SettledInv, SocketOK

\* No frame and no claim is added.
LEMMA Calm ==
    ASSUME TokenInv, UNCHANGED <<onWire, repeated>>,
           \A r \in Runs : /\ status'[r] \in Unsent => status[r] \in Unsent
                           /\ Publishing(r)' => Publishing(r) \/ status'[r] \notin Unsent
                           /\ Asked(r)' => Asked(r)
                           /\ Refused(r)' => Refused(r)
                           /\ AskedOnce(r) => AskedOnce(r)'
                           /\ Once(up, Frame("capped", r)) => Once(up', Frame("capped", r))
                           /\ entry'[r] = "capped" => entry[r] = "capped"
                           /\ ledger'[r] # "none" => ledger[r] # "none"
    PROVE  TokenInv'
<1> SUFFICES ASSUME NEW r \in Runs, r \notin repeated PROVE TokenOK(r)'
  BY DEF TokenInv
<1>1. TokenOK(r)
  BY DEF TokenInv
<1>2. Token(r)' => Token(r)
  BY DEF Token
<1> QED BY <1>1, <1>2 DEF TokenOK

\* A step of the portal that sends nothing.
LEMMA PortalKept ==
    ASSUME Inv, RowsOK', TodoOK', SocketOK', BoundsOK', UNCHANGED <<seen, mailbox>>,
           UNCHANGED <<down, up, runner, history>>,
           \A r \in Runs : /\ status[r] \in Terminal => status'[r] \in Terminal
                           /\ status'[r] \in Unsent => status[r] \in Unsent
                           /\ Publishing(r)' => Publishing(r) \/ status'[r] \notin Unsent
    PROVE  Inv'
<1>1. UNCHANGED <<entry, ledger, canceled, announced, preCanceled, retried, starts, onWire, repeated>>
  BY DEF runner, history
<1>2. WireOK' /\ RunnerOK' /\ HistoryOK'
  BY <1>1, InvParts DEF WireOK, RunnerOK, HistoryOK
<1>3. CapOK'
  BY <1>1, InvParts DEF CapOK, ActiveRuns
<1>4. OnceInv'
  BY <1>1 DEF Inv, OnceInv
<1>5. SettledInv'
  BY <1>1, InvParts, SettledKept
<1>6. TokenInv'
  BY <1>1, InvParts, Calm DEF Asked, AskedOnce, Refused
<1> QED BY <1>2, <1>3, <1>4, <1>5, <1>6, InvNext

-----------------------------------------------------------------------------
(* Steps of the portal's processes that send nothing. *)

LEMMA Reads ==
    ASSUME Inv, TodoOK', SocketOK', BoundsOK', UNCHANGED <<seen, mailbox>>,
           UNCHANGED <<rows, down, up, runner, history>>,
           \A r \in Runs : Publishing(r)' => Publishing(r) \/ status[r] \notin Unsent
    PROVE  Inv'
<1>1. UNCHANGED <<status, generation>>
  BY DEF rows
<1>2. RowsOK'
  BY <1>1, InvParts DEF RowsOK
<1> QED BY <1>1, <1>2, PortalKept

\* A step that replaces itself by others.
LEMMA StepReads ==
    ASSUME Inv, NEW p \in Processes, NEW op, At(p, op), NEW more, Plain(more), Continue(p, more),
           UNCHANGED <<rows, lease, socket, down, up, runner, bounds, history>>
    PROVE  Inv'
<1>1. TodoOK' /\ \A r : Publishing(r)' => Publishing(r)
  BY InvParts, Continued
<1>2. SocketOK' /\ BoundsOK' /\ UNCHANGED <<seen, mailbox>>
  BY InvParts DEF SocketOK, BoundsOK, socket, bounds
<1> QED BY <1>1, <1>2, Reads

LEMMA ClaimsFacts ==
    ASSUME BoundsOK, NEW r \in Runs
    PROVE  Plain(Claims(r))
<1>1. CASE status[r] = "pending" /\ lease # 0
  <2>1. lease \in 1 .. MaxConnection
    BY <1>1, Constants DEF BoundsOK
  <2>2. Step("claim", r, "pending", lease) \in Steps
    BY <2>1, StepTypes
  <2>3. Step("claim", r, "pending", lease).op = "claim"
    BY StepFields
  <2> QED BY <1>1, <2>2, <2>3, PlainLists DEF Claims
<1>2. CASE ~ (status[r] = "pending" /\ lease # 0)
  BY <1>2, PlainLists DEF Claims
<1> QED BY <1>1, <1>2

LEMMA DispatchToRunnerInv == ASSUME Inv, NEW p \in Processes, DispatchToRunner(p) PROVE Inv'
<1>1. At(p, "dispatch") /\ Continue(p, Claims(Head(todo[p]).run))
  BY DEF DispatchToRunner
<1>2. Head(todo[p]).run \in Runs
  BY <1>1, InvParts, AtFacts, StepKinds
<1>3. Plain(Claims(Head(todo[p]).run))
  BY <1>2, InvParts, ClaimsFacts
<1> QED BY <1>1, <1>3, StepReads DEF DispatchToRunner

LEMMA DispatchQueuedInv == ASSUME Inv, NEW p \in Processes, DispatchQueued(p) PROVE Inv'
<1> DEFINE more == IF Oldest = {} THEN << >> ELSE Claims(CHOOSE r \in Oldest : TRUE)
<1>1. At(p, "queue") /\ Continue(p, more)
  BY DEF DispatchQueued
<1>2. CASE Oldest # {}
  <2>1. (CHOOSE r \in Oldest : TRUE) \in Runs
    BY <1>2 DEF Oldest
  <2> QED BY <1>1, <1>2, <2>1, InvParts, ClaimsFacts, StepReads DEF DispatchQueued
<1>3. CASE Oldest = {}
  BY <1>1, <1>3, PlainLists, StepReads DEF DispatchQueued
<1> QED BY <1>2, <1>3

LEMMA RedeliverToRunnerInv == ASSUME Inv, NEW p \in Processes, RedeliverToRunner(p) PROVE Inv'
<1> DEFINE r == Head(todo[p]).run
           more == IF status[r] = "sent" /\ lease # 0 /\ lease = generation[r]
                   THEN <<Step("claim", r, "sent", lease)>> ELSE << >>
<1>1. At(p, "redeliver") /\ Continue(p, more)
  BY DEF RedeliverToRunner
<1>2. r \in Runs
  BY <1>1, InvParts, AtFacts, StepKinds
<1>3. Plain(more)
  <2>1. CASE lease # 0
    <3>1. lease \in 1 .. MaxConnection
      BY <2>1, InvParts, Constants DEF BoundsOK
    <3>2. Step("claim", r, "sent", lease) \in Steps
      BY <1>2, <3>1, StepTypes
    <3>3. Step("claim", r, "sent", lease).op = "claim"
      BY StepFields
    <3> QED BY <3>2, <3>3, PlainLists
  <2> QED BY <2>1, PlainLists
<1> HIDE DEF more
<1> QED BY <1>1, <1>3, StepReads DEF RedeliverToRunner

LEMMA ResolveStaleInv == ASSUME Inv, NEW p \in Processes, ResolveStale(p) PROVE Inv'
<1> DEFINE s == Head(todo[p])
<1>1. PICK op \in {"resolve", "resolve_due"} : At(p, op)
  BY DEF ResolveStale
<1>2. s.run \in Runs
  BY <1>1, InvParts, AtFacts, StepKinds
<1>3. PICK more : Plain(more) /\ Continue(p, more)
  <2>1. \/ Continue(p, <<Step("expire", s.run, "sent", 0)>>)
        \/ Continue(p, <<Step("redeliver", s.run, "none", 0)>>)
        \/ Continue(p, << >>)
    BY DEF ResolveStale
  <2>2. Step("expire", s.run, "sent", 0) \in Steps /\ Step("redeliver", s.run, "none", 0) \in Steps
    BY <1>2, StepTypes, Constants DEF Inflight
  <2>3. /\ Step("expire", s.run, "sent", 0).op = "expire"
        /\ Step("redeliver", s.run, "none", 0).op = "redeliver"
    BY StepFields
  <2> QED BY <2>1, <2>2, <2>3, PlainLists
<1> QED BY <1>1, <1>3, StepReads DEF ResolveStale

LEMMA ResolvePendingInv == ASSUME Inv, NEW p \in Processes, ResolvePending(p) PROVE Inv'
<1> DEFINE s == Head(todo[p])
<1>1. At(p, "resolve_pending")
  BY DEF ResolvePending
<1>2. s.run \in Runs
  BY <1>1, InvParts, AtFacts, StepKinds
<1>3. PICK more : Plain(more) /\ Continue(p, more)
  <2>1. Continue(p, <<Queue>>) \/ Continue(p, <<Step("expire", s.run, "pending", 0)>>)
    BY DEF ResolvePending
  <2>2. Step("expire", s.run, "pending", 0) \in Steps
    BY <1>2, StepTypes, Constants
  <2>3. Step("expire", s.run, "pending", 0).op = "expire"
    BY StepFields
  <2> QED BY <2>1, <2>2, <2>3, PlainLists, PlainQueue
<1> QED BY <1>1, <1>3, StepReads DEF ResolvePending

LEMMA ResolveRunningInv == ASSUME Inv, NEW p \in Processes, ResolveRunning(p) PROVE Inv'
<1> DEFINE s == Head(todo[p])
<1>1. At(p, "resolve_running")
  BY DEF ResolveRunning
<1>2. s.run \in Runs /\ s.from \in Inflight
  BY <1>1, InvParts, AtFacts, StepKinds
<1>3. PICK more : Plain(more) /\ Continue(p, more)
  <2>1. Continue(p, << >>) \/ Continue(p, <<Step("expire", s.run, s.from, 0)>>)
    BY DEF ResolveRunning
  <2>2. Step("expire", s.run, s.from, 0) \in Steps
    <3>1. 1 \in 1 .. MaxConnection /\ s.from \in {"pending"} \cup Inflight
      BY <1>2, Constants
    <3> HIDE DEF s
    <3> QED BY <1>2, <3>1, StepTypes
  <2>3. Step("expire", s.run, s.from, 0).op = "expire"
    BY StepFields
  <2> QED BY <2>1, <2>2, <2>3, PlainLists
<1> QED BY <1>1, <1>3, StepReads DEF ResolveRunning

\* A write of a row that is still open, by a process at a step.
LEMMA StepWrites ==
    ASSUME Inv, NEW p \in Processes, NEW op, At(p, op), NEW more, Plain(more), Continue(p, more),
           NEW r \in Runs, NEW from \in {"none", "pending"} \cup Inflight, NEW to \in Status,
           to \in NeverRan => from = "pending", to \notin {"none", "pending", "sent"},
           NEW at \in 0 .. MaxConnection, Moved(r, from, to, at),
           BoundsOK', UNCHANGED <<socket, down, up, runner, history>>
    PROVE  Inv'
<1>1. TodoOK' /\ \A q : Publishing(q)' => Publishing(q)
  BY InvParts, Continued
<1>2. SocketOK' /\ UNCHANGED <<seen, mailbox>>
  BY InvParts DEF SocketOK, socket
<1>3. /\ RowsOK'
      /\ \A q \in Runs : status'[q] = IF q = r /\ status[r] = from THEN to ELSE status[q]
  BY InvParts, MovedFacts
<1>4. \A q \in Runs : /\ status[q] \in Terminal => status'[q] \in Terminal
                      /\ status'[q] \in Unsent => status[q] \in Unsent
  BY <1>3 DEF Terminal, Inflight, NeverRan, Unsent
<1> QED BY <1>1, <1>2, <1>3, <1>4, PortalKept

LEMMA GenerationFacts ==
    ASSUME RowsOK, NEW r \in Runs
    PROVE  generation[r] \in 0 .. MaxConnection /\ status[r] \in Status
           /\ (status[r] = "sent" => generation[r] \in 1 .. MaxConnection)
  BY Constants DEF RowsOK

LEMMA ExpireInv == ASSUME Inv, NEW p \in Processes, Expire(p) PROVE Inv'
<1> DEFINE s == Head(todo[p])
           to == IF s.from = "pending" THEN "unreached" ELSE "expired"
<1>1. At(p, "expire") /\ Moved(s.run, s.from, to, generation[s.run])
  BY DEF Expire, MarkErrored
<1>2. s.run \in Runs /\ s.from \in {"pending"} \cup Inflight
  BY <1>1, InvParts, AtFacts, StepKinds
<1>3. PICK more : Plain(more) /\ Continue(p, more)
  BY PlainLists, PlainQueue DEF Expire
<1>4. /\ to \in Status /\ (to \in NeverRan => s.from = "pending")
      /\ to \notin {"none", "pending", "sent"} /\ s.from \in {"none", "pending"} \cup Inflight
  BY <1>2 DEF Status, Terminal, NeverRan, Inflight
<1>5. generation[s.run] \in 0 .. MaxConnection
  BY <1>2, InvParts, GenerationFacts
<1>6. BoundsOK' /\ UNCHANGED <<socket, down, up, runner, history>>
  BY InvParts DEF Expire, BoundsOK, bounds
<1> HIDE DEF to
<1> QED BY <1>1, <1>2, <1>3, <1>4, <1>5, <1>6, StepWrites

LEMMA MarkRefusedInv == ASSUME Inv, NEW p \in Processes, MarkRefused(p) PROVE Inv'
<1> DEFINE r == Head(todo[p]).run
<1>1. /\ At(p, "claim") /\ status[r] \notin Terminal
      /\ Moved(r, status[r], "refused", generation[r]) /\ Continue(p, << >>)
  BY DEF MarkRefused
<1>2. r \in Runs
  BY <1>1, InvParts, AtFacts, StepKinds
<1>3. /\ generation[r] \in 0 .. MaxConnection
      /\ status[r] \in {"none", "pending"} \cup Inflight
  BY <1>1, <1>2, InvParts, GenerationFacts DEF Status
<1>4. /\ "refused" \in Status /\ "refused" \notin NeverRan
      /\ "refused" \notin {"none", "pending", "sent"}
  BY DEF Status, Terminal, NeverRan
<1>5. BoundsOK' /\ UNCHANGED <<socket, down, up, runner, history>>
  BY InvParts, FaultFacts DEF MarkRefused
<1> QED BY <1>1, <1>2, <1>3, <1>4, <1>5, PlainLists, StepWrites

LEMMA RefuseInitiatorInv == ASSUME Inv, NEW p \in Processes, RefuseInitiator(p) PROVE Inv'
<1> DEFINE r == Head(todo[p]).run
<1>1. /\ At(p, "claim") /\ Moved(r, "pending", "refused", 0)
  BY DEF RefuseInitiator
<1>2. r \in Runs
  BY <1>1, InvParts, AtFacts, StepKinds
<1>3. PICK more : Plain(more) /\ Continue(p, more)
  BY PlainLists, PlainQueue DEF RefuseInitiator
<1>4. /\ "refused" \in Status /\ "refused" \notin NeverRan
      /\ "refused" \notin {"none", "pending", "sent"} /\ 0 \in 0 .. MaxConnection
  BY Constants DEF Status, Terminal, NeverRan
<1>5. BoundsOK' /\ UNCHANGED <<socket, down, up, runner, history>>
  BY InvParts, FaultFacts DEF RefuseInitiator
<1> QED BY <1>1, <1>2, <1>3, <1>4, <1>5, StepWrites

-----------------------------------------------------------------------------
(* What starts a process. *)

LEMMA ProcessFacts ==
    /\ \A r \in Runs : <<"operator", r>> \in Processes
    /\ Sweeper \in Processes
    /\ \A c \in 1 .. MaxConnection : <<"socket", c>> \in Processes
  BY DEF Processes, Sweeper

LEMMA CreateInv == ASSUME Inv, NEW r \in Runs, Create(r) PROVE Inv'
<1>1. /\ status[r] = "none" /\ status' = [status EXCEPT ![r] = "pending"]
      /\ Start(<<"operator", r>>, <<Step("dispatch", r, "none", 0)>>)
      /\ UNCHANGED <<generation, lease, socket, down, up, runner, bounds, history>>
  BY DEF Create
<1>2. Plain(<<Step("dispatch", r, "none", 0)>>)
  <2>1. 1 \in 1 .. MaxConnection
    BY Constants
  <2>2. Step("dispatch", r, "none", 0) \in Steps /\ Step("dispatch", r, "none", 0).op = "dispatch"
    BY <2>1, StepTypes, StepFields
  <2> QED BY <2>2, PlainLists
<1>3. TodoOK' /\ \A q : Publishing(q)' => Publishing(q)
  BY <1>1, <1>2, InvParts, ProcessFacts, StartedPlain
<1>4. RowsOK'
  BY <1>1, InvParts DEF RowsOK, Status
<1>5. \A q \in Runs : status'[q] = IF q = r THEN "pending" ELSE status[q]
  BY <1>1, InvParts DEF RowsOK
<1>6. \A q \in Runs : /\ status[q] \in Terminal => status'[q] \in Terminal
                      /\ status'[q] \in Unsent => status[q] \in Unsent
  BY <1>1, <1>5 DEF Terminal, NeverRan, Unsent
<1>7. SocketOK' /\ BoundsOK' /\ UNCHANGED <<seen, mailbox>>
  BY <1>1, InvParts DEF SocketOK, BoundsOK, socket, bounds
<1> QED BY <1>1, <1>3, <1>4, <1>6, <1>7, PortalKept

LEMMA PlainCancel ==
    ASSUME NEW r \in Runs PROVE Plain(<<Step("cancel", r, "none", 0)>>)
<1>1. 1 \in 1 .. MaxConnection
  BY Constants
<1>2. Step("cancel", r, "none", 0) \in Steps /\ Step("cancel", r, "none", 0).op = "cancel"
  BY <1>1, StepTypes, StepFields
<1> QED BY <1>2, PlainLists

LEMMA CancelInv == ASSUME Inv, NEW r \in Runs, Cancel(r) PROVE Inv'
<1>1. PICK list : Plain(list) /\ Start(<<"operator", r>>, list)
  BY PlainLists, PlainCancel DEF Cancel
<1>2. TodoOK' /\ \A q : Publishing(q)' => Publishing(q)
  BY <1>1, InvParts, ProcessFacts, StartedPlain
<1>3. PICK from, to, at : /\ from \in {"pending", "sent", "running"}
                          /\ to = (IF from = "pending" THEN "cancelled" ELSE "cancelling")
                          /\ at \in 0 .. MaxConnection /\ Moved(r, from, to, at)
  <2>1. 0 \in 0 .. MaxConnection /\ generation[r] \in 0 .. MaxConnection
    BY Constants, InvParts, GenerationFacts
  <2>2. \/ Moved(r, "pending", "cancelled", 0)
        \/ status[r] \in {"sent", "running"} /\ Moved(r, status[r], "cancelling", generation[r])
    BY DEF Cancel
  <2>3. CASE Moved(r, "pending", "cancelled", 0)
    BY <2>1, <2>3
  <2>4. CASE status[r] \in {"sent", "running"} /\ Moved(r, status[r], "cancelling", generation[r])
    <3>1. "cancelling" = IF status[r] = "pending" THEN "cancelled" ELSE "cancelling"
      BY <2>4
    <3> QED BY <2>1, <2>4, <3>1
  <2> QED BY <2>2, <2>3, <2>4
<1>4. to \in Status /\ to \notin {"none", "pending", "sent"}
  BY <1>3 DEF Status, Terminal, NeverRan, Inflight
<1>5. /\ RowsOK'
      /\ \A q \in Runs : status'[q] = IF q = r /\ status[r] = from THEN to ELSE status[q]
  BY <1>3, <1>4, InvParts, MovedFacts
<1>6. \A q \in Runs : /\ status[q] \in Terminal => status'[q] \in Terminal
                      /\ status'[q] \in Unsent => status[q] \in Unsent
  BY <1>3, <1>5 DEF Terminal, NeverRan, Unsent
<1>7. SocketOK' /\ BoundsOK' /\ UNCHANGED <<seen, mailbox>>
  BY InvParts DEF Cancel, SocketOK, BoundsOK, socket, bounds
<1>8. UNCHANGED <<down, up, runner, history>>
  BY DEF Cancel
<1> QED BY <1>2, <1>5, <1>6, <1>7, <1>8, PortalKept

LEMMA CancelAgainInv == ASSUME Inv, NEW r \in Runs, CancelAgain(r) PROVE Inv'
<1>1. /\ Start(<<"operator", r>>, <<Step("cancel", r, "none", 0)>>) /\ Fault
      /\ UNCHANGED <<rows, lease, socket, down, up, runner, history>>
  BY DEF CancelAgain
<1>2. TodoOK' /\ \A q : Publishing(q)' => Publishing(q)
  BY <1>1, InvParts, ProcessFacts, StartedPlain, PlainCancel
<1>3. SocketOK' /\ BoundsOK' /\ UNCHANGED <<seen, mailbox>>
  BY <1>1, InvParts, FaultFacts DEF SocketOK, socket
<1> QED BY <1>1, <1>2, <1>3, Reads

LEMMA PlainPage ==
    ASSUME NEW S, S \subseteq Runs, NEW found \in Pages(S), NEW page,
           DOMAIN page = DOMAIN found, page = [i \in DOMAIN page |-> page[i]],
           \A i \in DOMAIN found : page[i] \in Steps /\ page[i].op \notin {"run_action", "recover"}
    PROVE  Plain(page)
<1>1. DOMAIN found = 1 .. Len(found) /\ Len(found) \in Nat
  BY PageFacts
<1>2. page \in Seq(Steps) /\ \A s : Contains(page, s) => \E i \in 1 .. Len(found) : page[i] = s
  BY <1>1, StepList
<1> QED BY <1>1, <1>2 DEF Plain

LEMMA SweepReads ==
    ASSUME Inv, NEW list, Plain(list), Start(Sweeper, list), BoundsOK',
           UNCHANGED <<rows, lease, socket, down, up, runner, history>>
    PROVE  Inv'
<1>1. TodoOK' /\ \A q : Publishing(q)' => Publishing(q)
  BY InvParts, ProcessFacts, StartedPlain
<1>2. SocketOK' /\ UNCHANGED <<seen, mailbox>>
  BY InvParts DEF SocketOK, socket
<1> QED BY <1>1, <1>2, Reads

LEMMA SweepSentInv == ASSUME Inv, SweepSent PROVE Inv'
<1>1. PICK due \in SUBSET Rows({"sent"}) :
         \E found \in Pages({r \in Rows({"sent"}) : r \in due \/ lease \in {0, generation[r]}}) :
            /\ Start(Sweeper, [i \in DOMAIN found |-> SentVerdict(found[i], due)])
            /\ Fault \/ UNCHANGED bounds
            /\ UNCHANGED <<rows, lease, socket, down, up, runner, history>>
  BY DEF SweepSent
<1> DEFINE S == {r \in Rows({"sent"}) : r \in due \/ lease \in {0, generation[r]}}
           verdict(r) == SentVerdict(r, due)
<1>2. S \subseteq Runs
  BY DEF Rows
<1>3. ASSUME NEW r \in S PROVE verdict(r) \in Steps /\ verdict(r).op \notin {"run_action", "recover"}
  <2>1. r \in Runs /\ generation[r] \in 1 .. MaxConnection
    BY <1>2, <1>3, InvParts, GenerationFacts DEF Rows
  <2>2. /\ Step("resolve_due", r, "none", generation[r]) \in Steps
        /\ Step("resolve", r, "none", generation[r]) \in Steps
        /\ Step("redeliver", r, "none", 0) \in Steps
    BY <2>1, StepTypes
  <2>3. /\ Step("resolve_due", r, "none", generation[r]).op = "resolve_due"
        /\ Step("resolve", r, "none", generation[r]).op = "resolve"
        /\ Step("redeliver", r, "none", 0).op = "redeliver"
    BY StepFields
  <2>4. \/ verdict(r) = Step("resolve_due", r, "none", generation[r])
        \/ verdict(r) = Step("resolve", r, "none", generation[r])
        \/ verdict(r) = Step("redeliver", r, "none", 0)
    BY DEF SentVerdict
  <2> QED BY <2>2, <2>3, <2>4
<1>4. PICK found \in Pages(S) :
         /\ Start(Sweeper, [i \in DOMAIN found |-> verdict(found[i])]) /\ (Fault \/ UNCHANGED bounds)
         /\ UNCHANGED <<rows, lease, socket, down, up, runner, history>>
  BY <1>1
<1> HIDE DEF verdict
<1>5. Plain([i \in DOMAIN found |-> verdict(found[i])])
  <2>1. PICK page : page = [i \in DOMAIN found |-> verdict(found[i])]
    OBVIOUS
  <2>2. \A i \in DOMAIN found : found[i] \in S
    BY <1>2, PageFacts
  <2>3. /\ DOMAIN page = DOMAIN found /\ page = [i \in DOMAIN page |-> page[i]]
        /\ \A i \in DOMAIN found : page[i] = verdict(found[i])
    BY <2>1
  <2>4. Plain(page)
    BY <1>2, <1>3, <2>2, <2>3, PlainPage
  <2> QED BY <2>1, <2>4
<1>6. BoundsOK'
  BY <1>4, InvParts, FaultFacts DEF BoundsOK, bounds
<1> QED BY <1>4, <1>5, <1>6, SweepReads

LEMMA SweepPendingInv == ASSUME Inv, SweepPending PROVE Inv'
<1> DEFINE step(r) == Step("resolve_pending", r, "none", 0)
<1>1. PICK found \in Pages(Rows({"pending"})) :
         /\ Start(Sweeper, IF lease # 0 THEN <<Queue>> ELSE [i \in DOMAIN found |-> step(found[i])])
         /\ UNCHANGED <<rows, lease, socket, down, up, runner, bounds, history>>
  BY DEF SweepPending
<1>2. Rows({"pending"}) \subseteq Runs
  BY DEF Rows
<1>3. ASSUME NEW r \in Rows({"pending"})
      PROVE  step(r) \in Steps /\ step(r).op \notin {"run_action", "recover"}
  <2>1. r \in Runs /\ 1 \in 1 .. MaxConnection
    BY <1>2, <1>3, Constants
  <2>2. step(r) \in Steps /\ step(r).op = "resolve_pending"
    BY <2>1, StepTypes, StepFields
  <2> QED BY <2>2
<1> HIDE DEF step
<1>4. Plain([i \in DOMAIN found |-> step(found[i])])
  <2>1. PICK page : page = [i \in DOMAIN found |-> step(found[i])]
    OBVIOUS
  <2>2. \A i \in DOMAIN found : found[i] \in Rows({"pending"})
    BY <1>2, PageFacts
  <2>3. /\ DOMAIN page = DOMAIN found /\ page = [i \in DOMAIN page |-> page[i]]
        /\ \A i \in DOMAIN found : page[i] = step(found[i])
    BY <2>1
  <2>4. Plain(page)
    BY <1>2, <1>3, <2>2, <2>3, PlainPage
  <2> QED BY <2>1, <2>4
<1>5. BoundsOK'
  BY <1>1, InvParts DEF BoundsOK, bounds
<1> QED BY <1>1, <1>4, <1>5, PlainQueue, SweepReads

LEMMA SweepRunningInv == ASSUME Inv, SweepRunning PROVE Inv'
<1> DEFINE step(r) == Step("resolve_running", r, status[r], 0)
           S == Rows({"running", "cancelling"})
<1>1. PICK found \in Pages(S) :
         /\ Start(Sweeper, [i \in DOMAIN found |-> step(found[i])])
         /\ UNCHANGED <<rows, lease, socket, down, up, runner, bounds, history>>
  BY DEF SweepRunning
<1>2. S \subseteq Runs
  BY DEF Rows
<1>3. ASSUME NEW r \in S
      PROVE  step(r) \in Steps /\ step(r).op \notin {"run_action", "recover"}
  <2>1. r \in Runs /\ status[r] \in Inflight /\ 1 \in 1 .. MaxConnection
    BY <1>2, <1>3, Constants DEF Rows, Inflight
  <2>2. step(r) \in Steps /\ step(r).op = "resolve_running"
    BY <2>1, StepTypes, StepFields
  <2> QED BY <2>2
<1> HIDE DEF step
<1>4. Plain([i \in DOMAIN found |-> step(found[i])])
  <2>1. PICK page : page = [i \in DOMAIN found |-> step(found[i])]
    OBVIOUS
  <2>2. \A i \in DOMAIN found : found[i] \in S
    BY <1>2, PageFacts
  <2>3. /\ DOMAIN page = DOMAIN found /\ page = [i \in DOMAIN page |-> page[i]]
        /\ \A i \in DOMAIN found : page[i] = step(found[i])
    BY <2>1
  <2>4. Plain(page)
    BY <1>2, <1>3, <2>2, <2>3, PlainPage
  <2> QED BY <2>1, <2>4
<1>5. BoundsOK'
  BY <1>1, InvParts DEF BoundsOK, bounds
<1> QED BY <1>1, <1>4, <1>5, SweepReads

-----------------------------------------------------------------------------
(* Frames to the runner. *)

LEMMA FrameSent ==
    ASSUME NEW S, NEW s \in Seq(S), NEW t, NEW r, Frame(t, r) \in S
    PROVE  /\ Append(s, Frame(t, r)) \in Seq(S)
           /\ \A u, q : Contains(Append(s, Frame(t, r)), Frame(u, q))
                           <=> Contains(s, Frame(u, q)) \/ (u = t /\ q = r)
           /\ \A u, q : /\ Once(s, Frame(u, q))
                        /\ u = t /\ q = r => ~ Contains(s, Frame(u, q))
                        => Once(Append(s, Frame(t, r)), Frame(u, q))
<1>1. \A u, q : Frame(u, q) = Frame(t, r) <=> u = t /\ q = r
  BY FrameEqual
<1> QED BY <1>1, AppendFacts

LEMMA DeliverCancelInv == ASSUME Inv, NEW p \in Processes, DeliverCancel(p) PROVE Inv'
<1> DEFINE r == Head(todo[p]).run
<1>1. /\ At(p, "cancel") /\ Continue(p, << >>)
      /\ mailbox' = mailbox \/ mailbox' = Append(mailbox, Frame("cancel", r))
      /\ UNCHANGED <<rows, lease, seen, resumes, drains, down, up, runner, bounds, history>>
  BY DEF DeliverCancel
<1>2. UNCHANGED <<status, generation, seen, resumes, drains, entry, ledger, canceled, announced,
                  preCanceled, retried, starts, connections, faults, onWire, repeated>>
  BY <1>1 DEF rows, runner, bounds, history
<1>3. r \in Runs
  BY <1>1, InvParts, AtFacts, StepKinds
<1>4. TodoOK' /\ \A q : Publishing(q)' => Publishing(q)
  BY <1>1, InvParts, PlainLists, Continued
<1>5. /\ mailbox' \in Seq(BoxFrames)
      /\ \A u, q : u # "cancel" => /\ Contains(mailbox', Frame(u, q)) <=> Contains(mailbox, Frame(u, q))
                                   /\ Once(mailbox, Frame(u, q)) => Once(mailbox', Frame(u, q))
  <2>1. mailbox \in Seq(BoxFrames) /\ Frame("cancel", r) \in BoxFrames
    BY <1>3, InvParts, FrameTypes DEF SocketOK
  <2> HIDE DEF r
  <2>2. CASE mailbox' = Append(mailbox, Frame("cancel", r))
    BY <2>1, <2>2, FrameSent
  <2> QED BY <1>1, <2>1, <2>2
<1>6. RowsOK' /\ SocketOK' /\ WireOK' /\ RunnerOK' /\ BoundsOK' /\ HistoryOK' /\ OnceInv'
  BY <1>1, <1>2, <1>5, InvParts DEF RowsOK, SocketOK, WireOK, RunnerOK, BoundsOK, HistoryOK, OnceInv
<1>7. CapOK'
  BY <1>2, InvParts DEF CapOK, ActiveRuns
<1>8. SettledInv'
  BY <1>1, <1>2, InvParts, SettledKept
<1>9. TokenInv'
  BY <1>1, <1>2, <1>4, <1>5, InvParts, Calm DEF Asked, AskedOnce, Refused
<1> QED BY <1>4, <1>6, <1>7, <1>8, <1>9, InvNext

\* Either sends the frame of a claim, or a further one, which is remembered.
LEMMA PublishInv ==
    ASSUME Inv, NEW p \in Processes, NEW op \in {"run_action", "recover"}, At(p, op),
           NEW r, r = Head(todo[p]).run, Continue(p, << >>),
           NEW frames, Publish(r, frames),
           \/ frames = <<Frame("run_action", r)>>
           \/ frames = <<Frame("run_action", r)>> \o <<Frame("cancel", r)>>,
           UNCHANGED <<rows, lease, seen, resumes, drains, down, up, runner, bounds>>
    PROVE  Inv'
<1>1. /\ mailbox' = mailbox \o frames /\ onWire' = onWire \cup {r}
      /\ repeated' = repeated \cup (onWire \cap {r})
      /\ UNCHANGED <<status, generation, seen, resumes, drains, entry, ledger, canceled, announced,
                     preCanceled, retried, starts, connections, faults>>
  BY DEF Publish, rows, runner, bounds
<1>2. r \in Runs /\ Publishing(r)
  <2>1. Head(todo[p]) \in Steps /\ Head(todo[p]).op = op /\ Contains(todo[p], Head(todo[p]))
    BY InvParts, AtFacts
  <2>2. r \in Runs
    BY <2>1, StepKinds
  <2> QED BY <2>1, <2>2 DEF Publishing
<1>3. TodoOK' /\ \A q : Publishing(q)' => Publishing(q)
  BY InvParts, PlainLists, Continued
<1>4. /\ mailbox' \in Seq(BoxFrames)
      /\ \A q : q # r => /\ Asked(q)' <=> Asked(q)
                         /\ AskedOnce(q) => AskedOnce(q)'
      /\ ~ Asked(r) => AskedOnce(r)'
  <2>1. mailbox \in Seq(BoxFrames) /\ Frame("run_action", r) \in BoxFrames /\ Frame("cancel", r) \in BoxFrames
    BY <1>2, InvParts, FrameTypes DEF SocketOK
  <2> DEFINE d == Append(mailbox, Frame("run_action", r))
  <2>2. /\ d \in Seq(BoxFrames)
        /\ \A u, q : Contains(d, Frame(u, q)) <=> Contains(mailbox, Frame(u, q)) \/ (u = "run_action" /\ q = r)
        /\ \A u, q : Once(mailbox, Frame(u, q)) /\ (u = "run_action" /\ q = r => ~ Contains(mailbox, Frame(u, q)))
                        => Once(d, Frame(u, q))
    BY <2>1, FrameSent
  <2>3. /\ ~ Asked(r) => /\ ~ Contains(mailbox, Frame("run_action", r)) /\ ~ Contains(down, Frame("run_action", r))
                         /\ Once(mailbox, Frame("run_action", r)) /\ Once(down, Frame("run_action", r))
        /\ down' = down
    BY DEF Asked, Contains, Once
  <2>4. mailbox' = d \/ mailbox' = Append(d, Frame("cancel", r))
    <3>1. PICK x, y : x = Frame("run_action", r) /\ y = Frame("cancel", r)
      OBVIOUS
    <3>2. x \in BoxFrames /\ y \in BoxFrames /\ (frames = <<x>> \/ frames = <<x>> \o <<y>>)
      BY <2>1, <3>1
    <3>3. CASE frames = <<x>>
      <4>1. mailbox' = Append(mailbox, x)
        BY <1>1, <2>1, <3>2, <3>3, PushFacts
      <4> QED BY <3>1, <4>1
    <3>4. CASE frames = <<x>> \o <<y>>
      <4>1. mailbox' = Append(Append(mailbox, x), y)
        <5>1. PICK s, S : s = mailbox /\ S = BoxFrames
          OBVIOUS
        <5>2. s \in Seq(S) /\ x \in S /\ y \in S
          BY <2>1, <3>2, <5>1
        <5>3. s \o (<<x>> \o <<y>>) = Append(Append(s, x), y)
          BY <5>2, PushTwoFacts
        <5> QED BY <1>1, <3>4, <5>1, <5>3
      <4> QED BY <3>1, <4>1
    <3> QED BY <3>2, <3>3, <3>4
  <2> HIDE DEF d
  <2>5. CASE mailbox' = d
    BY <2>2, <2>3, <2>5 DEF Asked, AskedOnce
  <2>6. CASE mailbox' = Append(d, Frame("cancel", r))
    <3>1. /\ mailbox' \in Seq(BoxFrames)
          /\ \A u, q : Contains(mailbox', Frame(u, q)) <=> Contains(d, Frame(u, q)) \/ (u = "cancel" /\ q = r)
          /\ \A u, q : Once(d, Frame(u, q)) /\ u # "cancel" => Once(mailbox', Frame(u, q))
      BY <2>1, <2>2, <2>6, FrameSent
    <3> QED BY <2>2, <2>3, <3>1 DEF Asked, AskedOnce
  <2> QED BY <2>4, <2>5, <2>6
<1>5. RowsOK' /\ SocketOK' /\ WireOK' /\ RunnerOK' /\ BoundsOK' /\ HistoryOK' /\ OnceInv'
  BY <1>1, <1>2, <1>4, InvParts DEF RowsOK, SocketOK, WireOK, RunnerOK, BoundsOK, HistoryOK, OnceInv
<1>6. CapOK'
  BY <1>1, InvParts DEF CapOK, ActiveRuns
<1>7. SettledInv'
  BY <1>1, InvParts, SettledKept
<1>8. ASSUME NEW q \in Runs, q \notin repeated' PROVE TokenOK(q)'
  <2>1. TokenOK(q)
    BY <1>1, <1>8, InvParts DEF TokenInv
  <2>2. Refused(q)' <=> Refused(q)
    BY DEF Refused
  <2>3. CASE q # r
    <3>1. Token(q)' <=> Token(q)
      BY <1>1, <1>4, <2>2, <2>3 DEF Token
    <3> QED BY <1>1, <1>3, <1>4, <2>1, <2>2, <2>3, <3>1 DEF TokenOK
  <2>4. CASE q = r
    <3>1. r \notin onWire
      BY <1>1, <1>8, <2>4
    <3>2. ~ Token(r) /\ status[r] \notin Unsent
      BY <1>2, <2>1, <2>4, <3>1 DEF TokenOK
    <3> QED BY <1>1, <1>4, <2>1, <2>2, <2>4, <3>2 DEF TokenOK, Token
  <2> QED BY <2>3, <2>4
<1> QED BY <1>3, <1>5, <1>6, <1>7, <1>8, InvNext DEF TokenInv

LEMMA DeliverInv == ASSUME Inv, NEW p \in Processes, Deliver(p) PROVE Inv'
<1> DEFINE s == Head(todo[p])
<1>1. /\ At(p, "run_action") /\ Continue(p, << >>)
      /\ UNCHANGED <<rows, lease, seen, resumes, drains, down, up, runner, bounds>>
  BY DEF Deliver
<1>2. CASE lease = s.at
  BY <1>1, <1>2, PublishInv DEF Deliver
<1>3. CASE lease # s.at
  BY <1>1, <1>3, PlainLists, StepReads DEF Deliver, socket, history
<1> QED BY <1>2, <1>3

LEMMA RecoverInflightInv == ASSUME Inv, NEW p \in Processes, RecoverInflight(p) PROVE Inv'
<1> DEFINE s == Head(todo[p])
<1>1. /\ At(p, "recover") /\ Continue(p, << >>)
      /\ UNCHANGED <<rows, lease, seen, resumes, drains, down, up, runner, bounds>>
  BY DEF RecoverInflight
<1>2. CASE lease # 0
  <2>1. CASE s.from = "cancelling"
    <3>1. Publish(s.run, <<Frame("run_action", s.run)>> \o <<Frame("cancel", s.run)>>)
      BY <1>2, <2>1 DEF RecoverInflight
    <3> QED BY <1>1, <3>1, PublishInv
  <2>2. CASE s.from # "cancelling"
    <3>1. <<Frame("run_action", s.run)>> \o << >> = <<Frame("run_action", s.run)>>
      OBVIOUS
    <3>2. Publish(s.run, <<Frame("run_action", s.run)>>)
      BY <1>2, <2>2, <3>1 DEF RecoverInflight
    <3> QED BY <1>1, <3>2, PublishInv
  <2> QED BY <2>1, <2>2
<1>3. CASE lease = 0
  BY <1>1, <1>3, PlainLists, StepReads DEF RecoverInflight, socket, history
<1> QED BY <1>2, <1>3

LEMMA ClaimInv == ASSUME Inv, NEW p \in Processes, Claim(p) PROVE Inv'
<1>1. PICK s, r : s = Head(todo[p]) /\ r = s.run
  OBVIOUS
<1>2. /\ At(p, "claim") /\ Moved(r, s.from, "sent", s.at)
      /\ Continue(p, IF status[r] = s.from THEN <<Step("run_action", r, "none", s.at)>> ELSE << >>)
      /\ onWire' = IF status[r] = s.from /\ s.from = "pending" THEN onWire \ {r} ELSE onWire
      /\ UNCHANGED <<lease, socket, down, up, runner, bounds, repeated>>
  BY <1>1 DEF Claim
<1>3. r \in Runs /\ s.from \in {"pending", "sent"} /\ s.at \in 1 .. MaxConnection
  BY <1>1, <1>2, InvParts, AtFacts, StepKinds
<1>4. CASE status[r] # s.from
  <2>1. UNCHANGED <<rows, history>> /\ Continue(p, << >>)
    BY <1>2, <1>4 DEF Moved, history
  <2> QED BY <1>2, <2>1, PlainLists, StepReads
<1>5. CASE status[r] = s.from
  <2>1. UNCHANGED <<seen, resumes, drains, mailbox, entry, ledger, canceled, announced,
                    preCanceled, retried, starts, connections, faults>>
    BY <1>2 DEF socket, runner, bounds
  <2>2. /\ RowsOK'
        /\ \A q \in Runs : status'[q] = IF q = r THEN "sent" ELSE status[q]
    <3>1. s.at \in 0 .. MaxConnection /\ s.at # 0
      BY <1>3, Constants
    <3>2. "sent" \in Status
      BY DEF Status, Inflight
    <3> QED BY <1>2, <1>3, <1>5, <3>1, <3>2, InvParts, MovedFacts
  <2>3. PICK step : step = Step("run_action", r, "none", s.at)
    OBVIOUS
  <2>4. step \in Steps /\ step.run = r
    BY <1>3, <2>3, StepTypes, StepFields
  <2>5. /\ TodoOK'
        /\ \A q \in Processes : \A x : Contains(todo'[q], x) => Contains(todo[q], x) \/ x = step
    <3>1. Continue(p, <<step>>)
      BY <1>2, <1>5, <2>3
    <3>2. <<step>> \in Seq(Steps) /\ \A x : Contains(<<step>>, x) <=> x = step
      BY <2>4, SingletonFacts
    <3> QED BY <1>2, <3>1, <3>2, InvParts, ContinueFacts
  <2>6. \A q : q # r /\ Publishing(q)' => Publishing(q)
    BY <2>4, <2>5 DEF Publishing
  <2>7. SocketOK' /\ WireOK' /\ RunnerOK' /\ BoundsOK' /\ HistoryOK' /\ OnceInv'
    BY <1>2, <2>1, InvParts DEF SocketOK, WireOK, RunnerOK, BoundsOK, HistoryOK, OnceInv
  <2>8. CapOK'
    BY <2>1, InvParts DEF CapOK, ActiveRuns
  <2>9. SettledInv'
    <3>1. status[r] \notin Terminal
      BY <1>3, <1>5 DEF Terminal, NeverRan
    <3> QED BY <1>2, <2>1, <2>2, <3>1, InvParts, SettledKept
  <2>10. ASSUME NEW q \in Runs, q \notin repeated' PROVE TokenOK(q)'
    <3>1. TokenOK(q)
      BY <1>2, <2>10, InvParts DEF TokenInv
    <3>2. /\ (Asked(q)' <=> Asked(q)) /\ (Refused(q)' <=> Refused(q)) /\ (Token(q)' <=> Token(q))
          /\ AskedOnce(q)' <=> AskedOnce(q)
      BY <1>2, <2>1 DEF Asked, AskedOnce, Refused, Token
    <3>3. CASE q # r
      <4>1. status'[q] = status[q] /\ (q \in onWire' <=> q \in onWire)
        BY <1>2, <2>2, <3>3
      <4> QED BY <1>2, <2>1, <2>6, <3>1, <3>2, <3>3, <4>1 DEF TokenOK
    <3>4. CASE q = r
      <4>1. status'[r] = "sent" /\ "sent" \notin Unsent
        BY <1>3, <2>2 DEF Unsent, NeverRan
      <4>2. Token(r) => r \in onWire'
        <5>1. s.from = "pending" => ~ Token(r)
          BY <1>5, <3>1, <3>4 DEF TokenOK, Unsent
        <5> QED BY <1>2, <3>1, <3>4, <5>1 DEF TokenOK
      <4> QED BY <1>2, <2>1, <3>1, <3>2, <3>4, <4>1, <4>2 DEF TokenOK
    <3> QED BY <3>3, <3>4
  <2> QED BY <2>2, <2>5, <2>7, <2>8, <2>9, <2>10, InvNext DEF TokenInv
<1> QED BY <1>4, <1>5

-----------------------------------------------------------------------------
(* The socket that owns the runner. *)

LEMMA SocketFacts ==
    ASSUME BoundsOK, SocketFree
    PROVE  Socket \in Processes
<1>1. lease \in 1 .. MaxConnection
  BY Constants DEF BoundsOK, SocketFree
<1> QED BY <1>1, ProcessFacts DEF Socket

LEMMA ResumeRunsInv == ASSUME Inv, ResumeRuns PROVE Inv'
<1> DEFINE step(r) == Step("recover", r, status[r], 0)
           S == Rows(Inflight)
<1>1. /\ SocketFree /\ resumes > 0 /\ resumes' = resumes - 1
      /\ UNCHANGED <<rows, lease, seen, drains, mailbox, down, up, runner, bounds, history>>
  BY DEF ResumeRuns
<1>2. PICK found \in Pages(S) :
         Start(Socket, IF found = << >> THEN <<Queue>> ELSE [i \in DOMAIN found |-> step(found[i])])
  BY DEF ResumeRuns
<1>3. S \subseteq Runs
  BY DEF Rows
<1>4. ASSUME NEW r \in S PROVE step(r) \in Steps /\ step(r).run = r
  <2>1. r \in Runs /\ status[r] \in Inflight /\ 1 \in 1 .. MaxConnection
    BY <1>3, <1>4, Constants DEF Rows
  <2> QED BY <2>1, StepTypes, StepFields
<1> HIDE DEF step
<1>5. PICK list : /\ Start(Socket, list) /\ list \in Seq(Steps)
                  /\ \A s \in Steps : Contains(list, s) =>
                        s.op \notin {"run_action", "recover"} \/ s.run \in S
  <2>1. CASE found = << >>
    BY <1>2, <2>1, PlainQueue DEF Plain
  <2>2. CASE found # << >>
    <3>1. PICK page : page = [i \in DOMAIN found |-> step(found[i])]
      OBVIOUS
    <3>2. /\ DOMAIN found = 1 .. Len(found) /\ Len(found) \in Nat
          /\ \A i \in DOMAIN found : found[i] \in S
      BY <1>3, PageFacts
    <3>3. /\ page = [i \in 1 .. Len(found) |-> page[i]]
          /\ \A i \in 1 .. Len(found) : page[i] = step(found[i])
      BY <3>1, <3>2
    <3>4. \A i \in 1 .. Len(found) : page[i] \in Steps /\ page[i].run \in S
      BY <1>4, <3>2, <3>3
    <3>5. page \in Seq(Steps) /\ \A s : Contains(page, s) => \E i \in 1 .. Len(found) : page[i] = s
      BY <3>2, <3>3, <3>4, StepList
    <3> QED BY <1>2, <2>2, <3>1, <3>4, <3>5
  <2> QED BY <2>1, <2>2
<1>6. Socket \in Processes
  BY <1>1, InvParts, SocketFacts
<1>7. /\ TodoOK'
      /\ \A q \in Processes : \A s : Contains(todo'[q], s) => Contains(todo[q], s) \/ Contains(list, s)
  BY <1>5, <1>6, InvParts, StartFacts
<1>8. \A r \in Runs : Publishing(r)' => Publishing(r) \/ status[r] \notin Unsent
  <2>1. \A r \in S : status[r] \notin Unsent
    BY DEF Rows, Inflight, Unsent, NeverRan
  <2> QED BY <1>5, <1>7, <2>1 DEF Publishing
<1>9. SocketOK' /\ BoundsOK'
  BY <1>1, InvParts DEF SocketOK, BoundsOK, bounds
<1> QED BY <1>1, <1>7, <1>8, <1>9, Reads

LEMMA DrainQueueInv == ASSUME Inv, DrainQueue PROVE Inv'
<1>1. /\ SocketFree /\ drains > 0 /\ drains' = drains - 1 /\ Start(Socket, <<Queue>>)
      /\ UNCHANGED <<rows, lease, seen, resumes, mailbox, down, up, runner, bounds, history>>
  BY DEF DrainQueue
<1>2. Socket \in Processes
  BY <1>1, InvParts, SocketFacts
<1>3. TodoOK' /\ \A r : Publishing(r)' => Publishing(r)
  BY <1>1, <1>2, InvParts, PlainQueue, StartedPlain
<1>4. SocketOK' /\ BoundsOK'
  BY <1>1, InvParts DEF SocketOK, BoundsOK, bounds
<1> QED BY <1>1, <1>3, <1>4, Reads

\* The frame moves from the mailbox to the wire.
LEMMA PushFrameInv == ASSUME Inv, PushFrame PROVE Inv'
<1>1. PICK f : f = Head(mailbox)
  OBVIOUS
<1>2. /\ mailbox # << >> /\ down' = Append(down, f) /\ mailbox' = Tail(mailbox)
      /\ UNCHANGED <<rows, lease, todo, seen, resumes, drains, up, runner, bounds, history>>
  BY <1>1 DEF PushFrame
<1>3. UNCHANGED <<status, generation, entry, ledger, canceled, announced, preCanceled, retried,
                  starts, connections, faults, onWire, repeated>>
  BY <1>2 DEF rows, runner, bounds, history
<1>4. mailbox \in Seq(BoxFrames) /\ down \in Seq(DownFrames)
  BY InvParts DEF SocketOK, WireOK
<1>5. /\ f \in BoxFrames /\ mailbox' \in Seq(BoxFrames) /\ Contains(mailbox, f)
      /\ \A y : Contains(mailbox', y) => Contains(mailbox, y)
      /\ \A y : Once(mailbox, y) => Once(mailbox', y) /\ (y = f => ~ Contains(mailbox', y))
  BY <1>1, <1>2, <1>4, TailFacts
<1>6. f \in DownFrames /\ \A r : f # Frame("ack", r)
  BY <1>5 DEF BoxFrames, DownFrames, Frames, Frame
<1>7. /\ down' \in Seq(DownFrames)
      /\ \A y : Contains(down', y) <=> Contains(down, y) \/ y = f
      /\ \A y : Once(down, y) /\ (y = f => ~ Contains(down, y)) => Once(down', y)
  BY <1>2, <1>4, <1>6, AppendFacts
<1>8. \A r : Asked(r)' => Asked(r)
  BY <1>5, <1>7 DEF Asked
<1>9. \A r : AskedOnce(r) => AskedOnce(r)'
  BY <1>5, <1>7 DEF AskedOnce
<1>10. /\ RowsOK' /\ TodoOK' /\ SocketOK' /\ WireOK' /\ RunnerOK' /\ BoundsOK' /\ HistoryOK'
       /\ OnceInv'
  BY <1>2, <1>3, <1>5, <1>7, InvParts
     DEF RowsOK, TodoOK, SocketOK, WireOK, RunnerOK, BoundsOK, HistoryOK, OnceInv
<1>11. CapOK'
  BY <1>3, InvParts DEF CapOK, ActiveRuns
<1>12. SettledInv'
  BY <1>2, <1>3, <1>6, <1>7, InvParts, SettledKept
<1>13. TokenInv'
  <2>1. \A r : (Publishing(r)' => Publishing(r)) /\ (Refused(r)' => Refused(r))
    BY <1>2 DEF Publishing, Refused
  <2> QED BY <1>2, <1>3, <1>8, <1>9, <2>1, InvParts, Calm
<1> QED BY <1>10, <1>11, <1>12, <1>13, InvNext

LEMMA ReceivedFacts ==
    ASSUME WireOK, NEW type, Received(type)
    PROVE  /\ up' \in Seq(UpFrames) /\ Head(up) = Frame(type, Head(up).run)
           /\ type # "runner_state" => Head(up).run \in Runs
           /\ Contains(up, Head(up))
           /\ \A y : Contains(up', y) => Contains(up, y)
           /\ \A y : Once(up, y) => Once(up', y) /\ (y = Head(up) => ~ Contains(up', y))
<1>1. up \in Seq(UpFrames) /\ up # << >> /\ Head(up).type = type /\ up' = Tail(up)
  BY DEF WireOK, Received
<1>2. /\ Head(up) \in UpFrames /\ Tail(up) \in Seq(UpFrames) /\ Contains(up, Head(up))
      /\ \A y : Contains(Tail(up), y) => Contains(up, y)
      /\ \A y : Once(up, y) => Once(Tail(up), y) /\ (y = Head(up) => ~ Contains(Tail(up), y))
  BY <1>1, TailFacts
<1>3. (Head(up).type # "runner_state" => Head(up).run \in Runs) /\ Head(up) = Frame(Head(up).type, Head(up).run)
  BY <1>2, UpFrame
<1> QED BY <1>1, <1>2, <1>3

\* A message that neither queues a row again nor asks for a run.
LEMMA Heard ==
    ASSUME Inv, NEW type, Received(type), RowsOK', SocketOK', BoundsOK', SettledInv',
           down' \in Seq(DownFrames),
           \A r \in Runs : /\ status'[r] \in Unsent => status[r] \in Unsent
                           /\ Asked(r)' => Asked(r)
                           /\ AskedOnce(r) => AskedOnce(r)',
           UNCHANGED <<todo, runner, history>>
    PROVE  Inv'
<1>1. UNCHANGED <<entry, ledger, canceled, announced, preCanceled, retried, starts, onWire, repeated>>
  BY DEF runner, history
<1>2. /\ up' \in Seq(UpFrames)
      /\ \A y : Contains(up', y) => Contains(up, y)
      /\ \A y : Once(up, y) => Once(up', y)
  BY InvParts, ReceivedFacts
<1>3. WireOK' /\ TodoOK' /\ RunnerOK' /\ HistoryOK' /\ OnceInv'
  BY <1>1, <1>2, InvParts DEF WireOK, TodoOK, RunnerOK, HistoryOK, OnceInv
<1>4. CapOK'
  BY <1>1, InvParts DEF CapOK, ActiveRuns
<1>5. \A r : Publishing(r)' => Publishing(r)
  BY DEF Publishing
<1>6. TokenInv'
  BY <1>1, <1>2, <1>5, InvParts, Calm DEF Refused
<1> QED BY <1>3, <1>4, <1>6, InvNext

LEMMA RunnerStateInv == ASSUME Inv, RunnerState PROVE Inv'
<1>1. /\ Received("runner_state") /\ resumes' = resumes + 1
      /\ UNCHANGED <<rows, lease, todo, seen, drains, mailbox, down, runner, bounds, history>>
  BY DEF RunnerState
<1>2. UNCHANGED <<status, generation, connections, faults, ledger>>
  BY <1>1 DEF rows, bounds, runner
<1>3. RowsOK' /\ SocketOK' /\ BoundsOK' /\ down' \in Seq(DownFrames)
  BY <1>1, <1>2, InvParts DEF RowsOK, SocketOK, BoundsOK, WireOK
<1>4. SettledInv'
  BY <1>1, <1>2, InvParts, SettledKept
<1> QED BY <1>1, <1>2, <1>3, <1>4, Heard DEF Asked, AskedOnce

LEMMA ActionStartedInv == ASSUME Inv, ActionStarted PROVE Inv'
<1>1. PICK r : r = Head(up).run
  OBVIOUS
<1>2. /\ Received("started") /\ Moved(r, "sent", "running", generation[r])
      /\ UNCHANGED <<lease, todo, socket, down, runner, bounds, history>>
  BY <1>1 DEF ActionStarted
<1>3. r \in Runs
  BY <1>1, <1>2, InvParts, ReceivedFacts
<1>4. /\ RowsOK'
      /\ \A q \in Runs : status'[q] = IF q = r /\ status[r] = "sent" THEN "running" ELSE status[q]
  <2>1. generation[r] \in 0 .. MaxConnection /\ "running" \in Status
    BY <1>3, InvParts, GenerationFacts DEF Status, Inflight
  <2> QED BY <1>2, <1>3, <2>1, InvParts, MovedFacts
<1>5. \A q \in Runs : /\ status[q] \in Terminal => status'[q] \in Terminal
                      /\ status'[q] \in Unsent => status[q] \in Unsent
  BY <1>4 DEF Terminal, NeverRan, Unsent
<1>6. UNCHANGED <<seen, resumes, drains, mailbox, connections, faults, ledger>>
  BY <1>2 DEF socket, bounds, runner
<1>7. SocketOK' /\ BoundsOK' /\ down' \in Seq(DownFrames)
  BY <1>2, <1>6, InvParts DEF SocketOK, BoundsOK, WireOK
<1>8. SettledInv'
  BY <1>2, <1>5, <1>6, InvParts, SettledKept
<1> QED BY <1>2, <1>4, <1>5, <1>6, <1>7, <1>8, Heard DEF Asked, AskedOnce

LEMMA CapErrorInv == ASSUME Inv, CapError PROVE Inv'
<1>1. PICK r : r = Head(up).run
  OBVIOUS
<1>2. /\ Received("capped") /\ Moved(r, "sent", "pending", 0)
      /\ UNCHANGED <<lease, todo, socket, down, runner, bounds, history>>
  BY <1>1 DEF CapError
<1>3. UNCHANGED <<seen, resumes, drains, mailbox, entry, ledger, canceled, announced, preCanceled, retried,
                  starts, connections, faults, onWire, repeated>>
  BY <1>2 DEF socket, runner, bounds, history
<1>4. /\ r \in Runs /\ up' \in Seq(UpFrames) /\ Contains(up, Frame("capped", r))
      /\ \A y : Contains(up', y) => Contains(up, y)
      /\ \A y : Once(up, y) => Once(up', y)
      /\ Once(up, Frame("capped", r)) => ~ Contains(up', Frame("capped", r))
  BY <1>1, <1>2, InvParts, ReceivedFacts
<1>5. /\ RowsOK'
      /\ \A q \in Runs : status'[q] = IF q = r /\ status[r] = "sent" THEN "pending" ELSE status[q]
  <2>1. 0 \in 0 .. MaxConnection /\ "pending" \in Status
    BY Constants DEF Status
  <2> QED BY <1>2, <1>4, <2>1, InvParts, MovedFacts
<1>6. TodoOK' /\ SocketOK' /\ WireOK' /\ RunnerOK' /\ BoundsOK' /\ HistoryOK' /\ OnceInv'
  BY <1>2, <1>3, <1>4, InvParts DEF TodoOK, SocketOK, WireOK, RunnerOK, BoundsOK, HistoryOK, OnceInv
<1>7. CapOK'
  BY <1>3, InvParts DEF CapOK, ActiveRuns
<1>8. SettledInv'
  <2>1. \A q \in Runs : status[q] \in Terminal => status'[q] \in Terminal
    BY <1>5 DEF Terminal, NeverRan
  <2> QED BY <1>2, <1>3, <2>1, InvParts, SettledKept
<1>9. ASSUME NEW q \in Runs, q \notin repeated' PROVE TokenOK(q)'
  <2>1. TokenOK(q)
    BY <1>3, <1>9, InvParts DEF TokenInv
  <2>2. (Asked(q)' <=> Asked(q)) /\ (Refused(q)' => Refused(q)) /\ (Publishing(q)' <=> Publishing(q))
    BY <1>2, <1>3, <1>4 DEF Asked, Refused, Publishing
  <2>3. Token(q)' => Token(q)
    BY <1>3, <2>2 DEF Token
  <2>4. AskedOnce(q)' /\ Once(up', Frame("capped", q))
    BY <1>2, <1>3, <1>4, <2>1 DEF TokenOK, AskedOnce
  <2>5. CASE q # r
    <3>1. status'[q] = status[q]
      BY <1>5, <2>5
    <3> QED BY <1>3, <2>1, <2>2, <2>3, <2>4, <3>1 DEF TokenOK
  <2>6. CASE q = r
    <3>1. Refused(r)
      BY <1>4 DEF Refused
    <3>2. r \in onWire /\ ~ Asked(r) /\ entry[r] # "capped" /\ ledger[r] = "none"
      BY <2>1, <2>6, <3>1 DEF TokenOK, Token
    <3>3. ~ Refused(r)'
      BY <1>4, <2>1, <2>6 DEF TokenOK, Refused
    <3> QED BY <1>3, <2>2, <2>4, <2>6, <3>2, <3>3 DEF TokenOK, Token
  <2> QED BY <2>5, <2>6
<1> QED BY <1>5, <1>6, <1>7, <1>8, <1>9, InvNext DEF TokenInv

LEMMA ActionResultInv == ASSUME Inv, ActionResult PROVE Inv'
<1>1. PICK r : r = Head(up).run
  OBVIOUS
<1>2. /\ Received("result") /\ down' = Append(down, Frame("ack", r)) /\ seen' = seen \cup {r}
      /\ \/ r \in seen /\ UNCHANGED <<rows, drains>>
         \/ MarkFinished(r) /\ drains' = drains + 1
      /\ UNCHANGED <<lease, todo, resumes, mailbox, runner, bounds, history>>
  BY <1>1 DEF ActionResult
<1>3. r \in Runs
  BY <1>1, <1>2, InvParts, ReceivedFacts
<1>4. /\ RowsOK' /\ status'[r] \in Terminal
      /\ \A q \in Runs : /\ status[q] \in Terminal => status'[q] \in Terminal
                         /\ status'[q] \in Unsent => status[q] \in Unsent
  <2>1. CASE UNCHANGED rows /\ status[r] \in Terminal
    BY <2>1, InvParts DEF rows, RowsOK
  <2>2. CASE Moved(r, status[r], "finished", generation[r])
    <3>1. generation[r] \in 0 .. MaxConnection /\ "finished" \in Status
      BY <1>3, InvParts, GenerationFacts DEF Status, Terminal
    <3>2. RowsOK' /\ \A q \in Runs : status'[q] = IF q = r THEN "finished" ELSE status[q]
      BY <1>3, <2>2, <3>1, InvParts, MovedFacts
    <3> QED BY <1>3, <3>2 DEF Terminal, Unsent, NeverRan
  <2>3. r \in seen => status[r] \in Terminal
    BY InvParts DEF SettledInv
  <2> QED BY <1>2, <2>1, <2>2, <2>3 DEF MarkFinished
<1>5. UNCHANGED <<connections, faults, ledger, mailbox>>
  BY <1>2 DEF bounds, runner
<1>6. SocketOK' /\ BoundsOK'
  BY <1>2, <1>3, <1>5, InvParts DEF SocketOK, BoundsOK
<1>7. /\ down' \in Seq(DownFrames)
      /\ \A u, q : Contains(down', Frame(u, q)) <=> Contains(down, Frame(u, q)) \/ (u = "ack" /\ q = r)
      /\ \A u, q : Once(down, Frame(u, q)) /\ u # "ack" => Once(down', Frame(u, q))
  <2>1. down \in Seq(DownFrames) /\ Frame("ack", r) \in DownFrames
    BY <1>3, InvParts, FrameTypes DEF WireOK
  <2> QED BY <1>2, <2>1, FrameSent
<1>8. SettledInv'
  <2>1. \A q \in seen' : status'[q] \in Terminal
    BY <1>2, <1>4, InvParts DEF SettledInv, SocketOK
  <2>2. \A q \in Runs : Contains(down', Frame("ack", q)) \/ ledger'[q] = "acknowledged"
                          => status'[q] \in Terminal
    BY <1>4, <1>5, <1>7, InvParts DEF SettledInv
  <2> QED BY <2>1, <2>2 DEF SettledInv
<1>9. \A q \in Runs : (Asked(q)' => Asked(q)) /\ (AskedOnce(q) => AskedOnce(q)')
  BY <1>5, <1>7 DEF Asked, AskedOnce
<1> QED BY <1>2, <1>4, <1>6, <1>7, <1>8, <1>9, Heard

LEMMA FinalizeFailsInv == ASSUME Inv, FinalizeFails PROVE Inv'
<1>1. PICK r : r = Head(up).run
  OBVIOUS
<1>2. /\ Received("result") /\ down' = Append(down, Frame("finalize_failed", r)) /\ Fault
      /\ UNCHANGED <<rows, lease, todo, socket, runner, history>>
  BY <1>1 DEF FinalizeFails
<1>3. r \in Runs
  BY <1>1, <1>2, InvParts, ReceivedFacts
<1>4. UNCHANGED <<status, generation, seen, resumes, drains, mailbox, ledger>>
  BY <1>2 DEF rows, socket, runner
<1>5. RowsOK' /\ SocketOK' /\ BoundsOK'
  BY <1>2, <1>4, InvParts, FaultFacts DEF RowsOK, SocketOK
<1>6. /\ down' \in Seq(DownFrames)
      /\ \A u, q : u # "finalize_failed" =>
            (Contains(down', Frame(u, q)) <=> Contains(down, Frame(u, q)))
      /\ \A u, q : Once(down, Frame(u, q)) /\ u # "finalize_failed" => Once(down', Frame(u, q))
  <2>1. down \in Seq(DownFrames) /\ Frame("finalize_failed", r) \in DownFrames
    BY <1>3, InvParts, FrameTypes DEF WireOK
  <2> QED BY <1>2, <2>1, FrameSent
<1>7. SettledInv'
  BY <1>4, <1>6, InvParts, SettledKept
<1>8. \A q \in Runs : (Asked(q)' => Asked(q)) /\ (AskedOnce(q) => AskedOnce(q)')
  BY <1>4, <1>6 DEF Asked, AskedOnce
<1> QED BY <1>2, <1>4, <1>5, <1>6, <1>7, <1>8, Heard

-----------------------------------------------------------------------------
(* The runner. *)

LEMMA ArrivedFacts ==
    ASSUME WireOK, NEW type, Arrived(type)
    PROVE  /\ down' \in Seq(DownFrames) /\ Head(down).run \in Runs
           /\ Head(down) = Frame(type, Head(down).run) /\ Contains(down, Head(down))
           /\ \A y : Contains(down', y) => Contains(down, y)
           /\ \A y : Once(down, y) => Once(down', y) /\ (y = Head(down) => ~ Contains(down', y))
<1>1. down \in Seq(DownFrames) /\ down # << >> /\ Head(down).type = type /\ down' = Tail(down)
  BY DEF WireOK, Arrived
<1>2. /\ Head(down) \in DownFrames /\ Tail(down) \in Seq(DownFrames) /\ Contains(down, Head(down))
      /\ \A y : Contains(Tail(down), y) => Contains(down, y)
      /\ \A y : Once(down, y) => Once(Tail(down), y) /\ (y = Head(down) => ~ Contains(Tail(down), y))
  BY <1>1, TailFacts
<1>3. Head(down).run \in Runs /\ Head(down) = Frame(Head(down).type, Head(down).run)
  BY <1>2, DownFrame
<1> QED BY <1>1, <1>2, <1>3

LEMMA RunnerStep ==
    ASSUME Inv, UNCHANGED <<Portal, history>>, BoundsOK',
           WireOK', RunnerOK', CapOK', OnceInv', SettledInv', TokenInv'
    PROVE  Inv'
<1>1. UNCHANGED <<status, generation, lease, todo, seen, resumes, drains, mailbox, onWire, repeated>>
  BY DEF Portal, rows, socket, history
<1>2. RowsOK' /\ TodoOK' /\ SocketOK' /\ HistoryOK'
  BY <1>1, InvParts DEF RowsOK, TodoOK, SocketOK, HistoryOK
<1> QED BY <1>2, InvNext

LEMMA BoundsKept == ASSUME BoundsOK, UNCHANGED <<lease, bounds>> PROVE BoundsOK'
  BY DEF BoundsOK, bounds

LEMMA Unwritten ==
    ASSUME UNCHANGED <<Portal, history>>
    PROVE  /\ UNCHANGED <<status, lease, todo, seen, mailbox, onWire, repeated>>
           /\ \A r : Publishing(r)' <=> Publishing(r)
<1>1. UNCHANGED <<status, lease, todo, seen, mailbox, onWire, repeated>>
  BY DEF Portal, rows, socket, history
<1> QED BY <1>1 DEF Publishing

LEMMA CapKept ==
    ASSUME CapOK, RunnerOK, \A r \in Runs : entry'[r] = "handler" => entry[r] = "handler"
    PROVE  CapOK'
<1>1. ActiveRuns' \subseteq ActiveRuns /\ ActiveRuns \subseteq Runs
  BY DEF ActiveRuns
<1>2. IsFiniteSet(ActiveRuns)
  BY <1>1, Constants, FS_Subset
<1>3. /\ Cardinality(ActiveRuns') =< Cardinality(ActiveRuns)
      /\ Cardinality(ActiveRuns') \in Nat /\ Cardinality(ActiveRuns) \in Nat
  BY <1>1, <1>2, FS_Subset, FS_CardinalityType
<1>4. PICK m, n : m = Cardinality(ActiveRuns') /\ n = Cardinality(ActiveRuns)
  OBVIOUS
<1>5. m \in Nat /\ n \in Nat /\ m =< n /\ n =< MaxConcurrentRuns
  BY <1>3, <1>4 DEF CapOK
<1>6. m =< MaxConcurrentRuns
  BY <1>5, Constants
<1> QED BY <1>4, <1>6 DEF CapOK

LEMMA CapTaken ==
    ASSUME ~ AtCap, NEW r \in Runs,
           \A q \in Runs : q # r /\ entry'[q] = "handler" => entry[q] = "handler"
    PROVE  CapOK'
<1> DEFINE more == ActiveRuns \cup {r}
<1>1. ActiveRuns' \subseteq more /\ ActiveRuns \subseteq Runs
  BY DEF ActiveRuns
<1>2. IsFiniteSet(ActiveRuns) /\ Cardinality(ActiveRuns) \in Nat
  BY <1>1, Constants, FS_Subset, FS_CardinalityType
<1>3. /\ IsFiniteSet(more) /\ Cardinality(more) \in Nat
      /\ Cardinality(more) =< Cardinality(ActiveRuns) + 1
  BY <1>2, FS_AddElement, FS_CardinalityType
<1>4. Cardinality(ActiveRuns') \in Nat /\ Cardinality(ActiveRuns') =< Cardinality(more)
  BY <1>1, <1>3, FS_Subset, FS_CardinalityType
<1>5. PICK m, n, k : m = Cardinality(ActiveRuns') /\ n = Cardinality(ActiveRuns) /\ k = Cardinality(more)
  OBVIOUS
<1>6. m \in Nat /\ n \in Nat /\ k \in Nat /\ m =< k /\ k =< n + 1 /\ ~ (n >= MaxConcurrentRuns)
  BY <1>2, <1>3, <1>4, <1>5 DEF AtCap
<1>7. m =< MaxConcurrentRuns
  BY <1>6, Constants
<1> QED BY <1>5, <1>7 DEF CapOK

\* What startRun does with a request that is not in Client.runs.
LEMMA RunActionFacts ==
    ASSUME Inv, RunAction, NEW r, r = Head(down).run, entry[r] = "none"
    PROVE  /\ preCanceled' \subseteq preCanceled /\ UNCHANGED <<canceled, announced, retried>>
           /\ \E e, l, n :
                 /\ entry' = [entry EXCEPT ![r] = e] /\ ledger' = [ledger EXCEPT ![r] = l]
                 /\ starts' = [starts EXCEPT ![r] = n]
                 /\ \/ /\ e = "result" /\ n = starts[r]
                       /\ l = "completed" \/ (l = ledger[r] /\ l # "none")
                    \/ e = "capped" /\ l = "none" /\ ledger[r] = "none" /\ n = starts[r]
                    \/ e = "handler" /\ l = "reserved" /\ ledger[r] = "none" /\ n = starts[r] + 1 /\ ~ AtCap
<1>1. CASE ledger[r] # "none"
  <2>1. /\ entry' = [entry EXCEPT ![r] = "result"] /\ UNCHANGED <<canceled, announced, retried>>
        /\ ledger' = [ledger EXCEPT ![r] = IF ledger[r] = "reserved" THEN "completed" ELSE ledger[r]]
        /\ starts' = [starts EXCEPT ![r] = starts[r]] /\ preCanceled' = preCanceled
    BY <1>1 DEF RunAction, Known
  <2> QED BY <1>1, <2>1
<1>2. CASE ledger[r] = "none" /\ r \in preCanceled
  <2>1. /\ entry' = [entry EXCEPT ![r] = "result"] /\ UNCHANGED <<canceled, announced, retried>>
        /\ ledger' = [ledger EXCEPT ![r] = "completed"]
        /\ starts' = [starts EXCEPT ![r] = starts[r]] /\ preCanceled' = preCanceled \ {r}
    BY <1>2 DEF RunAction, Known
  <2> QED BY <1>2, <2>1
<1>3. CASE ledger[r] = "none" /\ r \notin preCanceled /\ AtCap
  <2>1. /\ entry' = [entry EXCEPT ![r] = "capped"] /\ UNCHANGED <<canceled, announced, retried>>
        /\ ledger' = [ledger EXCEPT ![r] = "none"]
        /\ starts' = [starts EXCEPT ![r] = starts[r]] /\ preCanceled' = preCanceled \ {r}
    BY <1>3 DEF RunAction, Known
  <2> QED BY <1>3, <2>1
<1>4. CASE ledger[r] = "none" /\ r \notin preCanceled /\ ~ AtCap
  <2>1. /\ entry' = [entry EXCEPT ![r] = "handler"] /\ UNCHANGED <<canceled, announced, retried>>
        /\ ledger' = [ledger EXCEPT ![r] = "reserved"]
        /\ starts' = [starts EXCEPT ![r] = starts[r] + 1] /\ preCanceled' = preCanceled \ {r}
    BY <1>4 DEF RunAction, Known
  <2> QED BY <1>4, <2>1
<1> QED BY <1>1, <1>2, <1>3, <1>4

\* A frame handled by the runner without a word of its own; none of them makes a record
\* acknowledged or refuses a run.
LEMMA Handled ==
    ASSUME Inv, NEW type, Arrived(type), UNCHANGED <<Portal, history>>, BoundsOK',
           up' = up, RunnerOK', OnceInv',
           \A r \in Runs : /\ entry'[r] = "handler" => entry[r] = "handler"
                           /\ entry'[r] = "capped" => entry[r] = "capped"
                           /\ ledger'[r] # "none" => ledger[r] # "none"
                           /\ ledger'[r] = "acknowledged" =>
                                 ledger[r] = "acknowledged" \/ status[r] \in Terminal
    PROVE  Inv'
<1>1. /\ down' \in Seq(DownFrames)
      /\ \A y : Contains(down', y) => Contains(down, y)
      /\ \A y : Once(down, y) => Once(down', y)
  BY InvParts, ArrivedFacts
<1>2. /\ UNCHANGED <<status, lease, todo, seen, mailbox, onWire, repeated>>
      /\ \A r : Publishing(r)' <=> Publishing(r)
  BY Unwritten
<1>3. WireOK'
  BY <1>1, InvParts DEF WireOK
<1>4. CapOK'
  BY InvParts, CapKept
<1>5. SettledInv'
  BY <1>1, <1>2, InvParts DEF SettledInv
<1>6. TokenInv'
  BY <1>1, <1>2, InvParts, Calm DEF Asked, AskedOnce, Refused
<1> QED BY <1>3, <1>4, <1>5, <1>6, RunnerStep

LEMMA RunActionInv == ASSUME Inv, RunAction PROVE Inv'
<1>1. PICK r : r = Head(down).run
  OBVIOUS
<1>2. Arrived("run_action") /\ UNCHANGED <<Portal, up, bounds, history>>
  BY DEF RunAction
<1>3. /\ r \in Runs /\ down' \in Seq(DownFrames) /\ Contains(down, Frame("run_action", r))
      /\ \A y : Contains(down', y) => Contains(down, y)
      /\ \A y : Once(down, y) => Once(down', y)
      /\ Once(down, Frame("run_action", r)) => ~ Contains(down', Frame("run_action", r))
  BY <1>1, <1>2, InvParts, ArrivedFacts
<1>4. /\ UNCHANGED <<status, lease, todo, seen, mailbox, onWire, repeated>>
      /\ \A q : Publishing(q)' <=> Publishing(q)
  BY <1>2, Unwritten
<1>5. BoundsOK' /\ WireOK'
  BY <1>2, <1>3, <1>4, InvParts, BoundsKept DEF WireOK
<1>6. CASE entry[r] # "none"
  <2>1. UNCHANGED <<entry, ledger, canceled, announced, preCanceled, retried, starts>>
    BY <1>1, <1>6 DEF RunAction, runner
  <2>2. RunnerOK' /\ OnceInv'
    BY <2>1, InvParts DEF RunnerOK, OnceInv
  <2> QED BY <1>2, <1>5, <2>1, <2>2, Handled
<1>7. CASE entry[r] = "none"
  <2>1. PICK e, l, n :
           /\ entry' = [entry EXCEPT ![r] = e] /\ ledger' = [ledger EXCEPT ![r] = l]
           /\ starts' = [starts EXCEPT ![r] = n]
           /\ \/ /\ e = "result" /\ n = starts[r]
                 /\ l = "completed" \/ (l = ledger[r] /\ l # "none")
              \/ e = "capped" /\ l = "none" /\ ledger[r] = "none" /\ n = starts[r]
              \/ e = "handler" /\ l = "reserved" /\ ledger[r] = "none" /\ n = starts[r] + 1 /\ ~ AtCap
    BY <1>1, <1>7, RunActionFacts
  <2>2. preCanceled' \subseteq preCanceled /\ UNCHANGED <<canceled, announced, retried>>
    BY <1>1, <1>7, RunActionFacts
  <2>3. /\ entry \in [Runs -> {"none", "capped", "handler", "result"}]
        /\ ledger \in [Runs -> {"none", "reserved", "completed", "acknowledged"}]
        /\ starts \in [Runs -> Nat]
    BY InvParts DEF RunnerOK
  <2>4. \A q \in Runs : /\ entry'[q] = IF q = r THEN e ELSE entry[q]
                        /\ ledger'[q] = IF q = r THEN l ELSE ledger[q]
                        /\ starts'[q] = IF q = r THEN n ELSE starts[q]
    BY <2>1, <2>3
  <2>5. RunnerOK'
    <3>1. /\ e \in {"none", "capped", "handler", "result"} /\ n \in Nat
          /\ l \in {"none", "reserved", "completed", "acknowledged"}
      BY <1>3, <2>1, <2>3
    <3>2. /\ entry' \in [Runs -> {"none", "capped", "handler", "result"}]
          /\ ledger' \in [Runs -> {"none", "reserved", "completed", "acknowledged"}]
          /\ starts' \in [Runs -> Nat]
      BY <2>1, <2>3, <3>1
    <3>3. \A q \in Runs : /\ entry'[q] = "handler" => ledger'[q] = "reserved"
                          /\ entry'[q] = "capped" => ledger'[q] = "none"
      BY <2>1, <2>4, InvParts DEF RunnerOK
    <3> QED BY <2>2, <3>2, <3>3, InvParts DEF RunnerOK
  <2>6. OnceInv'
    <3>1. n =< 1 /\ (l = "none" => n = 0)
      BY <1>3, <2>1, <2>3, InvParts DEF OnceInv
    <3> QED BY <2>4, <3>1, InvParts DEF OnceInv
  <2>7. CapOK'
    <3>1. CASE e = "handler"
      <4>1. ~ AtCap
        BY <2>1, <3>1
      <4> QED BY <1>3, <2>4, <4>1, CapTaken
    <3>2. CASE e # "handler"
      BY <2>4, <3>2, InvParts, CapKept
    <3> QED BY <3>1, <3>2
  <2>8. SettledInv'
    <3>1. \A q \in Runs : ledger'[q] = "acknowledged" => ledger[q] = "acknowledged"
      BY <2>1, <2>4
    <3> QED BY <1>3, <1>4, <3>1, InvParts, SettledKept
  <2>9. ASSUME NEW q \in Runs, q \notin repeated' PROVE TokenOK(q)'
    <3>1. TokenOK(q)
      BY <1>4, <2>9, InvParts DEF TokenInv
    <3>2. (Asked(q)' => Asked(q)) /\ (Refused(q)' <=> Refused(q))
      BY <1>2, <1>3, <1>4 DEF Asked, AskedOnce, Refused
    <3>3. AskedOnce(q)' /\ Once(up', Frame("capped", q))
      BY <1>2, <1>3, <1>4, <3>1 DEF TokenOK, AskedOnce
    <3>4. CASE q # r
      <4>1. entry'[q] = entry[q] /\ ledger'[q] = ledger[q]
        BY <2>4, <3>4
      <4>2. Token(q)' => Token(q)
        BY <3>2, <4>1 DEF Token
      <4> QED BY <1>4, <3>1, <3>2, <3>3, <4>1, <4>2 DEF TokenOK
    <3>5. CASE q = r
      <4>1. Asked(r)
        BY <1>3 DEF Asked
      <4>2. r \in onWire /\ status[r] \notin Unsent /\ ~ Refused(r)
        BY <3>1, <3>5, <4>1 DEF TokenOK, Token
      <4>3. ~ Asked(r)'
        BY <1>3, <1>4, <3>1, <3>5 DEF TokenOK, Asked, AskedOnce
      <4> QED BY <1>4, <3>2, <3>3, <3>5, <4>2, <4>3 DEF TokenOK
    <3> QED BY <3>4, <3>5
  <2>10. TokenInv'
    BY <2>9 DEF TokenInv
  <2> QED BY <1>2, <1>5, <2>5, <2>6, <2>7, <2>8, <2>10, RunnerStep
<1> QED BY <1>6, <1>7

LEMMA CancelRunInv == ASSUME Inv, CancelRun PROVE Inv'
<1>1. PICK r : r = Head(down).run
  OBVIOUS
<1>2. /\ Arrived("cancel") /\ canceled' \subseteq canceled \cup {r}
      /\ preCanceled' \subseteq preCanceled \cup {r}
      /\ UNCHANGED <<Portal, up, entry, ledger, announced, retried, starts, bounds, history>>
  BY <1>1 DEF CancelRun
<1>3. r \in Runs
  BY <1>1, <1>2, InvParts, ArrivedFacts
<1>4. RunnerOK' /\ OnceInv'
  BY <1>2, <1>3, InvParts DEF RunnerOK, OnceInv
<1>5. BoundsOK'
  BY <1>2, InvParts, BoundsKept, Unwritten
<1> QED BY <1>2, <1>4, <1>5, Handled

LEMMA AckRunInv == ASSUME Inv, AckRun PROVE Inv'
<1>1. PICK r : r = Head(down).run
  OBVIOUS
<1>2. /\ Arrived("ack") /\ retried' \subseteq retried
      /\ \/ ledger' = ledger
         \/ /\ entry[r] = "none" /\ ledger[r] = "completed"
            /\ ledger' = [ledger EXCEPT ![r] = "acknowledged"]
      /\ UNCHANGED <<Portal, up, entry, canceled, announced, preCanceled, starts, bounds, history>>
  BY <1>1 DEF AckRun
<1>3. r \in Runs /\ Contains(down, Frame("ack", r))
  BY <1>1, <1>2, InvParts, ArrivedFacts
<1>4. status[r] \in Terminal
  BY <1>3, InvParts DEF SettledInv
<1>5. /\ RunnerOK' /\ OnceInv'
      /\ \A q \in Runs : /\ ledger'[q] # "none" => ledger[q] # "none"
                         /\ ledger'[q] = "acknowledged" => ledger[q] = "acknowledged" \/ q = r
  <2>1. CASE ledger' = ledger
    BY <1>2, <2>1, InvParts DEF RunnerOK, OnceInv
  <2>2. CASE ledger' # ledger
    BY <1>2, <1>3, <2>2, InvParts DEF RunnerOK, OnceInv
  <2> QED BY <2>1, <2>2
<1>6. BoundsOK'
  BY <1>2, InvParts, BoundsKept, Unwritten
<1> QED BY <1>2, <1>4, <1>5, <1>6, Handled

LEMMA RetryFinalizationInv == ASSUME Inv, RetryFinalization PROVE Inv'
<1>1. PICK r : r = Head(down).run
  OBVIOUS
<1>2. /\ Arrived("finalize_failed") /\ retried' \subseteq retried \cup {r}
      /\ \/ entry' = entry
         \/ ledger[r] = "completed" /\ entry' = [entry EXCEPT ![r] = "result"]
      /\ UNCHANGED <<Portal, up, ledger, canceled, announced, preCanceled, starts, bounds, history>>
  BY <1>1 DEF RetryFinalization
<1>3. r \in Runs
  BY <1>1, <1>2, InvParts, ArrivedFacts
<1>4. /\ RunnerOK' /\ OnceInv'
      /\ \A q \in Runs : entry'[q] = entry[q] \/ entry'[q] = "result"
  <2>1. CASE entry' = entry
    BY <1>2, <1>3, <2>1, InvParts DEF RunnerOK, OnceInv
  <2>2. CASE entry' # entry
    BY <1>2, <1>3, <2>2, InvParts DEF RunnerOK, OnceInv
  <2> QED BY <2>1, <2>2
<1>5. BoundsOK'
  BY <1>2, InvParts, BoundsKept, Unwritten
<1> QED BY <1>2, <1>4, <1>5, Handled

LEMMA FinishInv == ASSUME Inv, NEW r \in Runs, Finish(r) PROVE Inv'
<1>1. /\ entry[r] = "handler" /\ entry' = [entry EXCEPT ![r] = "result"]
      /\ ledger' = [ledger EXCEPT ![r] = "completed"] /\ canceled' = canceled \ {r}
      /\ UNCHANGED <<Portal, down, up, announced, preCanceled, retried, starts, bounds, history>>
  BY DEF Finish
<1>2. /\ UNCHANGED <<status, lease, todo, seen, mailbox, onWire, repeated>>
      /\ \A q : Publishing(q)' <=> Publishing(q)
  BY <1>1, Unwritten
<1>3. RunnerOK' /\ OnceInv'
  BY <1>1, InvParts DEF RunnerOK, OnceInv
<1>4. ledger[r] = "reserved"
  BY <1>1, InvParts DEF RunnerOK
<1>5. \A q \in Runs : /\ entry'[q] = entry[q] \/ entry'[q] = "result"
                      /\ ledger'[q] # "none" => ledger[q] # "none"
                      /\ ledger'[q] = "acknowledged" => ledger[q] = "acknowledged"
  BY <1>1, <1>4, InvParts DEF RunnerOK
<1>6. WireOK' /\ BoundsOK'
  BY <1>1, <1>2, InvParts, BoundsKept DEF WireOK
<1>7. CapOK'
  BY <1>5, InvParts, CapKept
<1>8. SettledInv'
  BY <1>1, <1>2, <1>5, InvParts, SettledKept
<1>9. TokenInv'
  BY <1>1, <1>2, <1>5, InvParts, Calm DEF Asked, AskedOnce, Refused
<1> QED BY <1>1, <1>3, <1>6, <1>7, <1>8, <1>9, RunnerStep

\* What drainOnce puts on the connection: a cap refusal, or words that refuse nothing.
LEMMA SendQueuedFacts ==
    ASSUME Inv, NEW r \in Runs, SendQueued(r)
    PROVE  /\ up' \in Seq(UpFrames) /\ announced' = announced \cup {r}
           /\ \/ /\ entry' = entry \/ entry' = [entry EXCEPT ![r] = "none"]
                 /\ \A q : (Refused(q)' <=> Refused(q))
                 /\ \A q : Once(up, Frame("capped", q)) => Once(up', Frame("capped", q))
              \/ /\ entry[r] = "capped" /\ entry' = [entry EXCEPT ![r] = "none"]
                 /\ up' = Append(up, Frame("capped", r))
<1> DEFINE started == Append(up, Frame("started", r))
<1>1. /\ up \in Seq(UpFrames) /\ Frame("started", r) \in UpFrames
      /\ Frame("result", r) \in UpFrames /\ Frame("capped", r) \in UpFrames
  BY InvParts, FrameTypes DEF WireOK
<1>2. up \o <<Frame("started", r)>> = started /\ up \o << >> = up
  <2>1. PICK x : x = Frame("started", r)
    OBVIOUS
  <2>2. up \o <<x>> = Append(up, x) /\ up \o << >> = up
    BY <1>1, <2>1
  <2> QED BY <2>1, <2>2
<1>3. /\ announced' = announced \cup {r}
      /\ \/ up' = started /\ entry' = entry
         \/ /\ entry[r] = "result" /\ entry' = [entry EXCEPT ![r] = "none"]
            /\ \/ up' = Append(up, Frame("result", r))
               \/ up' = Append(started, Frame("result", r))
         \/ /\ entry[r] = "capped" /\ entry' = [entry EXCEPT ![r] = "none"]
            /\ up' = Append(up, Frame("capped", r))
  <2>1. PICK news : /\ news = << >> \/ news = <<Frame("started", r)>>
                    /\ \/ /\ entry[r] = "handler" /\ news # << >> /\ up' = up \o news
                          /\ announced' = announced \cup {r} /\ UNCHANGED entry
                       \/ /\ entry[r] \in {"capped", "result"}
                          /\ up' = Append(IF entry[r] = "result" THEN up \o news ELSE up, Frame(entry[r], r))
                          /\ announced' = announced \cup {r}
                          /\ entry' = [entry EXCEPT ![r] = "none"]
    BY DEF SendQueued
  <2>2. up \o news = up \/ up \o news = started
    BY <1>2, <2>1
  <2>3. CASE entry[r] = "handler"
    <3>1. news = <<Frame("started", r)>>
      BY <2>1, <2>3
    <3> QED BY <1>2, <2>1, <2>3, <3>1
  <2>4. CASE entry[r] = "result"
    BY <2>1, <2>2, <2>4
  <2>5. CASE entry[r] = "capped"
    BY <2>1, <2>5
  <2> QED BY <2>1, <2>3, <2>4, <2>5
<1>4. /\ started \in Seq(UpFrames)
      /\ \A q : Contains(started, Frame("capped", q)) <=> Contains(up, Frame("capped", q))
      /\ \A q : Once(up, Frame("capped", q)) => Once(started, Frame("capped", q))
  BY <1>1, FrameSent
<1> HIDE DEF started
<1>5. CASE up' = started
  BY <1>3, <1>4, <1>5 DEF Refused
<1>6. CASE up' = Append(up, Frame("result", r)) /\ entry[r] = "result"
  <2>1. /\ up' \in Seq(UpFrames)
        /\ \A q : Contains(up', Frame("capped", q)) <=> Contains(up, Frame("capped", q))
        /\ \A q : Once(up, Frame("capped", q)) => Once(up', Frame("capped", q))
    BY <1>1, <1>6, FrameSent
  <2> QED BY <1>3, <1>6, <2>1 DEF Refused
<1>7. CASE up' = Append(started, Frame("result", r)) /\ entry[r] = "result"
  <2>1. /\ up' \in Seq(UpFrames)
        /\ \A q : Contains(up', Frame("capped", q)) <=> Contains(started, Frame("capped", q))
        /\ \A q : Once(started, Frame("capped", q)) => Once(up', Frame("capped", q))
    BY <1>1, <1>4, <1>7, FrameSent
  <2> QED BY <1>3, <1>4, <1>7, <2>1 DEF Refused
<1>8. CASE /\ entry[r] = "capped" /\ entry' = [entry EXCEPT ![r] = "none"]
           /\ up' = Append(up, Frame("capped", r))
  <2>1. up' \in Seq(UpFrames)
    BY <1>1, <1>8, FrameSent
  <2> QED BY <1>3, <1>8, <2>1
<1> QED BY <1>3, <1>5, <1>6, <1>7, <1>8

LEMMA SendQueuedInv == ASSUME Inv, NEW r \in Runs, SendQueued(r) PROVE Inv'
<1>1. UNCHANGED <<Portal, down, ledger, canceled, preCanceled, retried, starts, bounds, history>>
  BY DEF SendQueued
<1>2. /\ UNCHANGED <<status, lease, todo, seen, mailbox, onWire, repeated>>
      /\ \A q : Publishing(q)' <=> Publishing(q)
  BY <1>1, Unwritten
<1>3. /\ up' \in Seq(UpFrames) /\ announced' = announced \cup {r}
      /\ entry' = entry \/ entry' = [entry EXCEPT ![r] = "none"]
  BY SendQueuedFacts
<1>4. WireOK' /\ BoundsOK'
  BY <1>1, <1>2, <1>3, InvParts, BoundsKept DEF WireOK
<1>5. RunnerOK' /\ OnceInv' /\ \A q \in Runs : entry'[q] = entry[q] \/ entry'[q] = "none"
  <2>1. CASE entry' = entry
    BY <1>1, <1>3, <2>1, InvParts DEF RunnerOK, OnceInv
  <2>2. CASE entry' = [entry EXCEPT ![r] = "none"]
    BY <1>1, <1>3, <2>2, InvParts DEF RunnerOK, OnceInv
  <2> QED BY <1>3, <2>1, <2>2
<1>6. CapOK'
  BY <1>5, InvParts, CapKept
<1>7. SettledInv'
  BY <1>1, <1>2, InvParts, SettledKept
<1>8. TokenInv'
  <2>1. CASE /\ \A q : (Refused(q)' <=> Refused(q))
             /\ \A q : Once(up, Frame("capped", q)) => Once(up', Frame("capped", q))
    BY <1>1, <1>2, <1>5, <2>1, InvParts, Calm DEF Asked, AskedOnce
  <2>2. CASE /\ entry[r] = "capped" /\ entry' = [entry EXCEPT ![r] = "none"]
             /\ up' = Append(up, Frame("capped", r))
    <3>1. up \in Seq(UpFrames) /\ Frame("capped", r) \in UpFrames
      BY InvParts, FrameTypes DEF WireOK
    <3>2. /\ \A q : Contains(up', Frame("capped", q)) <=> Contains(up, Frame("capped", q)) \/ q = r
          /\ \A q : Once(up, Frame("capped", q)) /\ (q = r => ~ Contains(up, Frame("capped", q)))
                      => Once(up', Frame("capped", q))
      BY <2>2, <3>1, FrameSent
    <3>3. ASSUME NEW q \in Runs, q \notin repeated' PROVE TokenOK(q)'
      <4>1. TokenOK(q)
        BY <1>2, <3>3, InvParts DEF TokenInv
      <4>2. (Asked(q)' <=> Asked(q)) /\ (AskedOnce(q)' <=> AskedOnce(q))
        BY <1>1, <1>2 DEF Asked, AskedOnce
      <4>3. CASE q # r
        <5>1. entry'[q] = entry[q] /\ ledger'[q] = ledger[q]
          BY <1>1, <2>2, <4>3, InvParts DEF RunnerOK
        <5>2. Refused(q)' <=> Refused(q)
          BY <3>2, <4>3 DEF Refused
        <5>3. Once(up', Frame("capped", q))
          BY <3>2, <4>1, <4>3 DEF TokenOK
        <5> QED BY <1>1, <1>2, <4>1, <4>2, <5>1, <5>2, <5>3 DEF TokenOK, Token
      <4>4. CASE q = r
        <5>1. r \in onWire /\ status[r] \notin Unsent /\ ~ Asked(r) /\ ~ Refused(r)
          BY <2>2, <4>1, <4>4 DEF TokenOK, Token
        <5>2. entry'[r] = "none" /\ ledger'[r] = "none"
          BY <1>1, <2>2, InvParts DEF RunnerOK
        <5>3. Once(up', Frame("capped", r))
          BY <3>2, <4>1, <4>4, <5>1 DEF TokenOK, Refused
        <5> QED BY <1>1, <1>2, <4>1, <4>2, <4>4, <5>1, <5>2, <5>3 DEF TokenOK
      <4> QED BY <4>3, <4>4
    <3> QED BY <3>3 DEF TokenInv
  <2> QED BY <2>1, <2>2, SendQueuedFacts
<1> QED BY <1>1, <1>4, <1>5, <1>6, <1>7, <1>8, RunnerStep

LEMMA ReadvertiseInv == ASSUME Inv, Readvertise PROVE Inv'
<1>1. /\ Fault /\ up' = Append(up, Frame("runner_state", 0))
      /\ UNCHANGED <<Portal, down, entry, ledger, canceled, announced, preCanceled, retried, starts,
                     history>>
  BY DEF Readvertise, runner
<1>2. /\ UNCHANGED <<status, lease, todo, seen, mailbox, onWire, repeated>>
      /\ \A q : Publishing(q)' <=> Publishing(q)
  BY <1>1, Unwritten
<1>3. /\ up' \in Seq(UpFrames)
      /\ \A q : Contains(up', Frame("capped", q)) <=> Contains(up, Frame("capped", q))
      /\ \A q : Once(up, Frame("capped", q)) => Once(up', Frame("capped", q))
  <2>1. up \in Seq(UpFrames) /\ Frame("runner_state", 0) \in UpFrames
    BY InvParts DEF WireOK, UpFrames
  <2> QED BY <1>1, <2>1, FrameSent
<1>4. WireOK' /\ BoundsOK' /\ RunnerOK' /\ OnceInv'
  BY <1>1, <1>2, <1>3, InvParts, FaultFacts DEF WireOK, RunnerOK, OnceInv
<1>5. CapOK'
  BY <1>1, InvParts, CapKept
<1>6. SettledInv'
  BY <1>1, <1>2, InvParts, SettledKept
<1>7. TokenInv'
  BY <1>1, <1>2, <1>3, InvParts, Calm DEF Asked, AskedOnce, Refused
<1> QED BY <1>1, <1>4, <1>5, <1>6, <1>7, RunnerStep

-----------------------------------------------------------------------------
(* Connections. *)

\* Whatever loses both directions, and at most entries and tombstones of the runner.
LEMMA LineLost ==
    ASSUME Inv, SocketOK', BoundsOK', RunnerOK', CapOK', seen' \subseteq seen,
           mailbox' = << >>, down' = << >>, up' = << >> \/ up' = <<Frame("runner_state", 0)>>,
           \A r \in Runs : entry'[r] = "capped" => entry[r] = "capped",
           UNCHANGED <<rows, todo, ledger, starts, history>>
    PROVE  Inv'
<1>1. UNCHANGED <<status, generation, onWire, repeated>>
  BY DEF rows, history
<1>2. RowsOK' /\ TodoOK' /\ HistoryOK' /\ OnceInv'
  BY <1>1, InvParts DEF RowsOK, TodoOK, HistoryOK, OnceInv
<1>3. \A y : /\ ~ Contains(down', y) /\ Once(down', y)
             /\ ~ Contains(mailbox', y) /\ Once(mailbox', y)
  BY EmptyFacts
<1>4. down' \in Seq(DownFrames)
  OBVIOUS
<1>5. up' \in Seq(UpFrames) /\ \A q : ~ Contains(up', Frame("capped", q))
  <2>1. PICK x : x = Frame("runner_state", 0)
    OBVIOUS
  <2>2. x \in UpFrames /\ \A q : x # Frame("capped", q)
    BY <2>1, FrameEqual DEF UpFrames
  <2>3. CASE up' = << >>
    BY <2>3, EmptyFacts
  <2>4. CASE up' = <<x>>
    BY <2>2, <2>4, SingletonFacts
  <2> QED BY <2>1, <2>3, <2>4
<1>6. WireOK'
  BY <1>4, <1>5 DEF WireOK
<1>7. \A q : Once(up', Frame("capped", q))
  BY <1>5 DEF Once, Contains
<1>8. SettledInv'
  BY <1>1, <1>3, InvParts, SettledKept
<1>9. \A q : Publishing(q)' <=> Publishing(q)
  BY DEF Publishing
<1>10. TokenInv'
  BY <1>1, <1>3, <1>5, <1>7, <1>9, InvParts, Calm DEF Asked, AskedOnce, Refused
<1> QED BY <1>2, <1>6, <1>8, <1>10, InvNext

LEMMA ConnectInv == ASSUME Inv, Connect PROVE Inv'
<1>1. /\ connections < MaxConnection /\ connections' = connections + 1 /\ lease' = connections + 1
      /\ up' = <<Frame("runner_state", 0)>> /\ down' = << >>
      /\ seen' = {} /\ resumes' = 0 /\ drains' = 0 /\ mailbox' = << >> /\ announced' = {}
      /\ entry' = [r \in Runs |-> IF ledger[r] = "completed" THEN "result" ELSE entry[r]]
      /\ UNCHANGED <<rows, todo, ledger, canceled, preCanceled, retried, starts, faults, history>>
  BY DEF Connect
<1>2. SocketOK' /\ BoundsOK'
  BY <1>1, InvParts, Constants DEF SocketOK, BoundsOK
<1>3. \A r \in Runs : entry'[r] = entry[r] \/ entry'[r] = "result"
  BY <1>1
<1>4. RunnerOK'
  BY <1>1, InvParts DEF RunnerOK
<1>5. CapOK'
  BY <1>3, InvParts, CapKept
<1> QED BY <1>1, <1>2, <1>3, <1>4, <1>5, LineLost

LEMMA DisconnectInv == ASSUME Inv, Disconnect PROVE Inv'
<1>1. /\ Fault /\ lease' = 0 /\ up' = << >> /\ down' = << >> /\ mailbox' = << >>
      /\ UNCHANGED <<rows, todo, history>>
      /\ UNCHANGED <<seen, resumes, drains>>
      /\ UNCHANGED <<entry, ledger, canceled, announced, preCanceled, retried, starts>>
  BY DEF Disconnect, Lost, runner
<1>2. SocketOK' /\ BoundsOK' /\ RunnerOK'
  BY <1>1, InvParts, FaultFacts DEF SocketOK, RunnerOK
<1>3. CapOK'
  BY <1>1, InvParts, CapKept
<1> QED BY <1>1, <1>2, <1>3, LineLost

LEMMA CrashInv == ASSUME Inv, Crash PROVE Inv'
<1>1. /\ Fault /\ lease' = 0 /\ up' = << >> /\ down' = << >> /\ mailbox' = << >>
      /\ UNCHANGED <<rows, todo, history>>
      /\ UNCHANGED <<seen, resumes, drains, ledger, starts>>
      /\ entry' = [r \in Runs |-> "none"]
      /\ canceled' = {} /\ announced' = {} /\ preCanceled' = {} /\ retried' = {}
  BY DEF Crash, Lost
<1>2. SocketOK' /\ BoundsOK' /\ RunnerOK'
  BY <1>1, InvParts, FaultFacts DEF SocketOK, RunnerOK
<1>3. CapOK'
  BY <1>1, InvParts, CapKept
<1> QED BY <1>1, <1>2, <1>3, LineLost

-----------------------------------------------------------------------------
(* The theorems. *)

LEMMA InitInv == Init => Inv
<1> SUFFICES ASSUME Init PROVE Inv
  OBVIOUS
<1>1. /\ status = [r \in Runs |-> IF r \in Running THEN "running" ELSE "none"]
      /\ generation = [r \in Runs |-> IF r \in Running THEN 1 ELSE 0]
      /\ entry = [r \in Runs |-> IF r \in Running THEN "handler" ELSE "none"]
      /\ ledger = [r \in Runs |-> IF r \in Running THEN "reserved" ELSE "none"]
      /\ starts = [r \in Runs |-> IF r \in Running THEN 1 ELSE 0]
      /\ lease = 1 /\ connections = 1 /\ faults = 0 /\ todo = [p \in Processes |-> << >>]
      /\ seen = {} /\ resumes = 0 /\ drains = 0 /\ mailbox = << >> /\ down = << >> /\ up = << >>
      /\ canceled = {} /\ announced = Running /\ preCanceled = {} /\ retried = {}
      /\ onWire = Running /\ repeated = {}
  BY DEF Init, Initially
<1>2. RowsOK
  BY <1>1, Constants DEF RowsOK, Status, Inflight
<1>3. TodoOK /\ SocketOK /\ WireOK /\ HistoryOK
  BY <1>1, Constants DEF TodoOK, SocketOK, WireOK, HistoryOK
<1>4. RunnerOK /\ OnceInv
  BY <1>1, Constants DEF RunnerOK, OnceInv
<1>5. CapOK
  <2>1. ActiveRuns = Running
    BY <1>1, Constants DEF ActiveRuns
  <2> QED BY <2>1, Constants DEF CapOK
<1>6. BoundsOK
  BY <1>1, Constants DEF BoundsOK
<1>7. SettledInv
  BY <1>1, EmptyFacts DEF SettledInv
<1>8. TokenInv
  <2>1. \A r : ~ Publishing(r) /\ ~ Asked(r) /\ ~ Refused(r)
    BY <1>1, EmptyFacts DEF Publishing, Asked, Refused
  <2>2. (\A r : AskedOnce(r)) /\ \A y : Once(up, y)
    BY <1>1, EmptyFacts DEF AskedOnce
  <2> QED BY <1>1, <2>1, <2>2 DEF TokenInv, TokenOK, Token, Unsent, NeverRan
<1> QED BY <1>2, <1>3, <1>4, <1>5, <1>6, <1>7, <1>8, InvParts

LEMMA NextInv == Inv /\ [Next]_vars => Inv'
<1> SUFFICES ASSUME Inv, [Next]_vars PROVE Inv'
  OBVIOUS
<1>1. CASE \E p \in Processes : PortalStep(p) \/ MarkRefused(p) \/ RefuseInitiator(p)
  BY <1>1, DispatchQueuedInv, DispatchToRunnerInv, RedeliverToRunnerInv, ClaimInv, DeliverInv,
     RecoverInflightInv, DeliverCancelInv, ResolveStaleInv, ResolvePendingInv, ResolveRunningInv,
     ExpireInv, MarkRefusedInv, RefuseInitiatorInv DEF PortalStep
<1>2. CASE \E r \in Runs : Create(r) \/ Cancel(r) \/ CancelAgain(r) \/ Finish(r) \/ SendQueued(r)
  BY <1>2, CreateInv, CancelInv, CancelAgainInv, FinishInv, SendQueuedInv
<1>3. CASE SweepSent \/ SweepPending \/ SweepRunning
  BY <1>3, SweepSentInv, SweepPendingInv, SweepRunningInv
<1>4. CASE PortalSocket \/ FinalizeFails
  BY <1>4, ResumeRunsInv, DrainQueueInv, PushFrameInv, RunnerStateInv, ActionStartedInv, CapErrorInv,
     ActionResultInv, FinalizeFailsInv DEF PortalSocket
<1>5. CASE RunnerReceives
  BY <1>5, RunActionInv, CancelRunInv, AckRunInv, RetryFinalizationInv DEF RunnerReceives
<1>6. CASE Readvertise \/ Connect \/ Disconnect \/ Crash
  BY <1>6, ReadvertiseInv, ConnectInv, DisconnectInv, CrashInv
<1>7. CASE UNCHANGED vars
  <2>1. UNCHANGED <<rows, lease, todo, socket, down, up, runner, bounds, history>>
    BY <1>7 DEF vars
  <2>2. TodoOK' /\ SocketOK' /\ BoundsOK' /\ UNCHANGED <<seen, mailbox>>
    BY <2>1, InvParts DEF TodoOK, SocketOK, BoundsOK, socket, bounds
  <2>3. \A r \in Runs : Publishing(r)' => Publishing(r)
    BY <2>1 DEF Publishing
  <2> QED BY <2>1, <2>2, <2>3, Reads
<1> QED BY <1>1, <1>2, <1>3, <1>4, <1>5, <1>6, <1>7 DEF Next

\* The inductive invariant: the types; a run without a record was never started; a result
\* is acknowledged only for a settled row; and the one frame of a claim is on its way to the
\* runner, waits there or on its way back as a cap refusal, or has become a record.
THEOREM InvHolds == Spec => []Inv
<1>1. Init => Inv
  BY InitInv
<1>2. Inv /\ [Next]_vars => Inv'
  BY NextInv
<1> QED BY <1>1, <1>2, PTL DEF Spec

\* Rows, processes, frames and the runner's records keep their types: a sent row names the
\* connection it was sent on, and the handlers never exceed the runner's cap.
THEOREM TypeCorrect == Spec => []TypeOK
<1>1. Inv => TypeOK
  BY DEF Inv
<1> QED BY <1>1, InvHolds, PTL

\* Whatever the sweep, a reconnect or a readvertisement sends again, and whatever a crash
\* forgets, startRun starts an action at most once: it never finds an id without a record
\* that was started before.
THEOREM StartedAtMostOnce == Spec => []AtMostOnce
<1>1. Inv => AtMostOnce
  BY DEF Inv, OnceInv, AtMostOnce
<1> QED BY <1>1, InvHolds, PTL

\* The runner takes an acknowledgement, and may forget the result, only after the portal
\* has settled the run's row for good.
THEOREM AckedAlwaysSettled == Spec => []AckedMeansSettled
<1>1. Inv => AckedMeansSettled
  BY DEF Inv, SettledInv, AckedMeansSettled
<1> QED BY <1>1, InvHolds, PTL

\* A row settled as cancelled in the queue or as never reached belongs to a run that was not
\* started, unless two frames were sent for one claim of it.
THEOREM NeverRanAlwaysHolds == Spec => []NeverRanHolds
<1>1. Inv => NeverRanHolds
  <2> SUFFICES ASSUME Inv, NEW r \in Runs, status[r] \in NeverRan, r \notin repeated
               PROVE  starts[r] = 0
    BY DEF NeverRanHolds
  <2>1. TokenOK(r)
    BY DEF Inv, TokenInv
  <2>2. status[r] \in Unsent
    BY DEF Unsent
  <2>3. ledger[r] = "none"
    BY <2>1, <2>2 DEF TokenOK, Token
  <2> QED BY <2>3 DEF Inv, OnceInv
<1> QED BY <1>1, InvHolds, PTL
=============================================================================

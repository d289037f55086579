-------------------------- MODULE RunOutboxProofs --------------------------
(***************************************************************************)
(* The properties of RunOutbox for any streams, outbox and message sizes   *)
(* and any amount of output, from RunOutboxAssumption and                  *)
(* NothingAssumption.                                                      *)
(***************************************************************************)
EXTENDS RunOutbox, SequenceTheorems, FiniteSetTheorems, WellFoundedInduction, TLAPS

-----------------------------------------------------------------------------
(* The inductive invariant. *)

\* What drainOnce has yet to send.
Sending == IF sender = Nothing THEN << >> ELSE sender

\* The message an event was stored from.
Stored(m) == m.seq \in DOMAIN events /\ events[m.seq] = <<m.stream, m.text>>

\* Output that has a copy on the runner, on the wire or in the portal.
Held(m) ==
    \/ Contains(pending, m) \/ Contains(Sending, m) \/ Contains(wire, m)
    \/ minted = m \/ Stored(m)

\* The parts of TypeOK that say what kind of value each variable has.
Types ==
    /\ status \in {"gates", "running", "finished", "gone"}
    /\ emitted \in Seq(Pieces) /\ Len(emitted) <= MaxPieces
    /\ \A k \in 1 .. Len(emitted) : emitted[k][2] = k
    /\ progressSeq \in 0 .. Len(emitted) /\ dropped \in Nat /\ attempted \in Nat
    /\ pending \in Seq(Messages) /\ wire \in Seq(Messages)
    /\ sender \in Seq(Messages) \cup {Nothing}
    /\ minted \in Output \cup {Nothing}
    /\ terminal \in Results \cup {Nothing} /\ logged \in Results \cup {Nothing}
    /\ session \in {"up", "down"}
    /\ announced \in BOOLEAN /\ acked \in BOOLEAN /\ lost \in BOOLEAN
    /\ DOMAIN events \subseteq 1 .. Len(emitted)
    /\ \A s \in DOMAIN events : events[s] \in Streams \X Seq(Pieces)
    /\ verdict \in {"none", "complete", "incomplete"}

\* Where the handler and the sender are.
PhaseInv ==
    /\ status = "gates" => /\ pending = << >> /\ sender = Nothing /\ wire = << >>
                           /\ emitted = << >>
    /\ status \in {"gates", "running"} => logged = Nothing /\ terminal = Nothing
    /\ terminal # Nothing => logged = Nothing /\ status = "finished"
    /\ minted # Nothing => status = "running" /\ minted.seq = progressSeq
    /\ sender # Nothing => session = "up" /\ attempted = 0
    /\ verdict # "none" => logged # Nothing

\* Output is not followed by the start, nor a result by output.
Okay(a, b) ==
    /\ IsProgress(a) => b # Started
    /\ a.kind = "result" => ~ IsProgress(b)

Ordered(s) == \A i, j \in 1 .. Len(s) : i < j => Okay(s[i], s[j])

Across(s, t) == \A a, b \in Messages : Contains(s, a) /\ Contains(t, b) => Okay(a, b)

\* The wire, the sender and the outbox are one queue.
QueueInv ==
    /\ Ordered(pending) /\ Ordered(Sending) /\ Ordered(wire)
    /\ Across(wire, Sending) /\ Across(wire, pending) /\ Across(Sending, pending)

\* A session that was not told of the start has it ahead of any output.
StartInv ==
    /\ AnnouncedFirst
    /\ session = "up" /\ ~ announced
         /\ (status = "running" \/ \E m \in Output : Contains(Sending, m) \/ Contains(pending, m))
       => Contains(Sending, Started) \/ Contains(pending, Started)

\* The text of a message is output of its stream, in order.
TextOK(m) ==
    /\ m.seq <= Len(emitted)
    /\ Len(m.text) \in 1 .. MaxChunk
    /\ \A i \in 1 .. Len(m.text) :
          /\ m.text[i][1] = m.stream
          /\ m.text[i][2] \in 1 .. Len(emitted)
          /\ emitted[m.text[i][2]] = m.text[i]
    /\ \A i, j \in 1 .. Len(m.text) : i < j => m.text[i][2] < m.text[j][2]

\* A seq stands for one message, and later seqs for later output.
Agree(m, n) ==
    /\ m.seq = n.seq => m = n
    /\ m.seq < n.seq => \A i \in 1 .. Len(m.text), j \in 1 .. Len(n.text) :
                           m.text[i][2] < n.text[j][2]

ContentInv ==
    /\ \A m \in Output : Held(m) => TextOK(m)
    /\ \A m, n \in Output : Held(m) /\ Held(n) => Agree(m, n)

\* The first c messages are the whole output.
Total(c) ==
    /\ \A m \in Output : Held(m) => m.seq <= c
    /\ \A k \in 1 .. Len(emitted) : \E s \in 1 .. c :
          \A m \in Output : Held(m) /\ m.seq = s => Contains(m.text, emitted[k])

TotalInv ==
    /\ status \in {"gates", "running"} => Total(progressSeq)
    /\ terminal \notin {Nothing, Uncounted} => Total(terminal.chunks)
    /\ logged \notin {Nothing, Uncounted} => Total(logged.chunks)

\* m is only at position i of the outbox.
OnlyAt(i, m) ==
    /\ \A j \in 1 .. Len(pending) : j # i => pending[j] # m
    /\ ~ Contains(Sending, m) /\ ~ Contains(wire, m) /\ ~ Stored(m)

\* Output that may still grow is known to nobody, and the last of it is the newest.
ExposureInv ==
    /\ \A i \in 1 .. Len(pending) : i > attempted /\ IsProgress(pending[i]) =>
          /\ OnlyAt(i, pending[i]) /\ minted # pending[i]
          /\ i = Len(pending) /\ status = "running" /\ minted = Nothing
                => pending[i].seq = progressSeq
    /\ minted # Nothing => OnlyAt(0, minted)

\* Queued results are the recorded one.
ResultInv ==
    \A r \in Results : Contains(pending, r) \/ Contains(Sending, r) \/ Contains(wire, r)
        => logged = r

\* Counts of messages queued and dropped.
CountInv ==
    /\ dropped + (IF minted = Nothing THEN 0 ELSE 1) <= progressSeq
    /\ \A m \in Output : Contains(pending, m) \/ Contains(Sending, m) => m.seq <= progressSeq

\* Unless something was lost, every message is held until the verdict, and the result
\* counts them.
LossInv ==
    ~ lost =>
        /\ dropped = 0
        /\ terminal # Nothing => terminal = Result(progressSeq, 0)
        /\ logged # Nothing => logged = Result(progressSeq, 0)
        /\ \A m \in Output : Held(m) => m.seq <= progressSeq
        /\ verdict = "none" => \A s \in 1 .. progressSeq : \E m \in Output : Held(m) /\ m.seq = s

Inv ==
    /\ Types /\ PhaseInv /\ QueueInv /\ StartInv /\ ContentInv /\ TotalInv /\ ExposureInv
    /\ ResultInv /\ CountInv /\ LossInv /\ VerdictRight

-----------------------------------------------------------------------------
(* Messages and queues. *)

LEMMA Constants ==
    /\ MaxPendingPerRun \in Nat /\ MaxPendingPerRun > 0
    /\ MaxChunk \in Nat /\ MaxChunk > 0
    /\ MaxPieces \in Nat
    /\ Nothing \notin Messages /\ Nothing \notin Seq(Messages)
    /\ Nothing \notin Output /\ Nothing \notin Results
  BY RunOutboxAssumption, NothingAssumption DEF Messages

LEMMA Kinds ==
    ASSUME NEW m \in Messages
    PROVE  /\ IsProgress(m) <=> m \in Output
           /\ m.kind = "result" <=> m \in Results
           /\ m = Started <=> m \notin Output /\ m \notin Results
           /\ m \in Output => m \notin Results
  BY DEF Messages, Started, Output, Results, IsProgress

LEMMA MessageSets == Started \in Messages /\ Output \subseteq Messages /\ Results \subseteq Messages
  BY DEF Messages

LEMMA OkayKinds ==
    ASSUME NEW a \in Messages, NEW b \in Messages
    PROVE  Okay(a, b) <=> /\ a \in Output => b # Started
                          /\ a \in Results => b \notin Output
  BY Kinds DEF Okay

LEMMA QueueFacts ==
    ASSUME NEW s \in Seq(Messages)
    PROVE  /\ Len(s) \in Nat /\ DOMAIN s = 1 .. Len(s)
           /\ \A i \in 1 .. Len(s) : s[i] \in Messages
           /\ \A m : Contains(s, m) => m \in Messages
           /\ s = << >> <=> Len(s) = 0
           /\ s # Nothing
<1>1. Len(s) \in Nat /\ DOMAIN s = 1 .. Len(s) /\ \A i \in 1 .. Len(s) : s[i] \in Messages
  BY LenProperties, ElementOfSeq
<1>2. s = << >> <=> Len(s) = 0
  BY <1>1, EmptySeq
<1>3. s # Nothing
  BY Constants
<1> QED BY <1>1, <1>2, <1>3 DEF Contains

LEMMA EmptyFacts ==
    /\ << >> \in Seq(Messages) /\ Len(<< >>) = 0
    /\ \A m : ~ Contains(<< >>, m)
    /\ Ordered(<< >>)
    /\ \A s : Across(<< >>, s) /\ Across(s, << >>)
<1>1. << >> \in Seq(Messages) /\ Len(<< >>) = 0
  BY EmptySeq
<1>2. \A m : ~ Contains(<< >>, m)
  BY <1>1 DEF Contains
<1> QED BY <1>1, <1>2 DEF Ordered, Across

LEMMA AppendFacts ==
    ASSUME NEW s \in Seq(Messages), NEW x \in Messages
    PROVE  /\ Append(s, x) \in Seq(Messages) /\ Len(Append(s, x)) = Len(s) + 1
           /\ \A i \in 1 .. Len(s) : Append(s, x)[i] = s[i]
           /\ Append(s, x)[Len(s) + 1] = x
           /\ \A m : Contains(Append(s, x), m) <=> Contains(s, m) \/ m = x
           /\ Ordered(s) /\ (\A a \in Messages : Contains(s, a) => Okay(a, x))
                => Ordered(Append(s, x))
<1> DEFINE t == Append(s, x)
<1>1. /\ t \in Seq(Messages) /\ Len(t) = Len(s) + 1 /\ Len(s) \in Nat
      /\ \A i \in 1 .. Len(s) : t[i] = s[i] /\ s[i] \in Messages
      /\ t[Len(s) + 1] = x
  BY QueueFacts
<1> HIDE DEF t
<1>2. \A m : Contains(t, m) <=> Contains(s, m) \/ m = x
  <2>1. ASSUME NEW m, Contains(t, m) PROVE Contains(s, m) \/ m = x
    <3>1. PICK i \in 1 .. Len(t) : t[i] = m
      BY <2>1 DEF Contains
    <3> QED BY <1>1, <3>1 DEF Contains
  <2>2. ASSUME NEW m, Contains(s, m) PROVE Contains(t, m)
    <3>1. PICK i \in 1 .. Len(s) : s[i] = m
      BY <2>2 DEF Contains
    <3> QED BY <1>1, <3>1 DEF Contains
  <2>3. Contains(t, x)
    BY <1>1 DEF Contains
  <2> QED BY <2>1, <2>2, <2>3
<1>3. ASSUME Ordered(s), \A a \in Messages : Contains(s, a) => Okay(a, x)
      PROVE  Ordered(t)
  <2> SUFFICES ASSUME NEW i \in 1 .. Len(t), NEW j \in 1 .. Len(t), i < j
               PROVE  Okay(t[i], t[j])
    BY DEF Ordered
  <2>1. i \in 1 .. Len(s) /\ Contains(s, s[i]) /\ t[i] = s[i] /\ s[i] \in Messages
    BY <1>1 DEF Contains
  <2>2. CASE j = Len(s) + 1
    BY <1>1, <1>3, <2>1, <2>2
  <2>3. CASE j # Len(s) + 1
    BY <1>1, <1>3, <2>1, <2>3 DEF Ordered
  <2> QED BY <2>2, <2>3
<1> QED BY <1>1, <1>2, <1>3 DEF t

LEMMA TailFacts ==
    ASSUME NEW s \in Seq(Messages), s # << >>
    PROVE  /\ Head(s) \in Messages /\ Tail(s) \in Seq(Messages)
           /\ \A m : Contains(s, m) <=> m = Head(s) \/ Contains(Tail(s), m)
           /\ Ordered(s) => /\ Ordered(Tail(s))
                            /\ \A a \in Messages : Contains(Tail(s), a) => Okay(Head(s), a)
<1> DEFINE t == Tail(s)
<1>1. /\ Head(s) = s[1] /\ Head(s) \in Messages
      /\ t \in Seq(Messages) /\ Len(t) = Len(s) - 1 /\ Len(s) \in Nat \ {0}
      /\ \A i \in 1 .. Len(t) : t[i] = s[i + 1]
  BY HeadTailProperties, EmptySeq, QueueFacts
<1> HIDE DEF t
<1>2. \A m : Contains(s, m) <=> m = Head(s) \/ Contains(t, m)
  <2>1. ASSUME NEW m, Contains(s, m), m # Head(s) PROVE Contains(t, m)
    <3>1. PICK i \in 1 .. Len(s) : s[i] = m
      BY <2>1 DEF Contains
    <3>2. i - 1 \in 1 .. Len(t) /\ t[i - 1] = s[i]
      BY <1>1, <2>1, <3>1
    <3> QED BY <3>1, <3>2 DEF Contains
  <2>2. ASSUME NEW m, Contains(t, m) PROVE Contains(s, m)
    <3>1. PICK i \in 1 .. Len(t) : t[i] = m
      BY <2>2 DEF Contains
    <3>2. i + 1 \in 1 .. Len(s) /\ s[i + 1] = m
      BY <1>1, <3>1
    <3> QED BY <3>2 DEF Contains
  <2>3. Contains(s, Head(s))
    BY <1>1 DEF Contains
  <2> QED BY <2>1, <2>2, <2>3
<1>3. ASSUME Ordered(s)
      PROVE  Ordered(t) /\ \A a \in Messages : Contains(t, a) => Okay(Head(s), a)
  <2>1. ASSUME NEW i \in 1 .. Len(t), NEW j \in 1 .. Len(t), i < j
        PROVE  Okay(t[i], t[j])
    <3>1. i + 1 \in 1 .. Len(s) /\ j + 1 \in 1 .. Len(s) /\ i + 1 < j + 1
      BY <1>1, <2>1
    <3> QED BY <1>1, <1>3, <3>1 DEF Ordered
  <2>2. ASSUME NEW a \in Messages, Contains(t, a)
        PROVE  Okay(Head(s), a)
    <3>1. PICK i \in 1 .. Len(t) : t[i] = a
      BY <2>2 DEF Contains
    <3>2. i + 1 \in 1 .. Len(s) /\ 1 \in 1 .. Len(s) /\ 1 < i + 1 /\ s[i + 1] = a
      BY <1>1, <3>1
    <3> QED BY <1>1, <1>3, <3>2 DEF Ordered
  <2> QED BY <2>1, <2>2 DEF Ordered
<1> QED BY <1>1, <1>2, <1>3 DEF t

LEMMA ConcatFacts ==
    ASSUME NEW s \in Seq(Messages), NEW t \in Seq(Messages)
    PROVE  /\ s \o t \in Seq(Messages) /\ Len(s \o t) = Len(s) + Len(t)
           /\ \A i \in 1 .. Len(s) : (s \o t)[i] = s[i]
           /\ \A i \in 1 .. Len(t) : (s \o t)[Len(s) + i] = t[i]
           /\ \A m : Contains(s \o t, m) <=> Contains(s, m) \/ Contains(t, m)
           /\ Ordered(s) /\ Ordered(t) /\ Across(s, t) => Ordered(s \o t)
<1> DEFINE u == s \o t
<1>1. /\ u \in Seq(Messages) /\ Len(u) = Len(s) + Len(t) /\ Len(s) \in Nat /\ Len(t) \in Nat
      /\ \A i \in 1 .. Len(s) + Len(t) : u[i] = IF i <= Len(s) THEN s[i] ELSE t[i - Len(s)]
      /\ \A i \in 1 .. Len(s) : s[i] \in Messages
      /\ \A i \in 1 .. Len(t) : t[i] \in Messages
  BY ConcatProperties, QueueFacts
<1> HIDE DEF u
<1>2. \A i \in 1 .. Len(s) : u[i] = s[i]
  BY <1>1
<1>3. \A i \in 1 .. Len(t) : Len(s) + i \in 1 .. Len(u) /\ u[Len(s) + i] = t[i]
  <2> SUFFICES ASSUME NEW i \in 1 .. Len(t)
               PROVE  Len(s) + i \in 1 .. Len(u) /\ u[Len(s) + i] = t[i]
    OBVIOUS
  <2>1. Len(s) + i \in 1 .. Len(s) + Len(t) /\ ~ (Len(s) + i <= Len(s)) /\ (Len(s) + i) - Len(s) = i
    BY <1>1
  <2> QED BY <1>1, <2>1
<1>4. \A i \in 1 .. Len(u) : i \in 1 .. Len(s) \/ (i - Len(s) \in 1 .. Len(t) /\ u[i] = t[i - Len(s)])
  <2> SUFFICES ASSUME NEW i \in 1 .. Len(u), i \notin 1 .. Len(s)
               PROVE  i - Len(s) \in 1 .. Len(t) /\ u[i] = t[i - Len(s)]
    OBVIOUS
  <2>1. i \in 1 .. Len(s) + Len(t) /\ ~ (i <= Len(s))
    BY <1>1
  <2>2. i - Len(s) \in 1 .. Len(t)
    BY <1>1, <2>1
  <2> QED BY <1>1, <2>1, <2>2
<1>5. \A m : Contains(u, m) <=> Contains(s, m) \/ Contains(t, m)
  <2>1. ASSUME NEW m, Contains(u, m) PROVE Contains(s, m) \/ Contains(t, m)
    <3>1. PICK i \in 1 .. Len(u) : u[i] = m
      BY <2>1 DEF Contains
    <3> QED BY <1>2, <1>4, <3>1 DEF Contains
  <2>2. ASSUME NEW m, Contains(s, m) PROVE Contains(u, m)
    <3>1. PICK i \in 1 .. Len(s) : s[i] = m
      BY <2>2 DEF Contains
    <3>2. i \in 1 .. Len(u)
      BY <1>1
    <3> QED BY <1>2, <3>1, <3>2 DEF Contains
  <2>3. ASSUME NEW m, Contains(t, m) PROVE Contains(u, m)
    BY <1>3, <2>3 DEF Contains
  <2> QED BY <2>1, <2>2, <2>3
<1>6. ASSUME Ordered(s), Ordered(t), Across(s, t)
      PROVE  Ordered(u)
  <2> SUFFICES ASSUME NEW i \in 1 .. Len(u), NEW j \in 1 .. Len(u), i < j
               PROVE  Okay(u[i], u[j])
    BY DEF Ordered
  <2>1. CASE i \in 1 .. Len(s) /\ j \in 1 .. Len(s)
    BY <1>2, <1>6, <2>1 DEF Ordered
  <2>2. CASE i \in 1 .. Len(s) /\ j \notin 1 .. Len(s)
    <3>1. Contains(s, u[i]) /\ Contains(t, u[j]) /\ u[i] \in Messages /\ u[j] \in Messages
      BY <1>1, <1>2, <1>4, <2>2 DEF Contains
    <3> QED BY <1>6, <3>1 DEF Across
  <2>3. CASE i \notin 1 .. Len(s)
    <3>1. j \notin 1 .. Len(s) /\ i - Len(s) < j - Len(s)
      BY <1>1, <2>3
    <3> QED BY <1>4, <1>6, <2>3, <3>1 DEF Ordered
  <2> QED BY <2>1, <2>2, <2>3
<1> QED BY <1>1, <1>2, <1>3, <1>5, <1>6 DEF u

LEMMA SingletonFacts ==
    ASSUME NEW x \in Messages
    PROVE  /\ <<x>> \in Seq(Messages) /\ Len(<<x>>) = 1 /\ <<x>>[1] = x /\ <<x>> # << >>
           /\ \A m : Contains(<<x>>, m) <=> m = x
           /\ Ordered(<<x>>)
<1>1. <<x>> \in Seq(Messages) /\ Len(<<x>>) = 1 /\ <<x>>[1] = x
  OBVIOUS
<1> QED BY <1>1, EmptySeq DEF Contains, Ordered

\* What is left after the eviction of position i.
LEMMA RemoveFacts ==
    ASSUME NEW s \in Seq(Messages), NEW i \in 1 .. Len(s)
    PROVE  /\ RemoveAt(s, i) \in Seq(Messages) /\ Len(RemoveAt(s, i)) = Len(s) - 1
           /\ \A j \in 1 .. Len(s) - 1 :
                 RemoveAt(s, i)[j] = IF j < i THEN s[j] ELSE s[j + 1]
           /\ \A m : Contains(RemoveAt(s, i), m) => Contains(s, m)
           /\ \A m : Contains(s, m) /\ m # s[i] => Contains(RemoveAt(s, i), m)
           /\ Ordered(s) => Ordered(RemoveAt(s, i))
<1> DEFINE a == SubSeq(s, 1, i - 1)
           b == SubSeq(s, i + 1, Len(s))
           u == RemoveAt(s, i)
<1>0. Len(s) \in Nat /\ \A j \in 1 .. Len(s) : s[j] \in Messages
  BY QueueFacts
<1>1. /\ a \in Seq(Messages) /\ Len(a) = i - 1
      /\ \A j \in 1 .. i - 1 : a[j] = s[j]
  <2>1. 1 \in Int /\ i - 1 \in Int /\ \A j \in 1 .. i - 1 : s[j] \in Messages
    BY <1>0
  <2>2. /\ a \in Seq(Messages)
        /\ Len(a) = IF 1 <= i - 1 THEN i - 1 - 1 + 1 ELSE 0
        /\ \A j \in 1 .. i - 1 - 1 + 1 : a[j] = s[1 + j - 1]
    BY <2>1, SubSeqProperties
  <2> QED BY <1>0, <2>2
<1>2. /\ b \in Seq(Messages) /\ Len(b) = Len(s) - i
      /\ \A j \in 1 .. Len(s) - i : b[j] = s[i + j]
  <2>1. i + 1 \in Int /\ Len(s) \in Int /\ \A j \in i + 1 .. Len(s) : s[j] \in Messages
    BY <1>0
  <2>2. /\ b \in Seq(Messages)
        /\ Len(b) = IF i + 1 <= Len(s) THEN Len(s) - (i + 1) + 1 ELSE 0
        /\ \A j \in 1 .. Len(s) - (i + 1) + 1 : b[j] = s[(i + 1) + j - 1]
    BY <2>1, SubSeqProperties
  <2> QED BY <1>0, <2>2
<1>3. /\ u \in Seq(Messages) /\ Len(u) = Len(a) + Len(b)
      /\ \A j \in 1 .. Len(a) + Len(b) : u[j] = IF j <= Len(a) THEN a[j] ELSE b[j - Len(a)]
  <2>1. u = a \o b
    BY DEF RemoveAt
  <2> HIDE DEF a, b, u
  <2> QED BY <1>1, <1>2, <2>1, ConcatProperties
<1> HIDE DEF a, b, u
<1>4. /\ u \in Seq(Messages) /\ Len(u) = Len(s) - 1
      /\ \A j \in 1 .. Len(s) - 1 : u[j] = IF j < i THEN s[j] ELSE s[j + 1]
  <2>1. Len(u) = Len(s) - 1
    BY <1>0, <1>1, <1>2, <1>3
  <2>2. ASSUME NEW j \in 1 .. Len(s) - 1 PROVE u[j] = IF j < i THEN s[j] ELSE s[j + 1]
    <3>0. j \in 1 .. Len(a) + Len(b) /\ Len(a) = i - 1 /\ i \in Int /\ j \in Int
      BY <1>0, <1>1, <1>2
    <3>00. u[j] = IF j <= Len(a) THEN a[j] ELSE b[j - Len(a)]
      BY <1>3, <3>0
    <3>1. CASE j < i
      <4>1. j <= Len(a) /\ j \in 1 .. i - 1
        BY <3>0, <3>1
      <4> QED BY <1>1, <3>00, <3>1, <4>1
    <3>2. CASE j >= i
      <4>1. j - (i - 1) \in 1 .. Len(s) - i /\ i + (j - (i - 1)) = j + 1
        BY <1>0, <3>2
      <4>2. u[j] = b[j - (i - 1)]
        BY <3>0, <3>00, <3>2
      <4> QED BY <1>0, <1>2, <3>2, <4>1, <4>2
    <3> QED BY <1>0, <3>1, <3>2
  <2> QED BY <1>3, <2>1, <2>2
<1>5. ASSUME NEW m, Contains(u, m) PROVE Contains(s, m)
  <2>1. PICK j \in 1 .. Len(u) : u[j] = m
    BY <1>5 DEF Contains
  <2>2. j \in 1 .. Len(s) /\ j + 1 \in 1 .. Len(s) /\ j \in 1 .. Len(s) - 1
    BY <1>0, <1>4
  <2> QED BY <1>4, <2>1, <2>2 DEF Contains
<1>6. ASSUME NEW m, Contains(s, m), m # s[i] PROVE Contains(u, m)
  <2>1. PICK j \in 1 .. Len(s) : s[j] = m
    BY <1>6 DEF Contains
  <2>2. CASE j < i
    BY <1>0, <1>4, <2>1, <2>2 DEF Contains
  <2>3. CASE j > i
    <3>1. j - 1 \in 1 .. Len(u) /\ u[j - 1] = s[j]
      BY <1>0, <1>4, <2>3
    <3> QED BY <2>1, <3>1 DEF Contains
  <2> QED BY <1>0, <1>6, <2>1, <2>2, <2>3
<1>7. ASSUME Ordered(s) PROVE Ordered(u)
  <2> SUFFICES ASSUME NEW j \in 1 .. Len(u), NEW k \in 1 .. Len(u), j < k
               PROVE  Okay(u[j], u[k])
    BY DEF Ordered
  <2> DEFINE f(n) == IF n < i THEN n ELSE n + 1
  <2>1. f(j) \in 1 .. Len(s) /\ f(k) \in 1 .. Len(s) /\ f(j) < f(k)
    BY <1>0, <1>4
  <2>2. u[j] = s[f(j)] /\ u[k] = s[f(k)]
    BY <1>0, <1>4
  <2> QED BY <1>7, <2>1, <2>2 DEF Ordered
<1> QED BY <1>4, <1>5, <1>6, <1>7 DEF u
-----------------------------------------------------------------------------
(* What the invariant says of one state. *)

LEMMA SendingFacts ==
    ASSUME Types
    PROVE  /\ Sending \in Seq(Messages)
           /\ sender = Nothing => Sending = << >>
           /\ sender # Nothing => Sending = sender
  BY EmptyFacts DEF Types, Sending

LEMMA SendingNext ==
    ASSUME Types'
    PROVE  /\ Sending' \in Seq(Messages)
           /\ sender' = Nothing => Sending' = << >>
           /\ sender' # Nothing => Sending' = sender'
  BY EmptyFacts DEF Types, Sending

\* Two copies of one message are one message.
LEMMA StoredUnique ==
    ASSUME Types, ContentInv, NEW m \in Output, Held(m), m.seq \in DOMAIN events
    PROVE  Stored(m)
<1> DEFINE n == Progress(m.seq, events[m.seq][1], events[m.seq][2])
<1>1. events[m.seq] \in Streams \X Seq(Pieces)
  BY DEF Types
<1>2. n \in Output /\ n.seq = m.seq /\ <<n.stream, n.text>> = events[m.seq]
  BY <1>1 DEF Output, Progress
<1>3. Stored(n)
  BY <1>2 DEF Stored
<1>4. n = m
  BY <1>2, <1>3 DEF ContentInv, Agree, Held
<1> QED BY <1>3, <1>4

\* A step that makes no new message and no new text keeps what is said of them.
LEMMA Kept ==
    ASSUME Types, Types', ContentInv, TotalInv,
           \A m \in Output : Held(m)' => Held(m),
           emitted' = emitted,
           status' \in {"gates", "running"} =>
              status \in {"gates", "running"} /\ progressSeq' = progressSeq,
           \A r \in {terminal', logged'} :
              \/ r \in {Nothing, Uncounted, terminal, logged}
              \/ status \in {"gates", "running"} /\ r.chunks = progressSeq
    PROVE  ContentInv' /\ TotalInv'
<1>1. ContentInv'
  BY DEF ContentInv, TextOK, Agree
<1>2. ASSUME NEW c, Total(c) PROVE /\ \A m \in Output : Held(m)' => m.seq <= c
                                   /\ \A k \in 1 .. Len(emitted') : \E s \in 1 .. c :
                                        \A m \in Output : Held(m)' /\ m.seq = s
                                             => Contains(m.text, emitted'[k])
  BY <1>2 DEF Total
<1>3. TotalInv'
  <2>1. ASSUME status' \in {"gates", "running"} PROVE Total(progressSeq)'
    BY <1>2, <2>1 DEF TotalInv, Total
  <2>2. ASSUME terminal' \notin {Nothing, Uncounted} PROVE Total(terminal.chunks)'
    <3>1. Total(terminal'.chunks)
      BY <2>2 DEF TotalInv
    <3> QED BY <1>2, <3>1 DEF Total
  <2>3. ASSUME logged' \notin {Nothing, Uncounted} PROVE Total(logged.chunks)'
    <3>1. Total(logged'.chunks)
      BY <2>3 DEF TotalInv
    <3> QED BY <1>2, <3>1 DEF Total
  <2> QED BY <2>1, <2>2, <2>3 DEF TotalInv
<1> QED BY <1>1, <1>3

\* The verdict, once made, is about events, output and a result that do not change.
LEMMA VerdictKept ==
    ASSUME VerdictRight, lost => lost', verdict' = verdict,
           verdict # "none" => events' = events /\ emitted' = emitted /\ logged' = logged
    PROVE  VerdictRight'
<1>1. verdict' = "incomplete" => lost'
  BY DEF VerdictRight, IncompleteMeansLost
<1>2. ASSUME verdict' = "complete", logged' # Uncounted PROVE ShowsAll'
  <2>1. events' = events /\ emitted' = emitted /\ ShowsAll
    BY <1>2 DEF VerdictRight, CompleteMeansAll
  <2> QED BY <2>1 DEF ShowsAll
<1> QED BY <1>1, <1>2 DEF VerdictRight, IncompleteMeansLost, CompleteMeansAll

LEMMA LossKept ==
    ASSUME LossInv, lost => lost',
           ~ lost' => /\ dropped' = dropped /\ progressSeq' = progressSeq
                      /\ terminal' \in {Nothing, terminal, logged, Result(progressSeq, dropped)}
                      /\ logged' \in {Nothing, terminal, logged, Result(progressSeq, dropped)}
                      /\ \A m \in Output : Held(m)' => Held(m)
                      /\ verdict' = "none" => verdict = "none"
                                              /\ \A m \in Output : Held(m) => Held(m)'
    PROVE  LossInv'
  BY DEF LossInv

\* Initially nothing is held.
LEMMA InitInv == Init => Inv
<1> SUFFICES ASSUME Init PROVE Inv
  OBVIOUS
<1>1. Sending = << >> /\ DOMAIN events = {} /\ Len(emitted) = 0
  BY EmptySeq DEF Init, Sending
<1>2. \A m \in Output : ~ Held(m) /\ ~ Contains(Sending, m) /\ ~ Contains(pending, m)
  BY <1>1, EmptyFacts, Constants DEF Init, Held, Stored
<1>3. Types
  <2>1. << >> \in Seq(Pieces)
    BY EmptySeq
  <2>2. /\ emitted \in Seq(Pieces) /\ Len(emitted) <= MaxPieces
        /\ \A k \in 1 .. Len(emitted) : emitted[k][2] = k
        /\ progressSeq \in 0 .. Len(emitted) /\ dropped \in Nat /\ attempted \in Nat
    BY <1>1, <2>1, Constants DEF Init
  <2>3. /\ pending \in Seq(Messages) /\ wire \in Seq(Messages)
        /\ sender \in Seq(Messages) \cup {Nothing}
        /\ minted \in Output \cup {Nothing}
        /\ terminal \in Results \cup {Nothing} /\ logged \in Results \cup {Nothing}
    BY EmptyFacts DEF Init
  <2>4. /\ DOMAIN events \subseteq 1 .. Len(emitted)
        /\ \A s \in DOMAIN events : events[s] \in Streams \X Seq(Pieces)
    BY <1>1
  <2> QED BY <2>2, <2>3, <2>4 DEF Init, Types
<1>4. PhaseInv /\ QueueInv
  BY <1>1, EmptyFacts DEF Init, PhaseInv, QueueInv
<1>5. StartInv
  BY <1>1, <1>2, EmptyFacts DEF Init, StartInv, AnnouncedFirst
<1>6. ContentInv /\ TotalInv
  BY <1>1, <1>2 DEF Init, ContentInv, TotalInv, Total
<1>7. ExposureInv /\ ResultInv /\ CountInv /\ LossInv
  <2>1. ExposureInv
    BY <1>1, EmptyFacts DEF Init, ExposureInv
  <2>2. ResultInv
    BY <1>1, EmptyFacts DEF Init, ResultInv
  <2>3. CountInv /\ LossInv
    BY <1>1, <1>2 DEF Init, CountInv, LossInv
  <2> QED BY <2>1, <2>2, <2>3
<1>8. VerdictRight
  BY DEF Init, VerdictRight, CompleteMeansAll, IncompleteMeansLost
<1> QED BY <1>3, <1>4, <1>5, <1>6, <1>7, <1>8 DEF Inv
-----------------------------------------------------------------------------
(* Steps that move no message of the runner. *)

LEMMA Unmoved ==
    ASSUME Inv, Types', PhaseInv', Sending' = Sending,
           UNCHANGED <<outbox, emitted, logged, wire, announced, portal, lost>>,
           session' = session \/ session' = "down",
           status' = status \/ status' = "gone"
    PROVE  Inv'
<1>1. UNCHANGED <<pending, attempted, progressSeq, dropped, terminal, minted, events, verdict>>
  BY DEF outbox, portal
<1>2. \A m : (Held(m)' <=> Held(m)) /\ (Stored(m)' <=> Stored(m))
  BY <1>1 DEF Held, Stored
<1>3. QueueInv' /\ ResultInv' /\ CountInv'
  BY <1>1 DEF Inv, QueueInv, ResultInv, CountInv
<1>4. StartInv'
  BY <1>1 DEF Inv, StartInv, AnnouncedFirst
<1>5. ContentInv' /\ TotalInv'
  BY <1>1, <1>2, Kept DEF Inv
<1>6. ExposureInv'
  BY <1>1, <1>2 DEF Inv, ExposureInv, OnlyAt
<1>7. LossInv' /\ VerdictRight'
  BY <1>1, <1>2, LossKept, VerdictKept DEF Inv
<1> QED BY <1>3, <1>4, <1>5, <1>6, <1>7 DEF Inv

LEMMA ConnectionFailsInv == ASSUME Inv, ConnectionFails PROVE Inv'
<1> USE DEF ConnectionFails
<1>1. Types' /\ Sending' = Sending
  BY DEF Inv, Types, outbox, portal, Sending
<1>2. PhaseInv'
  BY DEF Inv, PhaseInv, outbox, portal
<1> QED BY <1>1, <1>2, Unmoved

LEMMA SentAllInv == ASSUME Inv, SentAll PROVE Inv'
<1> USE DEF SentAll
<1>1. Types' /\ Sending' = Sending
  BY DEF Inv, Types, outbox, portal, Sending
<1>2. PhaseInv'
  BY DEF Inv, PhaseInv, outbox, portal
<1> QED BY <1>1, <1>2, Unmoved

-----------------------------------------------------------------------------
(* The portal. *)

\* A frame is received: what that does to the queues.
LEMMA Received ==
    ASSUME Inv, wire # << >>, wire' = Tail(wire),
           UNCHANGED <<outbox, emitted, logged, session, sender, announced>>,
           status' = status \/ status' = "gone"
    PROVE  /\ wire' \in Seq(Messages) /\ Head(wire) \in Messages
           /\ Contains(wire, Head(wire))
           /\ \A m : Contains(wire, m) <=> m = Head(wire) \/ Contains(wire', m)
           /\ QueueInv' /\ StartInv' /\ ResultInv' /\ CountInv'
<1>1. UNCHANGED <<pending, attempted, progressSeq, dropped, terminal, minted>> /\ Sending' = Sending
  BY DEF outbox, Sending
<1>2. wire \in Seq(Messages)
  BY DEF Inv, Types
<1>3. /\ wire' \in Seq(Messages) /\ Head(wire) \in Messages
      /\ \A m : Contains(wire, m) <=> m = Head(wire) \/ Contains(wire', m)
      /\ Ordered(wire')
  BY <1>2, TailFacts DEF Inv, QueueInv
<1>4. QueueInv'
  BY <1>1, <1>3 DEF Inv, QueueInv, Across
<1>5. AnnouncedFirst'
  <2> SUFFICES ASSUME NEW i \in DOMAIN wire', IsProgress(wire'[i])
               PROVE  announced
    BY DEF AnnouncedFirst
  <2>1. Contains(wire', wire'[i])
    BY <1>3, QueueFacts DEF Contains
  <2>2. Contains(wire, wire'[i])
    BY <1>3, <2>1
  <2>3. PICK j \in 1 .. Len(wire) : wire[j] = wire'[i]
    BY <2>2 DEF Contains
  <2>4. j \in DOMAIN wire
    BY <1>2, QueueFacts
  <2> QED BY <2>3, <2>4 DEF Inv, StartInv, AnnouncedFirst
<1>6. StartInv'
  BY <1>1, <1>5 DEF Inv, StartInv
<1>7. ResultInv' /\ CountInv'
  BY <1>1, <1>3 DEF Inv, ResultInv, CountInv
<1> QED BY <1>3, <1>4, <1>6, <1>7

\* A start or a result that is received changes no output.
LEMMA ReceivedOther ==
    ASSUME Inv, wire # << >>, Head(wire) \notin Output, wire' = Tail(wire),
           UNCHANGED <<outbox, emitted, logged, session, sender, announced, events, lost>>,
           status' = status \/ (status' = "gone" /\ logged # Nothing /\ terminal = Nothing),
           verdict' \in {"none", "complete", "incomplete"},
           verdict' = "none" => verdict = "none",
           verdict' # "none" => logged # Nothing,
           acked' \in BOOLEAN, VerdictRight'
    PROVE  Inv'
<1>1. UNCHANGED <<pending, attempted, progressSeq, dropped, terminal, minted>> /\ Sending' = Sending
  BY DEF outbox, Sending
<1>2. /\ wire' \in Seq(Messages)
      /\ \A m : Contains(wire, m) <=> m = Head(wire) \/ Contains(wire', m)
      /\ QueueInv' /\ StartInv' /\ ResultInv' /\ CountInv'
  BY Received
<1>3. Types'
  BY <1>1, <1>2 DEF Inv, Types
<1>4. PhaseInv'
  <2>1. status = "gates" => wire = << >>
    BY DEF Inv, PhaseInv
  <2> QED BY <1>1, <2>1 DEF Inv, PhaseInv
<1>5. \A m \in Output : (Held(m)' <=> Held(m)) /\ (Stored(m)' <=> Stored(m))
  BY <1>1, <1>2 DEF Held, Stored
<1>6. ContentInv' /\ TotalInv'
  BY <1>1, <1>3, <1>5, Kept DEF Inv
<1>7. ExposureInv'
  <2>1. ASSUME NEW i, NEW m \in Output, OnlyAt(i, m) PROVE OnlyAt(i, m)'
    BY <1>1, <1>2, <1>5, <2>1 DEF OnlyAt
  <2>2. \A i \in 1 .. Len(pending) : IsProgress(pending[i]) => pending[i] \in Output
    BY QueueFacts, Kinds DEF Inv, Types
  <2>3. minted # Nothing => minted \in Output
    BY DEF Inv, Types
  <2> QED BY <1>1, <2>1, <2>2, <2>3 DEF Inv, ExposureInv
<1>8. LossInv'
  BY <1>1, <1>5, LossKept DEF Inv
<1> QED BY <1>2, <1>3, <1>4, <1>6, <1>7, <1>8 DEF Inv

LEMMA HeadKinds ==
    ASSUME Types, wire # << >>
    PROVE  /\ Head(wire) \in Messages /\ Contains(wire, Head(wire))
           /\ Head(wire) = Started => Head(wire) \notin Output
           /\ IsProgress(Head(wire)) => Head(wire) \in Output
           /\ Head(wire).kind = "result" => Head(wire) \notin Output /\ Head(wire) \in Results
<1>1. Head(wire) \in Messages /\ Contains(wire, Head(wire))
  BY TailFacts DEF Types
<1> QED BY <1>1, Kinds

LEMMA ReceiveStartedInv == ASSUME Inv, ReceiveStarted PROVE Inv'
<1> USE DEF ReceiveStarted, portal
<1>1. Head(wire) \notin Output
  BY HeadKinds DEF Inv
<1>2. VerdictRight'
  BY VerdictKept DEF Inv
<1>3. verdict' \in {"none", "complete", "incomplete"} /\ acked' \in BOOLEAN
      /\ (verdict' # "none" => logged # Nothing)
  BY DEF Inv, Types, PhaseInv
<1> QED BY <1>1, <1>2, <1>3, ReceivedOther

LEMMA FinalizeFailsInv == ASSUME Inv, FinalizeFails PROVE Inv'
<1> USE DEF FinalizeFails, portal
<1>1. Head(wire) \notin Output
  BY HeadKinds DEF Inv
<1>2. VerdictRight'
  BY VerdictKept DEF Inv
<1>3. verdict' \in {"none", "complete", "incomplete"} /\ acked' \in BOOLEAN
      /\ (verdict' # "none" => logged # Nothing)
  BY DEF Inv, Types, PhaseInv
<1> QED BY <1>1, <1>2, <1>3, ReceivedOther

\* The stored events are held messages.
LEMMA EventHeld ==
    ASSUME Types, NEW s \in DOMAIN events
    PROVE  \E m \in Output : m.seq = s /\ m.stream = events[s][1] /\ m.text = events[s][2]
                             /\ Stored(m) /\ Held(m)
<1> DEFINE m == Progress(s, events[s][1], events[s][2])
<1>1. events[s] \in Streams \X Seq(Pieces) /\ s \in Nat \ {0}
  BY DEF Types
<1>2. m \in Output /\ m.seq = s /\ m.stream = events[s][1] /\ m.text = events[s][2]
  BY <1>1 DEF Output, Progress
<1>3. <<m.stream, m.text>> = events[s]
  BY <1>1, <1>2
<1>4. Stored(m)
  BY <1>2, <1>3 DEF Stored
<1> QED BY <1>2, <1>4 DEF Held

\* A count that equals the number of stored events names them all.
LEMMA AllStored ==
    ASSUME Types, NEW c \in Nat, \A s \in DOMAIN events : s <= c
    PROVE  Cardinality(DOMAIN events) = c <=> DOMAIN events = 1 .. c
<1>1. DOMAIN events \subseteq 1 .. c
  BY DEF Types
<1>2. IsFiniteSet(1 .. c) /\ Cardinality(1 .. c) = c
  <2>1. 1 \in Int /\ c \in Int
    OBVIOUS
  <2> QED BY <2>1, FS_Interval
<1> QED BY <1>1, <1>2, FS_Subset

\* When the count of the result is the number of events, they show all.
LEMMA CountedShowsAll ==
    ASSUME Types, ContentInv, NEW c \in Nat, Total(c), Cardinality(DOMAIN events) = c
    PROVE  ShowsAll
<1>1. \A s \in DOMAIN events : s <= c
  BY EventHeld DEF Total
<1>2. DOMAIN events = 1 .. c
  BY <1>1, AllStored
<1>3. ASSUME NEW s \in DOMAIN events
      PROVE  /\ events[s][2] \in Seq(Pieces)
             /\ DOMAIN events[s][2] = 1 .. Len(events[s][2])
  <2>1. events[s] \in Streams \X Seq(Pieces)
    BY DEF Types
  <2>2. events[s][2] \in Seq(Pieces)
    BY <2>1
  <2> QED BY <2>2, LenProperties
<1>4. ASSUME NEW k \in DOMAIN emitted
      PROVE  \E s \in DOMAIN events : Contains(events[s][2], emitted[k])
  <2>1. k \in 1 .. Len(emitted)
    BY LenProperties DEF Types
  <2>2. PICK s \in 1 .. c : \A m \in Output : Held(m) /\ m.seq = s => Contains(m.text, emitted[k])
    BY <2>1 DEF Total
  <2>3. s \in DOMAIN events
    BY <1>2
  <2>4. PICK m \in Output : m.seq = s /\ m.text = events[s][2] /\ Held(m)
    BY <2>3, EventHeld
  <2> QED BY <2>2, <2>3, <2>4
<1>5. ASSUME NEW s \in DOMAIN events, NEW t \in DOMAIN events,
             NEW i \in DOMAIN events[s][2], NEW j \in DOMAIN events[t][2], Before(s, i, t, j)
      PROVE  events[s][2][i][2] < events[t][2][j][2]
  <2>1. PICK m \in Output : m.seq = s /\ m.text = events[s][2] /\ Held(m)
    BY EventHeld
  <2>2. PICK n \in Output : n.seq = t /\ n.text = events[t][2] /\ Held(n)
    BY EventHeld
  <2>3. i \in 1 .. Len(m.text) /\ j \in 1 .. Len(n.text)
    BY <1>3, <2>1, <2>2
  <2>4. CASE s < t
    BY <2>1, <2>2, <2>3, <2>4 DEF ContentInv, Agree
  <2>5. CASE s = t /\ i < j
    BY <2>1, <2>2, <2>3, <2>5 DEF ContentInv, TextOK
  <2> QED BY <1>5, <2>4, <2>5 DEF Before
<1>6. ASSUME NEW s \in DOMAIN events, NEW i \in DOMAIN events[s][2]
      PROVE  events[s][2][i][1] = events[s][1] /\ Contains(emitted, events[s][2][i])
  <2>1. PICK m \in Output : /\ m.seq = s /\ m.text = events[s][2] /\ m.stream = events[s][1]
                            /\ Held(m)
    BY EventHeld
  <2>2. i \in 1 .. Len(m.text)
    BY <1>3, <2>1
  <2>3. /\ m.text[i][1] = m.stream
        /\ m.text[i][2] \in 1 .. Len(emitted) /\ emitted[m.text[i][2]] = m.text[i]
    BY <2>1, <2>2 DEF ContentInv, TextOK
  <2> QED BY <2>1, <2>3 DEF Contains
<1> QED BY <1>4, <1>5, <1>6 DEF ShowsAll

\* When a result is next and nothing was lost, every message is stored.
LEMMA NothingMissing ==
    ASSUME Inv, wire # << >>, Head(wire) \in Results, verdict = "none", ~ lost
    PROVE  OutputComplete(Head(wire))
<1> DEFINE r == Head(wire)
<1>1. wire \in Seq(Messages) /\ r \in Messages /\ Contains(wire, r)
  BY TailFacts DEF Inv, Types
<1>2. logged = r /\ r # Nothing
  BY <1>1, Constants DEF Inv, ResultInv
<1>3. progressSeq \in Nat /\ r = Result(progressSeq, 0) /\ r.chunks = progressSeq /\ r.drops = 0
  BY <1>2 DEF Inv, LossInv, Types, Result
<1>4. minted = Nothing
  BY <1>2 DEF Inv, PhaseInv
<1>5. ASSUME NEW m \in Output, Held(m) PROVE Stored(m)
  <2>1. m \in Messages
    BY MessageSets
  <2>2. ~ Okay(r, m)
    BY <1>1, <2>1, OkayKinds
  <2>3. ~ Contains(pending, m) /\ ~ Contains(Sending, m)
    BY <1>1, <2>1, <2>2 DEF Inv, QueueInv, Across
  <2>4. ~ Contains(wire, m)
    <3>1. m # r
      BY Kinds, <2>1
    <3> QED BY <1>1, <2>1, <2>2, <3>1, TailFacts DEF Inv, QueueInv
  <2>5. m # Nothing
    BY Constants
  <2> QED BY <1>4, <1>5, <2>3, <2>4, <2>5 DEF Held
<1>6. \A s \in 1 .. progressSeq : s \in DOMAIN events
  BY <1>5 DEF Inv, LossInv, Stored
<1>7. \A s \in DOMAIN events : s <= progressSeq
  BY EventHeld DEF Inv, LossInv
<1>8. DOMAIN events = 1 .. progressSeq
  <2>1. \A s \in DOMAIN events : s \in Nat \ {0}
    BY DEF Inv, Types
  <2>2. \A s \in DOMAIN events : s \in 1 .. progressSeq
    BY <1>3, <1>7, <2>1
  <2> QED BY <1>6, <2>2
<1>9. Cardinality(DOMAIN events) = progressSeq
  BY <1>3, <1>7, <1>8, AllStored DEF Inv
<1> QED BY <1>3, <1>9 DEF OutputComplete

LEMMA ReceiveResultInv == ASSUME Inv, ReceiveResult PROVE Inv'
<1> USE DEF ReceiveResult, portal
<1> DEFINE r == Head(wire)
<1>1. r \in Messages /\ Contains(wire, r) /\ r \notin Output /\ r \in Results /\ wire # << >>
  BY HeadKinds DEF Inv
<1>2. logged = r /\ logged # Nothing
  BY <1>1, Constants DEF Inv, ResultInv
<1>3. status' = status \/ (status' = "gone" /\ logged # Nothing /\ terminal = Nothing)
  BY DEF Acknowledgeable
<1>4. verdict' \in {"none", "complete", "incomplete"} /\ acked' \in BOOLEAN
      /\ (verdict' = "none" => verdict = "none")
  BY DEF Inv, Types
<1>5. VerdictRight'
  <2>1. CASE verdict # "none"
    <3>1. verdict' = verdict /\ UNCHANGED <<events, emitted, logged, lost>>
      BY <2>1
    <3> QED BY <3>1, VerdictKept DEF Inv
  <2>2. CASE verdict = "none"
    <3>1. verdict' = "incomplete" => lost'
      BY <1>1, <2>2, NothingMissing
    <3>2. ASSUME verdict' = "complete", logged' # Uncounted PROVE ShowsAll'
      <4>1. OutputComplete(r)
        BY <2>2, <3>2
      <4>2. r.chunks \in Nat /\ r.chunks = Cardinality(DOMAIN events)
        BY <1>1, <4>1 DEF OutputComplete, Results
      <4>3. Total(r.chunks)
        BY <1>2, <3>2 DEF Inv, TotalInv
      <4>4. ShowsAll
        BY <4>2, <4>3, CountedShowsAll DEF Inv
      <4> QED BY <4>4 DEF ShowsAll
    <3> QED BY <3>1, <3>2 DEF VerdictRight, CompleteMeansAll, IncompleteMeansLost
  <2> QED BY <2>1, <2>2
<1> QED BY <1>1, <1>2, <1>3, <1>4, <1>5, ReceivedOther

LEMMA ReceiveProgressInv == ASSUME Inv, ReceiveProgress PROVE Inv'
<1> USE DEF ReceiveProgress
<1> DEFINE h == Head(wire)
<1>1. h \in Messages /\ Contains(wire, h) /\ h \in Output /\ wire # << >> /\ Held(h)
  BY HeadKinds DEF Inv, Held
<1>2. UNCHANGED <<pending, attempted, progressSeq, dropped, terminal, minted>> /\ Sending' = Sending
  BY DEF outbox, Sending
<1>3. /\ wire' \in Seq(Messages)
      /\ \A m : Contains(wire, m) <=> m = h \/ Contains(wire', m)
      /\ QueueInv' /\ StartInv' /\ ResultInv' /\ CountInv'
  BY <1>1, Received
<1>4. /\ h.seq \in Nat \ {0} /\ h.seq <= Len(emitted) /\ <<h.stream, h.text>> \in Streams \X Seq(Pieces)
      /\ Len(emitted) \in Nat
  BY <1>1, LenProperties DEF Inv, ContentInv, TextOK, Output, Types
<1>5. Types'
  <2>1. CASE UNCHANGED <<events, lost>>
    BY <1>2, <1>3, <2>1 DEF Inv, Types
  <2>2. CASE /\ verdict = "none" /\ h.seq \notin DOMAIN events
             /\ events' = [s \in DOMAIN events \cup {h.seq} |->
                             IF s = h.seq THEN <<h.stream, h.text>> ELSE events[s]]
             /\ UNCHANGED lost
    <3>1. DOMAIN events' = DOMAIN events \cup {h.seq}
      BY <2>2
    <3>2. DOMAIN events' \subseteq 1 .. Len(emitted)
      BY <1>4, <3>1 DEF Inv, Types
    <3>3. \A s \in DOMAIN events' : events'[s] \in Streams \X Seq(Pieces)
      BY <1>4, <2>2, <3>1 DEF Inv, Types
    <3> QED BY <1>2, <1>3, <2>2, <3>2, <3>3 DEF Inv, Types
  <2>3. CASE lost' = TRUE /\ UNCHANGED events
    BY <1>2, <1>3, <2>3 DEF Inv, Types
  <2> QED BY <2>1, <2>2, <2>3 DEF AppendEvent
<1>6. PhaseInv'
  BY <1>1, <1>2 DEF Inv, PhaseInv
<1>7. \A m \in Output : (Stored(m)' => Stored(m) \/ m = h) /\ (Stored(m) => Stored(m)')
  <2> SUFFICES ASSUME NEW m \in Output
               PROVE  (Stored(m)' => Stored(m) \/ m = h) /\ (Stored(m) => Stored(m)')
    OBVIOUS
  <2>1. CASE UNCHANGED events
    BY <2>1 DEF Stored
  <2>2. CASE /\ verdict = "none" /\ h.seq \notin DOMAIN events
             /\ events' = [s \in DOMAIN events \cup {h.seq} |->
                             IF s = h.seq THEN <<h.stream, h.text>> ELSE events[s]]
    <3>1. CASE m.seq = h.seq
      <4>1. events'[m.seq] = <<h.stream, h.text>> /\ ~ Stored(m)
        BY <2>2, <3>1 DEF Stored
      <4>2. Stored(m)' => m.stream = h.stream /\ m.text = h.text
        BY <4>1 DEF Stored
      <4>3. m.stream = h.stream /\ m.text = h.text => m = h
        BY <1>1, <3>1 DEF Output
      <4> QED BY <4>1, <4>2, <4>3
    <3>2. CASE m.seq # h.seq
      BY <2>2, <3>2 DEF Stored
    <3> QED BY <3>1, <3>2
  <2> QED BY <2>1, <2>2 DEF AppendEvent
<1>8. \A m \in Output : Held(m)' => Held(m)
  BY <1>1, <1>2, <1>3, <1>7 DEF Held
<1>9. ContentInv' /\ TotalInv'
  BY <1>2, <1>5, <1>8, Kept DEF Inv
<1>10. ExposureInv'
  <2>1. ASSUME NEW i, NEW m \in Output, OnlyAt(i, m) PROVE OnlyAt(i, m)'
    <3>1. m # h
      BY <1>1, <2>1 DEF OnlyAt
    <3> QED BY <1>2, <1>3, <1>7, <2>1, <3>1 DEF OnlyAt
  <2>2. \A i \in 1 .. Len(pending) : IsProgress(pending[i]) => pending[i] \in Output
    BY QueueFacts, Kinds DEF Inv, Types
  <2>3. minted # Nothing => minted \in Output
    BY DEF Inv, Types
  <2> QED BY <1>2, <2>1, <2>2, <2>3 DEF Inv, ExposureInv
<1>11. lost => lost'
  BY DEF AppendEvent
<1>12. LossInv'
  <2>1. ASSUME ~ lost', verdict = "none", NEW m \in Output, Held(m) PROVE Held(m)'
    <3>1. CASE m # h
      BY <1>2, <1>3, <1>7, <2>1, <3>1 DEF Held
    <3>2. CASE m = h
      <4>1. CASE h.seq \in DOMAIN events
        BY <1>1, <1>7, <3>2, <4>1, StoredUnique DEF Inv, Held
      <4>2. CASE h.seq \notin DOMAIN events
        <5>1. events' = [s \in DOMAIN events \cup {h.seq} |->
                             IF s = h.seq THEN <<h.stream, h.text>> ELSE events[s]]
          BY <2>1, <4>2 DEF AppendEvent
        <5> QED BY <3>2, <5>1 DEF Held, Stored
      <4> QED BY <4>1, <4>2
    <3> QED BY <3>1, <3>2
  <2> QED BY <1>2, <1>8, <1>11, <2>1, LossKept DEF Inv
<1>13. VerdictRight'
  <2>1. verdict # "none" => events' = events
    BY DEF AppendEvent
  <2> QED BY <1>11, <2>1, VerdictKept DEF Inv
<1> QED BY <1>3, <1>5, <1>6, <1>9, <1>10, <1>12, <1>13 DEF Inv

-----------------------------------------------------------------------------
(* The sender. *)

\* The outbox in terms of what is queued.
LEMMA OutboxFacts ==
    ASSUME Inv
    PROVE  /\ pending \in Seq(Messages) /\ wire \in Seq(Messages) /\ Sending \in Seq(Messages)
           /\ Len(pending) \in Nat
           /\ \A i \in 1 .. Len(pending) :
                 /\ pending[i] \in Messages
                 /\ IsProgress(pending[i]) => pending[i] \in Output
           /\ minted # Nothing => minted \in Output
           /\ \A m \in Output : OnlyAt(0, m) => ~ Contains(pending, m)
<1>1. pending \in Seq(Messages) /\ wire \in Seq(Messages) /\ Sending \in Seq(Messages)
  BY SendingFacts DEF Inv, Types
<1>2. Len(pending) \in Nat /\ \A i \in 1 .. Len(pending) : pending[i] \in Messages
  BY <1>1, QueueFacts
<1>3. \A i \in 1 .. Len(pending) : IsProgress(pending[i]) => pending[i] \in Output
  BY <1>2, Kinds
<1>4. minted # Nothing => minted \in Output
  BY DEF Inv, Types
<1>5. \A m \in Output : OnlyAt(0, m) => ~ Contains(pending, m)
  BY <1>2 DEF OnlyAt, Contains
<1> QED BY <1>1, <1>2, <1>3, <1>4, <1>5

\* A message is on the wire or it is not.
LEMMA AnnouncedIff ==
    ASSUME NEW w \in Seq(Messages)
    PROVE  (\E i \in DOMAIN w : IsProgress(w[i])) <=> (\E m \in Output : Contains(w, m))
<1>1. DOMAIN w = 1 .. Len(w) /\ \A i \in 1 .. Len(w) : w[i] \in Messages
  BY QueueFacts
<1>2. ASSUME NEW i \in DOMAIN w, IsProgress(w[i]) PROVE \E m \in Output : Contains(w, m)
  BY <1>1, <1>2, Kinds DEF Contains
<1>3. ASSUME NEW m \in Output, Contains(w, m) PROVE \E i \in DOMAIN w : IsProgress(w[i])
  <2>1. PICK i \in 1 .. Len(w) : w[i] = m
    BY <1>3 DEF Contains
  <2> QED BY <1>1, <2>1, Kinds, MessageSets
<1> QED BY <1>2, <1>3

LEMMA TakeOutboxInv == ASSUME Inv, TakeOutbox PROVE Inv'
<1> USE DEF TakeOutbox, portal
<1>1. /\ sender = Nothing /\ Sending = << >> /\ status \in {"running", "finished"}
      /\ session = "up" /\ pending' = << >> /\ attempted' = 0
      /\ UNCHANGED <<status, progressSeq, dropped, minted, emitted, acked, session, wire,
                     announced, events, verdict, lost>>
  BY SendingFacts DEF Inv, Types, PhaseInv
<1>2. \/ sender' = pending /\ UNCHANGED <<logged, terminal>>
      \/ /\ terminal # Nothing /\ logged' = terminal /\ terminal' = Nothing
         /\ sender' = Append(pending, terminal)
  OBVIOUS
<1>3. terminal # Nothing => /\ terminal \in Results /\ terminal \in Messages /\ logged = Nothing
                            /\ status = "finished"
  BY MessageSets DEF Inv, Types, PhaseInv
<1>4. /\ sender' \in Seq(Messages) /\ sender' # Nothing
      /\ \A m : Contains(sender', m) =>
             Contains(pending, m) \/ (m = terminal /\ terminal # Nothing /\ logged' = terminal)
      /\ \A m : Contains(pending, m) => Contains(sender', m)
      /\ Ordered(sender')
  <2>1. CASE sender' = pending
    BY <2>1, OutboxFacts, QueueFacts DEF Inv, QueueInv
  <2>2. CASE terminal # Nothing /\ logged' = terminal /\ sender' = Append(pending, terminal)
    <3>1. \A a \in Messages : Okay(a, terminal)
      BY <1>3, <2>2, OkayKinds, Kinds, MessageSets
    <3>2. sender' \in Seq(Messages) /\ Ordered(sender')
          /\ \A m : Contains(sender', m) <=> Contains(pending, m) \/ m = terminal
      BY <1>3, <2>2, <3>1, OutboxFacts, AppendFacts DEF Inv, QueueInv
    <3> QED BY <2>2, <3>2, QueueFacts
  <2> QED BY <1>2, <2>1, <2>2
<1>5. Sending' = sender'
  BY <1>4 DEF Sending
<1>6. \A m \in Output : Contains(sender', m) <=> Contains(pending, m)
  BY <1>3, <1>4, Kinds, MessageSets
<1>7. Types'
  BY <1>1, <1>2, <1>3, <1>4, EmptyFacts DEF Inv, Types
<1>8. PhaseInv'
  BY <1>1, <1>2, <1>3, <1>4 DEF Inv, PhaseInv
<1>9. QueueInv'
  <2>1. Ordered(pending') /\ Ordered(Sending') /\ Ordered(wire')
    BY <1>1, <1>4, <1>5, EmptyFacts DEF Inv, QueueInv
  <2>2. Across(wire', pending') /\ Across(Sending', pending')
    BY <1>1, EmptyFacts
  <2>3. Across(wire', Sending')
    <3> SUFFICES ASSUME NEW a \in Messages, NEW b \in Messages, Contains(wire, a), Contains(sender', b)
                 PROVE  Okay(a, b)
      BY <1>1, <1>5 DEF Across
    <3>1. CASE Contains(pending, b)
      BY <3>1 DEF Inv, QueueInv, Across
    <3>2. CASE b \in Results
      BY <3>2, OkayKinds, Kinds
    <3> QED BY <1>3, <1>4, <3>1, <3>2
  <2> QED BY <2>1, <2>2, <2>3 DEF QueueInv
<1>10. StartInv'
  <2>1. AnnouncedFirst'
    BY <1>1 DEF Inv, StartInv, AnnouncedFirst
  <2>2. Contains(pending, Started) => Contains(Sending', Started)
    BY <1>4, <1>5
  <2>3. \A m \in Output : ~ Contains(pending', m) /\ (Contains(Sending', m) => Contains(pending, m))
    BY <1>1, <1>5, <1>6, EmptyFacts
  <2>4. ~ Contains(Sending, Started)
    BY <1>1, EmptyFacts
  <2> QED BY <1>1, <2>1, <2>2, <2>3, <2>4 DEF Inv, StartInv
<1>11. \A m \in Output : Held(m)' <=> Held(m)
  <2>1. \A m : ~ Contains(Sending, m) /\ ~ Contains(pending', m)
    BY <1>1, EmptyFacts
  <2> QED BY <1>1, <1>5, <1>6, <2>1 DEF Held, Stored
<1>12. ContentInv' /\ TotalInv'
  BY <1>1, <1>2, <1>7, <1>11, Kept DEF Inv
<1>13. ExposureInv'
  <2>1. Len(pending') = 0
    BY <1>1, EmptyFacts
  <2>2. ASSUME minted # Nothing PROVE OnlyAt(0, minted)'
    <3>1. minted \in Output /\ OnlyAt(0, minted) /\ ~ Contains(pending, minted)
      BY <2>2, OutboxFacts DEF Inv, ExposureInv
    <3>2. ~ Contains(Sending', minted)
      BY <1>5, <1>6, <3>1
    <3>3. ~ Stored(minted)'
      BY <1>1, <3>1 DEF OnlyAt, Stored
    <3> QED BY <1>1, <2>1, <3>1, <3>2, <3>3 DEF OnlyAt
  <2> QED BY <1>1, <2>1, <2>2 DEF ExposureInv
<1>14. ResultInv'
  <2> SUFFICES ASSUME NEW r \in Results, Contains(sender', r) \/ Contains(wire, r)
               PROVE  logged' = r
    BY <1>1, <1>5, EmptyFacts DEF ResultInv
  <2>1. CASE Contains(pending, r) \/ Contains(wire, r)
    <3>1. logged = r /\ r # Nothing
      BY <2>1, Constants DEF Inv, ResultInv
    <3> QED BY <1>2, <1>3, <3>1
  <2> QED BY <1>4, <2>1
<1>15. CountInv'
  <2>1. \A m : ~ Contains(pending', m)
    BY <1>1, EmptyFacts
  <2> QED BY <1>1, <1>5, <1>6, <2>1 DEF Inv, CountInv
<1>16. LossInv'
  BY <1>1, <1>2, <1>11, LossKept DEF Inv
<1>17. VerdictRight'
  <2>1. verdict # "none" => logged' = logged
    BY <1>2, <1>3 DEF Inv, PhaseInv
  <2> QED BY <1>1, <2>1, VerdictKept DEF Inv
<1> QED BY <1>7, <1>8, <1>9, <1>10, <1>12, <1>13, <1>14, <1>15, <1>16, <1>17 DEF Inv

\* The first message of the sender goes out: what that does to the wire.
LEMMA WireGrows ==
    ASSUME Inv, sender # Nothing, sender # << >>, OnWire(Head(sender))
    PROVE  /\ Head(sender) \in Messages /\ Contains(sender, Head(sender)) /\ Sending = sender
           /\ wire' \in Seq(Messages) /\ announced' \in BOOLEAN
           /\ \A m : Contains(wire', m) <=> Contains(wire, m) \/ m = Head(sender)
           /\ Ordered(wire')
           /\ AnnouncedFirst'
<1> DEFINE h == Head(sender)
<1>1. sender \in Seq(Messages) /\ Sending = sender /\ wire \in Seq(Messages) /\ announced \in BOOLEAN
  BY SendingFacts DEF Inv, Types
<1>2. /\ h \in Messages /\ Contains(sender, h)
      /\ \A a \in Messages : Contains(Tail(sender), a) => Okay(h, a)
      /\ \A m : Contains(sender, m) <=> m = h \/ Contains(Tail(sender), m)
  BY <1>1, TailFacts DEF Inv, QueueInv
<1>3. /\ wire' = Append(wire, h) /\ announced' = (announced \/ h = Started)
  BY DEF OnWire
<1>4. \A a \in Messages : Contains(wire, a) => Okay(a, h)
  BY <1>1, <1>2 DEF Inv, QueueInv, Across
<1>5. /\ wire' \in Seq(Messages)
      /\ \A m : Contains(wire', m) <=> Contains(wire, m) \/ m = h
      /\ Ordered(wire')
  BY <1>1, <1>2, <1>3, <1>4, AppendFacts DEF Inv, QueueInv
<1>6. AnnouncedFirst'
  <2> SUFFICES ASSUME NEW m \in Output, Contains(wire', m), ~ announced
               PROVE  FALSE
    BY <1>3, <1>5, AnnouncedIff DEF AnnouncedFirst
  <2>1. ~ Contains(wire, m)
    BY <1>1, AnnouncedIff DEF Inv, StartInv, AnnouncedFirst
  <2>2. m = h
    BY <1>5, <2>1
  <2>3. session = "up" /\ Contains(Sending, m)
    BY <1>1, <1>2, <2>2 DEF Inv, PhaseInv
  <2>4. Contains(Sending, Started) \/ Contains(pending, Started)
    BY <2>3 DEF Inv, StartInv
  <2>5. Started \in Messages /\ Started # h /\ ~ Okay(h, Started)
    BY <1>2, <2>2, MessageSets, Kinds, OkayKinds
  <2>6. ~ Contains(Sending, Started)
    BY <1>1, <1>2, <2>5
  <2>7. ~ Contains(pending, Started)
    BY <1>1, <1>2, <2>5 DEF Inv, QueueInv, Across
  <2> QED BY <2>4, <2>6, <2>7
<1> QED BY <1>1, <1>2, <1>3, <1>5, <1>6

LEMMA SendInv == ASSUME Inv, Send PROVE Inv'
<1> USE DEF Send, portal
<1> DEFINE h == Head(sender)
<1>1. /\ sender # Nothing /\ sender # << >> /\ OnWire(h) /\ sender' = Tail(sender)
      /\ UNCHANGED <<status, pending, attempted, progressSeq, dropped, terminal, minted, emitted,
                     logged, acked, session, events, verdict, lost>>
  BY DEF outbox
<1>2. /\ h \in Messages /\ Contains(sender, h) /\ Sending = sender
      /\ wire' \in Seq(Messages) /\ announced' \in BOOLEAN
      /\ \A m : Contains(wire', m) <=> Contains(wire, m) \/ m = h
      /\ Ordered(wire') /\ AnnouncedFirst'
  BY <1>1, WireGrows
<1>3. sender \in Seq(Messages)
  BY <1>1 DEF Inv, Types
<1>4. /\ sender' \in Seq(Messages) /\ sender' # Nothing
      /\ \A m : Contains(sender, m) <=> m = h \/ Contains(sender', m)
      /\ Ordered(sender')
      /\ \A a \in Messages : Contains(sender', a) => Okay(h, a)
  BY <1>1, <1>2, <1>3, TailFacts, QueueFacts DEF Inv, QueueInv
<1>5. Sending' = sender'
  BY <1>4 DEF Sending
<1>6. Types'
  BY <1>1, <1>2, <1>4 DEF Inv, Types
<1>7. PhaseInv'
  BY <1>1, <1>4 DEF Inv, PhaseInv
<1>8. QueueInv'
  <2>1. Across(wire', Sending')
    BY <1>2, <1>4, <1>5 DEF Inv, QueueInv, Across
  <2>2. Across(wire', pending')
    BY <1>1, <1>2 DEF Inv, QueueInv, Across
  <2>3. Across(Sending', pending')
    BY <1>1, <1>2, <1>4, <1>5 DEF Inv, QueueInv, Across
  <2> QED BY <1>1, <1>2, <1>4, <1>5, <2>1, <2>2, <2>3 DEF Inv, QueueInv
<1>9. StartInv'
  <2>1. announced' = (announced \/ h = Started)
    BY <1>1 DEF OnWire
  <2>2. ~ announced' => (Contains(Sending', Started) <=> Contains(Sending, Started))
    BY <1>2, <1>4, <1>5, <2>1
  <2>3. \A m \in Output : Contains(Sending', m) => Contains(Sending, m)
    BY <1>2, <1>4, <1>5
  <2> QED BY <1>1, <1>2, <2>1, <2>2, <2>3 DEF Inv, StartInv
<1>10. \A m \in Output : Held(m)' <=> Held(m)
  BY <1>1, <1>2, <1>4, <1>5 DEF Held, Stored
<1>11. ContentInv' /\ TotalInv'
  BY <1>1, <1>6, <1>10, Kept DEF Inv
<1>12. ExposureInv'
  <2>1. ASSUME NEW i, NEW m \in Output, OnlyAt(i, m) PROVE OnlyAt(i, m)'
    <3>1. m # h
      BY <1>2, <2>1 DEF OnlyAt
    <3>2. ~ Stored(m)'
      BY <1>1, <2>1 DEF OnlyAt, Stored
    <3> QED BY <1>1, <1>2, <1>4, <1>5, <2>1, <3>1, <3>2 DEF OnlyAt
  <2> QED BY <1>1, <2>1, OutboxFacts DEF Inv, ExposureInv
<1>13. ResultInv'
  BY <1>1, <1>2, <1>4, <1>5 DEF Inv, ResultInv
<1>14. CountInv'
  BY <1>1, <1>2, <1>4, <1>5 DEF Inv, CountInv
<1>15. LossInv' /\ VerdictRight'
  BY <1>1, <1>10, LossKept, VerdictKept DEF Inv
<1> QED BY <1>6, <1>7, <1>8, <1>9, <1>11, <1>12, <1>13, <1>14, <1>15 DEF Inv

LEMMA SendFailsInv == ASSUME Inv, SendFails PROVE Inv'
<1> USE DEF SendFails, portal
<1> DEFINE h == Head(sender)
<1>1. /\ sender # Nothing /\ sender # << >> /\ sender' = Nothing /\ session' = "down"
      /\ pending' = sender \o pending /\ attempted' = Len(sender)
      /\ UNCHANGED <<status, progressSeq, dropped, terminal, minted, emitted,
                     logged, acked, events, verdict, lost>>
  BY DEF Requeued
<1>2. sender \in Seq(Messages) /\ pending \in Seq(Messages) /\ Sending = sender
      /\ wire \in Seq(Messages) /\ Len(sender) \in Nat /\ Len(pending) \in Nat
  BY <1>1, SendingFacts, QueueFacts DEF Inv, Types
<1>3. /\ h \in Messages /\ Contains(sender, h)
      /\ \A m : Contains(sender, m) <=> m = h \/ Contains(Tail(sender), m)
      /\ \A a \in Messages : Contains(Tail(sender), a) => Okay(h, a)
  BY <1>1, <1>2, TailFacts DEF Inv, QueueInv
<1>4. /\ wire' \in Seq(Messages) /\ announced' \in BOOLEAN
      /\ \A m : Contains(wire, m) => Contains(wire', m)
      /\ \A m : Contains(wire', m) => Contains(wire, m) \/ m = h
      /\ Ordered(wire') /\ AnnouncedFirst'
  <2>1. CASE OnWire(h)
    BY <1>1, <2>1, WireGrows
  <2>2. CASE UNCHANGED <<wire, announced>>
    BY <1>2, <2>2 DEF Inv, QueueInv, StartInv, AnnouncedFirst, Types
  <2> QED BY <2>1, <2>2
<1>5. /\ pending' \in Seq(Messages) /\ Len(pending') = Len(sender) + Len(pending)
      /\ \A i \in 1 .. Len(sender) : pending'[i] = sender[i]
      /\ \A i \in 1 .. Len(pending) : pending'[Len(sender) + i] = pending[i]
      /\ \A m : Contains(pending', m) <=> Contains(sender, m) \/ Contains(pending, m)
      /\ Ordered(pending')
  BY <1>1, <1>2, ConcatFacts DEF Inv, QueueInv
<1>6. Sending' = << >> /\ \A m : ~ Contains(Sending', m)
  BY <1>1, EmptyFacts DEF Sending
<1>7. Types'
  BY <1>1, <1>2, <1>4, <1>5 DEF Inv, Types
<1>8. PhaseInv'
  BY <1>1 DEF Inv, PhaseInv
<1>9. QueueInv'
  <2>1. Across(wire', pending')
    <3> SUFFICES ASSUME NEW a \in Messages, NEW b \in Messages, Contains(wire', a), Contains(pending', b)
                 PROVE  Okay(a, b)
      BY DEF Across
    <3>1. CASE Contains(wire, a)
      BY <1>2, <1>5, <3>1 DEF Inv, QueueInv, Across
    <3>2. CASE a = h /\ b = h
      BY <3>2, OkayKinds, Kinds
    <3>3. CASE a = h /\ b # h
      BY <1>2, <1>3, <1>5, <3>3 DEF Inv, QueueInv, Across
    <3> QED BY <1>4, <3>1, <3>2, <3>3
  <2> QED BY <1>4, <1>5, <1>6, <2>1, EmptyFacts DEF QueueInv
<1>10. StartInv'
  BY <1>1, <1>4 DEF StartInv
<1>11. \A m \in Output : Held(m)' <=> Held(m)
  BY <1>1, <1>2, <1>3, <1>4, <1>5, <1>6 DEF Held, Stored
<1>12. ContentInv' /\ TotalInv'
  BY <1>1, <1>7, <1>11, Kept DEF Inv
<1>13. ExposureInv'
  <2>0. attempted = 0
    BY <1>1 DEF Inv, PhaseInv
  <2>1. ASSUME NEW k, NEW i, NEW m \in Output, OnlyAt(k, m),
               \A j \in 1 .. Len(pending) : Len(sender) + j # i => j # k
        PROVE  OnlyAt(i, m)'
    <3>1. ~ Contains(sender, m) /\ m # h
      BY <1>2, <1>3, <2>1 DEF OnlyAt
    <3>2. ~ Stored(m)' /\ ~ Contains(Sending', m) /\ ~ Contains(wire', m)
      BY <1>1, <1>4, <1>6, <2>1, <3>1 DEF OnlyAt, Stored
    <3>3. ASSUME NEW j \in 1 .. Len(pending'), j # i PROVE pending'[j] # m
      <4>1. CASE j \in 1 .. Len(sender)
        BY <1>5, <3>1, <4>1 DEF Contains
      <4>2. CASE j \notin 1 .. Len(sender)
        <5>1. PICK l \in 1 .. Len(pending) : j = Len(sender) + l
          <6>1. j - Len(sender) \in 1 .. Len(pending) /\ j = Len(sender) + (j - Len(sender))
            BY <1>2, <1>5, <4>2
          <6> QED BY <6>1
        <5>2. l # k
          BY <2>1, <3>3, <5>1
        <5> QED BY <1>5, <2>1, <5>1, <5>2 DEF OnlyAt
      <4> QED BY <4>1, <4>2
    <3> QED BY <3>2, <3>3 DEF OnlyAt
  <2>2. ASSUME NEW i \in 1 .. Len(pending'), i > attempted', IsProgress(pending'[i])
        PROVE  /\ OnlyAt(i, pending[i])' /\ minted' # pending'[i]
               /\ i = Len(pending') /\ status' = "running" /\ minted' = Nothing
                    => pending'[i].seq = progressSeq'
    <3>1. PICK k \in 1 .. Len(pending) : i = Len(sender) + k
      <4>1. i - Len(sender) \in 1 .. Len(pending) /\ i = Len(sender) + (i - Len(sender))
        BY <1>1, <1>2, <1>5, <2>2
      <4> QED BY <4>1
    <3>2. pending'[i] = pending[k] /\ k > attempted /\ (i = Len(pending') => k = Len(pending))
      <4>1. pending'[i] = pending[k]
        BY <1>5, <3>1
      <4>2. k > attempted
        BY <2>0
      <4>3. i = Len(pending') => k = Len(pending)
        BY <1>2, <1>5, <3>1
      <4> QED BY <4>1, <4>2, <4>3
    <3>3. /\ OnlyAt(k, pending[k]) /\ minted # pending[k] /\ pending[k] \in Output
          /\ k = Len(pending) /\ status = "running" /\ minted = Nothing
               => pending[k].seq = progressSeq
      BY <2>2, <3>2, OutboxFacts DEF Inv, ExposureInv
    <3>4. \A j \in 1 .. Len(pending) : Len(sender) + j # i => j # k
      BY <3>1
    <3>5. \A m \in Output : m = pending'[i] => OnlyAt(i, m)'
      BY <2>1, <3>2, <3>3, <3>4
    <3>6. OnlyAt(i, pending[i])'
      BY <3>2, <3>3, <3>5
    <3> QED BY <1>1, <3>2, <3>3, <3>6
  <2>3. ASSUME minted # Nothing PROVE OnlyAt(0, minted)'
    <3>1. minted \in Output /\ OnlyAt(0, minted)
      BY <2>3, OutboxFacts DEF Inv, ExposureInv
    <3>2. \A j \in 1 .. Len(pending) : Len(sender) + j # 0 => j # 0
      OBVIOUS
    <3>3. \A m \in Output : m = minted => OnlyAt(0, m)'
      BY <2>1, <3>1, <3>2
    <3> QED BY <1>1, <3>1, <3>3
  <2> QED BY <1>1, <2>2, <2>3 DEF ExposureInv
<1>14. ResultInv'
  BY <1>1, <1>2, <1>3, <1>4, <1>5, <1>6 DEF Inv, ResultInv
<1>15. CountInv'
  BY <1>1, <1>2, <1>5, <1>6 DEF Inv, CountInv
<1>16. LossInv' /\ VerdictRight'
  BY <1>1, <1>11, LossKept, VerdictKept DEF Inv
<1> QED BY <1>7, <1>8, <1>9, <1>10, <1>12, <1>13, <1>14, <1>15, <1>16 DEF Inv

-----------------------------------------------------------------------------
(* Connections and processes. *)

\* requeueUnacknowledgedResults and requeueActiveStarts, case by case.
LEMMA RequeuedQueue ==
    ASSUME Inv
    PROVE  LET queue == WithStart(WithResult(pending)) IN
           \/ /\ status = "running" /\ ~ Contains(pending, Started)
              /\ queue = <<Started>> \o pending /\ Protected = attempted + 1
           \/ /\ status = "running" => Contains(pending, Started)
              /\ queue = pending /\ Protected = attempted
           \/ /\ status \notin {"gates", "running"} /\ pending = << >> /\ logged # Nothing
              /\ queue = <<logged>> /\ Protected = attempted
<1>1. pending \in Seq(Messages) /\ Len(pending) \in Nat
  BY OutboxFacts
<1>2. CASE status = "running" /\ ~ Contains(pending, Started)
  <2>1. WithResult(pending) = pending /\ WithStart(pending) = <<Started>> \o pending
    BY <1>2 DEF Inv, PhaseInv, WithResult, WithStart
  <2>2. Len(<<Started>> \o pending) = 1 + Len(pending)
    BY <1>1, SingletonFacts, ConcatFacts, MessageSets
  <2>3. <<Started>> \o pending # pending
    BY <1>1, <2>2
  <2> QED BY <1>2, <2>1, <2>3 DEF Protected
<1>3. CASE status = "running" /\ Contains(pending, Started)
  BY <1>3 DEF Inv, PhaseInv, WithResult, WithStart, Protected
<1>4. CASE status # "running"
  <2>1. WithStart(WithResult(pending)) = WithResult(pending) /\ Protected = attempted
    BY <1>4 DEF WithStart, Protected
  <2> QED BY <1>4, <2>1 DEF WithResult, Inv, PhaseInv
<1> QED BY <1>2, <1>3, <1>4

LEMMA ConnectInv == ASSUME Inv, Connect PROVE Inv'
<1> USE DEF Connect, portal
<1>1. /\ session = "down" /\ sender = Nothing /\ session' = "up" /\ wire' = << >>
      /\ Sending = << >> /\ Sending' = << >>
      /\ announced' = (status \notin {"gates", "running"})
      /\ UNCHANGED <<progressSeq, dropped, terminal, minted, emitted, logged, acked, sender,
                     events, verdict>>
  BY DEF Sending
<1>2. status' = status \/ (status = "gone" /\ status' = "finished")
  OBVIOUS
<1>3. lost => lost'
  OBVIOUS
<1>4. \/ /\ status = "running" /\ ~ Contains(pending, Started)
         /\ pending' = <<Started>> \o pending /\ attempted' = attempted + 1
      \/ /\ status = "running" => Contains(pending, Started)
         /\ pending' = pending /\ attempted' = attempted
      \/ /\ status \notin {"gates", "running"} /\ pending = << >> /\ logged # Nothing
         /\ pending' = <<logged>> /\ attempted' = attempted
  BY RequeuedQueue
<1>5. /\ pending \in Seq(Messages) /\ attempted \in Nat /\ Len(pending) \in Nat
      /\ logged # Nothing => logged \in Results /\ logged \in Messages
  BY OutboxFacts, MessageSets DEF Inv, Types
<1>6. /\ pending' \in Seq(Messages) /\ attempted' \in Nat /\ Ordered(pending')
      /\ \A m \in Output : Contains(pending', m) <=> Contains(pending, m)
      /\ \A r \in Results : Contains(pending', r) => Contains(pending, r) \/ r = logged
      /\ status = "running" => Contains(pending', Started)
      /\ status = "gates" => pending' = pending
  <2>1. CASE pending' = <<Started>> \o pending /\ attempted' = attempted + 1 /\ status = "running"
    <3>1. <<Started>> \in Seq(Messages) /\ Ordered(<<Started>>)
          /\ \A m : Contains(<<Started>>, m) <=> m = Started
      BY SingletonFacts, MessageSets
    <3>2. Across(<<Started>>, pending)
      BY <3>1, OkayKinds, Kinds, MessageSets DEF Across
    <3>3. /\ pending' \in Seq(Messages) /\ Ordered(pending')
          /\ \A m : Contains(pending', m) <=> m = Started \/ Contains(pending, m)
      BY <1>5, <2>1, <3>1, <3>2, ConcatFacts DEF Inv, QueueInv
    <3> QED BY <1>5, <2>1, <3>3, Kinds, MessageSets
  <2>2. CASE pending' = pending /\ attempted' = attempted /\ (status = "running" => Contains(pending, Started))
    BY <1>5, <2>2 DEF Inv, QueueInv
  <2>3. CASE /\ status \notin {"gates", "running"} /\ pending = << >> /\ logged # Nothing
             /\ pending' = <<logged>> /\ attempted' = attempted
    <3>0. logged \in Messages
      BY <1>5, <2>3
    <3>1. /\ pending' \in Seq(Messages) /\ Ordered(pending')
          /\ \A m : Contains(pending', m) <=> m = logged
      <4>1. /\ <<logged>> \in Seq(Messages) /\ Ordered(<<logged>>)
            /\ \A m : Contains(<<logged>>, m) <=> m = logged
        BY <3>0, SingletonFacts
      <4> QED BY <2>3, <4>1
    <3> QED BY <1>5, <2>3, <3>1, Kinds, EmptyFacts, MessageSets
  <2> QED BY <1>4, <2>1, <2>2, <2>3
<1>7. Types'
  BY <1>1, <1>2, <1>6, EmptyFacts DEF Inv, Types
<1>8. PhaseInv'
  BY <1>1, <1>2, <1>6 DEF Inv, PhaseInv
<1>9. QueueInv'
  BY <1>1, <1>6, EmptyFacts DEF QueueInv
<1>10. StartInv'
  <2>1. AnnouncedFirst'
    BY <1>1, EmptyFacts, AnnouncedIff DEF AnnouncedFirst
  <2>2. ASSUME ~ announced',
               status' = "running" \/ \E m \in Output : Contains(Sending', m) \/ Contains(pending', m)
        PROVE  Contains(pending', Started)
    <3>1. status \in {"gates", "running"} /\ status' = status
      BY <1>1, <1>2, <2>2
    <3>2. CASE status = "running"
      BY <1>6, <3>2
    <3>3. CASE status = "gates"
      <4>1. pending = << >>
        BY <3>3 DEF Inv, PhaseInv
      <4> QED BY <1>1, <1>6, <2>2, <3>1, <3>3, <4>1, EmptyFacts
    <3> QED BY <3>1, <3>2, <3>3
  <2> QED BY <2>1, <2>2 DEF StartInv
<1>11. \A m \in Output : (Held(m)' => Held(m)) /\ (Stored(m)' <=> Stored(m))
  <2>1. \A m : ~ Contains(wire', m) /\ ~ Contains(Sending', m)
    BY <1>1, EmptyFacts
  <2> QED BY <1>1, <1>6, <2>1 DEF Held, Stored
<1>12. ContentInv' /\ TotalInv'
  BY <1>1, <1>2, <1>7, <1>11, Kept DEF Inv
<1>13. ExposureInv'
  <2>0. \A m : ~ Contains(wire', m) /\ ~ Contains(Sending', m)
    BY <1>1, EmptyFacts
  <2>1. ASSUME minted # Nothing PROVE OnlyAt(0, minted)'
    <3>1. minted \in Output /\ ~ Contains(pending, minted) /\ ~ Stored(minted)
      BY <2>1, OutboxFacts DEF Inv, ExposureInv, OnlyAt
    <3>2. ~ Contains(pending', minted) /\ ~ Stored(minted)'
      BY <1>6, <1>11, <1>1, <3>1 DEF Stored
    <3> QED BY <1>1, <2>0, <3>2 DEF OnlyAt, Contains
  <2>2. ASSUME NEW i \in 1 .. Len(pending'), i > attempted', IsProgress(pending'[i])
        PROVE  /\ OnlyAt(i, pending[i])' /\ minted' # pending'[i]
               /\ i = Len(pending') /\ status' = "running" /\ minted' = Nothing
                    => pending'[i].seq = progressSeq'
    <3>1. CASE pending' = pending /\ attempted' = attempted
      <4>1. /\ OnlyAt(i, pending[i]) /\ minted # pending[i] /\ pending[i] \in Output
            /\ i = Len(pending) /\ status = "running" /\ minted = Nothing
                 => pending[i].seq = progressSeq
        BY <2>2, <3>1, OutboxFacts DEF Inv, ExposureInv
      <4>2. OnlyAt(i, pending[i])'
        BY <2>0, <1>1, <3>1, <4>1 DEF OnlyAt, Stored
      <4> QED BY <1>1, <1>2, <3>1, <4>1, <4>2
    <3>2. CASE pending' = <<logged>> /\ logged # Nothing
      <4>1. pending'[i] = logged /\ logged \in Results /\ logged \in Messages
        BY <1>5, <3>2, SingletonFacts
      <4> QED BY <2>2, <4>1, Kinds
    <3>3. CASE pending' = <<Started>> \o pending /\ attempted' = attempted + 1
      <4>1. /\ Len(pending') = 1 + Len(pending)
            /\ \A j \in 1 .. 1 : pending'[j] = Started
            /\ \A j \in 1 .. Len(pending) : pending'[1 + j] = pending[j]
        BY <1>5, <3>3, ConcatFacts, SingletonFacts, MessageSets
      <4>2. PICK k \in 1 .. Len(pending) : i = 1 + k
        <5>1. i - 1 \in 1 .. Len(pending) /\ i = 1 + (i - 1)
          BY <1>5, <2>2, <3>3, <4>1
        <5> QED BY <5>1
      <4>3. pending'[i] = pending[k]
        BY <4>1, <4>2
      <4>4. k > attempted /\ (i = Len(pending') => k = Len(pending))
        BY <1>5, <2>2, <3>3, <4>1, <4>2
      <4>5. /\ OnlyAt(k, pending[k]) /\ minted # pending[k] /\ pending[k] \in Output
            /\ k = Len(pending) /\ status = "running" /\ minted = Nothing
                 => pending[k].seq = progressSeq
        BY <2>2, <4>3, <4>4, OutboxFacts DEF Inv, ExposureInv
      <4>6. ASSUME NEW j \in 1 .. Len(pending'), j # i PROVE pending'[j] # pending'[i]
        <5>1. CASE j = 1
          <6>1. pending'[j] = Started
            BY <4>1, <5>1
          <6> QED BY <4>3, <4>5, <6>1, Kinds, MessageSets
        <5>2. CASE j # 1
          <6>1. j - 1 \in 1 .. Len(pending) /\ j = 1 + (j - 1) /\ j - 1 # k
            BY <1>5, <4>1, <4>2, <4>6, <5>2
          <6>2. pending'[j] = pending[j - 1]
            BY <4>1, <6>1
          <6> QED BY <4>3, <4>5, <6>1, <6>2 DEF OnlyAt
        <5> QED BY <5>1, <5>2
      <4>7. ~ Stored(pending[i])'
        BY <1>1, <4>3, <4>5 DEF OnlyAt, Stored
      <4>8. OnlyAt(i, pending[i])'
        BY <2>0, <4>6, <4>7 DEF OnlyAt
      <4> QED BY <1>1, <1>2, <4>3, <4>4, <4>5, <4>8
    <3> QED BY <1>4, <3>1, <3>2, <3>3
  <2> QED BY <1>1, <2>1, <2>2 DEF ExposureInv
<1>14. ResultInv'
  <2>1. \A m : ~ Contains(wire', m) /\ ~ Contains(Sending', m)
    BY <1>1, EmptyFacts
  <2> QED BY <1>1, <1>6, <2>1 DEF Inv, ResultInv
<1>15. CountInv'
  <2>1. \A m : ~ Contains(Sending', m)
    BY <1>1, EmptyFacts
  <2> QED BY <1>1, <1>6, <2>1 DEF Inv, CountInv
<1>16. LossInv'
  <2>1. ASSUME ~ lost', NEW m \in Output, Held(m) PROVE Held(m)'
    <3>1. CASE Contains(wire, m)
      <4>1. PICK i \in 1 .. Len(wire) : wire[i] = m
        BY <3>1 DEF Contains
      <4>2. i \in DOMAIN wire /\ IsProgress(wire[i])
        BY <4>1, QueueFacts, Kinds, MessageSets DEF Inv, Types
      <4>3. m.seq \in DOMAIN events \/ Contains(pending, m)
        BY <2>1, <4>1, <4>2
      <4>4. m.seq \in DOMAIN events => Stored(m)
        BY <2>1, StoredUnique DEF Inv
      <4> QED BY <1>6, <1>11, <4>3, <4>4 DEF Held
    <3>2. CASE ~ Contains(wire, m)
      <4>1. ~ Contains(Sending, m)
        BY <1>1, EmptyFacts
      <4> QED BY <1>1, <1>6, <1>11, <2>1, <3>2, <4>1 DEF Held
    <3> QED BY <3>1, <3>2
  <2> QED BY <1>1, <1>3, <1>11, <2>1, LossKept DEF Inv
<1>17. VerdictRight'
  BY <1>1, <1>3, VerdictKept DEF Inv
<1> QED BY <1>7, <1>8, <1>9, <1>10, <1>12, <1>13, <1>14, <1>15, <1>16, <1>17 DEF Inv

LEMMA CrashInv == ASSUME Inv, Crash PROVE Inv'
<1> USE DEF Crash, portal
<1>1. /\ status' = "gone" /\ pending' = << >> /\ attempted' = 0 /\ progressSeq' = 0 /\ dropped' = 0
      /\ terminal' = Nothing /\ minted' = Nothing /\ session' = "down" /\ sender' = Nothing
      /\ lost' = TRUE /\ Sending' = << >>
      /\ logged' = IF logged = Nothing THEN Uncounted ELSE logged
      /\ UNCHANGED <<emitted, acked, wire, announced, events, verdict>>
  BY DEF Sending
<1>2. Uncounted \in Results /\ Uncounted # Nothing
  BY Constants DEF Uncounted, Result, Results
<1>3. \A m : ~ Contains(pending', m) /\ ~ Contains(Sending', m)
  BY <1>1, EmptyFacts
<1>4. Types'
  <2>1. Len(emitted) \in Nat
    BY LenProperties DEF Inv, Types
  <2> QED BY <1>1, <1>2, <2>1, EmptyFacts DEF Inv, Types
<1>5. PhaseInv'
  BY <1>1, <1>2 DEF Inv, PhaseInv
<1>6. QueueInv'
  BY <1>1, EmptyFacts DEF Inv, QueueInv
<1>7. StartInv'
  BY <1>1 DEF Inv, StartInv, AnnouncedFirst
<1>8. \A m \in Output : Held(m)' => Held(m)
  BY <1>1, <1>3, Constants DEF Held, Stored
<1>9. ContentInv' /\ TotalInv'
  BY <1>1, <1>4, <1>8, Kept DEF Inv
<1>10. ExposureInv'
  BY <1>1, EmptyFacts DEF ExposureInv
<1>11. ResultInv'
  <2> SUFFICES ASSUME NEW r \in Results, Contains(wire, r)
               PROVE  logged' = r
    BY <1>1, <1>3 DEF ResultInv
  <2> QED BY <1>1, Constants DEF Inv, ResultInv
<1>12. CountInv' /\ LossInv'
  BY <1>1, <1>3 DEF CountInv, LossInv
<1>13. VerdictRight'
  <2>1. verdict # "none" => logged' = logged
    BY <1>1 DEF Inv, PhaseInv
  <2> QED BY <1>1, <2>1, VerdictKept DEF Inv
<1> QED BY <1>4, <1>5, <1>6, <1>7, <1>9, <1>10, <1>11, <1>12, <1>13 DEF Inv

-----------------------------------------------------------------------------
(* The handler. *)

LEMMA MarkRunStartedInv == ASSUME Inv, MarkRunStarted PROVE Inv'
<1> USE DEF MarkRunStarted, portal
<1>1. /\ status = "gates" /\ status' = "running" /\ pending' = Append(pending, Started)
      /\ pending = << >> /\ sender = Nothing /\ wire = << >>
      /\ UNCHANGED <<attempted, progressSeq, dropped, terminal, minted, emitted, logged, acked,
                     session, sender, wire, announced, events, verdict, lost>>
  BY DEF Inv, PhaseInv
<1>2. Sending = << >> /\ Sending' = << >>
  BY <1>1 DEF Sending
<1>3. \A m : ~ Contains(pending, m) /\ ~ Contains(wire, m) /\ ~ Contains(Sending, m)
  BY <1>1, <1>2, EmptyFacts
<1>4. /\ pending' \in Seq(Messages) /\ Len(pending') = 1 /\ pending'[1] = Started
      /\ \A m : Contains(pending', m) <=> m = Started
      /\ Ordered(pending')
  <2>1. pending \in Seq(Messages) /\ Len(pending) = 0 /\ Started \in Messages /\ Ordered(pending)
    BY <1>1, EmptyFacts, MessageSets
  <2>2. /\ pending' \in Seq(Messages) /\ Len(pending') = Len(pending) + 1
        /\ pending'[Len(pending) + 1] = Started
        /\ \A m : Contains(pending', m) <=> Contains(pending, m) \/ m = Started
        /\ Ordered(pending')
    <3> HIDE DEF MarkRunStarted
    <3>1. pending' = Append(pending, Started)
      BY <1>1
    <3>2. \A a \in Messages : Contains(pending, a) => Okay(a, Started)
      BY <1>3
    <3> QED BY <2>1, <3>1, <3>2, AppendFacts
  <2> QED BY <1>3, <2>1, <2>2
<1>5. Started \notin Output /\ Started \notin Results /\ ~ IsProgress(Started)
  BY Kinds, MessageSets
<1>6. Types'
  BY <1>1, <1>4 DEF Inv, Types
<1>7. PhaseInv'
  BY <1>1 DEF Inv, PhaseInv
<1>8. QueueInv'
  BY <1>1, <1>2, <1>4, EmptyFacts DEF QueueInv
<1>9. StartInv'
  BY <1>1, <1>4 DEF Inv, StartInv, AnnouncedFirst
<1>10. \A m \in Output : Held(m)' <=> Held(m)
  BY <1>1, <1>2, <1>3, <1>4, <1>5 DEF Held, Stored
<1>11. ContentInv' /\ TotalInv'
  BY <1>1, <1>6, <1>10, Kept DEF Inv
<1>12. ExposureInv'
  <2>1. minted = Nothing
    BY <1>1 DEF Inv, PhaseInv
  <2>2. \A i \in 1 .. Len(pending') : ~ IsProgress(pending'[i])
    BY <1>4, <1>5
  <2> QED BY <1>1, <2>1, <2>2 DEF ExposureInv
<1>13. ResultInv' /\ CountInv'
  BY <1>1, <1>2, <1>3, <1>4, <1>5 DEF Inv, ResultInv, CountInv
<1>14. LossInv' /\ VerdictRight'
  BY <1>1, <1>10, LossKept, VerdictKept DEF Inv
<1> QED BY <1>6, <1>7, <1>8, <1>9, <1>11, <1>12, <1>13, <1>14 DEF Inv

LEMMA FinishRunInv == ASSUME Inv, FinishRun PROVE Inv'
<1> USE DEF FinishRun, portal
<1>1. /\ status \in {"gates", "running"} /\ minted = Nothing /\ status' = "finished"
      /\ logged = Nothing /\ terminal = Nothing /\ verdict = "none"
      /\ UNCHANGED <<attempted, progressSeq, dropped, minted, emitted, acked, session, sender,
                     wire, announced, events, verdict>>
      /\ Sending' = Sending
  BY DEF Inv, PhaseInv, Sending
<1>2. PICK r \in Results : /\ Completed(r, pending)
                           /\ \/ r = Result(progressSeq, dropped) /\ UNCHANGED lost
                              \/ r = Uncounted /\ lost' = TRUE
  <2>1. Result(progressSeq, dropped) \in Results /\ Uncounted \in Results
    BY DEF Inv, Types, Result, Results, Uncounted
  <2> QED BY <2>1
<1>3. /\ r \in Messages /\ r # Nothing /\ r \notin Output /\ r # Started /\ ~ IsProgress(r)
      /\ r.chunks = progressSeq \/ r = Uncounted
  BY <1>2, MessageSets, Kinds, Constants DEF Result
<1>4. \/ logged' = r /\ terminal' = Nothing /\ pending' = Append(pending, r)
      \/ logged' = Nothing /\ terminal' = r /\ pending' = pending
  BY <1>1, <1>2 DEF Completed
<1>5. pending \in Seq(Messages) /\ Len(pending) \in Nat
  BY OutboxFacts
<1>6. /\ pending' \in Seq(Messages) /\ Ordered(pending')
      /\ \A m : Contains(pending, m) => Contains(pending', m)
      /\ \A m : Contains(pending', m) => Contains(pending, m) \/ (m = r /\ logged' = r)
      /\ Len(pending') \in {Len(pending), Len(pending) + 1}
      /\ \A i \in 1 .. Len(pending) : pending'[i] = pending[i]
      /\ \A i \in 1 .. Len(pending') : i \notin 1 .. Len(pending) => pending'[i] = r
  <2>1. CASE pending' = pending
    BY <1>5, <2>1 DEF Inv, QueueInv
  <2>2. CASE logged' = r /\ pending' = Append(pending, r)
    <3>1. \A a \in Messages : Okay(a, r)
      BY <1>3, OkayKinds
    <3>2. /\ pending' \in Seq(Messages) /\ Ordered(pending')
          /\ Len(pending') = Len(pending) + 1
          /\ \A i \in 1 .. Len(pending) : pending'[i] = pending[i]
          /\ pending'[Len(pending) + 1] = r
          /\ \A m : Contains(pending', m) <=> Contains(pending, m) \/ m = r
      BY <1>3, <1>5, <2>2, <3>1, AppendFacts DEF Inv, QueueInv
    <3>3. \A i \in 1 .. Len(pending') : i \notin 1 .. Len(pending) => i = Len(pending) + 1
      BY <1>5, <3>2
    <3> QED BY <2>2, <3>2, <3>3
  <2> QED BY <1>4, <2>1, <2>2
<1>7. Types'
  BY <1>1, <1>2, <1>4, <1>6 DEF Inv, Types
<1>8. PhaseInv'
  BY <1>1, <1>4 DEF Inv, PhaseInv
<1>9. QueueInv'
  <2>1. \A a \in Messages : Okay(a, r)
    BY <1>3, OkayKinds
  <2> QED BY <1>1, <1>6, <2>1 DEF Inv, QueueInv, Across
<1>10. \A m \in Output : Contains(pending', m) <=> Contains(pending, m)
  BY <1>3, <1>6
<1>11. StartInv'
  BY <1>1, <1>6, <1>10 DEF Inv, StartInv, AnnouncedFirst
<1>12. \A m \in Output : Held(m)' <=> Held(m)
  BY <1>1, <1>10 DEF Held, Stored
<1>13. ContentInv' /\ TotalInv'
  BY <1>1, <1>3, <1>4, <1>7, <1>12, Kept DEF Inv
<1>14. ExposureInv'
  <2>1. ASSUME NEW i \in 1 .. Len(pending'), i > attempted', IsProgress(pending'[i])
        PROVE  OnlyAt(i, pending[i])' /\ minted' # pending'[i]
    <3>1. i \in 1 .. Len(pending) /\ pending'[i] = pending[i]
      BY <1>3, <1>6, <2>1
    <3>2. OnlyAt(i, pending[i]) /\ pending[i] \in Output /\ minted # pending[i]
      BY <1>1, <2>1, <3>1, OutboxFacts DEF Inv, ExposureInv
    <3>3. \A j \in 1 .. Len(pending') : j # i => pending'[j] # pending[i]
      BY <1>3, <1>6, <3>2 DEF OnlyAt
    <3>4. ~ Stored(pending[i])'
      BY <1>1, <3>1, <3>2 DEF OnlyAt, Stored
    <3>5. OnlyAt(i, pending[i])'
      BY <1>1, <3>1, <3>2, <3>3, <3>4 DEF OnlyAt
    <3> QED BY <1>1, <3>1, <3>2, <3>5
  <2> QED BY <1>1, <2>1 DEF ExposureInv
<1>15. ResultInv'
  BY <1>1, <1>6, Constants DEF Inv, ResultInv
<1>16. CountInv'
  BY <1>1, <1>10 DEF Inv, CountInv
<1>17. LossInv'
  BY <1>1, <1>2, <1>4, <1>12, LossKept DEF Inv
<1>18. VerdictRight'
  BY <1>1, <1>2, VerdictKept DEF Inv
<1> QED BY <1>7, <1>8, <1>9, <1>11, <1>13, <1>14, <1>15, <1>16, <1>17, <1>18 DEF Inv

\* The oldest output in the outbox is at one of its positions.
LEMMA OldestFacts ==
    ASSUME NEW s \in Seq(Messages)
    PROVE  LET o == SelectInSeq(s, IsProgress) IN
           \/ o = 0 /\ \A i \in 1 .. Len(s) : ~ IsProgress(s[i])
           \/ o \in 1 .. Len(s) /\ IsProgress(s[o])
<1> DEFINE I == {i \in 1 .. Len(s) : IsProgress(s[i])}
<1>1. SelectInSeq(s, IsProgress) = IF I # {} THEN Min(I) ELSE 0
  BY DEF SelectInSeq
<1>2. ASSUME I # {} PROVE Min(I) \in I
  <2>1. Len(s) \in Nat /\ I \subseteq Nat
    BY QueueFacts
  <2> DEFINE R == OpToRel(<, Nat)
  <2>0. IsWellFoundedOn(R, Nat)
    BY NatLessThanWellFounded
  <2>00. \A y, z \in Nat : y < z => <<y, z>> \in R
    BY DEF OpToRel
  <2> HIDE DEF R, I
  <2>2. PICK x \in I : \A y \in I : ~ (<<y, x>> \in R)
    BY <1>2, <2>0, <2>1, WFMin
  <2>3. ASSUME NEW y \in I PROVE x <= y
    <3>1. x \in Nat /\ y \in Nat
      BY <2>1
    <3>2. ~ (<<y, x>> \in R)
      BY <2>2
    <3>3. ~ (y < x)
      BY <2>00, <3>1, <3>2
    <3> QED BY <3>1, <3>3
  <2>4. \E z \in I : \A y \in I : z <= y
    BY <2>3
  <2> QED BY <2>4 DEF Min
<1> QED BY <1>1, <1>2

LEMMA EnqueueInv == ASSUME Inv, Enqueue PROVE Inv'
<1> USE DEF Enqueue, portal
<1>1. /\ minted # Nothing /\ minted' = Nothing
      /\ UNCHANGED <<status, attempted, progressSeq, terminal, emitted, logged, acked, session,
                     sender, wire, announced, events, verdict>>
      /\ Sending' = Sending
  BY DEF Sending
<1>2. /\ minted \in Output /\ minted \in Messages /\ IsProgress(minted) /\ minted # Started
      /\ minted \notin Results /\ minted.seq = progressSeq /\ status = "running"
      /\ logged = Nothing /\ terminal = Nothing /\ verdict = "none"
      /\ OnlyAt(0, minted) /\ ~ Contains(pending, minted)
  BY <1>1, OutboxFacts, Kinds, MessageSets DEF Inv, PhaseInv, ExposureInv
<1>3. pending \in Seq(Messages) /\ Len(pending) \in Nat /\ dropped \in Nat
  BY OutboxFacts DEF Inv, Types
<1>4. \/ pending' = Append(pending, minted) /\ UNCHANGED <<dropped, lost>>
      \/ /\ dropped' = dropped + 1 /\ lost' = TRUE
         /\ \/ pending' = pending /\ \A i \in 1 .. Len(pending) : ~ IsProgress(pending[i])
            \/ \E o \in 1 .. Len(pending) : /\ IsProgress(pending[o])
                                            /\ pending' = Append(RemoveAt(pending, o), minted)
  <2> DEFINE o == SelectInSeq(pending, IsProgress)
  <2>1. \/ o = 0 /\ \A i \in 1 .. Len(pending) : ~ IsProgress(pending[i])
        \/ o \in 1 .. Len(pending) /\ IsProgress(pending[o])
    BY <1>3, OldestFacts
  <2>2. o # 0 => o \in 1 .. Len(pending) /\ IsProgress(pending[o])
    BY <2>1
  <2>3. \/ pending' = Append(pending, minted) /\ UNCHANGED <<dropped, lost>>
        \/ /\ dropped' = dropped + 1 /\ lost' = TRUE
           /\ pending' = IF o = 0 THEN pending ELSE Append(RemoveAt(pending, o), minted)
    OBVIOUS
  <2> HIDE DEF o, Enqueue
  <2> QED BY <2>1, <2>2, <2>3
<1>5. \A a \in Messages : Contains(pending, a) \/ Contains(Sending, a) \/ Contains(wire, a)
                             => Okay(a, minted)
  <2> SUFFICES ASSUME NEW a \in Messages,
                      Contains(pending, a) \/ Contains(Sending, a) \/ Contains(wire, a)
               PROVE  Okay(a, minted)
    OBVIOUS
  <2>1. a \notin Results
    BY <1>2, Constants DEF Inv, ResultInv
  <2> QED BY <1>2, <2>1, OkayKinds
\* What is left of the outbox, position by position.
<1>6. \/ UNCHANGED pending /\ \A i \in 1 .. Len(pending) : ~ IsProgress(pending[i])
      \/ \E base \in Seq(Messages) :
            /\ pending' = Append(base, minted) /\ Ordered(base) /\ Len(base) \in Nat
            /\ \A m : Contains(base, m) => Contains(pending, m)
            /\ Contains(pending, Started) => Contains(base, Started)
            /\ ~ lost' => \A m : Contains(pending, m) => Contains(base, m)
            /\ \A i \in 1 .. Len(base) : \E k \in 1 .. Len(pending) :
                  /\ base[i] = pending[k] /\ k >= i
                  /\ \A j \in 1 .. Len(base) : j # i =>
                        \E l \in 1 .. Len(pending) : base[j] = pending[l] /\ l # k
  <2>1. CASE pending' = Append(pending, minted)
    <3>1. \A i \in 1 .. Len(pending) : \E k \in 1 .. Len(pending) :
             /\ pending[i] = pending[k] /\ k >= i
             /\ \A j \in 1 .. Len(pending) : j # i =>
                   \E l \in 1 .. Len(pending) : pending[j] = pending[l] /\ l # k
      OBVIOUS
    <3> QED BY <1>3, <2>1, <3>1 DEF Inv, QueueInv
  <2>2. ASSUME NEW o \in 1 .. Len(pending), IsProgress(pending[o]), lost',
               pending' = Append(RemoveAt(pending, o), minted)
        PROVE  \E base \in Seq(Messages) :
            /\ pending' = Append(base, minted) /\ Ordered(base) /\ Len(base) \in Nat
            /\ \A m : Contains(base, m) => Contains(pending, m)
            /\ Contains(pending, Started) => Contains(base, Started)
            /\ ~ lost' => \A m : Contains(pending, m) => Contains(base, m)
            /\ \A i \in 1 .. Len(base) : \E k \in 1 .. Len(pending) :
                  /\ base[i] = pending[k] /\ k >= i
                  /\ \A j \in 1 .. Len(base) : j # i =>
                        \E l \in 1 .. Len(pending) : base[j] = pending[l] /\ l # k
    <3> DEFINE base == RemoveAt(pending, o)
               f(i) == IF i < o THEN i ELSE i + 1
    <3>1. /\ base \in Seq(Messages) /\ Len(base) = Len(pending) - 1 /\ Ordered(base)
          /\ \A j \in 1 .. Len(pending) - 1 :
                base[j] = IF j < o THEN pending[j] ELSE pending[j + 1]
          /\ \A m : Contains(base, m) => Contains(pending, m)
          /\ \A m : Contains(pending, m) /\ m # pending[o] => Contains(base, m)
      BY <1>3, RemoveFacts DEF Inv, QueueInv
    <3>2. pending' = Append(base, minted)
      BY <2>2
    <3>3. Started # pending[o]
      BY <2>2, Kinds, MessageSets
    <3> HIDE DEF base
    <3>4. Len(base) \in Nat
      BY <1>3, <3>1
    <3>5. \A i \in 1 .. Len(base) : f(i) \in 1 .. Len(pending) /\ base[i] = pending[f(i)] /\ f(i) >= i
      BY <1>3, <3>1
    <3>6. \A i, j \in 1 .. Len(base) : j # i => f(j) # f(i)
      BY <3>4
    <3> HIDE DEF f
    <3>7. \A i \in 1 .. Len(base) : \E k \in 1 .. Len(pending) :
             /\ base[i] = pending[k] /\ k >= i
             /\ \A j \in 1 .. Len(base) : j # i =>
                   \E l \in 1 .. Len(pending) : base[j] = pending[l] /\ l # k
      <4> SUFFICES ASSUME NEW i \in 1 .. Len(base)
                   PROVE  \E k \in 1 .. Len(pending) :
                             /\ base[i] = pending[k] /\ k >= i
                             /\ \A j \in 1 .. Len(base) : j # i =>
                                   \E l \in 1 .. Len(pending) : base[j] = pending[l] /\ l # k
        OBVIOUS
      <4>1. f(i) \in 1 .. Len(pending) /\ base[i] = pending[f(i)] /\ f(i) >= i
        BY <3>5
      <4>2. \A j \in 1 .. Len(base) : j # i =>
                                   \E l \in 1 .. Len(pending) : base[j] = pending[l] /\ l # f(i)
        BY <3>5, <3>6
      <4> QED BY <4>1, <4>2
    <3> QED BY <2>2, <3>1, <3>2, <3>3, <3>4, <3>7
  <2> QED BY <1>4, <2>1, <2>2
<1>7. /\ pending' \in Seq(Messages) /\ Ordered(pending')
      /\ \A m : Contains(pending', m) => Contains(pending, m) \/ m = minted
      /\ Contains(pending, Started) => Contains(pending', Started)
      /\ ~ lost' => \A m : Contains(pending, m) \/ m = minted => Contains(pending', m)
  <2>1. CASE UNCHANGED pending
    <3>1. lost' \/ Contains(pending', minted)
      <4>1. CASE pending' = Append(pending, minted)
        BY <1>2, <1>3, <4>1, AppendFacts
      <4> QED BY <1>4, <4>1
    <3> QED BY <1>2, <1>3, <2>1, <3>1 DEF Inv, QueueInv
  <2>2. ASSUME NEW base \in Seq(Messages), pending' = Append(base, minted), Ordered(base),
               \A m : Contains(base, m) => Contains(pending, m),
               Contains(pending, Started) => Contains(base, Started),
               ~ lost' => \A m : Contains(pending, m) => Contains(base, m)
        PROVE  /\ pending' \in Seq(Messages) /\ Ordered(pending')
               /\ \A m : Contains(pending', m) => Contains(pending, m) \/ m = minted
               /\ Contains(pending, Started) => Contains(pending', Started)
               /\ ~ lost' => \A m : Contains(pending, m) \/ m = minted => Contains(pending', m)
    <3>1. \A a \in Messages : Contains(base, a) => Okay(a, minted)
      BY <1>5, <2>2
    <3>2. /\ pending' \in Seq(Messages) /\ Ordered(pending')
          /\ \A m : Contains(pending', m) <=> Contains(base, m) \/ m = minted
      BY <1>2, <2>2, <3>1, AppendFacts
    <3> QED BY <2>2, <3>2
  <2> QED BY <1>6, <2>1, <2>2
<1>8. Types'
  <2>1. Types
    BY DEF Inv
  <2>2. dropped' \in Nat
    BY <1>3, <1>4
  <2>3. lost' \in BOOLEAN
    BY <1>4, <2>1 DEF Types
  <2> HIDE DEF Enqueue
  <2> QED BY <1>1, <1>7, <2>1, <2>2, <2>3 DEF Types
<1>9. PhaseInv'
  BY <1>1, <1>2 DEF Inv, PhaseInv
<1>10. QueueInv'
  BY <1>1, <1>2, <1>5, <1>7 DEF Inv, QueueInv, Across
<1>11. StartInv'
  BY <1>1, <1>2, <1>7 DEF Inv, StartInv, AnnouncedFirst
<1>12. \A m \in Output : (Held(m)' => Held(m)) /\ (~ lost' /\ Held(m) => Held(m)')
  <2> SUFFICES ASSUME NEW m \in Output
               PROVE  (Held(m)' => Held(m)) /\ (~ lost' /\ Held(m) => Held(m)')
    OBVIOUS
  <2>1. minted' # m
    BY <1>1, Constants
  <2>2. Stored(m)' <=> Stored(m)
    BY <1>1 DEF Stored
  <2> HIDE DEF Enqueue
  <2>3. Held(m)' => Held(m)
    BY <1>1, <1>7, <2>1, <2>2 DEF Held
  <2>4. ~ lost' /\ Held(m) => Held(m)'
    BY <1>1, <1>7, <2>2 DEF Held
  <2> QED BY <2>3, <2>4
<1>13. ContentInv' /\ TotalInv'
  BY <1>1, <1>8, <1>12, Kept DEF Inv
<1>14. ExposureInv'
  <2>1. CASE UNCHANGED pending /\ \A i \in 1 .. Len(pending) : ~ IsProgress(pending[i])
    BY <1>1, <2>1 DEF ExposureInv
  <2>2. ASSUME NEW base \in Seq(Messages), pending' = Append(base, minted), Len(base) \in Nat,
               \A m : Contains(base, m) => Contains(pending, m),
               \A i \in 1 .. Len(base) : \E k \in 1 .. Len(pending) :
                  /\ base[i] = pending[k] /\ k >= i
                  /\ \A j \in 1 .. Len(base) : j # i =>
                        \E l \in 1 .. Len(pending) : base[j] = pending[l] /\ l # k,
               NEW i \in 1 .. Len(pending'), i > attempted', IsProgress(pending'[i])
        PROVE  /\ OnlyAt(i, pending[i])' /\ minted' # pending'[i]
               /\ i = Len(pending') /\ status' = "running" /\ minted' = Nothing
                    => pending'[i].seq = progressSeq'
    <3>1. /\ Len(pending') = Len(base) + 1 /\ pending'[Len(base) + 1] = minted
          /\ \A j \in 1 .. Len(base) : pending'[j] = base[j]
      BY <1>2, <2>2, AppendFacts
    <3>2. CASE i = Len(base) + 1
      <4>1. pending'[i] = minted
        BY <3>1, <3>2
      <4>2. ASSUME NEW j \in 1 .. Len(pending'), j # i PROVE pending'[j] # minted
        <5>1. j \in 1 .. Len(base)
          BY <2>2, <3>1, <3>2, <4>2
        <5>2. Contains(base, pending'[j])
          BY <3>1, <5>1 DEF Contains
        <5> QED BY <1>2, <2>2, <5>2
      <4>3. ~ Stored(minted) /\ ~ Contains(Sending, minted) /\ ~ Contains(wire, minted)
        BY <1>2 DEF OnlyAt
      <4>4. ~ Stored(pending[i])'
        BY <1>1, <4>1, <4>3 DEF Stored
      <4>5. OnlyAt(i, pending[i])'
        BY <1>1, <4>1, <4>2, <4>3, <4>4 DEF OnlyAt
      <4> QED BY <1>1, <1>2, <4>1, <4>5
    <3>3. CASE i # Len(base) + 1
      <4>1. i \in 1 .. Len(base) /\ pending'[i] = base[i]
        BY <2>2, <3>1, <3>3
      <4>2. PICK k \in 1 .. Len(pending) :
                  /\ base[i] = pending[k] /\ k >= i
                  /\ \A j \in 1 .. Len(base) : j # i =>
                        \E l \in 1 .. Len(pending) : base[j] = pending[l] /\ l # k
        BY <2>2, <4>1
      <4>3. k > attempted
        BY <1>1, <2>2, <4>2 DEF Inv, Types
      <4>4. OnlyAt(k, pending[k]) /\ pending[k] \in Output /\ minted # pending[k]
        BY <2>2, <4>1, <4>2, <4>3, OutboxFacts DEF Inv, ExposureInv
      <4>5. ASSUME NEW j \in 1 .. Len(pending'), j # i PROVE pending'[j] # pending[k]
        <5>1. CASE j = Len(base) + 1
          BY <3>1, <4>4, <5>1
        <5>2. CASE j \in 1 .. Len(base)
          BY <3>1, <4>2, <4>4, <4>5, <5>2 DEF OnlyAt
        <5> QED BY <2>2, <3>1, <5>1, <5>2
      <4>6. ~ Stored(pending[i])'
        BY <1>1, <4>1, <4>2, <4>4 DEF OnlyAt, Stored
      <4>7. OnlyAt(i, pending[i])'
        BY <1>1, <4>1, <4>2, <4>4, <4>5, <4>6 DEF OnlyAt
      <4>8. i # Len(pending')
        BY <3>1, <3>3
      <4>9. minted' # pending'[i]
        BY <1>1, <4>1, <4>2, <4>4, Constants
      <4> QED BY <4>7, <4>8, <4>9
    <3> QED BY <3>2, <3>3
  <2>3. CASE \E base \in Seq(Messages) :
            /\ pending' = Append(base, minted) /\ Ordered(base) /\ Len(base) \in Nat
            /\ \A m : Contains(base, m) => Contains(pending, m)
            /\ Contains(pending, Started) => Contains(base, Started)
            /\ ~ lost' => \A m : Contains(pending, m) => Contains(base, m)
            /\ \A i \in 1 .. Len(base) : \E k \in 1 .. Len(pending) :
                  /\ base[i] = pending[k] /\ k >= i
                  /\ \A j \in 1 .. Len(base) : j # i =>
                        \E l \in 1 .. Len(pending) : base[j] = pending[l] /\ l # k
    BY <1>1, <2>2, <2>3 DEF ExposureInv
  <2> QED BY <1>6, <2>1, <2>3
<1>15. ResultInv'
  BY <1>1, <1>2, <1>7 DEF Inv, ResultInv
<1>16. CountInv'
  <2>1. dropped + 1 <= progressSeq /\ progressSeq \in Nat
    BY <1>1 DEF Inv, CountInv, Types
  <2>2. dropped' = dropped \/ dropped' = dropped + 1
    BY <1>4
  <2>3. dropped' \in Nat /\ dropped' <= progressSeq
    BY <1>3, <2>1, <2>2
  <2>5. dropped' + (IF minted' = Nothing THEN 0 ELSE 1) <= progressSeq'
    <3>1. PICK d, p, x : d = dropped' /\ p = progressSeq'
                         /\ x = IF minted' = Nothing THEN 0 ELSE 1
      OBVIOUS
    <3>2. d \in Nat /\ p \in Nat /\ d <= p /\ x = 0
      BY <1>1, <2>1, <2>3, <3>1
    <3>3. d + x <= p
      BY <3>2
    <3> QED BY <3>1, <3>3, Zenon
  <2>4. \A m \in Output : Contains(pending', m) \/ Contains(Sending', m) => m.seq <= progressSeq'
    BY <1>1, <1>2, <1>7, <2>1 DEF Inv, CountInv
  <2> QED BY <2>4, <2>5 DEF CountInv
<1>17. LossInv'
  <2>1. (lost => lost') /\ (~ lost' => dropped' = dropped)
    BY <1>4
  <2> QED BY <1>1, <1>12, <2>1, LossKept DEF Inv
<1>18. VerdictRight'
  <2>1. lost => lost'
    BY <1>4
  <2> QED BY <1>1, <2>1, VerdictKept DEF Inv
<1> QED BY <1>8, <1>9, <1>10, <1>11, <1>13, <1>14, <1>15, <1>16, <1>17, <1>18 DEF Inv

-----------------------------------------------------------------------------
(* New output. *)

\* What was said of the text of a message stays true when more is emitted.
LEMMA Grown ==
    ASSUME Types, NEW st \in Streams, Len(emitted) < MaxPieces,
           emitted' = Append(emitted, <<st, Len(emitted) + 1>>)
    PROVE  /\ Len(emitted) \in Nat /\ Len(emitted') = Len(emitted) + 1
           /\ emitted' \in Seq(Pieces) /\ Len(emitted') <= MaxPieces
           /\ <<st, Len(emitted) + 1>> \in Pieces
           /\ \A k \in 1 .. Len(emitted) : emitted'[k] = emitted[k]
           /\ emitted'[Len(emitted) + 1] = <<st, Len(emitted) + 1>>
           /\ \A k \in 1 .. Len(emitted') : emitted'[k][2] = k
           /\ \A m \in Output : TextOK(m) => TextOK(m)'
<1> DEFINE e == Len(emitted)
           piece == <<st, Len(emitted) + 1>>
<1>1. emitted \in Seq(Pieces) /\ e \in Nat /\ MaxPieces \in Nat
  BY Constants DEF Types
<1>2. piece \in Pieces
  BY <1>1 DEF Pieces
<1>3. /\ emitted' \in Seq(Pieces) /\ Len(emitted') = e + 1
      /\ \A k \in 1 .. e : emitted'[k] = emitted[k]
      /\ emitted'[e + 1] = piece
  BY <1>1, <1>2
<1>4. Len(emitted') <= MaxPieces
  BY <1>1, <1>3
<1>5. \A k \in 1 .. Len(emitted') : emitted'[k][2] = k
  <2> SUFFICES ASSUME NEW k \in 1 .. Len(emitted') PROVE emitted'[k][2] = k
    OBVIOUS
  <2>1. CASE k = e + 1
    BY <1>3, <2>1
  <2>2. CASE k \in 1 .. e
    BY <1>3, <2>2 DEF Types
  <2> QED BY <1>1, <1>3, <2>1, <2>2
<1>6. ASSUME NEW m \in Output, TextOK(m) PROVE TextOK(m)'
  <2>1. m.seq \in Nat /\ m.seq <= e
    BY <1>6 DEF TextOK, Output
  <2>2. \A i \in 1 .. Len(m.text) :
          /\ m.text[i][1] = m.stream
          /\ m.text[i][2] \in 1 .. e
          /\ emitted[m.text[i][2]] = m.text[i]
    BY <1>6 DEF TextOK
  <2>3. m.seq <= Len(emitted')
    BY <1>1, <1>3, <2>1
  <2>4. \A i \in 1 .. Len(m.text) :
          /\ m.text[i][2] \in 1 .. Len(emitted')
          /\ emitted'[m.text[i][2]] = m.text[i]
    BY <1>1, <1>3, <2>2
  <2> QED BY <1>6, <2>2, <2>3, <2>4 DEF TextOK
<1> QED BY <1>1, <1>2, <1>3, <1>4, <1>5, <1>6

\* A message of its own.
LEMMA MintInv ==
    ASSUME Inv, NEW st \in Streams, EnqueueProgressChunk(st), ~ Merges(st)
    PROVE  Inv'
<1> DEFINE e == Len(emitted)
           piece == <<st, e + 1>>
<1>0. PICK m1 : m1 = Progress(progressSeq + 1, st, <<piece>>)
  OBVIOUS
<1>1. /\ status = "running" /\ minted = Nothing /\ Len(emitted) < MaxPieces
      /\ emitted' = Append(emitted, piece)
      /\ progressSeq' = progressSeq + 1 /\ minted' = m1
      /\ UNCHANGED <<pending, status, attempted, dropped, terminal, logged, acked, session, sender,
                     wire, announced, events, verdict, lost>>
      /\ Sending' = Sending
  BY <1>0 DEF EnqueueProgressChunk, portal, Sending
<1>2. /\ e \in Nat /\ Len(emitted') = e + 1 /\ emitted' \in Seq(Pieces)
      /\ Len(emitted') <= MaxPieces /\ piece \in Pieces
      /\ \A k \in 1 .. e : emitted'[k] = emitted[k]
      /\ emitted'[e + 1] = piece
      /\ \A k \in 1 .. Len(emitted') : emitted'[k][2] = k
      /\ \A m \in Output : TextOK(m) => TextOK(m)'
  BY <1>1, Grown DEF Inv
<1>3. /\ logged = Nothing /\ terminal = Nothing /\ verdict = "none" /\ Total(progressSeq)
      /\ progressSeq \in Nat /\ progressSeq <= e /\ dropped \in Nat
  BY <1>1, <1>2 DEF Inv, PhaseInv, TotalInv, Types
<1>4. /\ m1 \in Output /\ m1.seq = progressSeq + 1 /\ m1.stream = st
      /\ Len(m1.text) = 1 /\ m1.text[1] = piece /\ Contains(m1.text, piece)
  <2>1. <<piece>> \in Seq(Pieces) /\ Len(<<piece>>) = 1 /\ <<piece>>[1] = piece
    BY <1>2
  <2>2. Contains(<<piece>>, piece)
    BY <2>1 DEF Contains
  <2> HIDE DEF piece
  <2> QED BY <1>0, <1>3, <2>1, <2>2 DEF Progress, Output
<1>5. \A m \in Output : Held(m) => m.seq \in Nat /\ m.seq <= progressSeq /\ m # m1
  BY <1>3, <1>4 DEF Total, Output
<1>6. \A m \in Output : Held(m)' <=> Held(m) \/ m = m1
  <2> SUFFICES ASSUME NEW m \in Output PROVE Held(m)' <=> Held(m) \/ m = m1
    OBVIOUS
  <2>1. minted # m
    BY <1>1, Constants
  <2>2. Stored(m)' <=> Stored(m)
    BY <1>1 DEF Stored
  <2> QED BY <1>1, <2>1, <2>2 DEF Held
<1>7. Types'
  <2>1. Types
    BY DEF Inv
  <2>2. progressSeq' \in 0 .. Len(emitted')
    BY <1>1, <1>2, <1>3
  <2>3. DOMAIN events' \subseteq 1 .. Len(emitted')
    <3>1. DOMAIN events \subseteq 1 .. e
      BY <2>1 DEF Types
    <3> HIDE DEF e
    <3> QED BY <1>1, <1>2, <3>1
  <2>4. \A s \in DOMAIN events' : events'[s] \in Streams \X Seq(Pieces)
    BY <1>1, <2>1 DEF Types
  <2> QED BY <1>1, <1>2, <1>4, <2>1, <2>2, <2>3, <2>4 DEF Types
<1>8. PhaseInv'
  BY <1>1, <1>3, <1>4 DEF Inv, PhaseInv
<1>9. QueueInv'
  BY <1>1 DEF Inv, QueueInv, Across
<1>10. StartInv'
  BY <1>1 DEF Inv, StartInv, AnnouncedFirst
<1>11. ASSUME NEW m \in Output, Held(m)
       PROVE  /\ TextOK(m) /\ \A i \in 1 .. Len(m.text) : m.text[i][2] \in 1 .. e
  BY <1>11 DEF Inv, ContentInv, TextOK
<1>12. ContentInv'
  <2>1. TextOK(m1)'
    <3>1. m1.seq <= Len(emitted')
      BY <1>2, <1>3, <1>4
    <3>2. Len(m1.text) \in 1 .. MaxChunk
      BY <1>4, Constants
    <3>3. \A i \in 1 .. Len(m1.text) : i = 1
      BY <1>4
    <3>4. piece[1] = st /\ piece[2] = e + 1 /\ e + 1 \in 1 .. Len(emitted')
      BY <1>2
    <3> HIDE DEF piece, e
    <3>5. ASSUME NEW i \in 1 .. Len(m1.text)
          PROVE  /\ m1.text[i][1] = m1.stream
                 /\ m1.text[i][2] \in 1 .. Len(emitted')
                 /\ emitted'[m1.text[i][2]] = m1.text[i]
      BY <1>2, <1>4, <3>3, <3>4
    <3>6. \A i, j \in 1 .. Len(m1.text) : i < j => m1.text[i][2] < m1.text[j][2]
      BY <3>3
    <3> QED BY <3>1, <3>2, <3>5, <3>6 DEF TextOK
  <2>2. ASSUME NEW m \in Output, Held(m) PROVE Agree(m, m1) /\ Agree(m1, m)
    <3>1. m.seq < m1.seq
      BY <1>3, <1>4, <1>5, <2>2
    <3>2. \A i \in 1 .. Len(m.text), j \in 1 .. Len(m1.text) : m.text[i][2] < m1.text[j][2]
      BY <1>2, <1>4, <1>11, <2>2
    <3>3. m.seq \in Nat /\ m1.seq \in Nat
      BY <1>3, <1>4, <1>5, <2>2
    <3> QED BY <3>1, <3>2, <3>3 DEF Agree
  <2>3. Agree(m1, m1)
    BY <1>3, <1>4 DEF Agree
  <2>4. ASSUME NEW m \in Output, Held(m)' PROVE TextOK(m)'
    BY <1>2, <1>6, <1>11, <2>1, <2>4
  <2>5. ASSUME NEW m \in Output, NEW n \in Output, Held(m)', Held(n)' PROVE Agree(m, n)
    BY <1>6, <2>2, <2>3, <2>5 DEF Inv, ContentInv
  <2> QED BY <2>4, <2>5 DEF ContentInv, Agree
<1>13. TotalInv'
  <2>1. \A m \in Output : Held(m)' => m.seq <= progressSeq'
    BY <1>1, <1>3, <1>4, <1>5, <1>6
  <2>2. ASSUME NEW k \in 1 .. Len(emitted')
        PROVE  \E s \in 1 .. progressSeq' :
                  \A m \in Output : Held(m)' /\ m.seq = s => Contains(m.text, emitted'[k])
    <3>1. CASE k = e + 1
      <4>1. \A m \in Output : Held(m)' /\ m.seq = progressSeq + 1 => Contains(m.text, emitted'[k])
        <5>1. \A m \in Output : Held(m)' /\ m.seq = progressSeq + 1 => m = m1
          BY <1>3, <1>5, <1>6
        <5>2. emitted'[k] = piece
          BY <1>2, <3>1
        <5> HIDE DEF piece
        <5> QED BY <1>4, <5>1, <5>2
      <4>2. progressSeq + 1 \in 1 .. progressSeq'
        BY <1>1, <1>3
      <4> QED BY <4>1, <4>2
    <3>2. CASE k \in 1 .. e
      <4>1. PICK s \in 1 .. progressSeq :
                    \A m \in Output : Held(m) /\ m.seq = s => Contains(m.text, emitted[k])
        BY <1>3, <3>2 DEF Total
      <4>2. s \in 1 .. progressSeq' /\ s # m1.seq
        BY <1>1, <1>3, <1>4
      <4>3. emitted'[k] = emitted[k]
        BY <1>2, <3>2
      <4> QED BY <1>6, <4>1, <4>2, <4>3
    <3> QED BY <1>2, <3>1, <3>2
  <2>3. Total(progressSeq)'
    BY <2>1, <2>2 DEF Total
  <2> QED BY <1>1, <1>3, <2>3 DEF TotalInv
<1>14. OnlyAt(0, minted)'
  <2>1. ~ Held(m1)
    BY <1>4, <1>5
  <2>2. ASSUME NEW j \in 1 .. Len(pending) PROVE pending[j] # m1
    BY <2>1 DEF Held, Contains
  <2>3. ~ Stored(minted)'
    BY <1>1, <2>1 DEF Held, Stored
  <2> QED BY <1>1, <2>1, <2>2, <2>3 DEF OnlyAt, Held
<1>15. ExposureInv'
  <2> SUFFICES ASSUME NEW i \in 1 .. Len(pending), i > attempted, IsProgress(pending[i])
               PROVE  OnlyAt(i, pending[i])' /\ minted' # pending[i]
    BY <1>1, <1>4, <1>14, Constants DEF ExposureInv
  <2>1. OnlyAt(i, pending[i])
    BY DEF Inv, ExposureInv
  <2>2. pending[i] \in Output /\ Held(pending[i])
    BY OutboxFacts DEF Held, Contains
  <2>3. Stored(pending[i])' <=> Stored(pending[i])
    BY <1>1 DEF Stored
  <2> QED BY <1>1, <1>5, <2>1, <2>2, <2>3 DEF OnlyAt
<1>16. ResultInv'
  BY <1>1 DEF Inv, ResultInv
<1>17. CountInv'
  <2>1. dropped <= progressSeq
    <3>1. dropped + (IF minted = Nothing THEN 0 ELSE 1) <= progressSeq
      BY DEF Inv, CountInv
    <3>2. dropped + 0 <= progressSeq
      BY <1>1, <3>1
    <3> QED BY <1>3, <3>2
  <2>2. (IF minted' = Nothing THEN 0 ELSE 1) = 1
    BY <1>1, <1>4, Constants
  <2>3. dropped' + (IF minted' = Nothing THEN 0 ELSE 1) <= progressSeq'
    BY <1>1, <1>3, <2>1, <2>2
  <2>4. \A m \in Output : Contains(pending, m) \/ Contains(Sending, m) => m.seq <= progressSeq + 1
    BY <1>3, <1>5 DEF Held
  <2> QED BY <1>1, <2>3, <2>4 DEF CountInv
<1>18. LossInv'
  <2> SUFFICES ASSUME ~ lost'
               PROVE  /\ dropped' = 0 /\ terminal' = Nothing /\ logged' = Nothing
                      /\ \A m \in Output : Held(m)' => m.seq <= progressSeq'
                      /\ \A s \in 1 .. progressSeq' : \E m \in Output : Held(m)' /\ m.seq = s
    BY DEF LossInv
  <2>1. /\ dropped = 0
        /\ \A s \in 1 .. progressSeq : \E m \in Output : Held(m) /\ m.seq = s
    BY <1>1, <1>3 DEF Inv, LossInv
  <2>2. \A m \in Output : Held(m)' => m.seq <= progressSeq'
    BY <1>1, <1>3, <1>4, <1>5, <1>6
  <2>3. ASSUME NEW s \in 1 .. progressSeq' PROVE \E m \in Output : Held(m)' /\ m.seq = s
    <3>1. CASE s = progressSeq + 1
      BY <1>4, <1>6, <3>1
    <3>2. CASE s \in 1 .. progressSeq
      BY <1>6, <2>1, <3>2
    <3> QED BY <1>1, <1>3, <3>1, <3>2
  <2> QED BY <1>1, <1>3, <2>1, <2>2, <2>3
<1>19. VerdictRight'
  BY <1>1, <1>3, VerdictKept DEF Inv
<1> QED BY <1>7, <1>8, <1>9, <1>10, <1>12, <1>13, <1>15, <1>16, <1>17, <1>18, <1>19 DEF Inv

\* A piece that joins the newest message.
LEMMA MergeInv ==
    ASSUME Inv, NEW st \in Streams, EnqueueProgressChunk(st), Merges(st)
    PROVE  Inv'
<1> DEFINE e == Len(emitted)
           piece == <<st, e + 1>>
           last == Len(pending)
           m0 == pending[last]
<1>1. /\ status = "running" /\ minted = Nothing /\ Len(emitted) < MaxPieces
      /\ emitted' = Append(emitted, piece)
      /\ pending' = [pending EXCEPT ![last] = [m0 EXCEPT !.text = Append(@, piece)]]
      /\ UNCHANGED <<progressSeq, minted, status, attempted, dropped, terminal, logged, acked, session,
                     sender, wire, announced, events, verdict, lost>>
      /\ Sending' = Sending
  BY DEF EnqueueProgressChunk, portal, Sending
<1>2. /\ e \in Nat /\ Len(emitted') = e + 1 /\ emitted' \in Seq(Pieces)
      /\ Len(emitted') <= MaxPieces /\ piece \in Pieces
      /\ \A k \in 1 .. e : emitted'[k] = emitted[k]
      /\ emitted'[e + 1] = piece
      /\ \A k \in 1 .. Len(emitted') : emitted'[k][2] = k
      /\ \A m \in Output : TextOK(m) => TextOK(m)'
  BY <1>1, Grown DEF Inv
<1>3. /\ logged = Nothing /\ terminal = Nothing /\ verdict = "none" /\ Total(progressSeq)
      /\ progressSeq \in Nat /\ progressSeq <= e /\ attempted \in Nat
  BY <1>1, <1>2 DEF Inv, PhaseInv, TotalInv, Types
<1>4. /\ pending \in Seq(Messages) /\ last \in Nat /\ last > attempted /\ last \in 1 .. Len(pending)
      /\ m0 \in Output /\ IsProgress(m0) /\ m0.stream = st /\ Len(m0.text) < MaxChunk
  BY <1>3, OutboxFacts DEF Merges
<1>5. PICK n0, n1 : n0 = m0 /\ n1 = [n0 EXCEPT !.text = Append(@, piece)]
  OBVIOUS
<1>6. /\ pending[last] = n0 /\ n0 \in Output /\ n0.text \in Seq(Pieces) /\ Len(n0.text) \in Nat
      /\ n0.stream = st /\ Len(n0.text) < MaxChunk
      /\ pending' = [pending EXCEPT ![last] = n1]
  BY <1>1, <1>4, <1>5 DEF Output
<1>7. /\ n1 \in Output /\ n1.seq = n0.seq /\ n1.stream = st /\ n1.text = Append(n0.text, piece)
  <2>1. Append(n0.text, piece) \in Seq(Pieces)
    BY <1>2, <1>6
  <2>2. PICK x : x = Append(n0.text, piece)
    OBVIOUS
  <2>3. n1 = [n0 EXCEPT !.text = x] /\ x \in Seq(Pieces)
    BY <1>5, <2>1, <2>2
  <2>4. n1 \in Output /\ n1.seq = n0.seq /\ n1.stream = n0.stream /\ n1.text = x
    BY <1>6, <2>3 DEF Output
  <2> QED BY <1>6, <2>2, <2>4
<1>8. /\ n1.text \in Seq(Pieces) /\ Len(n1.text) = Len(n0.text) + 1
      /\ \A i \in 1 .. Len(n0.text) : n1.text[i] = n0.text[i]
      /\ n1.text[Len(n0.text) + 1] = piece
  BY <1>2, <1>6, <1>7
<1>9. /\ OnlyAt(last, n0) /\ n0.seq = progressSeq /\ Held(n0)
  BY <1>1, <1>4, <1>6 DEF Inv, ExposureInv, Held, Contains
<1>10. n1 # n0 /\ ~ Held(n1)
  <2>1. n1 # n0
    BY <1>6, <1>8
  <2> QED BY <1>6, <1>7, <1>9, <2>1 DEF Inv, ContentInv, Agree
<1>11. /\ pending' \in Seq(Messages) /\ Len(pending') = last /\ pending'[last] = n1
       /\ \A i \in 1 .. last : i # last => pending'[i] = pending[i]
  BY <1>4, <1>6, <1>7, MessageSets
<1>12. \A m : Contains(pending', m) <=> m = n1 \/ (Contains(pending, m) /\ m # n0)
  <2> HIDE DEF last
  <2>1. DOMAIN pending = 1 .. last /\ DOMAIN pending' = 1 .. last
    BY <1>4, <1>11, QueueFacts DEF last
  <2>2. ASSUME NEW m, Contains(pending', m) PROVE m = n1 \/ (Contains(pending, m) /\ m # n0)
    <3>1. PICK j \in 1 .. last : pending'[j] = m
      BY <1>11, <2>2 DEF Contains
    <3>2. CASE j = last
      BY <1>11, <3>1, <3>2
    <3>3. CASE j # last
      BY <1>9, <1>11, <3>1, <3>3 DEF OnlyAt, Contains, last
    <3> QED BY <3>2, <3>3
  <2>3. ASSUME NEW m, Contains(pending, m), m # n0 PROVE Contains(pending', m)
    <3>1. PICK j \in 1 .. last : pending[j] = m
      BY <2>3 DEF Contains, last
    <3> QED BY <1>6, <1>11, <2>3, <3>1 DEF Contains
  <2>4. Contains(pending', n1)
    BY <1>4, <1>11 DEF Contains, last
  <2> QED BY <2>2, <2>3, <2>4
<1>13. \A m \in Output : Held(m)' <=> m = n1 \/ (Held(m) /\ m # n0)
  <2> SUFFICES ASSUME NEW m \in Output PROVE Held(m)' <=> m = n1 \/ (Held(m) /\ m # n0)
    OBVIOUS
  <2>1. minted # m /\ minted' # m
    BY <1>1, Constants
  <2>2. Stored(m)' <=> Stored(m)
    BY <1>1 DEF Stored
  <2>3. ~ Stored(n0) /\ ~ Contains(Sending, n0) /\ ~ Contains(wire, n0)
    BY <1>9 DEF OnlyAt
  <2>4. Held(m) <=> Contains(pending, m) \/ Contains(Sending, m) \/ Contains(wire, m) \/ Stored(m)
    BY <2>1 DEF Held
  <2>5. Held(m)' <=> Contains(pending', m) \/ Contains(Sending, m) \/ Contains(wire, m) \/ Stored(m)
    BY <1>1, <2>1, <2>2 DEF Held
  <2> QED BY <1>12, <2>3, <2>4, <2>5
\* The other messages come before this one.
<1>14. \A m \in Output : Held(m) /\ m # n0 => m.seq \in Nat /\ m.seq < progressSeq
  <2> SUFFICES ASSUME NEW m \in Output, Held(m), m # n0 PROVE m.seq \in Nat /\ m.seq < progressSeq
    OBVIOUS
  <2>1. m.seq \in Nat /\ m.seq <= progressSeq
    BY <1>3 DEF Total, Output
  <2>2. m.seq # n0.seq
    BY <1>6, <1>9 DEF Inv, ContentInv, Agree
  <2> QED BY <1>3, <1>9, <2>1, <2>2
<1> HIDE DEF m0, last
<1>15. Types'
  <2>1. Types
    BY DEF Inv
  <2>2. progressSeq' \in 0 .. Len(emitted')
    BY <1>1, <1>2, <1>3
  <2>3. DOMAIN events' \subseteq 1 .. Len(emitted')
    <3>1. DOMAIN events \subseteq 1 .. e
      BY <2>1 DEF Types
    <3> HIDE DEF e
    <3> QED BY <1>1, <1>2, <3>1
  <2>4. \A s \in DOMAIN events' : events'[s] \in Streams \X Seq(Pieces)
    BY <1>1, <2>1 DEF Types
  <2> QED BY <1>1, <1>2, <1>11, <2>1, <2>2, <2>3, <2>4 DEF Types
<1>16. PhaseInv'
  BY <1>1, <1>3 DEF Inv, PhaseInv
<1>17. \A a \in Messages : (Okay(a, n0) <=> Okay(a, n1)) /\ (Okay(n0, a) <=> Okay(n1, a))
  BY <1>6, <1>7, OkayKinds, Kinds, MessageSets
<1>18. QueueInv'
  <2>1. Ordered(pending) /\ Across(wire, pending) /\ Across(Sending, pending)
    BY DEF Inv, QueueInv
  <2>2. \A i \in 1 .. last : pending[i] \in Messages
    BY OutboxFacts DEF last
  <2>3. \A i, j \in 1 .. last : i < j => Okay(pending[i], pending[j])
    BY <2>1 DEF Ordered, last
  <2>4. ASSUME NEW i \in 1 .. last, NEW j \in 1 .. last, i < j PROVE Okay(pending'[i], pending'[j])
    <3>1. i # last /\ pending'[i] = pending[i]
      BY <1>4, <1>11, <2>4
    <3> QED BY <1>6, <1>11, <1>17, <2>2, <2>3, <2>4, <3>1
  <2>5. Ordered(pending')
    BY <1>11, <2>4 DEF Ordered
  <2>6. Contains(pending, n0)
    BY <1>4, <1>6 DEF Contains, last
  <2>7. n0 \in Messages /\ n1 \in Messages
    BY <1>6, <1>7, MessageSets
  <2>8. \A a, b \in Messages : Contains(wire, a) /\ Contains(pending', b) => Okay(a, b)
    BY <1>12, <1>17, <2>1, <2>6, <2>7 DEF Across
  <2>9. \A a, b \in Messages : Contains(Sending, a) /\ Contains(pending', b) => Okay(a, b)
    BY <1>12, <1>17, <2>1, <2>6, <2>7 DEF Across
  <2> QED BY <1>1, <2>5, <2>8, <2>9 DEF Inv, QueueInv, Across
<1>19. StartInv'
  <2>1. Contains(pending, Started) <=> Contains(pending', Started)
    BY <1>6, <1>7, <1>12, Kinds, MessageSets
  <2> QED BY <1>1, <2>1 DEF Inv, StartInv, AnnouncedFirst
<1>20. ASSUME NEW m \in Output, Held(m)
       PROVE  /\ TextOK(m) /\ \A i \in 1 .. Len(m.text) : m.text[i][2] \in 1 .. e
  BY <1>20 DEF Inv, ContentInv, TextOK
<1>21. ContentInv'
  <2>1. TextOK(n1)'
    <3>1. /\ TextOK(n0) /\ TextOK(n0)' /\ \A i \in 1 .. Len(n0.text) : n0.text[i][2] \in 1 .. e
      BY <1>2, <1>6, <1>9, <1>20
    <3>2. n1.seq <= Len(emitted')
      BY <1>2, <1>3, <1>7, <1>9
    <3>3. Len(n1.text) \in 1 .. MaxChunk
      BY <1>6, <1>8, Constants
    <3>4. piece[1] = st /\ piece[2] = e + 1 /\ e + 1 \in 1 .. Len(emitted')
      BY <1>2
    <3>5. \A i \in 1 .. Len(n1.text) : i \in 1 .. Len(n0.text) \/ i = Len(n0.text) + 1
      BY <1>6, <1>8
    <3>6. \A i \in 1 .. Len(n0.text) : /\ n0.text[i][1] = n0.stream
                                       /\ n0.text[i][2] \in 1 .. Len(emitted')
                                       /\ emitted'[n0.text[i][2]] = n0.text[i]
      BY <3>1 DEF TextOK
    <3>7. \A i, j \in 1 .. Len(n0.text) : i < j => n0.text[i][2] < n0.text[j][2]
      BY <3>1 DEF TextOK
    <3> HIDE DEF piece, e
    <3>8. ASSUME NEW i \in 1 .. Len(n1.text)
          PROVE  /\ n1.text[i][1] = n1.stream
                 /\ n1.text[i][2] \in 1 .. Len(emitted')
                 /\ emitted'[n1.text[i][2]] = n1.text[i]
      <4>1. CASE i \in 1 .. Len(n0.text)
        BY <1>6, <1>7, <1>8, <3>6, <4>1
      <4>2. CASE i = Len(n0.text) + 1
        BY <1>2, <1>7, <1>8, <3>4, <4>2
      <4> QED BY <3>5, <4>1, <4>2
    <3>9. ASSUME NEW i \in 1 .. Len(n1.text), NEW j \in 1 .. Len(n1.text), i < j
          PROVE  n1.text[i][2] < n1.text[j][2]
      <4>1. i \in 1 .. Len(n0.text)
        BY <1>6, <1>8, <3>9
      <4>2. CASE j \in 1 .. Len(n0.text)
        BY <1>8, <3>7, <3>9, <4>1, <4>2
      <4>3. CASE j = Len(n0.text) + 1
        <5>1. n1.text[i] = n0.text[i] /\ n1.text[j] = piece
          BY <1>8, <4>1, <4>3
        <5>2. n0.text[i][2] \in 1 .. e /\ e \in Nat
          BY <1>2, <3>1, <4>1
        <5>3. n0.text[i][2] < e + 1
          BY <5>2
        <5> QED BY <3>4, <5>1, <5>3
      <4> QED BY <3>5, <4>2, <4>3
    <3> QED BY <3>2, <3>3, <3>8, <3>9 DEF TextOK
  <2>2. ASSUME NEW m \in Output, Held(m), m # n0 PROVE Agree(m, n1) /\ Agree(n1, m)
    <3>1. m.seq \in Nat /\ n1.seq \in Nat /\ m.seq < n1.seq /\ m.seq < n0.seq
      BY <1>3, <1>7, <1>9, <1>14, <2>2
    <3>2. \A i \in 1 .. Len(m.text), j \in 1 .. Len(n0.text) : m.text[i][2] < n0.text[j][2]
      BY <1>6, <1>9, <2>2, <3>1 DEF Inv, ContentInv, Agree
    <3>3. \A i \in 1 .. Len(m.text) : m.text[i][2] \in 1 .. e
      BY <1>20, <2>2
    <3>4. ASSUME NEW i \in 1 .. Len(m.text), NEW j \in 1 .. Len(n1.text)
          PROVE  m.text[i][2] < n1.text[j][2]
      <4>1. CASE j \in 1 .. Len(n0.text)
        BY <1>8, <3>2, <4>1
      <4>2. CASE j = Len(n0.text) + 1
        BY <1>2, <1>8, <3>3, <4>2
      <4> QED BY <1>6, <1>8, <4>1, <4>2
    <3> QED BY <3>1, <3>4 DEF Agree
  <2>3. Agree(n1, n1)
    BY <1>3, <1>7, <1>9 DEF Agree
  <2>4. ASSUME NEW m \in Output, Held(m)' PROVE TextOK(m)'
    BY <1>2, <1>13, <1>20, <2>1, <2>4
  <2>5. ASSUME NEW m \in Output, NEW n \in Output, Held(m)', Held(n)' PROVE Agree(m, n)
    BY <1>13, <2>2, <2>3, <2>5 DEF Inv, ContentInv
  <2> QED BY <2>4, <2>5 DEF ContentInv, Agree
<1>22. TotalInv'
  <2>1. \A m \in Output : Held(m)' => m.seq <= progressSeq'
    BY <1>1, <1>3, <1>7, <1>9, <1>13, <1>14
  <2>2. ASSUME NEW k \in 1 .. Len(emitted')
        PROVE  \E s \in 1 .. progressSeq' :
                  \A m \in Output : Held(m)' /\ m.seq = s => Contains(m.text, emitted'[k])
    <3>1. CASE k = e + 1
      <4>1. Contains(n1.text, emitted'[k])
        <5>1. emitted'[k] = piece
          BY <1>2, <3>1
        <5>2. Len(n0.text) + 1 \in 1 .. Len(n1.text)
          BY <1>6, <1>8
        <5> HIDE DEF piece
        <5> QED BY <1>8, <5>1, <5>2 DEF Contains
      <4>2. \A m \in Output : Held(m)' /\ m.seq = progressSeq => m = n1
        BY <1>3, <1>13, <1>14
      <4>3. progressSeq \in 1 .. progressSeq'
        BY <1>1, <1>3, <1>6, <1>9 DEF Output
      <4> QED BY <4>1, <4>2, <4>3
    <3>2. CASE k \in 1 .. e
      <4>1. PICK s \in 1 .. progressSeq :
                    \A m \in Output : Held(m) /\ m.seq = s => Contains(m.text, emitted[k])
        BY <1>3, <3>2 DEF Total
      <4>2. \A x : Contains(n0.text, x) => Contains(n1.text, x)
        <5>1. \A i \in 1 .. Len(n0.text) : i \in 1 .. Len(n1.text) /\ n1.text[i] = n0.text[i]
          BY <1>6, <1>8
        <5> QED BY <5>1 DEF Contains
      <4>3. emitted'[k] = emitted[k]
        BY <1>2, <3>2
      <4>4. ASSUME NEW m \in Output, Held(m)', m.seq = s PROVE Contains(m.text, emitted'[k])
        <5>1. CASE m = n1
          BY <1>6, <1>7, <1>9, <4>1, <4>2, <4>3, <4>4, <5>1
        <5>2. CASE m # n1
          BY <1>13, <4>1, <4>3, <4>4, <5>2
        <5> QED BY <5>1, <5>2
      <4>5. s \in 1 .. progressSeq'
        BY <1>1
      <4> QED BY <4>4, <4>5
    <3> QED BY <1>2, <3>1, <3>2
  <2>3. Total(progressSeq)'
    BY <2>1, <2>2 DEF Total
  <2> QED BY <1>1, <1>3, <2>3 DEF TotalInv
<1>23. ExposureInv'
  <2> SUFFICES ASSUME NEW i \in 1 .. last, i > attempted, IsProgress(pending'[i])
               PROVE  /\ OnlyAt(i, pending[i])' /\ minted' # pending'[i]
                      /\ i = last => pending'[i].seq = progressSeq
    BY <1>1, <1>11 DEF ExposureInv
  <2>1. CASE i = last
    <3>1. pending'[i] = n1
      BY <1>11, <2>1
    <3>2. ~ Contains(Sending, n1) /\ ~ Contains(wire, n1) /\ ~ Stored(n1) /\ ~ Contains(pending, n1)
      BY <1>10 DEF Held
    <3>3. ~ Stored(pending[i])'
      BY <1>1, <3>1, <3>2 DEF Stored
    <3>4. ASSUME NEW j \in 1 .. last, j # i PROVE pending'[j] # n1
      BY <1>11, <2>1, <3>2, <3>4 DEF Contains, last
    <3>5. OnlyAt(i, pending[i])'
      BY <1>1, <1>11, <3>1, <3>2, <3>3, <3>4 DEF OnlyAt
    <3> QED BY <1>1, <1>7, <1>9, <3>1, <3>5, Constants
  <2>2. CASE i # last
    <3>1. pending'[i] = pending[i] /\ IsProgress(pending[i])
      BY <1>11, <2>2
    <3>2. OnlyAt(i, pending[i]) /\ minted # pending[i]
      BY <3>1 DEF Inv, ExposureInv, last
    <3>3. Contains(pending, pending[i])
      BY DEF Contains, last
    <3>4. n1 # pending[i]
      BY <1>10, <3>3 DEF Held
    <3>5. ~ Stored(pending[i])'
      BY <1>1, <3>1, <3>2 DEF Stored, OnlyAt
    <3>6. ASSUME NEW j \in 1 .. last, j # i PROVE pending'[j] # pending[i]
      BY <1>11, <3>2, <3>4, <3>6 DEF OnlyAt, last
    <3>7. OnlyAt(i, pending[i])'
      BY <1>1, <1>11, <3>1, <3>2, <3>5, <3>6 DEF OnlyAt
    <3> QED BY <1>1, <2>2, <3>1, <3>2, <3>7
  <2> QED BY <2>1, <2>2
<1>24. ResultInv'
  <2>1. \A r \in Results : r # n1
    BY <1>7, Kinds, MessageSets
  <2> QED BY <1>1, <1>12, <2>1 DEF Inv, ResultInv
<1>25. CountInv'
  <2>1. \A m \in Output : Contains(pending', m) \/ Contains(Sending, m) => m.seq <= progressSeq
    BY <1>3, <1>7, <1>9, <1>12 DEF Inv, CountInv
  <2> QED BY <1>1, <2>1 DEF Inv, CountInv
<1>26. LossInv'
  <2> SUFFICES ASSUME ~ lost'
               PROVE  /\ dropped' = 0 /\ terminal' = Nothing /\ logged' = Nothing
                      /\ \A m \in Output : Held(m)' => m.seq <= progressSeq'
                      /\ \A s \in 1 .. progressSeq' : \E m \in Output : Held(m)' /\ m.seq = s
    BY DEF LossInv
  <2>1. /\ dropped = 0
        /\ \A s \in 1 .. progressSeq : \E m \in Output : Held(m) /\ m.seq = s
    BY <1>1, <1>3 DEF Inv, LossInv
  <2>2. \A m \in Output : Held(m)' => m.seq <= progressSeq'
    BY <1>1, <1>3, <1>7, <1>9, <1>13, <1>14
  <2>3. ASSUME NEW s \in 1 .. progressSeq' PROVE \E m \in Output : Held(m)' /\ m.seq = s
    <3>1. PICK m \in Output : Held(m) /\ m.seq = s
      BY <1>1, <2>1
    <3>2. CASE m = n0
      BY <1>7, <1>13, <3>1, <3>2
    <3>3. CASE m # n0
      BY <1>13, <3>1, <3>3
    <3> QED BY <3>2, <3>3
  <2> QED BY <1>1, <1>3, <2>1, <2>2, <2>3
<1>27. VerdictRight'
  BY <1>1, <1>3, VerdictKept DEF Inv
<1> QED BY <1>15, <1>16, <1>18, <1>19, <1>21, <1>22, <1>23, <1>24, <1>25, <1>26, <1>27 DEF Inv

LEMMA EnqueueProgressChunkInv ==
    ASSUME Inv, NEW st \in Streams, EnqueueProgressChunk(st) PROVE Inv'
  BY MintInv, MergeInv

-----------------------------------------------------------------------------
(* The theorems. *)

LEMMA NextInv == Inv /\ [Next]_vars => Inv'
<1> SUFFICES ASSUME Inv, [Next]_vars PROVE Inv'
  OBVIOUS
<1>1. CASE Next
  <2>1. CASE Handler
    BY <2>1, MarkRunStartedInv, EnqueueProgressChunkInv, EnqueueInv, FinishRunInv DEF Handler
  <2>2. CASE Sender
    BY <2>2, TakeOutboxInv, SendInv, SendFailsInv, SentAllInv DEF Sender
  <2>3. CASE Portal
    BY <2>3, ReceiveStartedInv, ReceiveProgressInv, ReceiveResultInv, FinalizeFailsInv DEF Portal
  <2> QED BY <1>1, <2>1, <2>2, <2>3, ConnectionFailsInv, ConnectInv, CrashInv DEF Next
<1>2. CASE UNCHANGED vars
  <2>1. /\ UNCHANGED <<outbox, emitted, logged, wire, announced, portal, lost>>
        /\ status' = status /\ session' = session /\ sender' = sender /\ acked' = acked
    BY <1>2 DEF vars
  <2>2. Types' /\ Sending' = Sending
    BY <2>1 DEF Inv, Types, outbox, portal, Sending
  <2>3. PhaseInv'
    BY <2>1 DEF Inv, PhaseInv, outbox, portal
  <2> QED BY <2>1, <2>2, <2>3, Unmoved
<1> QED BY <1>1, <1>2

\* The inductive invariant holds in every behaviour.
THEOREM InvHolds == Spec => []Inv
  BY InitInv, NextInv, PTL DEF Spec

\* The type invariant of the outbox, the connection and the portal's run.
THEOREM TypeCorrect == Spec => []TypeOK
<1>1. ASSUME Inv PROVE TypeOK
  <2>1. progressSeq \in Nat /\ dropped \in Nat /\ dropped <= progressSeq
    <3>1. progressSeq \in Nat /\ dropped \in Nat
      BY <1>1 DEF Inv, Types
    <3>2. PICK x \in {0, 1} : dropped + x <= progressSeq
      BY <1>1 DEF Inv, CountInv
    <3> QED BY <3>1, <3>2
  <2>2. ASSUME NEW i \in DOMAIN pending, IsProgress(pending[i])
        PROVE  pending[i].seq \in 1 .. progressSeq /\ Len(pending[i].text) \in 1 .. MaxChunk
    <3>1. pending[i] \in Output /\ Contains(pending, pending[i])
      BY <1>1, <2>2, OutboxFacts, QueueFacts DEF Contains
    <3>2. pending[i].seq \in Nat \ {0} /\ pending[i].seq <= progressSeq
      BY <1>1, <3>1 DEF Inv, CountInv, Output
    <3>3. Len(pending[i].text) \in 1 .. MaxChunk
      BY <1>1, <3>1 DEF Inv, ContentInv, TextOK, Held
    <3> QED BY <2>1, <3>2, <3>3
  <2>3. dropped \in 0 .. progressSeq
    BY <2>1
  <2> QED BY <1>1, <2>2, <2>3 DEF Inv, Types, TypeOK
<1> QED BY <1>1, InvHolds, PTL

\* The portal's verdict is right either way: a run whose result was counted is called
\* complete only when the events are the whole output in order, and incomplete only when
\* something was lost.
THEOREM VerdictAlwaysRight == Spec => []VerdictRight
<1>1. Inv => VerdictRight
  BY DEF Inv
<1> QED BY <1>1, InvHolds, PTL

\* The text behind a seq is the same in every copy the runner, the wire and the portal hold.
THEOREM OneTextAlways == Spec => []OneTextPerSeq
<1>1. ASSUME Inv PROVE OneTextPerSeq
  <2>1. ASSUME NEW m \in Copies, IsProgress(m) PROVE m \in Output /\ Held(m)
    <3>1. /\ pending \in Seq(Messages) /\ wire \in Seq(Messages)
          /\ sender # Nothing => sender \in Seq(Messages) /\ Sending = sender
      BY <1>1, OutboxFacts, SendingFacts DEF Inv
    <3>2. Contains(pending, m) \/ Contains(wire, m) \/ Contains(Sending, m)
      BY <2>1, <3>1, QueueFacts DEF Copies, Contains
    <3>3. m \in Messages
      BY <1>1, <3>2, OutboxFacts, QueueFacts
    <3> QED BY <2>1, <3>2, <3>3, Kinds DEF Held
  <2>2. ASSUME NEW m \in Copies, IsProgress(m), m.seq \in DOMAIN events
        PROVE  events[m.seq] = <<m.stream, m.text>>
    BY <1>1, <2>1, <2>2, StoredUnique DEF Inv, Stored
  <2>3. ASSUME NEW m \in Copies, IsProgress(m), NEW n \in Copies, IsProgress(n), n.seq = m.seq
        PROVE  n = m
    BY <1>1, <2>1, <2>3 DEF Inv, ContentInv, Agree
  <2> QED BY <2>2, <2>3 DEF OneTextPerSeq
<1> QED BY <1>1, InvHolds, PTL

\* No connection carries output of an active run ahead of its start.
THEOREM StartAlwaysFirst == Spec => []AnnouncedFirst
<1>1. Inv => AnnouncedFirst
  BY DEF Inv, StartInv
<1> QED BY <1>1, InvHolds, PTL

=============================================================================

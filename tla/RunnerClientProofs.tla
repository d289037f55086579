------------------------ MODULE RunnerClientProofs --------------------------
(***************************************************************************)
(* Proofs about RunnerClient, for any requests, digests, objects and       *)
(* limits, whether or not a rollback of the log may fail.                  *)
(***************************************************************************)
EXTENDS RunnerClient, SequenceTheorems, FiniteSetTheorems, TLAPS

-----------------------------------------------------------------------------
(* The inductive invariant. *)

Carrier == [at : {"sending", "removing"}, obj : Objects, msgs : Seq(Messages)]

\* Mapped objects and the sender's are allocated.
ObjectTypes ==
    /\ runs \in [Requests -> Objects \cup {Nothing}]
    /\ heap \in [Objects -> RunState \cup {Nothing}]
    /\ \A q \in Requests : Mapped(q) => heap[runs[q]] # Nothing /\ heap[runs[q]].id = q
    /\ sender = Idle \/ (sender \in Carrier /\ heap[sender.obj] # Nothing)

PlainTypes ==
    /\ preCanceled \in Seq(Requests) /\ Len(preCanceled) <= DedupRingSize
    /\ finalizeRetries \subseteq Requests
    /\ closing \in BOOLEAN
    /\ session \in {"down", "up", "ending"}
    /\ answering = Nothing \/ answering \in [id : Requests, digest : Digests]
    /\ owed \subseteq Requests /\ settled \subseteq Requests
    /\ executions \in [Requests -> {0, 1, 2}]
    /\ reported \in [Requests -> Recorded \cup {Nothing}]
    /\ disagreed \subseteq Requests /\ inherited \subseteq Requests
    /\ denied \subseteq Requests /\ spent \subseteq Requests /\ orphaned \subseteq Requests

\* A record has a result once it is completed.
Shaped(rec) ==
    /\ rec.state \in {"none", "reserved"} => rec.result = Nothing
    /\ rec.state \in {"completed", "acknowledged"} => rec.result \in Recorded

Records == {r \in [Requests -> Record] : \A q \in Requests : Shaped(r[q])}

LogTypes == ring \in Records /\ (Wedged => limbo \in Records)

TypeInv == ObjectTypes /\ PlainTypes /\ LogTypes

\* A handler works on the object its id maps to, which is unfinished, without a
\* result, and whose id is reserved; before the engine is entered nothing was executed.
OwnerInv ==
    \A o \in Objects : Active(o) =>
        /\ runs[heap[o].id] = o
        /\ ~ heap[o].finished /\ heap[o].terminal = Nothing
        /\ ring[heap[o].id].state = "reserved"
        /\ heap[o].handler = "gates" => executions[heap[o].id] = 0

\* The sender's object is the mapped one, unless an acknowledgement unmapped the id
\* meanwhile.  What it is about to remove is finished, its result recorded.
SenderInv ==
    sender # Idle =>
        LET s == heap[sender.obj] IN
        /\ \/ runs[s.id] = sender.obj
           \/ s.id \in settled /\ ring[s.id].state # "reserved"
        /\ sender.at = "removing" => s.finished /\ s.terminal = Nothing

\* In the log, in memory or in limbo, only a settled id is acknowledged, and an id
\* without a record that is not settled was not executed.
Sound(rec, q) ==
    /\ rec.state = "acknowledged" => q \in settled
    /\ rec.state = "none" /\ q \notin settled => executions[q] = 0

LogInv ==
    \A q \in Requests :
        /\ Sound(ring[q], q)
        /\ Wedged => /\ Sound(limbo[q], q)
                     /\ ring[q].state \in {"reserved", "completed"} => limbo[q].state # "none"

\* A recorded result the control plane has or may still receive for an id: it was
\* sent, is in the outbox of an object, or with the sender.
Says(o, m) ==
    \/ Contains(heap[o].pending, m)
    \/ sender # Idle /\ sender.obj = o /\ Contains(sender.msgs, m)

Voice(q, m) ==
    \/ reported[q] = m
    \/ \E o \in Objects : heap[o] # Nothing /\ heap[o].id = q /\ Says(o, m)

Fits(rec, q, m) ==
    \/ rec.state \in {"completed", "acknowledged"} /\ rec.result = m
    \/ rec.state = "none" /\ q \in settled

\* It is the one the log records, or has given up after the acknowledgement, and
\* there is only one.
VoiceInv ==
    \A q \in Requests, m \in Recorded : Voice(q, m) =>
        /\ Fits(ring[q], q, m)
        /\ Wedged => Fits(limbo[q], q, m)
        /\ \A n \in Recorded : Voice(q, n) => n = m

\* A cancelled id has its tombstone, and no handler.
DeniedInv ==
    /\ \A q \in denied \ spent : PreCanceled(q)
    /\ CancelHolds

SafeInv ==
    /\ OwnerInv /\ SenderInv /\ LogInv /\ VoiceInv /\ DeniedInv
    /\ ReservationOwned /\ AtMostOnce /\ OneOutcome

-----------------------------------------------------------------------------
(* The dispatch log. *)

\* What an operation of the log may make of the record of q.
Follows(old, new, q) ==
    \/ new = old
    \/ old.state = "none" /\ (q \in settled => LateRedelivery)
       /\ new.state \in {"reserved", "completed"}
    \/ old.state = "reserved" /\ new.state = "completed"
    \/ old.state = "completed" /\ new.state = "acknowledged" /\ new.result = old.result
       /\ q \in settled'
    \/ old.state = "acknowledged" /\ new.state = "none"

\* ... and of the log: an unusable one does not change.
LogStep ==
    /\ ring' \in Records
    /\ \A q \in Requests : Follows(ring[q], ring'[q], q)
    /\ \/ limbo' = limbo /\ (Wedged => ring' = ring)
       \/ /\ ~ Wedged /\ limbo' \in Records
          /\ \A q \in Requests :
                /\ Follows(ring[q], limbo'[q], q)
                /\ ring'[q].state \in {"reserved", "completed"} => limbo'[q].state # "none"

LEMMA LogUnchanged ==
    ASSUME TypeInv, UNCHANGED log
    PROVE  LogStep
BY DEF TypeInv, LogTypes, LogStep, Follows, log

LEMMA LogStepTypes ==
    ASSUME TypeInv, LogStep
    PROVE  LogTypes'
<1>1. ring' \in Records
  BY DEF LogStep
<1>2. limbo' # Nothing => limbo' \in Records
  BY DEF LogStep, TypeInv, LogTypes, Wedged
<1> QED BY <1>1, <1>2 DEF LogTypes, Wedged

LEMMA ReservedRecords ==
    ASSUME TypeInv, NEW q \in Requests, NEW d \in Digests, ring[q].state = "none"
    PROVE  /\ Reserved(q, d) \in Records
           /\ Reserved(q, d)[q].state = "reserved" /\ Reserved(q, d)[q].digest = d
           /\ Reserved(q, d)[q].result = Nothing
           /\ \A p \in Requests \ {q} : Reserved(q, d)[p] = ring[p]
<1>1. ring \in [Requests -> Record] /\ \A p \in Requests : Shaped(ring[p])
  BY DEF TypeInv, LogTypes, Records
<1> DEFINE e == [state |-> "reserved", digest |-> d, result |-> Nothing]
<1>2. e \in Record /\ Shaped(e)
  BY DEF Record, Shaped
<1> HIDE DEF e
<1>3. Reserved(q, d) = [ring EXCEPT ![q] = e]
  BY DEF Reserved, e
<1>4. Reserved(q, d) \in Records
  BY <1>1, <1>2, <1>3 DEF Records
<1> QED BY <1>1, <1>3, <1>4 DEF e

\* A reservation gives up at most an acknowledged record.
LEMMA ReservationRecords ==
    ASSUME TypeInv, NEW q \in Requests, NEW d \in Digests, ring[q].state = "none",
           NEW next \in Reservations(q, d)
    PROVE  /\ next \in Records
           /\ next[q].state = "reserved" /\ next[q].digest = d /\ next[q].result = Nothing
           /\ \A p \in Requests \ {q} :
                 \/ next[p] = ring[p]
                 \/ ring[p].state = "acknowledged" /\ next[p].state = "none"
<1>1. CASE next = Reserved(q, d)
  BY <1>1, ReservedRecords
<1>2. ASSUME NEW g \in Requests, ring[g].state = "acknowledged",
             next = [Reserved(q, d) EXCEPT ![g] = NoRecord]
      PROVE  /\ next \in Records
             /\ next[q].state = "reserved" /\ next[q].digest = d /\ next[q].result = Nothing
             /\ \A p \in Requests \ {q} :
                   \/ next[p] = ring[p]
                   \/ ring[p].state = "acknowledged" /\ next[p].state = "none"
  <2>1. g # q
    BY <1>2
  <2>2. NoRecord \in Record /\ Shaped(NoRecord) /\ NoRecord.state = "none"
    BY DEF NoRecord, Record, Shaped
  <2> DEFINE r == Reserved(q, d)
  <2>3. /\ r \in Records
        /\ r[q].state = "reserved" /\ r[q].digest = d /\ r[q].result = Nothing
        /\ \A p \in Requests \ {q} : r[p] = ring[p]
    BY ReservedRecords
  <2>4. next = [r EXCEPT ![g] = NoRecord]
    BY <1>2
  <2> HIDE DEF r
  <2>5. next \in Records
    BY <1>2, <2>2, <2>3, <2>4 DEF Records
  <2>6. next[q] = r[q] /\ next[g] = NoRecord /\ \A p \in Requests \ {g} : next[p] = r[p]
    BY <2>1, <2>3, <2>4 DEF Records
  <2> QED BY <1>2, <2>2, <2>3, <2>5, <2>6
<1>3. \/ next = Reserved(q, d)
      \/ \E g \in Requests : ring[g].state = "acknowledged"
            /\ next = [Reserved(q, d) EXCEPT ![g] = NoRecord]
  BY DEF Reservations
<1> QED BY <1>1, <1>2, <1>3

\* complete: the record of s.id, if it is reserved for s.digest, gets the result.
LEMMA CompleteStep ==
    ASSUME TypeInv, NEW s \in RunState, NEW r \in Recorded, NEW ok \in BOOLEAN,
           Complete(s, r, ok)
    PROVE  /\ LogStep
           /\ \A p \in Requests \ {s.id} : ring'[p] = ring[p]
           /\ ring'[s.id] # ring[s.id] => ring[s.id].state = "reserved" /\ ok
           /\ ok => /\ ring'[s.id].state \in {"completed", "acknowledged"}
                    /\ ring'[s.id].result = r /\ limbo' = Nothing
           /\ limbo' # limbo => /\ limbo'[s.id].state = "completed"
                                /\ \A p \in Requests \ {s.id} : limbo'[p] = ring[p]
<1> DEFINE q == s.id
           next == [ring EXCEPT ![q].state = "completed", ![q].result = r]
           mine == ~ Wedged /\ ring[q].digest = s.digest
<1>1. q \in Requests
  BY DEF RunState
<1>2. ring \in [Requests -> Record] /\ \A p \in Requests : Shaped(ring[p])
  BY DEF TypeInv, LogTypes, Records
<1> DEFINE e == [ring[q] EXCEPT !.state = "completed", !.result = r]
<1>3. next = [ring EXCEPT ![q] = e]
  BY <1>1, <1>2 DEF Record
<1>4. e \in Record /\ Shaped(e) /\ e.state = "completed" /\ e.result = r
  BY <1>1, <1>2 DEF Record, Shaped
<1> HIDE DEF e
<1>5. next \in [Requests -> Record] /\ next[q] = e /\ \A p \in Requests \ {q} : next[p] = ring[p]
  BY <1>1, <1>2, <1>3, <1>4
<1>6. next \in Records
  BY <1>2, <1>4, <1>5 DEF Records
<1>7. IF mine /\ ring[q].state = "reserved"
      THEN IF ok THEN Commit(next) ELSE CommitFails(next)
      ELSE ok = (mine /\ ring[q].result = r) /\ UNCHANGED log
  BY DEF Complete
<1> HIDE DEF next, q
<1>8. CASE mine /\ ring[q].state = "reserved" /\ ok
  <2>1. ring' = next /\ limbo' = limbo /\ limbo = Nothing
    BY <1>7, <1>8 DEF Commit, Wedged
  <2>2. \A p \in Requests : Follows(ring[p], ring'[p], p)
    BY <1>4, <1>5, <1>8, <2>1 DEF Follows
  <2>3. LogStep
    BY <1>6, <2>1, <2>2 DEF LogStep, Wedged
  <2> QED BY <1>4, <1>5, <1>8, <2>1, <2>3 DEF q
<1>9. CASE mine /\ ring[q].state = "reserved" /\ ~ ok
  <2>1. ring' = ring /\ (limbo' = limbo \/ limbo' = next)
    BY <1>7, <1>9 DEF CommitFails
  <2>2. LogStep
    <3>1. CASE limbo' = limbo
      BY <2>1, <3>1, LogUnchanged DEF log
    <3>2. CASE limbo' = next
      <4>1. \A p \in Requests : /\ Follows(ring[p], limbo'[p], p)
                                /\ ring'[p].state \in {"reserved", "completed"} => limbo'[p].state # "none"
        BY <1>4, <1>5, <1>9, <2>1, <3>2 DEF Follows
      <4>2. \A p \in Requests : Follows(ring[p], ring'[p], p)
        BY <2>1 DEF Follows
      <4> QED BY <1>6, <1>9, <2>1, <3>2, <4>1, <4>2 DEF LogStep, TypeInv, LogTypes
    <3> QED BY <2>1, <3>1, <3>2
  <2> QED BY <1>4, <1>5, <1>9, <2>1, <2>2 DEF q
<1>10. CASE ~ (mine /\ ring[q].state = "reserved")
  <2>1. UNCHANGED log /\ (ok => mine /\ ring[q].result = r)
    BY <1>7, <1>10
  <2>2. ok => ring[q].state \in {"completed", "acknowledged"} /\ limbo = Nothing
    BY <1>1, <1>2, <2>1, NothingAssumption DEF Shaped, Record, Wedged
  <2> QED BY <2>1, <2>2, LogUnchanged DEF log, q
<1> QED BY <1>8, <1>9, <1>10

-----------------------------------------------------------------------------
(* Objects and outboxes. *)

LEMMA AppendContains ==
    ASSUME NEW S, NEW s \in Seq(S), NEW e \in S
    PROVE  /\ Append(s, e) \in Seq(S)
           /\ \A m : Contains(Append(s, e), m) <=> Contains(s, m) \/ m = e
<1>1. /\ Append(s, e) \in Seq(S) /\ Len(Append(s, e)) = Len(s) + 1 /\ Len(s) \in Nat
      /\ \A i \in 1 .. Len(s) : Append(s, e)[i] = s[i]
      /\ Append(s, e)[Len(s) + 1] = e
  OBVIOUS
<1>2. 1 .. Len(s) + 1 = (1 .. Len(s)) \cup {Len(s) + 1}
  BY <1>1
<1> HIDE DEF Append
<1> QED BY <1>1, <1>2 DEF Contains

LEMMA ConcatContains ==
    ASSUME NEW S, NEW s \in Seq(S), NEW t \in Seq(S)
    PROVE  /\ s \o t \in Seq(S)
           /\ \A m : Contains(s \o t, m) <=> Contains(s, m) \/ Contains(t, m)
<1>1. /\ s \o t \in Seq(S) /\ Len(s \o t) = Len(s) + Len(t)
      /\ \A i \in 1 .. Len(s) + Len(t) :
            (s \o t)[i] = IF i <= Len(s) THEN s[i] ELSE t[i - Len(s)]
  BY ConcatProperties
<1>2. Len(s) \in Nat /\ Len(t) \in Nat
  BY LenProperties
<1>3. ASSUME NEW m, Contains(s \o t, m)
      PROVE  Contains(s, m) \/ Contains(t, m)
  <2>1. PICK i \in 1 .. Len(s) + Len(t) : (s \o t)[i] = m
    BY <1>1, <1>3 DEF Contains
  <2>2. CASE i <= Len(s)
    BY <1>1, <1>2, <2>1, <2>2 DEF Contains
  <2>3. CASE i > Len(s)
    <3>1. i - Len(s) \in 1 .. Len(t) /\ t[i - Len(s)] = m
      BY <1>1, <1>2, <2>1, <2>3
    <3> QED BY <3>1 DEF Contains
  <2> QED BY <1>2, <2>2, <2>3
<1>4. ASSUME NEW m, Contains(s, m)
      PROVE  Contains(s \o t, m)
  <2>1. PICK i \in 1 .. Len(s) : s[i] = m
    BY <1>4 DEF Contains
  <2>2. i \in 1 .. Len(s) + Len(t) /\ (s \o t)[i] = m
    BY <1>1, <1>2, <2>1
  <2> QED BY <1>1, <2>2 DEF Contains
<1>5. ASSUME NEW m, Contains(t, m)
      PROVE  Contains(s \o t, m)
  <2>1. PICK i \in 1 .. Len(t) : t[i] = m
    BY <1>5 DEF Contains
  <2>2. i + Len(s) \in 1 .. Len(s) + Len(t) /\ ~ (i + Len(s) <= Len(s)) /\ (i + Len(s)) - Len(s) = i
    BY <1>2
  <2>3. (s \o t)[i + Len(s)] = m
    BY <1>1, <2>1, <2>2
  <2> QED BY <1>1, <2>2, <2>3 DEF Contains
<1> QED BY <1>1, <1>3, <1>4, <1>5

\* Objects are as they were.
Still == UNCHANGED <<runs, heap, sender>>

\* A message is appended to the outbox of q.
Queued(q, msg) ==
    /\ Mapped(q)
    /\ UNCHANGED <<runs, sender>>
    /\ heap' = [heap EXCEPT ![runs[q]].pending = Append(@, msg)]

\* A new object s is mapped for q.
Installed(q, s) ==
    /\ ~ Mapped(q)
    /\ UNCHANGED sender
    /\ \E x \in Objects : /\ heap[x] = Nothing
                          /\ runs' = [runs EXCEPT ![q] = x]
                          /\ heap' = [heap EXCEPT ![x] = s]

\* What enqueueTransientLocked does, or does not for want of room.
Replied(q, msg) == Still \/ Queued(q, msg) \/ Installed(q, TransientState(q, msg))

LEMMA InstallInstalls ==
    ASSUME NEW q \in Requests, NEW s, ~ Mapped(q), Install(q, s), UNCHANGED sender
    PROVE  Installed(q, s)
<1>1. Allocate \in Objects /\ heap[Allocate] = Nothing
  BY DEF Install, CanAllocate, Allocate
<1> QED BY <1>1 DEF Install, Installed

LEMMA AddTransientReplies ==
    ASSUME NEW q \in Requests, NEW msg, AddTransient(q, msg), UNCHANGED sender
    PROVE  Replied(q, msg)
<1>1. CASE Mapped(q)
  BY <1>1 DEF AddTransient, Replied, Queued
<1>2. CASE ~ Mapped(q)
  <2>1. Install(q, TransientState(q, msg))
    BY <1>2 DEF AddTransient
  <2> QED BY <1>2, <2>1, InstallInstalls DEF Replied
<1> QED BY <1>1, <1>2

LEMMA ReplyReplies ==
    ASSUME NEW q \in Requests, NEW msg, Reply(q, msg), UNCHANGED sender
    PROVE  Replied(q, msg) /\ (session' = session \/ session' = "ending")
<1>1. CASE TransientFits(q)
  BY <1>1, AddTransientReplies DEF Reply
<1>2. CASE ~ TransientFits(q)
  BY <1>2 DEF Reply, EndSession, Replied, Still
<1> QED BY <1>1, <1>2

\* The object after a message was appended to its outbox.
LEMMA QueuedObject ==
    ASSUME TypeInv, NEW q \in Requests, NEW msg \in Messages, Queued(q, msg)
    PROVE  /\ runs[q] \in Objects /\ heap'[runs[q]] \in RunState
           /\ heap[runs[q]] \in RunState
           /\ heap'[runs[q]].id = q /\ heap[runs[q]].id = q
           /\ heap'[runs[q]].handler = heap[runs[q]].handler
           /\ heap'[runs[q]].terminal = heap[runs[q]].terminal
           /\ heap'[runs[q]].finished = heap[runs[q]].finished
           /\ heap'[runs[q]].started = heap[runs[q]].started
           /\ \A m : Contains(heap'[runs[q]].pending, m) <=> Contains(heap[runs[q]].pending, m) \/ m = msg
           /\ \A o \in Objects \ {runs[q]} : heap'[o] = heap[o]
           /\ heap' \in [Objects -> RunState \cup {Nothing}]
           /\ heap'[runs[q]] # Nothing
<1> DEFINE x == runs[q]
           f == heap[x]
           g == [f EXCEPT !.pending = Append(f.pending, msg)]
<1>1. x \in Objects /\ f \in RunState /\ f.id = q /\ heap \in [Objects -> RunState \cup {Nothing}]
  BY DEF TypeInv, ObjectTypes, Queued, Mapped
<1>2. f.pending \in Seq(Messages) /\ Append(f.pending, msg) \in Seq(Messages)
  BY <1>1 DEF RunState
<1>3. /\ g \in RunState /\ g.id = f.id /\ g.handler = f.handler /\ g.terminal = f.terminal
      /\ g.finished = f.finished /\ g.started = f.started /\ g.pending = Append(f.pending, msg)
  BY <1>1, <1>2 DEF RunState
<1>4. heap' = [heap EXCEPT ![x] = g]
  BY <1>1 DEF Queued
<1> HIDE DEF g
<1>5. /\ heap'[x] = g /\ \A o \in Objects \ {x} : heap'[o] = heap[o]
      /\ heap' \in [Objects -> RunState \cup {Nothing}]
  BY <1>1, <1>3, <1>4
<1>6. \A m : Contains(g.pending, m) <=> Contains(f.pending, m) \/ m = msg
  BY <1>2, <1>3, AppendContains
<1>7. g # Nothing
  BY <1>3, NothingAssumption
<1> QED BY <1>1, <1>3, <1>5, <1>6, <1>7

LEMMA QueuedTypes ==
    ASSUME TypeInv, NEW q \in Requests, NEW msg \in Messages, Queued(q, msg)
    PROVE  ObjectTypes'
<1>1. runs' = runs /\ sender' = sender
  BY DEF Queued
<1>2. /\ heap' \in [Objects -> RunState \cup {Nothing}]
      /\ \A o \in Objects : heap[o] # Nothing => heap'[o] # Nothing /\ heap'[o].id = heap[o].id
  BY QueuedObject
<1> QED BY <1>1, <1>2 DEF TypeInv, ObjectTypes, Mapped, Carrier

LEMMA InstalledTypes ==
    ASSUME TypeInv, NEW q \in Requests, NEW s \in RunState, s.id = q, Installed(q, s)
    PROVE  ObjectTypes'
<1>1. PICK x \in Objects : /\ heap[x] = Nothing
                           /\ runs' = [runs EXCEPT ![q] = x]
                           /\ heap' = [heap EXCEPT ![x] = s]
  BY DEF Installed
<1>2. s # Nothing
  BY NothingAssumption
<1>3. /\ runs \in [Requests -> Objects \cup {Nothing}]
      /\ heap \in [Objects -> RunState \cup {Nothing}]
  BY DEF TypeInv, ObjectTypes
<1>4. /\ runs' \in [Requests -> Objects \cup {Nothing}]
      /\ heap' \in [Objects -> RunState \cup {Nothing}]
      /\ runs'[q] = x /\ heap'[x] = s
      /\ \A p \in Requests \ {q} : runs'[p] = runs[p]
      /\ \A o \in Objects \ {x} : heap'[o] = heap[o]
  BY <1>1, <1>3
<1>5. ASSUME NEW p \in Requests, runs'[p] # Nothing
      PROVE  heap'[runs'[p]] # Nothing /\ heap'[runs'[p]].id = p
  <2>1. CASE p = q
    BY <1>2, <1>4, <2>1
  <2>2. CASE p # q
    <3>1. runs[p] \in Objects /\ heap[runs[p]] # Nothing /\ heap[runs[p]].id = p /\ runs'[p] = runs[p]
      BY <1>3, <1>4, <1>5, <2>2 DEF TypeInv, ObjectTypes, Mapped
    <3> QED BY <1>1, <1>4, <3>1
  <2> QED BY <2>1, <2>2
<1>6. sender' = Idle \/ (sender' \in Carrier /\ heap'[sender'.obj] # Nothing)
  BY <1>1, <1>4 DEF TypeInv, ObjectTypes, Installed, Carrier
<1> QED BY <1>4, <1>5, <1>6 DEF ObjectTypes, Mapped

LEMMA TransientType ==
    ASSUME NEW q \in Requests, NEW msg \in Messages
    PROVE  /\ TransientState(q, msg) \in RunState
           /\ TransientState(q, msg).id = q /\ TransientState(q, msg).handler = "none"
           /\ TransientState(q, msg).finished /\ TransientState(q, msg).terminal = Nothing
           /\ \A m : Contains(TransientState(q, msg).pending, m) => m = msg
<1> DEFINE n == NewState(q, Nothing)
           p == <<msg>>
           g == [n EXCEPT !.finished = TRUE, !.pending = p]
<1>1. p \in Seq(Messages) /\ Len(p) = 1 /\ p[1] = msg
  OBVIOUS
<1>2. << >> \in Seq(Messages)
  OBVIOUS
<1>3. n \in RunState /\ n.id = q /\ n.handler = "none" /\ n.terminal = Nothing
  BY <1>2 DEF NewState, RunState
<1>4. TransientState(q, msg) = g
  BY DEF TransientState
<1> HIDE DEF n, p
<1>5. /\ g \in RunState /\ g.id = q /\ g.handler = "none" /\ g.finished
      /\ g.terminal = Nothing /\ g.pending = p
  BY <1>1, <1>3 DEF RunState
<1>6. \A m : Contains(p, m) => m = msg
  BY <1>1 DEF Contains
<1> HIDE DEF g
<1> QED BY <1>4, <1>5, <1>6

LEMMA RepliedTypes ==
    ASSUME TypeInv, NEW q \in Requests, NEW msg \in Messages, Replied(q, msg)
    PROVE  ObjectTypes'
<1>1. CASE Still
  BY <1>1 DEF Still, TypeInv, ObjectTypes, Mapped
<1>2. CASE Queued(q, msg)
  BY <1>2, QueuedTypes
<1>3. CASE Installed(q, TransientState(q, msg))
  BY <1>3, TransientType, InstalledTypes
<1> QED BY <1>1, <1>2, <1>3 DEF Replied

\* Garbage collection leaves the mapped objects, the sender's and those at work.
LEMMA LiveObjects ==
    ASSUME NEW h \in [Objects -> RunState \cup {Nothing}], NEW r, NEW snd
    PROVE  /\ Live(h, r, snd) \in [Objects -> RunState \cup {Nothing}]
           /\ \A o \in Objects : Live(h, r, snd)[o] \in {h[o], Nothing}
           /\ \A o \in Objects : h[o] # Nothing /\ h[o].handler # "none" => Live(h, r, snd)[o] = h[o]
           /\ \A o \in Objects, q \in Requests : r[q] = o => Live(h, r, snd)[o] = h[o]
           /\ \A o \in Objects : snd # Idle /\ snd.obj = o => Live(h, r, snd)[o] = h[o]
BY DEF Live

LEMMA LiveTypes ==
    ASSUME NEW h \in [Objects -> RunState \cup {Nothing}],
           runs' \in [Requests -> Objects \cup {Nothing}],
           \A q \in Requests : Mapped(q)' => h[runs'[q]] # Nothing /\ h[runs'[q]].id = q,
           sender' = Idle \/ (sender' \in Carrier /\ h[sender'.obj] # Nothing),
           heap' = Live(h, runs', sender')
    PROVE  ObjectTypes'
<1>1. heap' \in [Objects -> RunState \cup {Nothing}]
  BY LiveObjects
<1>2. \A q \in Requests : Mapped(q)' => heap'[runs'[q]] = h[runs'[q]]
  BY LiveObjects DEF Mapped
<1>3. sender' # Idle => heap'[sender'.obj] = h[sender'.obj]
  BY LiveObjects DEF Carrier
<1> QED BY <1>1, <1>2, <1>3 DEF ObjectTypes

\* finishRun's object.
LEMMA FinishedObject ==
    ASSUME NEW s \in RunState, NEW r \in Recorded, NEW ok \in BOOLEAN
    PROVE  LET g == Finished(s, r, ok) IN
           /\ g \in RunState /\ g.id = s.id /\ g.finished /\ g.handler = s.handler
           /\ ok => g.terminal = Nothing
           /\ ~ ok => g.terminal = r
           /\ \A m : Contains(g.pending, m) => Contains(s.pending, m) \/ (ok /\ m = r)
<1> DEFINE p == IF ok THEN Append(s.pending, r) ELSE s.pending
           t == IF ok THEN Nothing ELSE r
           g == Finished(s, r, ok)
<1>1. s.pending \in Seq(Messages) /\ r \in Messages
  BY DEF RunState, Messages, Results
<1>2. p \in Seq(Messages) /\ t \in Recorded \cup {Nothing}
      /\ \A m : Contains(p, m) => Contains(s.pending, m) \/ (ok /\ m = r)
  BY <1>1, AppendContains
<1>3. g = [s EXCEPT !.finished = TRUE, !.pending = p, !.terminal = t]
  BY DEF Finished
<1> HIDE DEF p, t, g
<1>4. g \in RunState /\ g.id = s.id /\ g.finished /\ g.handler = s.handler
      /\ g.terminal = t /\ g.pending = p
  BY <1>2, <1>3 DEF RunState
<1>5. (ok => t = Nothing) /\ (~ ok => t = r)
  BY DEF t
<1> QED BY <1>2, <1>4, <1>5 DEF g

LEMMA NewStateType ==
    ASSUME NEW q \in Requests, NEW d \in Digests
    PROVE  /\ NewState(q, d) \in RunState /\ NewState(q, d).id = q
           /\ NewState(q, d).handler = "none" /\ NewState(q, d).terminal = Nothing
           /\ ~ NewState(q, d).finished
           /\ \A m : ~ Contains(NewState(q, d).pending, m)
<1>1. << >> \in Seq(Messages) /\ Len(<< >>) = 0
  OBVIOUS
<1> QED BY <1>1 DEF NewState, RunState, Contains

-----------------------------------------------------------------------------
(* Tombstones. *)

LEMMA ConsumeKeeps ==
    ASSUME PlainTypes, NEW q \in Requests, ConsumePreCancel(q)
    PROVE  /\ preCanceled' \in Seq(Requests) /\ Len(preCanceled') <= DedupRingSize
           /\ \A p \in Requests \ {q} : PreCanceled(p) => PreCanceled(p)'
<1>1. CASE ~ PreCanceled(q)
  BY <1>1 DEF ConsumePreCancel, PlainTypes, PreCanceled
<1>2. CASE PreCanceled(q)
  <2>1. preCanceled \in Seq(Requests) /\ Len(preCanceled) \in Nat
        /\ DOMAIN preCanceled = 1 .. Len(preCanceled) /\ Len(preCanceled) <= DedupRingSize
        /\ DedupRingSize \in Nat
    BY RunnerClientAssumption DEF PlainTypes
  <2>2. PICK i \in 1 .. Len(preCanceled) : /\ preCanceled[i] = q
                                           /\ preCanceled' = RemoveAt(preCanceled, i)
    BY <1>2, <2>1 DEF ConsumePreCancel
  <2> DEFINE a == SubSeq(preCanceled, 1, i - 1)
             b == SubSeq(preCanceled, i + 1, Len(preCanceled))
  <2>3. /\ a \in Seq(Requests) /\ Len(a) = i - 1
        /\ \A j \in 1 .. i - 1 : a[j] = preCanceled[j]
    BY <2>1
  <2>4. /\ b \in Seq(Requests) /\ Len(b) = Len(preCanceled) - i
        /\ \A j \in 1 .. Len(preCanceled) - i : b[j] = preCanceled[i + j]
    <3>1. i + 1 \in Int /\ Len(preCanceled) \in Int
          /\ \A j \in i + 1 .. Len(preCanceled) : preCanceled[j] \in Requests
      BY <2>1
    <3>2. /\ b \in Seq(Requests)
          /\ Len(b) = IF i + 1 <= Len(preCanceled) THEN Len(preCanceled) - (i + 1) + 1 ELSE 0
          /\ \A j \in 1 .. Len(preCanceled) - (i + 1) + 1 : b[j] = preCanceled[i + 1 + j - 1]
      BY <3>1, SubSeqProperties
    <3> HIDE DEF b
    <3>3. \A j \in 1 .. Len(preCanceled) - i : i + 1 + j - 1 = i + j
      BY <2>1
    <3> DEFINE n == Len(preCanceled)
    <3>4. n \in Nat /\ i \in 1 .. n
      BY <2>1
    <3>5. Len(b) = IF i + 1 <= n THEN n - (i + 1) + 1 ELSE 0
      BY <3>2
    <3> HIDE DEF n
    <3>6. Len(b) = n - i /\ n - (i + 1) + 1 = n - i
      BY <3>4, <3>5
    <3> QED BY <3>2, <3>3, <3>6 DEF n
  <2>5. preCanceled' = a \o b
    BY <2>2 DEF RemoveAt
  <2> HIDE DEF a, b
  <2>6. preCanceled' \in Seq(Requests) /\ Len(preCanceled') = Len(a) + Len(b)
        /\ DOMAIN preCanceled' = 1 .. Len(preCanceled')
    <3>1. preCanceled' \in Seq(Requests) /\ Len(preCanceled') = Len(a) + Len(b)
      BY <2>3, <2>4, <2>5, ConcatProperties
    <3> QED BY <3>1
  <2>7. ASSUME NEW p \in Requests \ {q}, PreCanceled(p)
        PROVE  PreCanceled(p)'
    <3>1. PICK j \in 1 .. Len(preCanceled) : preCanceled[j] = p
      BY <2>1, <2>7 DEF PreCanceled
    <3>2. CASE j < i
      <4>1. j \in 1 .. Len(a) /\ a[j] = p
        BY <2>1, <2>3, <3>1, <3>2
      <4>2. Contains(a, p)
        BY <4>1 DEF Contains
      <4>3. Contains(preCanceled', p)
        BY <2>3, <2>4, <2>5, <4>2, ConcatContains
      <4> QED BY <2>6, <4>3 DEF Contains, PreCanceled
    <3>3. CASE j > i
      <4>1. j - i \in 1 .. Len(b) /\ b[j - i] = p
        BY <2>1, <2>4, <3>1, <3>3
      <4>2. Contains(b, p)
        BY <4>1 DEF Contains
      <4>3. Contains(preCanceled', p)
        BY <2>3, <2>4, <2>5, <4>2, ConcatContains
      <4> QED BY <2>6, <4>3 DEF Contains, PreCanceled
    <3> QED BY <2>2, <2>7, <3>1, <3>2, <3>3
  <2> QED BY <2>1, <2>3, <2>4, <2>6, <2>7
<1> QED BY <1>1, <1>2

\* The oldest tombstone makes room; every other one stays.
LEMMA RememberKeeps ==
    ASSUME PlainTypes, NEW q \in Requests, RememberPreCancel(q)
    PROVE  /\ preCanceled' \in Seq(Requests) /\ Len(preCanceled') <= DedupRingSize
           /\ (denied \ spent)' \subseteq (denied \ spent) \cup {q}
           /\ (\A p \in denied \ spent : PreCanceled(p)) => \A p \in (denied \ spent)' : PreCanceled(p)'
<1> DEFINE full == Len(preCanceled) >= DedupRingSize
           kept == IF full THEN Tail(preCanceled) ELSE preCanceled
           left == denied \ IF full THEN {Head(preCanceled)} ELSE {}
<1>1. /\ preCanceled' = Append(kept, q) /\ denied' = left \cup {q}
      /\ spent' = (spent \cap denied') \ {q}
  BY DEF RememberPreCancel
<1>2. preCanceled \in Seq(Requests) /\ Len(preCanceled) \in Nat
      /\ DOMAIN preCanceled = 1 .. Len(preCanceled) /\ Len(preCanceled) <= DedupRingSize
      /\ DedupRingSize \in Nat \ {0}
  BY RunnerClientAssumption DEF PlainTypes
<1>3. full => preCanceled # << >>
  BY <1>2
<1>4. kept \in Seq(Requests) /\ Len(kept) < DedupRingSize
  BY <1>2, <1>3
<1>5. ASSUME NEW p \in left, PreCanceled(p)
      PROVE  Contains(kept, p)
  <2>1. PICK j \in 1 .. Len(preCanceled) : preCanceled[j] = p
    BY <1>2, <1>5 DEF PreCanceled
  <2>2. CASE ~ full
    BY <2>1, <2>2 DEF Contains
  <2>3. CASE full
    <3>1. j # 1
      BY <1>2, <1>3, <1>5, <2>1, <2>3
    <3>2. j - 1 \in 1 .. Len(kept) /\ kept[j - 1] = p
      BY <1>2, <1>3, <2>1, <2>3, <3>1
    <3> QED BY <3>2 DEF Contains
  <2> QED BY <2>2, <2>3
<1> HIDE DEF kept, left, full
<1>6. /\ preCanceled' \in Seq(Requests) /\ Len(preCanceled') = Len(kept) + 1
      /\ DOMAIN preCanceled' = 1 .. Len(preCanceled')
      /\ \A m : Contains(preCanceled', m) <=> Contains(kept, m) \/ m = q
  BY <1>1, <1>4, AppendContains
<1>7. \A p : PreCanceled(p)' <=> Contains(preCanceled', p)
  BY <1>6 DEF PreCanceled, Contains
<1>8. left \subseteq denied
  BY DEF left
<1>9. (denied \ spent)' \subseteq (left \ spent) \cup {q}
  BY <1>1
<1> QED BY <1>2, <1>4, <1>5, <1>6, <1>7, <1>8, <1>9

-----------------------------------------------------------------------------
(* What keeps the invariant. *)

LEMMA LogInvKept ==
    ASSUME TypeInv, SafeInv, ~ LateRedelivery, LogStep, settled \subseteq settled',
           \A q \in Requests : executions'[q] \in {executions[q], 0}
    PROVE  LogInv'
<1>1. \A q \in Requests :
        Sound(ring[q], q) /\ (Wedged => Sound(limbo[q], q)
          /\ (ring[q].state \in {"reserved", "completed"} => limbo[q].state # "none"))
  BY DEF SafeInv, LogInv
<1>2. ASSUME NEW q \in Requests, NEW rec, Follows(ring[q], rec, q)
      PROVE  Sound(rec, q)'
  BY <1>1, <1>2 DEF Follows, Sound
<1>3. \A q \in Requests : Sound(ring[q], q)'
  BY <1>2 DEF LogStep
<1>4. ASSUME NEW q \in Requests, Wedged'
      PROVE  /\ Sound(limbo[q], q)'
             /\ ring'[q].state \in {"reserved", "completed"} => limbo'[q].state # "none"
  <2>1. CASE limbo' = limbo /\ (Wedged => ring' = ring)
    BY <1>1, <1>4, <2>1 DEF Wedged, Sound
  <2>2. CASE /\ ~ Wedged /\ limbo' \in Records
             /\ \A p \in Requests :
                   /\ Follows(ring[p], limbo'[p], p)
                   /\ ring'[p].state \in {"reserved", "completed"} => limbo'[p].state # "none"
    BY <1>2, <2>2
  <2> QED BY <2>1, <2>2 DEF LogStep
<1> QED BY <1>3, <1>4 DEF LogInv

\* A new voice repeats the record.
LEMMA VoiceInvKept ==
    ASSUME TypeInv, SafeInv, ~ LateRedelivery, LogStep, settled \subseteq settled',
           \A q \in Requests, m \in Recorded : Voice(q, m)' =>
              \/ Voice(q, m)
              \/ /\ ring'[q].state \in {"completed", "acknowledged"} /\ ring'[q].result = m
                 /\ ~ Wedged'
    PROVE  VoiceInv'
<1>1. \A q \in Requests, m \in Recorded : Voice(q, m) =>
        /\ Fits(ring[q], q, m)
        /\ Wedged => Fits(limbo[q], q, m)
        /\ \A n \in Recorded : Voice(q, n) => n = m
  BY DEF SafeInv, VoiceInv
<1>2. ASSUME NEW q \in Requests, NEW m \in Recorded, Voice(q, m), NEW rec, Follows(ring[q], rec, q)
      PROVE  Fits(rec, q, m)'
  <2>1. Fits(ring[q], q, m)
    BY <1>1, <1>2
  <2>2. ring[q].state = "acknowledged" => q \in settled
    BY DEF SafeInv, LogInv, Sound
  <2> QED BY <1>2, <2>1, <2>2 DEF Follows, Fits
<1>3. \A q \in Requests : Follows(ring[q], ring'[q], q)
  BY DEF LogStep
<1>4. ASSUME NEW q \in Requests, NEW m \in Recorded, Voice(q, m)'
      PROVE  Fits(ring[q], q, m)'
  <2>1. CASE Voice(q, m)
    BY <1>2, <1>3, <2>1
  <2>2. CASE ring'[q].state \in {"completed", "acknowledged"} /\ ring'[q].result = m
    BY <2>2 DEF Fits
  <2> QED BY <1>4, <2>1, <2>2
<1>5. ASSUME NEW q \in Requests, NEW m \in Recorded, Voice(q, m)', Wedged'
      PROVE  Fits(limbo[q], q, m)'
  <2>1. Voice(q, m)
    BY <1>5
  <2>2. CASE limbo' = limbo
    BY <1>1, <1>5, <2>1, <2>2 DEF Wedged, Fits
  <2>3. CASE \A p \in Requests : Follows(ring[p], limbo'[p], p)
    BY <1>2, <2>1, <2>3
  <2> QED BY <2>2, <2>3 DEF LogStep
<1>6. ASSUME NEW q \in Requests, NEW m \in Recorded, NEW n \in Recorded, Voice(q, m)', Voice(q, n)'
      PROVE  n = m
  <2>1. Fits(ring[q], q, m)' /\ Fits(ring[q], q, n)'
    BY <1>4, <1>6
  <2>2. CASE ring'[q].state \in {"completed", "acknowledged"}
    BY <2>1, <2>2 DEF Fits
  <2>3. CASE ring'[q].state \notin {"completed", "acknowledged"}
    BY <1>1, <1>6, <2>3
  <2> QED BY <2>2, <2>3
<1> QED BY <1>4, <1>5, <1>6 DEF VoiceInv

LEMMA InstalledSafe ==
    ASSUME TypeInv, TypeInv', SafeInv, ~ LateRedelivery, LogStep,
           NEW q \in Requests, NEW s \in RunState, s.id = q, Installed(q, s),
           \A p \in Requests \ {q} : ring[p].state = "reserved" <=> ring'[p].state = "reserved",
           s.handler # "none" => /\ ring'[q].state = "reserved" /\ executions[q] = 0
                                 /\ ~ s.finished /\ s.terminal = Nothing /\ q \notin (denied \ spent)',
           ring'[q].state = "reserved" =>
              q \in inherited' \/ s.handler # "none" \/ s.terminal # Nothing,
           \A m \in Recorded : Contains(s.pending, m) =>
              /\ ring'[q].state \in {"completed", "acknowledged"} /\ ring'[q].result = m
              /\ ~ Wedged',
           \A p \in Requests : reported'[p] \in {reported[p], Nothing},
           settled \subseteq settled', executions' = executions, disagreed' = disagreed,
           inherited' = inherited, (denied \ spent)' \subseteq denied \ spent,
           \A p \in (denied \ spent)' : PreCanceled(p)'
    PROVE  SafeInv'
<1>1. PICK x \in Objects : /\ heap[x] = Nothing
                           /\ runs' = [runs EXCEPT ![q] = x]
                           /\ heap' = [heap EXCEPT ![x] = s]
  BY DEF Installed
<1>2. /\ runs \in [Requests -> Objects \cup {Nothing}]
      /\ heap \in [Objects -> RunState \cup {Nothing}]
      /\ sender' = sender /\ runs[q] = Nothing /\ Nothing \notin Objects
      /\ sender = Idle \/ (sender \in Carrier /\ heap[sender.obj] # Nothing)
  BY NothingAssumption DEF TypeInv, ObjectTypes, Installed, Mapped
<1>3. /\ runs'[q] = x /\ heap'[x] = s /\ s # Nothing
      /\ \A p \in Requests \ {q} : runs'[p] = runs[p]
      /\ \A o \in Objects \ {x} : heap'[o] = heap[o]
  BY <1>1, <1>2, NothingAssumption
<1>4. \A o \in Objects : heap[o] # Nothing => heap[o].id \in Requests
  BY <1>2 DEF RunState
<1>5. \A o \in Objects : Active(o) =>
        /\ o # x /\ heap[o].id \in Requests \ {q} /\ runs[heap[o].id] = o
        /\ ~ heap[o].finished /\ heap[o].terminal = Nothing
        /\ ring[heap[o].id].state = "reserved" /\ heap[o].id \notin denied \ spent
        /\ heap[o].handler = "gates" => executions[heap[o].id] = 0
  BY <1>1, <1>2, <1>4 DEF SafeInv, OwnerInv, Active, DeniedInv, CancelHolds
<1>6. OwnerInv'
  <2>1. ASSUME NEW o \in Objects, o # x, Active(o)'
        PROVE  /\ runs'[heap'[o].id] = o /\ ~ heap'[o].finished /\ heap'[o].terminal = Nothing
               /\ ring'[heap'[o].id].state = "reserved"
               /\ heap'[o].handler = "gates" => executions'[heap'[o].id] = 0
    <3>1. Active(o) /\ heap'[o] = heap[o]
      BY <1>3, <2>1 DEF Active
    <3> QED BY <1>3, <1>5, <3>1
  <2>2. ASSUME Active(x)'
        PROVE  /\ runs'[heap'[x].id] = x /\ ~ heap'[x].finished /\ heap'[x].terminal = Nothing
               /\ ring'[heap'[x].id].state = "reserved"
               /\ heap'[x].handler = "gates" => executions'[heap'[x].id] = 0
    BY <1>3, <2>2 DEF Active
  <2> QED BY <2>1, <2>2 DEF OwnerInv
<1>7. SenderInv'
  <2>1. SUFFICES ASSUME sender # Idle
                 PROVE  SenderInv'
    BY <1>2 DEF SenderInv
  <2> DEFINE t == heap[sender.obj]
  <2>2. /\ sender.obj \in Objects /\ sender.obj # x /\ heap'[sender.obj] = t
        /\ t.id \in Requests
    BY <1>1, <1>2, <1>3, <1>4, <2>1 DEF Carrier
  <2>3. /\ runs[t.id] = sender.obj \/ (t.id \in settled /\ ring[t.id].state # "reserved")
        /\ sender.at = "removing" => t.finished /\ t.terminal = Nothing
    BY <2>1 DEF SafeInv, SenderInv
  <2> HIDE DEF t
  <2>4. runs[t.id] = sender.obj => runs'[t.id] = sender.obj
    BY <1>2, <1>3, <2>2
  <2>5. t.id \in settled /\ ring[t.id].state # "reserved" =>
          t.id \in settled' /\ ring'[t.id].state # "reserved"
    BY <2>2 DEF LogStep, Follows
  <2> QED BY <1>2, <2>2, <2>3, <2>4, <2>5 DEF SenderInv
<1>8. LogInv'
  BY LogInvKept
<1>9. VoiceInv'
  <2>1. ASSUME NEW p \in Requests, NEW m \in Recorded, Voice(p, m)'
        PROVE  Voice(p, m) \/ (p = q /\ Contains(s.pending, m))
    <3>1. CASE reported'[p] = m
      BY <3>1, NothingAssumption DEF Voice
    <3>2. ASSUME NEW o \in Objects, heap'[o] # Nothing, heap'[o].id = p, Says(o, m)'
          PROVE  Voice(p, m) \/ (p = q /\ Contains(s.pending, m))
      <4>1. CASE o = x
        BY <1>1, <1>2, <1>3, <3>2, <4>1 DEF Says
      <4>2. CASE o # x
        BY <1>2, <1>3, <3>2, <4>2 DEF Says, Voice
      <4> QED BY <4>1, <4>2
    <3> QED BY <2>1, <3>1, <3>2 DEF Voice
  <2> QED BY <2>1, VoiceInvKept
<1>10. DeniedInv'
  <2>1. \A o \in Objects : Active(o)' => heap'[o].id \notin (denied \ spent)'
    BY <1>3, <1>5 DEF Active
  <2> QED BY <2>1 DEF DeniedInv, CancelHolds
<1>11. ReservationOwned'
  <2>1. ASSUME NEW p \in Requests, p # q, ring'[p].state = "reserved", p \notin inherited'
        PROVE  /\ runs'[p] # Nothing
               /\ heap'[runs'[p]].handler # "none" \/ heap'[runs'[p]].terminal # Nothing
    <3>1. /\ runs[p] # Nothing /\ runs[p] \in Objects
          /\ heap[runs[p]].handler # "none" \/ heap[runs[p]].terminal # Nothing
          /\ heap[runs[p]] # Nothing
      BY <1>2, <2>1 DEF SafeInv, ReservationOwned, Mapped, TypeInv, ObjectTypes
    <3> QED BY <1>1, <1>3, <2>1, <3>1
  <2>2. ring'[q].state = "reserved" =>
          q \in inherited' \/ (runs'[q] # Nothing
            /\ (heap'[runs'[q]].handler # "none" \/ heap'[runs'[q]].terminal # Nothing))
    BY <1>2, <1>3
  <2> QED BY <2>1, <2>2 DEF ReservationOwned, Mapped
<1>12. AtMostOnce' /\ OneOutcome'
  BY DEF SafeInv, AtMostOnce, OneOutcome
<1> QED BY <1>6, <1>7, <1>8, <1>9, <1>10, <1>11, <1>12 DEF SafeInv

\* Steps that change nothing in the objects but outboxes and cancellation, nothing in
\* the log's memory and no history but a tombstone.
LEMMA SameObjectsSafe ==
    ASSUME TypeInv, TypeInv', SafeInv, ~ LateRedelivery, LogStep, ring' = ring,
           UNCHANGED <<runs, sender>>,
           \A o \in Objects :
              /\ heap[o] = Nothing => heap'[o] = Nothing
              /\ heap[o] # Nothing =>
                    /\ heap'[o] # Nothing /\ heap'[o].id = heap[o].id
                    /\ heap'[o].handler = heap[o].handler
                    /\ heap'[o].finished = heap[o].finished
                    /\ heap'[o].terminal = heap[o].terminal,
           \A o \in Objects, m \in Recorded :
              heap[o] # Nothing /\ Contains(heap'[o].pending, m) =>
                 \/ Contains(heap[o].pending, m)
                 \/ /\ ring[heap[o].id].state \in {"completed", "acknowledged"}
                    /\ ring[heap[o].id].result = m /\ ~ Wedged',
           settled \subseteq settled', UNCHANGED <<executions, reported, disagreed, inherited>>,
           \A p \in (denied \ spent)' : PreCanceled(p)' /\ (p \in denied \ spent \/ ~ Mapped(p))
    PROVE  SafeInv'
<1>1. /\ runs \in [Requests -> Objects \cup {Nothing}]
      /\ heap \in [Objects -> RunState \cup {Nothing}]
      /\ sender = Idle \/ (sender \in Carrier /\ heap[sender.obj] # Nothing)
      /\ Nothing \notin Objects
  BY NothingAssumption DEF TypeInv, ObjectTypes
<1>2. \A o \in Objects : heap[o] # Nothing => heap[o].id \in Requests
  BY <1>1 DEF RunState
<1>3. OwnerInv'
  BY DEF SafeInv, OwnerInv, Active
<1>4. SenderInv'
  <2>1. SUFFICES ASSUME sender # Idle
                 PROVE  SenderInv'
    BY DEF SenderInv
  <2>2. /\ sender.obj \in Objects /\ heap[sender.obj] # Nothing
        /\ heap'[sender.obj].id = heap[sender.obj].id
        /\ heap'[sender.obj].finished = heap[sender.obj].finished
        /\ heap'[sender.obj].terminal = heap[sender.obj].terminal
    BY <1>1, <2>1 DEF Carrier
  <2> QED BY <2>1, <2>2 DEF SafeInv, SenderInv
<1>5. LogInv'
  BY LogInvKept
<1>6. VoiceInv'
  <2>1. ASSUME NEW p \in Requests, NEW m \in Recorded, Voice(p, m)'
        PROVE  \/ Voice(p, m)
               \/ /\ ring[p].state \in {"completed", "acknowledged"} /\ ring[p].result = m
                  /\ ~ Wedged'
    <3>1. CASE reported'[p] = m
      BY <3>1 DEF Voice
    <3>2. ASSUME NEW o \in Objects, heap'[o] # Nothing, heap'[o].id = p, Says(o, m)'
          PROVE  \/ Voice(p, m)
                 \/ /\ ring[p].state \in {"completed", "acknowledged"} /\ ring[p].result = m
                    /\ ~ Wedged'
      <4>1. heap[o] # Nothing /\ heap[o].id = p
        BY <3>2
      <4>2. CASE Contains(heap'[o].pending, m)
        BY <4>1, <4>2 DEF Voice, Says
      <4>3. CASE sender # Idle /\ sender.obj = o /\ Contains(sender.msgs, m)
        BY <4>1, <4>3 DEF Voice, Says
      <4> QED BY <3>2, <4>2, <4>3 DEF Says
    <3> QED BY <2>1, <3>1, <3>2 DEF Voice
  <2> QED BY <2>1, VoiceInvKept
<1>7. DeniedInv'
  <2>1. ASSUME NEW o \in Objects, Active(o)'
        PROVE  heap'[o].id \notin (denied \ spent)'
    <3>1. Active(o) /\ heap'[o].id = heap[o].id /\ heap[o] # Nothing
      BY <2>1 DEF Active
    <3>2. runs[heap[o].id] = o /\ heap[o].id \notin denied \ spent
      BY <3>1 DEF SafeInv, OwnerInv, DeniedInv, CancelHolds
    <3> QED BY <1>1, <3>1, <3>2 DEF Mapped
  <2> QED BY <2>1 DEF DeniedInv, CancelHolds
<1>8. ReservationOwned'
  <2>1. ASSUME NEW p \in Requests, ring[p].state = "reserved", p \notin inherited
        PROVE  /\ runs[p] # Nothing
               /\ heap'[runs[p]].handler # "none" \/ heap'[runs[p]].terminal # Nothing
    <3>1. /\ runs[p] # Nothing /\ runs[p] \in Objects
          /\ heap[runs[p]].handler # "none" \/ heap[runs[p]].terminal # Nothing
          /\ heap[runs[p]] # Nothing
      BY <1>1, <2>1 DEF SafeInv, ReservationOwned, Mapped, TypeInv, ObjectTypes
    <3> QED BY <3>1
  <2> QED BY <2>1 DEF ReservationOwned, Mapped
<1>9. AtMostOnce' /\ OneOutcome'
  BY DEF SafeInv, AtMostOnce, OneOutcome
<1> QED BY <1>3, <1>4, <1>5, <1>6, <1>7, <1>8, <1>9 DEF SafeInv

\* A reply is no recorded result, or repeats the record.
LEMMA RepliedSafe ==
    ASSUME TypeInv, TypeInv', SafeInv, ~ LateRedelivery, LogStep, ring' = ring,
           NEW q \in Requests, NEW msg \in Messages, Replied(q, msg),
           msg \in Recorded => /\ ring[q].state \in {"completed", "acknowledged"}
                               /\ ring[q].result = msg /\ ~ Wedged',
           settled \subseteq settled', UNCHANGED <<executions, reported, disagreed, inherited>>,
           (denied \ spent)' \subseteq denied \ spent, \A p \in (denied \ spent)' : PreCanceled(p)'
    PROVE  SafeInv'
<1>1. CASE Still
  BY <1>1, SameObjectsSafe DEF Still
<1>2. CASE Queued(q, msg)
  <2>1. UNCHANGED <<runs, sender>>
    BY <1>2 DEF Queued
  <2> DEFINE x == runs[q]
  <2>2. /\ x \in Objects /\ heap'[x].id = q /\ heap[x].id = q /\ heap'[x] # Nothing
        /\ heap[x] # Nothing
        /\ heap'[x].handler = heap[x].handler
        /\ heap'[x].terminal = heap[x].terminal
        /\ heap'[x].finished = heap[x].finished
        /\ \A m : Contains(heap'[x].pending, m) <=> Contains(heap[x].pending, m) \/ m = msg
        /\ \A o \in Objects \ {x} : heap'[o] = heap[o]
    BY <1>2, QueuedObject, NothingAssumption
  <2> HIDE DEF x
  <2>3. \A o \in Objects :
          /\ heap[o] = Nothing => heap'[o] = Nothing
          /\ heap[o] # Nothing =>
                /\ heap'[o] # Nothing /\ heap'[o].id = heap[o].id
                /\ heap'[o].handler = heap[o].handler
                /\ heap'[o].finished = heap[o].finished
                /\ heap'[o].terminal = heap[o].terminal
    BY <2>2
  <2>4. \A o \in Objects, m \in Recorded :
          heap[o] # Nothing /\ Contains(heap'[o].pending, m) =>
             \/ Contains(heap[o].pending, m)
             \/ /\ ring[heap[o].id].state \in {"completed", "acknowledged"}
                /\ ring[heap[o].id].result = m /\ ~ Wedged'
    BY <2>2
  <2> QED BY <2>1, <2>3, <2>4, SameObjectsSafe
<1>3. CASE Installed(q, TransientState(q, msg))
  <2> DEFINE s == TransientState(q, msg)
  <2>1. /\ s \in RunState /\ s.id = q /\ s.handler = "none"
        /\ \A m : Contains(s.pending, m) => m = msg
    BY TransientType
  <2>2. ring[q].state = "reserved" => q \in inherited
    BY <1>3 DEF SafeInv, ReservationOwned, Installed
  <2> HIDE DEF s
  <2>3. Installed(q, s)
    BY <1>3 DEF s
  <2> QED BY <2>1, <2>2, <2>3, InstalledSafe
<1> QED BY <1>1, <1>2, <1>3 DEF Replied

-----------------------------------------------------------------------------
(* Frames. *)

\* Replies to a dispatch that leave the log alone.
LEMMA RefusalStep ==
    ASSUME TypeInv, NEW q \in Requests,
           \/ InspectFails(q) \/ RefuseAtCap(q) \/ RefuseUndecodable(q)
           \/ \E d \in Digests : ReplayResult(q, d) \/ RefuseConflict(q, d)
    PROVE  TypeInv' /\ (SafeInv /\ ~ LateRedelivery => SafeInv')
<1>1. PICK msg \in Messages :
        /\ Replied(q, msg)
        /\ msg \in Recorded => /\ ring[q].state \in {"completed", "acknowledged"}
                               /\ ring[q].result = msg /\ ~ Wedged
        /\ session' = session \/ session' = "ending"
        /\ UNCHANGED <<preCanceled, answering, log, Keeps, history>>
  <2>1. CASE InspectFails(q) \/ RefuseAtCap(q) \/ \E d \in Digests : RefuseConflict(q, d)
    <3>1. PICK msg \in {"reservation_failed", "capped", "id_conflict"} :
            Reply(q, msg) /\ UNCHANGED <<preCanceled, answering, log, Keeps, history>>
      BY <2>1 DEF InspectFails, RefuseAtCap, RefuseConflict
    <3>2. msg \in Messages /\ msg \notin Recorded
      BY DEF Messages, Results, Refusals, Recorded
    <3> QED BY <3>1, <3>2, ReplyReplies DEF Keeps
  <2>2. CASE \E d \in Digests : ReplayResult(q, d)
    <3>1. /\ ring[q].state \in {"completed", "acknowledged"} /\ ~ Wedged
          /\ Reply(q, ring[q].result)
          /\ UNCHANGED <<preCanceled, answering, log, Keeps, history>>
      BY <2>2 DEF ReplayResult
    <3>2. ring[q].result \in Messages
      BY <3>1 DEF TypeInv, LogTypes, Records, Shaped, Messages, Results
    <3> QED BY <3>1, <3>2, ReplyReplies DEF Keeps
  <2>3. CASE RefuseUndecodable(q)
    <3>1. "undecodable" \in Messages /\ "undecodable" \notin Recorded
      BY DEF Messages, Results, Refusals, Recorded
    <3> QED BY <2>3, <3>1, AddTransientReplies DEF RefuseUndecodable, Keeps
  <2> QED BY <2>1, <2>2, <2>3
<1>2. TypeInv'
  <2>1. ObjectTypes'
    BY <1>1, RepliedTypes
  <2>2. PlainTypes'
    BY <1>1 DEF TypeInv, PlainTypes, Keeps, cloud, history
  <2> QED BY <1>1, <2>1, <2>2, LogUnchanged, LogStepTypes DEF TypeInv
<1>3. ASSUME SafeInv, ~ LateRedelivery
      PROVE  SafeInv'
  <2>1. \A p \in (denied \ spent)' : PreCanceled(p)'
    BY <1>1, <1>3 DEF SafeInv, DeniedInv, PreCanceled, history
  <2> QED BY <1>1, <1>2, <1>3, <2>1, LogUnchanged, RepliedSafe DEF history, Keeps, cloud, log, Wedged
<1> QED BY <1>2, <1>3

\* The reservation that fails may leave a ring in limbo.
LEMMA ReserveFailsStep ==
    ASSUME TypeInv, NEW q \in Requests, NEW d \in Digests, ReserveFails(q, d)
    PROVE  TypeInv' /\ (SafeInv /\ ~ LateRedelivery => SafeInv')
<1>1. /\ Unknown(q) /\ ConsumePreCancel(q) /\ Reply(q, "reservation_failed")
      /\ \/ UNCHANGED log
         \/ \E next \in Reservations(q, d) : CommitFails(next)
      /\ spent' = spent \cup (denied \cap {q})
      /\ UNCHANGED <<denied, orphaned, answering, finalizeRetries, closing, sender, owed, settled,
                     executions, reported, disagreed, inherited>>
  BY DEF ReserveFails, Admitted, Keeps, cloud
<1>2. /\ "reservation_failed" \in Messages /\ "reservation_failed" \notin Recorded
      /\ Replied(q, "reservation_failed")
      /\ session' = session \/ session' = "ending"
  BY <1>1, ReplyReplies DEF Messages, Results, Refusals, Recorded
<1>3. ring[q].state = "none" /\ ~ Wedged /\ (q \in settled => LateRedelivery)
  BY <1>1 DEF Unknown, Dispatched
<1>4. ring' = ring /\ LogStep
  <2>1. CASE UNCHANGED log
    BY <2>1, LogUnchanged DEF log
  <2>2. ASSUME NEW next \in Reservations(q, d), CommitFails(next)
        PROVE  ring' = ring /\ LogStep
    <3>1. ring' = ring /\ (limbo' = limbo \/ limbo' = next)
      BY <2>2 DEF CommitFails
    <3>2. CASE limbo' = limbo
      BY <3>1, <3>2, LogUnchanged DEF log
    <3>3. CASE limbo' = next
      <4>1. next \in Records /\ next[q].state = "reserved"
            /\ \A p \in Requests \ {q} :
                  \/ next[p] = ring[p]
                  \/ ring[p].state = "acknowledged" /\ next[p].state = "none"
        BY <1>3, <2>2, ReservationRecords
      <4>2. \A p \in Requests : Follows(ring[p], next[p], p)
        BY <1>3, <4>1 DEF Follows
      <4>3. \A p \in Requests : ring'[p].state \in {"reserved", "completed"} => next[p].state # "none"
        BY <1>3, <3>1, <4>1
      <4>4. \A p \in Requests : Follows(ring[p], ring'[p], p)
        BY <3>1 DEF Follows
      <4> QED BY <1>3, <3>1, <3>3, <4>1, <4>2, <4>3, <4>4 DEF LogStep, TypeInv, LogTypes
    <3> QED BY <3>1, <3>2, <3>3
  <2> QED BY <1>1, <2>1, <2>2
<1>5. TypeInv'
  <2>1. ObjectTypes'
    BY <1>2, RepliedTypes
  <2>2. PlainTypes'
    BY <1>1, <1>2, ConsumeKeeps DEF TypeInv, PlainTypes
  <2> QED BY <1>4, <2>1, <2>2, LogStepTypes DEF TypeInv
<1>6. ASSUME SafeInv, ~ LateRedelivery
      PROVE  SafeInv'
  <2>1. \A p \in (denied \ spent)' : PreCanceled(p)'
    BY <1>1, <1>6, ConsumeKeeps DEF TypeInv, PlainTypes, SafeInv, DeniedInv
  <2> QED BY <1>1, <1>2, <1>4, <1>5, <1>6, <2>1, RepliedSafe
<1> QED BY <1>5, <1>6

LEMMA FinalizeFailedStep ==
    ASSUME TypeInv, NEW q \in Requests, FinalizeFailed(q)
    PROVE  TypeInv' /\ (SafeInv /\ ~ LateRedelivery => SafeInv')
<1>1. /\ ring[q].state = "completed" /\ ~ Wedged /\ AddTransient(q, ring[q].result)
      /\ owed' = owed \ {q} /\ finalizeRetries' = finalizeRetries \cup {q}
      /\ UNCHANGED <<settled, preCanceled, closing, session, sender, answering, log, history>>
  BY DEF FinalizeFailed
<1>2. ring[q].result \in Messages
  BY <1>1 DEF TypeInv, LogTypes, Records, Shaped, Messages, Results
<1>3. Replied(q, ring[q].result)
  BY <1>1, AddTransientReplies
<1>4. TypeInv'
  <2>1. ObjectTypes'
    BY <1>2, <1>3, RepliedTypes
  <2>2. PlainTypes'
    BY <1>1 DEF TypeInv, PlainTypes, history
  <2> QED BY <1>1, <2>1, <2>2, LogUnchanged, LogStepTypes DEF TypeInv
<1>5. ASSUME SafeInv, ~ LateRedelivery
      PROVE  SafeInv'
  <2>1. \A p \in (denied \ spent)' : PreCanceled(p)'
    BY <1>1, <1>5 DEF SafeInv, DeniedInv, PreCanceled, history
  <2> QED BY <1>1, <1>2, <1>3, <1>4, <1>5, <2>1, LogUnchanged, RepliedSafe DEF history, log, Wedged
<1> QED BY <1>4, <1>5

\* Frames and session steps that touch neither objects nor the log's memory.
LEMMA QuietStep ==
    ASSUME TypeInv,
           \/ \E q \in Requests :
                 \/ \E d \in Digests : FindPending(q, d)
                 \/ RefuseBacklog(q) \/ AckDropped(q) \/ FinalizeFailedIgnored(q)
           \/ SessionFails \/ SessionEnds
    PROVE  TypeInv' /\ (SafeInv /\ ~ LateRedelivery => SafeInv')
<1>1. /\ Still /\ UNCHANGED <<preCanceled, finalizeRetries, closing, log, history>>
      /\ answering' = answering \/ answering' \in [id : Requests, digest : Digests]
      /\ session' \in {session, "ending", "down"}
      /\ owed' \subseteq owed /\ settled \subseteq settled' /\ settled' \subseteq settled \cup Requests
  BY DEF FindPending, RefuseBacklog, AckDropped, Acked, FinalizeFailedIgnored, SessionFails,
         SessionEnds, EndSession, Keeps, cloud, client, Still
<1>2. TypeInv'
  <2>1. ObjectTypes'
    BY <1>1 DEF Still, TypeInv, ObjectTypes, Mapped
  <2>2. PlainTypes'
    BY <1>1 DEF TypeInv, PlainTypes, history
  <2> QED BY <1>1, <2>1, <2>2, LogUnchanged, LogStepTypes DEF TypeInv
<1>3. ASSUME SafeInv, ~ LateRedelivery
      PROVE  SafeInv'
  <2>1. \A p \in (denied \ spent)' : PreCanceled(p)' /\ p \in denied \ spent
    BY <1>1, <1>3 DEF SafeInv, DeniedInv, PreCanceled, history
  <2> QED BY <1>1, <1>2, <1>3, <2>1, LogUnchanged, SameObjectsSafe DEF history, log, Still
<1> QED BY <1>2, <1>3

LEMMA RememberPreCancelStep ==
    ASSUME TypeInv, NEW q \in Requests, RememberPreCancel(q)
    PROVE  TypeInv' /\ (SafeInv /\ ~ LateRedelivery => SafeInv')
<1>1. /\ ~ Mapped(q) /\ Still /\ denied' \subseteq denied \cup {q} /\ spent' \subseteq spent
      /\ UNCHANGED <<orphaned, finalizeRetries, closing, log, answering, session, owed, settled, executions,
                     reported, disagreed, inherited>>
  BY DEF RememberPreCancel, Keeps, cloud, Still
<1>2. /\ preCanceled' \in Seq(Requests) /\ Len(preCanceled') <= DedupRingSize
      /\ (denied \ spent)' \subseteq (denied \ spent) \cup {q}
      /\ (\A p \in denied \ spent : PreCanceled(p)) => \A p \in (denied \ spent)' : PreCanceled(p)'
  BY RememberKeeps DEF TypeInv
<1>3. TypeInv'
  <2>1. ObjectTypes'
    BY <1>1 DEF Still, TypeInv, ObjectTypes, Mapped
  <2>2. PlainTypes'
    BY <1>1, <1>2 DEF TypeInv, PlainTypes
  <2> QED BY <1>1, <2>1, <2>2, LogUnchanged, LogStepTypes DEF TypeInv
<1>4. ASSUME SafeInv, ~ LateRedelivery
      PROVE  SafeInv'
  <2>1. \A p \in (denied \ spent)' : PreCanceled(p)' /\ (p \in denied \ spent \/ ~ Mapped(p))
    BY <1>1, <1>2, <1>4 DEF SafeInv, DeniedInv
  <2> QED BY <1>1, <1>3, <1>4, <2>1, LogUnchanged, SameObjectsSafe DEF log, Still
<1> QED BY <1>3, <1>4

LEMMA CancelActiveStep ==
    ASSUME TypeInv, NEW q \in Requests, CancelActive(q)
    PROVE  TypeInv' /\ (SafeInv /\ ~ LateRedelivery => SafeInv')
<1> DEFINE x == runs[q]
           f == heap[x]
           g == [f EXCEPT !.canceled = TRUE]
<1>1. /\ Mapped(q) /\ heap' = [heap EXCEPT ![runs[q]].canceled = TRUE]
      /\ UNCHANGED <<runs, preCanceled, answering, session, log, Keeps, history>>
  BY DEF CancelActive
<1>2. x \in Objects /\ f \in RunState /\ heap \in [Objects -> RunState \cup {Nothing}] /\ f # Nothing
  BY <1>1 DEF TypeInv, ObjectTypes, Mapped
<1>3. /\ g \in RunState /\ g.id = f.id /\ g.handler = f.handler /\ g.terminal = f.terminal
      /\ g.finished = f.finished /\ g.pending = f.pending /\ g # Nothing
  BY <1>2, NothingAssumption DEF RunState
<1>4. heap' = [heap EXCEPT ![x] = g]
  BY <1>1, <1>2
<1> HIDE DEF g
<1>5. /\ heap' \in [Objects -> RunState \cup {Nothing}]
      /\ \A o \in Objects :
            /\ heap[o] = Nothing => heap'[o] = Nothing
            /\ heap[o] # Nothing =>
                  /\ heap'[o] # Nothing /\ heap'[o].id = heap[o].id
                  /\ heap'[o].handler = heap[o].handler
                  /\ heap'[o].finished = heap[o].finished
                  /\ heap'[o].terminal = heap[o].terminal
                  /\ heap'[o].pending = heap[o].pending
  BY <1>2, <1>3, <1>4
<1>6. TypeInv'
  <2>1. ObjectTypes'
    BY <1>1, <1>5 DEF TypeInv, ObjectTypes, Mapped, Carrier, Keeps
  <2>2. PlainTypes'
    BY <1>1 DEF TypeInv, PlainTypes, history, Keeps, cloud
  <2> QED BY <1>1, <2>1, <2>2, LogUnchanged, LogStepTypes DEF TypeInv
<1>7. ASSUME SafeInv, ~ LateRedelivery
      PROVE  SafeInv'
  <2>1. \A p \in (denied \ spent)' : PreCanceled(p)' /\ p \in denied \ spent
    BY <1>1, <1>7 DEF SafeInv, DeniedInv, PreCanceled, history
  <2> QED BY <1>1, <1>5, <1>6, <1>7, <2>1, LogUnchanged, SameObjectsSafe DEF history, log, Keeps, cloud
<1> QED BY <1>6, <1>7

\* Steps that forget objects, unmap ids without a handler whose result is recorded,
\* move messages between an outbox and the sender, or send them.
LEMMA ForgettingSafe ==
    ASSUME TypeInv, TypeInv', SafeInv, ~ LateRedelivery, LogStep,
           \A p \in Requests : ring'[p].state = "reserved" <=> ring[p].state = "reserved",
           \A o \in Objects : heap'[o] # Nothing =>
              /\ heap[o] # Nothing /\ heap'[o].id = heap[o].id
              /\ heap'[o].handler = heap[o].handler
              /\ heap'[o].finished = heap[o].finished
              /\ heap'[o].terminal = heap[o].terminal,
           \A p \in Requests : runs'[p] # Nothing => runs'[p] = runs[p],
           \A p \in Requests : runs[p] # Nothing /\ runs'[p] = Nothing =>
              /\ \A o \in Objects : Active(o) => heap[o].id # p
              /\ ring[p].state # "reserved" \/ p \in inherited
              /\ sender' # Idle => p \in settled' /\ ring[p].state # "reserved",
           \/ sender' = Idle
           \/ /\ sender # Idle /\ sender'.obj = sender.obj
              /\ sender'.at = "removing" =>
                    heap[sender.obj].finished /\ heap[sender.obj].terminal = Nothing,
           \A p \in Requests, m \in Recorded : Voice(p, m)' => Voice(p, m),
           settled \subseteq settled', UNCHANGED <<disagreed, inherited, denied, spent, preCanceled>>,
           \A p \in Requests : executions'[p] \in {executions[p], 0}
    PROVE  SafeInv'
<1>1. /\ runs \in [Requests -> Objects \cup {Nothing}]
      /\ runs' \in [Requests -> Objects \cup {Nothing}]
      /\ heap \in [Objects -> RunState \cup {Nothing}]
      /\ sender = Idle \/ (sender \in Carrier /\ heap[sender.obj] # Nothing)
      /\ sender' = Idle \/ (sender' \in Carrier /\ heap'[sender'.obj] # Nothing)
      /\ Nothing \notin Objects
  BY NothingAssumption DEF TypeInv, ObjectTypes
<1>2. \A o \in Objects : heap[o] # Nothing => heap[o].id \in Requests
  BY <1>1 DEF RunState
<1>3. OwnerInv'
  <2>1. ASSUME NEW o \in Objects, Active(o)'
        PROVE  /\ runs'[heap'[o].id] = o /\ ~ heap'[o].finished /\ heap'[o].terminal = Nothing
               /\ ring'[heap'[o].id].state = "reserved"
               /\ heap'[o].handler = "gates" => executions'[heap'[o].id] = 0
    <3>1. Active(o) /\ heap[o].id \in Requests
      BY <1>2, <2>1 DEF Active
    <3>2. /\ runs[heap[o].id] = o /\ ~ heap[o].finished /\ heap[o].terminal = Nothing
          /\ ring[heap[o].id].state = "reserved"
          /\ heap[o].handler = "gates" => executions[heap[o].id] = 0
      BY <3>1 DEF SafeInv, OwnerInv
    <3>3. runs'[heap[o].id] = o
      BY <1>1, <3>1, <3>2
    <3> QED BY <2>1, <3>1, <3>2, <3>3 DEF Active
  <2> QED BY <2>1 DEF OwnerInv
<1>4. SenderInv'
  <2>1. SUFFICES ASSUME sender' # Idle
                 PROVE  SenderInv'
    BY DEF SenderInv
  <2> DEFINE t == heap[sender.obj]
             u == heap'[sender'.obj]
  <2>2. /\ sender # Idle /\ sender'.obj = sender.obj /\ sender.obj \in Objects
        /\ u # Nothing
    BY <1>1, <2>1 DEF Carrier
  <2>3. u.id = t.id /\ u.finished = t.finished /\ u.terminal = t.terminal /\ t.id \in Requests
    BY <1>2, <2>2
  <2>4. runs[t.id] = sender.obj \/ (t.id \in settled /\ ring[t.id].state # "reserved")
    BY <2>2 DEF SafeInv, SenderInv
  <2>5. sender'.at = "removing" => t.finished /\ t.terminal = Nothing
    BY <2>1
  <2> HIDE DEF t
  <2>6. \/ runs'[t.id] = sender.obj
        \/ t.id \in settled' /\ ring'[t.id].state # "reserved"
    BY <1>1, <2>1, <2>2, <2>3, <2>4
  <2> QED BY <2>2, <2>3, <2>5, <2>6 DEF SenderInv
<1>5. LogInv'
  BY LogInvKept
<1>6. VoiceInv'
  BY VoiceInvKept
<1>7. DeniedInv'
  <2>1. \A o \in Objects : Active(o)' => heap'[o].id \notin (denied \ spent)'
    BY DEF Active, SafeInv, DeniedInv, CancelHolds
  <2>2. \A p \in (denied \ spent)' : PreCanceled(p)'
    BY DEF SafeInv, DeniedInv, PreCanceled
  <2> QED BY <2>1, <2>2 DEF DeniedInv, CancelHolds
<1>8. ReservationOwned'
  <2>1. ASSUME NEW p \in Requests, ring[p].state = "reserved", p \notin inherited
        PROVE  /\ runs'[p] # Nothing
               /\ heap'[runs'[p]].handler # "none" \/ heap'[runs'[p]].terminal # Nothing
    <3>1. /\ runs[p] # Nothing /\ runs[p] \in Objects
          /\ heap[runs[p]].handler # "none" \/ heap[runs[p]].terminal # Nothing
          /\ heap[runs[p]] # Nothing
      BY <1>1, <2>1 DEF SafeInv, ReservationOwned, Mapped, TypeInv, ObjectTypes
    <3>2. runs'[p] = runs[p] /\ runs'[p] # Nothing
      BY <2>1, <3>1
    <3>3. heap'[runs[p]] # Nothing
      BY <3>2 DEF TypeInv, ObjectTypes, Mapped
    <3> QED BY <3>1, <3>2, <3>3
  <2> QED BY <2>1 DEF ReservationOwned, Mapped
<1>9. AtMostOnce' /\ OneOutcome'
  BY DEF SafeInv, AtMostOnce, OneOutcome, TypeInv, PlainTypes
<1> QED BY <1>3, <1>4, <1>5, <1>6, <1>7, <1>8, <1>9 DEF SafeInv

LEMMA AcknowledgedRecords ==
    ASSUME TypeInv, NEW q \in Requests, ring[q].state = "completed"
    PROVE  /\ Acknowledged(q) \in Records
           /\ Acknowledged(q)[q].state = "acknowledged"
           /\ Acknowledged(q)[q].result = ring[q].result
           /\ \A p \in Requests \ {q} : Acknowledged(q)[p] = ring[p]
<1>1. ring \in [Requests -> Record] /\ \A p \in Requests : Shaped(ring[p])
  BY DEF TypeInv, LogTypes, Records
<1> DEFINE e == [ring[q] EXCEPT !.state = "acknowledged"]
<1>2. e \in Record /\ Shaped(e) /\ e.state = "acknowledged" /\ e.result = ring[q].result
  BY <1>1 DEF Record, Shaped
<1>3. Acknowledged(q) = [ring EXCEPT ![q] = e]
  BY <1>1 DEF Acknowledged
<1> HIDE DEF e
<1>4. /\ Acknowledged(q) \in [Requests -> Record] /\ Acknowledged(q)[q] = e
      /\ \A p \in Requests \ {q} : Acknowledged(q)[p] = ring[p]
  BY <1>1, <1>2, <1>3
<1> QED BY <1>1, <1>2, <1>4 DEF Records

LEMMA AckFailsStep ==
    ASSUME TypeInv, NEW q \in Requests, AckFails(q)
    PROVE  TypeInv' /\ (SafeInv /\ ~ LateRedelivery => SafeInv')
<1>1. /\ ring[q].state = "completed" /\ ~ Wedged /\ CommitFails(Acknowledged(q))
      /\ owed' = owed \ {q} /\ settled' = settled \cup {q} /\ Still
      /\ UNCHANGED <<preCanceled, finalizeRetries, closing, session, answering, executions,
                     reported, disagreed, inherited, denied, spent, orphaned>>
  BY DEF AckFails, Acked, client, history, Still
<1>2. ring' = ring /\ (limbo' = limbo \/ limbo' = Acknowledged(q))
  BY <1>1 DEF CommitFails
<1>3. LogStep
  <2>1. CASE limbo' = limbo
    BY <1>2, <2>1, LogUnchanged DEF log
  <2>2. CASE limbo' = Acknowledged(q)
    <3>1. \A p \in Requests : /\ Follows(ring[p], limbo'[p], p)
                              /\ ring'[p].state \in {"reserved", "completed"} => limbo'[p].state # "none"
                              /\ Follows(ring[p], ring'[p], p)
      BY <1>1, <1>2, <2>2, AcknowledgedRecords DEF Follows
    <3> QED BY <1>1, <1>2, <2>2, <3>1, AcknowledgedRecords DEF LogStep, TypeInv, LogTypes
  <2> QED BY <1>2, <2>1, <2>2
<1>4. TypeInv'
  <2>1. ObjectTypes'
    BY <1>1 DEF Still, TypeInv, ObjectTypes, Mapped
  <2>2. PlainTypes'
    BY <1>1 DEF TypeInv, PlainTypes
  <2> QED BY <1>3, <2>1, <2>2, LogStepTypes DEF TypeInv
<1>5. ASSUME SafeInv, ~ LateRedelivery
      PROVE  SafeInv'
  <2>1. \A p \in (denied \ spent)' : PreCanceled(p)' /\ p \in denied \ spent
    BY <1>1, <1>5 DEF SafeInv, DeniedInv, PreCanceled
  <2> QED BY <1>1, <1>2, <1>3, <1>4, <1>5, <2>1, SameObjectsSafe DEF Still
<1> QED BY <1>4, <1>5

\* What removeRun leaves.
LEMMA RemovedObjects ==
    ASSUME TypeInv, NEW q \in Requests, NEW snd, RemoveRun(q, snd), snd = sender',
           sender' = sender \/ sender' = Idle
    PROVE  /\ ObjectTypes'
           /\ runs'[q] = Nothing /\ \A p \in Requests \ {q} : runs'[p] = runs[p]
           /\ \A o \in Objects : heap'[o] \in {heap[o], Nothing}
<1>1. /\ runs \in [Requests -> Objects \cup {Nothing}]
      /\ heap \in [Objects -> RunState \cup {Nothing}]
      /\ sender = Idle \/ (sender \in Carrier /\ heap[sender.obj] # Nothing)
  BY DEF TypeInv, ObjectTypes
<1>2. runs' = [runs EXCEPT ![q] = Nothing] /\ heap' = Live(heap, runs', sender')
  BY DEF RemoveRun
<1>3. /\ runs' \in [Requests -> Objects \cup {Nothing}]
      /\ runs'[q] = Nothing /\ \A p \in Requests \ {q} : runs'[p] = runs[p]
  BY <1>1, <1>2
<1>4. \A p \in Requests : Mapped(p)' => heap[runs'[p]] # Nothing /\ heap[runs'[p]].id = p
  BY <1>3 DEF Mapped, TypeInv, ObjectTypes
<1>5. sender' = Idle \/ (sender' \in Carrier /\ heap[sender'.obj] # Nothing)
  BY <1>1
<1>6. ObjectTypes'
  BY <1>1, <1>2, <1>3, <1>4, <1>5, LiveTypes
<1>7. \A o \in Objects : heap'[o] \in {heap[o], Nothing}
  BY <1>1, <1>2, LiveObjects
<1> QED BY <1>3, <1>6, <1>7

\* No voice is raised where objects are only forgotten.
LEMMA ForgottenVoices ==
    ASSUME TypeInv, TypeInv', \A o \in Objects : heap'[o] \in {heap[o], Nothing},
           sender' = sender \/ sender' = Idle, reported' = reported
    PROVE  \A p \in Requests, m \in Recorded : Voice(p, m)' => Voice(p, m)
<1>1. ASSUME NEW p \in Requests, NEW m \in Recorded, Voice(p, m)'
      PROVE  Voice(p, m)
  <2>1. CASE reported'[p] = m
    BY <2>1 DEF Voice
  <2>2. ASSUME NEW o \in Objects, heap'[o] # Nothing, heap'[o].id = p, Says(o, m)'
        PROVE  Voice(p, m)
    <3>1. heap'[o] = heap[o]
      BY <2>2
    <3>2. Says(o, m)
      BY <2>2, <3>1 DEF Says
    <3> QED BY <2>2, <3>1, <3>2 DEF Voice
  <2> QED BY <1>1, <2>1, <2>2 DEF Voice
<1> QED BY <1>1

LEMMA AckRunStep ==
    ASSUME TypeInv, NEW q \in Requests, AckRun(q)
    PROVE  TypeInv' /\ (SafeInv /\ ~ LateRedelivery => SafeInv')
<1>1. /\ ~ Wedged /\ ring[q].state # "reserved"
      /\ IF ring[q].state = "completed" THEN Commit(Acknowledged(q)) ELSE UNCHANGED log
      /\ owed' = owed \ {q} /\ settled' = settled \cup {q}
      /\ finalizeRetries' = finalizeRetries \ {q}
      /\ RemoveRun(q, sender)
      /\ executions' = [executions EXCEPT ![q] = 0]
      /\ UNCHANGED <<preCanceled, closing, session, sender, answering, reported, disagreed,
                     inherited, denied, spent, orphaned>>
  BY DEF AckRun, Acked
<1>2. LogStep /\ \A p \in Requests : ring'[p].state = "reserved" <=> ring[p].state = "reserved"
  <2>1. CASE ring[q].state = "completed"
    <3>1. ring' = Acknowledged(q) /\ limbo' = limbo
      BY <1>1, <2>1 DEF Commit
    <3>2. \A p \in Requests : Follows(ring[p], ring'[p], p)
      BY <1>1, <2>1, <3>1, AcknowledgedRecords DEF Follows
    <3> QED BY <1>1, <2>1, <3>1, <3>2, AcknowledgedRecords DEF LogStep
  <2>2. CASE ring[q].state # "completed"
    BY <1>1, <2>2, LogUnchanged DEF log
  <2> QED BY <2>1, <2>2
<1>3. /\ ObjectTypes'
      /\ runs'[q] = Nothing /\ \A p \in Requests \ {q} : runs'[p] = runs[p]
      /\ \A o \in Objects : heap'[o] \in {heap[o], Nothing}
  BY <1>1, RemovedObjects
<1>4. TypeInv'
  <2>1. PlainTypes'
    BY <1>1 DEF TypeInv, PlainTypes
  <2> QED BY <1>2, <1>3, <2>1, LogStepTypes DEF TypeInv
<1>5. ASSUME SafeInv, ~ LateRedelivery
      PROVE  SafeInv'
  <2>1. \A p \in Requests, m \in Recorded : Voice(p, m)' => Voice(p, m)
    BY <1>1, <1>3, <1>4, ForgottenVoices
  <2>2. \A o \in Objects : Active(o) => heap[o].id # q
    BY <1>1, <1>5 DEF SafeInv, OwnerInv
  <2>3. \A p \in Requests : executions'[p] \in {executions[p], 0}
    BY <1>1 DEF TypeInv, PlainTypes
  <2>4. sender # Idle /\ sender.at = "removing" =>
          heap[sender.obj].finished /\ heap[sender.obj].terminal = Nothing
    BY <1>5 DEF SafeInv, SenderInv
  <2>5. \A o \in Objects : heap'[o] # Nothing => heap'[o] = heap[o] /\ heap[o] # Nothing
    BY <1>3
  <2> QED BY <1>1, <1>2, <1>3, <1>4, <1>5, <2>1, <2>2, <2>3, <2>4, <2>5, ForgettingSafe
<1> QED BY <1>4, <1>5

LEMMA AnswerPendingStep ==
    ASSUME TypeInv, AnswerPending
    PROVE  TypeInv' /\ (SafeInv /\ ~ LateRedelivery => SafeInv')
<1> DEFINE q == answering.id
           d == answering.digest
           s == NewState(q, d)
           r == "outcome_unknown"
<1>1. /\ answering # Nothing /\ answering' = Nothing
      /\ UNCHANGED <<preCanceled, finalizeRetries, closing, sender, owed, settled, executions,
                     reported, disagreed, inherited, denied, spent, orphaned>>
  BY DEF AnswerPending, Keeps, cloud, history
<1>2. q \in Requests /\ d \in Digests
  BY <1>1 DEF TypeInv, PlainTypes
<1>3. CASE session' = "ending" /\ UNCHANGED <<runs, heap, log>>
  <2>1. TypeInv'
    <3>1. ObjectTypes'
      BY <1>1, <1>3 DEF TypeInv, ObjectTypes, Mapped
    <3>2. PlainTypes'
      BY <1>1, <1>3 DEF TypeInv, PlainTypes
    <3> QED BY <1>3, <3>1, <3>2, LogUnchanged, LogStepTypes DEF TypeInv
  <2>2. ASSUME SafeInv, ~ LateRedelivery
        PROVE  SafeInv'
    <3>1. \A p \in (denied \ spent)' : PreCanceled(p)' /\ p \in denied \ spent
      BY <1>1, <2>2 DEF SafeInv, DeniedInv, PreCanceled
    <3> QED BY <1>1, <1>3, <2>1, <2>2, <3>1, LogUnchanged, SameObjectsSafe DEF log
  <2> QED BY <2>1, <2>2
<1>4. ASSUME NEW ok \in BOOLEAN, session' = session, ~ Mapped(q),
             Complete(s, r, ok), Install(q, Finished(s, r, ok))
      PROVE  TypeInv' /\ (SafeInv /\ ~ LateRedelivery => SafeInv')
  <2> DEFINE g == Finished(s, r, ok)
  <2>1. /\ s \in RunState /\ s.id = q /\ s.handler = "none"
        /\ \A m : ~ Contains(s.pending, m)
    BY <1>2, NewStateType
  <2>2. r \in Recorded /\ r # Nothing
    BY NothingAssumption DEF Recorded
  <2> HIDE DEF s, r, q
  <2>3. /\ g \in RunState /\ g.id = q /\ g.finished /\ g.handler = "none"
        /\ ok => g.terminal = Nothing
        /\ ~ ok => g.terminal = r
        /\ \A m : Contains(g.pending, m) => ok /\ m = r
    BY <2>1, <2>2, FinishedObject
  <2>4. /\ LogStep
        /\ \A p \in Requests \ {q} : ring'[p] = ring[p]
        /\ ok => /\ ring'[q].state \in {"completed", "acknowledged"}
                 /\ ring'[q].result = r /\ limbo' = Nothing
    BY <1>4, <2>1, <2>2, CompleteStep
  <2>5. Installed(q, g)
    BY <1>1, <1>2, <1>4, InstallInstalls
  <2> HIDE DEF g
  <2>6. TypeInv'
    <3>1. ObjectTypes'
      BY <1>2, <2>3, <2>5, InstalledTypes
    <3>2. PlainTypes'
      BY <1>1, <1>4 DEF TypeInv, PlainTypes
    <3> QED BY <2>4, <3>1, <3>2, LogStepTypes DEF TypeInv
  <2>7. ASSUME SafeInv, ~ LateRedelivery
        PROVE  SafeInv'
    <3>1. \A p \in (denied \ spent)' : PreCanceled(p)'
      BY <1>1, <2>7 DEF SafeInv, DeniedInv, PreCanceled
    <3>2. ring'[q].state = "reserved" => g.terminal # Nothing
      BY <2>2, <2>3, <2>4
    <3>3. \A m \in Recorded : Contains(g.pending, m) =>
            /\ ring'[q].state \in {"completed", "acknowledged"} /\ ring'[q].result = m
            /\ ~ Wedged'
      BY <2>3, <2>4 DEF Wedged
    <3>4. \A p \in Requests : reported'[p] \in {reported[p], Nothing}
      BY <1>1
    <3> QED BY <1>1, <1>2, <2>3, <2>4, <2>5, <2>6, <2>7, <3>1, <3>2, <3>3, <3>4, InstalledSafe
  <2> QED BY <2>6, <2>7
<1> HIDE DEF s, r
<1>5. \/ session' = "ending" /\ UNCHANGED <<runs, heap, log>>
      \/ /\ session' = session /\ ~ Mapped(q)
         /\ \E ok \in BOOLEAN : Complete(s, r, ok) /\ Install(q, Finished(s, r, ok))
  BY DEF AnswerPending, EndSession, s, r
<1> QED BY <1>3, <1>4, <1>5

\* The record of a dispatch that was cancelled first.
Completed(r, q) == [r EXCEPT ![q].state = "completed", ![q].result = "cancelled"]

LEMMA CancelledRecords ==
    ASSUME NEW r \in Records, NEW q \in Requests
    PROVE  /\ Completed(r, q) \in Records
           /\ Completed(r, q)[q].state = "completed" /\ Completed(r, q)[q].result = "cancelled"
           /\ \A p \in Requests \ {q} : Completed(r, q)[p] = r[p]
<1> DEFINE next == Completed(r, q)
<1>1. r \in [Requests -> Record] /\ \A p \in Requests : Shaped(r[p])
  BY DEF Records
<1> DEFINE e == [r[q] EXCEPT !.state = "completed", !.result = "cancelled"]
<1>2. e \in Record /\ Shaped(e) /\ e.state = "completed" /\ e.result = "cancelled"
  BY <1>1 DEF Record, Shaped, Recorded
<1>3. next = [r EXCEPT ![q] = e]
  BY <1>1 DEF Record, Completed
<1> HIDE DEF e, next
<1>4. /\ next \in [Requests -> Record] /\ next[q] = e
      /\ \A p \in Requests \ {q} : next[p] = r[p]
  BY <1>1, <1>2, <1>3
<1> QED BY <1>1, <1>2, <1>4 DEF Records, next

LEMMA CancelBeforeStartStep ==
    ASSUME TypeInv, NEW q \in Requests, NEW d \in Digests, CancelBeforeStart(q, d)
    PROVE  TypeInv' /\ (SafeInv /\ ~ LateRedelivery => SafeInv')
<1> DEFINE s == NewState(q, d)
           r == "cancelled"
<1>1. /\ Unknown(q) /\ ConsumePreCancel(q)
      /\ reported' = [reported EXCEPT ![q] = Nothing] /\ denied' = denied \ {q}
      /\ spent' = spent \ {q} /\ UNCHANGED orphaned
      /\ UNCHANGED <<answering, session, finalizeRetries, closing, sender, owed, settled,
                     executions, disagreed, inherited>>
  BY DEF CancelBeforeStart, Admitted, Keeps, cloud
<1>2. PICK reserved \in Reservations(q, d), ok \in BOOLEAN :
        /\ IF ok THEN Commit(Completed(reserved, q))
           ELSE /\ ring' = reserved
                /\ limbo' = limbo \/ limbo' = Completed(reserved, q)
        /\ Install(q, Finished(s, r, ok))
  BY DEF CancelBeforeStart, Completed
<1> DEFINE next == Completed(reserved, q)
           g == Finished(s, r, ok)
<1>3. ring[q].state = "none" /\ ~ Wedged /\ (q \in settled => LateRedelivery) /\ ~ Mapped(q)
  BY <1>1 DEF Unknown, Dispatched
<1>4. /\ reserved \in Records /\ reserved[q].state = "reserved"
      /\ \A p \in Requests \ {q} :
            \/ reserved[p] = ring[p]
            \/ ring[p].state = "acknowledged" /\ reserved[p].state = "none"
  BY <1>2, <1>3, ReservationRecords
<1>5. /\ next \in Records /\ next[q].state = "completed" /\ next[q].result = r
      /\ \A p \in Requests \ {q} : next[p] = reserved[p]
  BY <1>4, CancelledRecords
<1>6. r \in Recorded /\ r # Nothing
  BY NothingAssumption DEF Recorded
<1>7. s \in RunState /\ s.id = q /\ s.handler = "none" /\ \A m : ~ Contains(s.pending, m)
  BY NewStateType
<1>8. IF ok THEN ring' = next /\ limbo' = limbo
      ELSE ring' = reserved /\ (limbo' = limbo \/ limbo' = next)
  BY <1>2 DEF Commit
<1> HIDE DEF next, r, s
<1>9. /\ g \in RunState /\ g.id = q /\ g.finished /\ g.handler = "none"
      /\ ~ ok => g.terminal = r
      /\ \A m : Contains(g.pending, m) => ok /\ m = r
  BY <1>6, <1>7, FinishedObject
<1>10. Installed(q, g)
  BY <1>1, <1>2, <1>3, InstallInstalls
<1> HIDE DEF g
<1>11. \A p \in Requests : Follows(ring[p], reserved[p], p) /\ Follows(ring[p], next[p], p)
  BY <1>3, <1>4, <1>5 DEF Follows
<1>12. \A p \in Requests : reserved[p].state \in {"reserved", "completed"} => next[p].state # "none"
  BY <1>4, <1>5
<1>13. LogStep
  <2>1. CASE ok
    BY <1>3, <1>5, <1>8, <1>11, <2>1 DEF LogStep
  <2>2. CASE ~ ok
    BY <1>3, <1>4, <1>5, <1>8, <1>11, <1>12, <2>2 DEF LogStep
  <2> QED BY <2>1, <2>2
<1>14. \A p \in Requests \ {q} : ring[p].state = "reserved" <=> ring'[p].state = "reserved"
  BY <1>4, <1>5, <1>8
<1>15. TypeInv'
  <2>1. ObjectTypes'
    BY <1>9, <1>10, InstalledTypes
  <2>2. PlainTypes'
    BY <1>1, ConsumeKeeps DEF TypeInv, PlainTypes
  <2> QED BY <1>13, <2>1, <2>2, LogStepTypes DEF TypeInv
<1>16. ASSUME SafeInv, ~ LateRedelivery
       PROVE  SafeInv'
  <2>1. \A p \in (denied \ spent)' : PreCanceled(p)'
    BY <1>1, <1>16, ConsumeKeeps DEF TypeInv, PlainTypes, SafeInv, DeniedInv
  <2>2. ring'[q].state = "reserved" => g.terminal # Nothing
    BY <1>5, <1>6, <1>8, <1>9
  <2>3. \A m \in Recorded : Contains(g.pending, m) =>
          /\ ring'[q].state \in {"completed", "acknowledged"} /\ ring'[q].result = m
          /\ ~ Wedged'
    BY <1>3, <1>5, <1>8, <1>9 DEF Wedged
  <2>4. \A p \in Requests : reported'[p] \in {reported[p], Nothing}
    BY <1>1 DEF TypeInv, PlainTypes
  <2> QED BY <1>1, <1>9, <1>10, <1>13, <1>14, <1>15, <1>16, <2>1, <2>2, <2>3, <2>4, InstalledSafe
<1> QED BY <1>15, <1>16

\* A handler is started for an id the log has no record of: it was not executed, and
\* has no tombstone.
LEMMA StartRunStep ==
    ASSUME TypeInv, NEW q \in Requests, NEW d \in Digests, StartRun(q, d)
    PROVE  TypeInv' /\ (SafeInv /\ ~ LateRedelivery => SafeInv')
<1> DEFINE n == NewState(q, d)
           s == [n EXCEPT !.handler = "gates"]
<1>1. /\ Unknown(q) /\ ~ PreCanceled(q)
      /\ reported' = [reported EXCEPT ![q] = Nothing]
      /\ UNCHANGED <<preCanceled, answering, session, finalizeRetries, closing, sender, owed,
                     settled, executions, disagreed, inherited, denied, spent, orphaned>>
      /\ Install(q, s)
  BY DEF StartRun, Admitted, Keeps, cloud
<1>2. PICK reserved \in Reservations(q, d) : ring' = reserved /\ limbo' = limbo
  BY DEF StartRun, Commit
<1>3. ring[q].state = "none" /\ ~ Wedged /\ (q \in settled => LateRedelivery) /\ ~ Mapped(q)
  BY <1>1 DEF Unknown, Dispatched
<1>4. /\ reserved \in Records /\ reserved[q].state = "reserved"
      /\ \A p \in Requests \ {q} :
            \/ reserved[p] = ring[p]
            \/ ring[p].state = "acknowledged" /\ reserved[p].state = "none"
  BY <1>3, ReservationRecords
<1>5. /\ n \in RunState /\ n.id = q /\ ~ n.finished /\ n.terminal = Nothing
      /\ \A m : ~ Contains(n.pending, m)
  BY NewStateType
<1> HIDE DEF n
<1>6. /\ s \in RunState /\ s.id = q /\ ~ s.finished /\ s.handler = "gates"
      /\ s.pending = n.pending /\ s.terminal = Nothing
  BY <1>5 DEF RunState
<1> HIDE DEF s
<1>7. Installed(q, s)
  BY <1>1, <1>3, InstallInstalls
<1>8. LogStep
  <2>1. \A p \in Requests : Follows(ring[p], ring'[p], p)
    BY <1>2, <1>3, <1>4 DEF Follows
  <2> QED BY <1>2, <1>3, <1>4, <2>1 DEF LogStep
<1>9. TypeInv'
  <2>1. ObjectTypes'
    BY <1>6, <1>7, InstalledTypes
  <2>2. PlainTypes'
    BY <1>1 DEF TypeInv, PlainTypes
  <2> QED BY <1>8, <2>1, <2>2, LogStepTypes DEF TypeInv
<1>10. ASSUME SafeInv, ~ LateRedelivery
       PROVE  SafeInv'
  <2>1. \A p \in (denied \ spent)' : PreCanceled(p)'
    BY <1>1, <1>10 DEF SafeInv, DeniedInv, PreCanceled
  <2>2. executions[q] = 0
    BY <1>3, <1>10 DEF SafeInv, LogInv, Sound
  <2>3. q \notin (denied \ spent)'
    BY <1>1, <1>10 DEF SafeInv, DeniedInv
  <2>4. \A p \in Requests : reported'[p] \in {reported[p], Nothing}
    BY <1>1 DEF TypeInv, PlainTypes
  <2>5. \A p \in Requests \ {q} : ring[p].state = "reserved" <=> ring'[p].state = "reserved"
    BY <1>2, <1>4
  <2>6. \A m : ~ Contains(s.pending, m)
    BY <1>5, <1>6
  <2> QED BY <1>1, <1>2, <1>4, <1>6, <1>7, <1>8, <1>9, <1>10, <2>1, <2>2, <2>3, <2>4, <2>5, <2>6,
             InstalledSafe
<1> QED BY <1>9, <1>10

-----------------------------------------------------------------------------
(* Handlers. *)

\* Two handlers never work for the same id.
LEMMA OneHandler ==
    ASSUME SafeInv, NEW o \in Objects, NEW p \in Objects, Active(o), Active(p), o # p
    PROVE  heap[o].id # heap[p].id
BY DEF SafeInv, OwnerInv

LEMMA PassGatesStep ==
    ASSUME TypeInv, NEW x \in Objects, PassGates(x)
    PROVE  TypeInv' /\ (SafeInv /\ ~ LateRedelivery => SafeInv')
<1> DEFINE f == heap[x]
           q == f.id
           n == Append(f.pending, "started")
           g == [f EXCEPT !.handler = "engine", !.started = TRUE, !.pending = n]
<1>1. /\ Active(x) /\ f.handler = "gates"
      /\ heap' = [heap EXCEPT ![x].handler = "engine", ![x].started = TRUE,
                              ![x].pending = Append(@, "started")]
      /\ executions' = [executions EXCEPT ![q] = IF @ = 0 THEN 1 ELSE 2]
      /\ UNCHANGED <<runs, preCanceled, finalizeRetries, closing, session, sender, answering,
                     log, owed, settled, reported, disagreed, inherited, denied, spent, orphaned>>
  BY DEF PassGates, cloud
<1>2. f \in RunState /\ heap \in [Objects -> RunState \cup {Nothing}] /\ f # Nothing
  BY <1>1 DEF TypeInv, ObjectTypes, Active
<1>3. "started" \in Messages /\ "started" \notin Recorded /\ f.pending \in Seq(Messages)
      /\ q \in Requests
  BY <1>2 DEF Messages, Recorded, RunState
<1>4. /\ n \in Seq(Messages)
      /\ \A m \in Recorded : Contains(n, m) => Contains(f.pending, m)
  BY <1>3, AppendContains
<1>5. heap' = [heap EXCEPT ![x] = g]
  BY <1>1, <1>2
<1> HIDE DEF n
<1>6. /\ g \in RunState /\ g.id = q /\ g.handler = "engine" /\ g.terminal = f.terminal
      /\ g.finished = f.finished /\ g.pending = n /\ g # Nothing
  <2>1. /\ g \in RunState /\ g.id = q /\ g.handler = "engine" /\ g.terminal = f.terminal
        /\ g.finished = f.finished /\ g.pending = n
    BY <1>2, <1>4 DEF RunState
  <2> QED BY <2>1, NothingAssumption
<1> HIDE DEF g
<1>7. /\ heap' \in [Objects -> RunState \cup {Nothing}] /\ heap'[x] = g
      /\ \A o \in Objects \ {x} : heap'[o] = heap[o]
  BY <1>2, <1>6, <1>5
<1>8. \A o \in Objects : /\ heap[o] = Nothing <=> heap'[o] = Nothing
                         /\ heap[o] # Nothing => heap'[o].id = heap[o].id
  BY <1>2, <1>6, <1>7
<1>9. /\ executions \in [Requests -> {0, 1, 2}] /\ executions' \in [Requests -> {0, 1, 2}]
      /\ \A p \in Requests \ {q} : executions'[p] = executions[p]
      /\ executions[q] = 0 => executions'[q] = 1
  BY <1>1, <1>3 DEF TypeInv, PlainTypes
<1>10. TypeInv'
  <2>1. ObjectTypes'
    BY <1>1, <1>7, <1>8 DEF TypeInv, ObjectTypes, Mapped, Carrier
  <2>2. PlainTypes'
    BY <1>1, <1>9 DEF TypeInv, PlainTypes
  <2> QED BY <1>1, <2>1, <2>2, LogUnchanged, LogStepTypes DEF TypeInv
<1>11. ASSUME SafeInv, ~ LateRedelivery
       PROVE  SafeInv'
  <2>1. /\ runs[q] = x /\ ~ f.finished /\ f.terminal = Nothing /\ ring[q].state = "reserved"
        /\ executions[q] = 0
    BY <1>1, <1>11 DEF SafeInv, OwnerInv
  <2> HIDE DEF q, f
  <2>2. OwnerInv'
    <3>1. ASSUME NEW o \in Objects, o # x, Active(o)'
          PROVE  /\ runs'[heap'[o].id] = o /\ ~ heap'[o].finished /\ heap'[o].terminal = Nothing
                 /\ ring'[heap'[o].id].state = "reserved"
                 /\ heap'[o].handler = "gates" => executions'[heap'[o].id] = 0
      <4>1. Active(o) /\ heap'[o] = heap[o] /\ heap[o].id \in Requests
        BY <1>2, <1>7, <3>1 DEF Active, RunState
      <4>2. heap[o].id # q
        BY <1>1, <1>11, <3>1, <4>1, OneHandler DEF q, f
      <4>3. /\ runs[heap[o].id] = o /\ ~ heap[o].finished /\ heap[o].terminal = Nothing
            /\ ring[heap[o].id].state = "reserved"
            /\ heap[o].handler = "gates" => executions[heap[o].id] = 0
        BY <1>11, <4>1 DEF SafeInv, OwnerInv
      <4> QED BY <1>1, <1>9, <4>1, <4>2, <4>3 DEF log
    <3>2. /\ runs'[heap'[x].id] = x /\ ~ heap'[x].finished /\ heap'[x].terminal = Nothing
          /\ ring'[heap'[x].id].state = "reserved" /\ heap'[x].handler # "gates"
      BY <1>1, <1>6, <1>7, <2>1 DEF log
    <3> QED BY <3>1, <3>2 DEF OwnerInv
  <2>3. SenderInv'
    <3>1. \A o \in Objects : heap[o] # Nothing =>
            heap'[o].finished = heap[o].finished /\ heap'[o].terminal = heap[o].terminal
      BY <1>6, <1>7 DEF f
    <3>2. sender # Idle => sender.obj \in Objects /\ heap[sender.obj] # Nothing
      BY DEF TypeInv, ObjectTypes, Carrier
    <3>3. sender # Idle =>
            /\ \/ runs[heap[sender.obj].id] = sender.obj
               \/ heap[sender.obj].id \in settled /\ ring[heap[sender.obj].id].state # "reserved"
            /\ sender.at = "removing" => heap[sender.obj].finished /\ heap[sender.obj].terminal = Nothing
      BY <1>11 DEF SafeInv, SenderInv
    <3>4. runs' = runs /\ ring' = ring /\ settled' = settled /\ sender' = sender
      BY <1>1 DEF log
    <3> QED BY <1>8, <3>1, <3>2, <3>3, <3>4 DEF SenderInv
  <2>4. LogInv'
    <3>1. ring' = ring /\ limbo' = limbo /\ settled' = settled
      BY <1>1 DEF log
    <3>2. ASSUME NEW p \in Requests
          PROVE  /\ Sound(ring[p], p)
                 /\ Wedged => /\ Sound(limbo[p], p)
                              /\ ring[p].state \in {"reserved", "completed"} => limbo[p].state # "none"
      BY <1>11 DEF SafeInv, LogInv
    <3>3. ASSUME NEW p \in Requests, NEW rec, Sound(rec, p), p = q => rec.state # "none"
          PROVE  Sound(rec, p)'
      <4>1. p # q => executions'[p] = executions[p]
        BY <1>9
      <4>2. rec.state = "none" => p # q
        BY <3>3
      <4> QED BY <3>1, <3>3, <4>1, <4>2 DEF Sound
    <3>4. \A p \in Requests : Sound(ring[p], p)'
      BY <2>1, <3>1, <3>2, <3>3
    <3>5. ASSUME NEW p \in Requests, Wedged
          PROVE  Sound(limbo[p], p)'
      BY <2>1, <3>1, <3>2, <3>3, <3>5
    <3>6. Wedged' <=> Wedged
      BY <3>1 DEF Wedged
    <3> QED BY <3>1, <3>2, <3>4, <3>5, <3>6 DEF LogInv
  <2>5. VoiceInv'
    <3>1. ASSUME NEW p \in Requests, NEW m \in Recorded, Voice(p, m)'
          PROVE  Voice(p, m)
      <4>1. CASE reported'[p] = m
        BY <1>1, <4>1 DEF Voice
      <4>2. ASSUME NEW o \in Objects, heap'[o] # Nothing, heap'[o].id = p, Says(o, m)'
            PROVE  Voice(p, m)
        <5>1. heap[o] # Nothing /\ heap[o].id = p
          BY <1>8, <4>2
        <5>2. Contains(heap'[o].pending, m) => Contains(heap[o].pending, m)
          BY <1>4, <1>6, <1>7 DEF f
        <5> QED BY <1>1, <4>2, <5>1, <5>2 DEF Voice, Says
      <4> QED BY <3>1, <4>1, <4>2 DEF Voice
    <3> QED BY <1>1, <1>11, <3>1, LogUnchanged, VoiceInvKept
  <2>6. DeniedInv'
    <3>1. \A o \in Objects : Active(o)' => Active(o) /\ heap'[o].id = heap[o].id
      BY <1>1, <1>7, <1>8 DEF Active
    <3>2. denied' = denied /\ spent' = spent /\ preCanceled' = preCanceled
      BY <1>1
    <3>3. /\ \A p \in denied \ spent : PreCanceled(p)
          /\ \A o \in Objects : Active(o) => heap[o].id \notin denied \ spent
      BY <1>11 DEF SafeInv, DeniedInv, CancelHolds
    <3>4. \A p \in (denied \ spent)' : PreCanceled(p)'
      BY <3>2, <3>3 DEF PreCanceled
    <3>5. \A o \in Objects : Active(o)' => heap'[o].id \notin (denied \ spent)'
      BY <3>1, <3>2, <3>3
    <3> QED BY <3>4, <3>5 DEF DeniedInv, CancelHolds
  <2>7. ReservationOwned'
    <3>1. \A o \in Objects : heap[o] # Nothing /\ (heap[o].handler # "none" \/ heap[o].terminal # Nothing)
            => heap'[o].handler # "none" \/ heap'[o].terminal # Nothing
      BY <1>6, <1>7
    <3>2. \A p \in Requests : Mapped(p) => runs[p] \in Objects /\ heap[runs[p]] # Nothing
      BY DEF TypeInv, ObjectTypes, Mapped
    <3> QED BY <1>1, <1>11, <3>1, <3>2 DEF SafeInv, ReservationOwned, Mapped, log
  <2>8. AtMostOnce' /\ OneOutcome'
    BY <1>1, <1>9, <1>11, <2>1 DEF SafeInv, AtMostOnce, OneOutcome
  <2> QED BY <2>2, <2>3, <2>4, <2>5, <2>6, <2>7, <2>8 DEF SafeInv
<1> QED BY <1>10, <1>11

LEMMA FinishRunStep ==
    ASSUME TypeInv, NEW x \in Objects, FinishRun(x)
    PROVE  TypeInv' /\ (SafeInv /\ ~ LateRedelivery => SafeInv')
<1> DEFINE f == heap[x]
           q == f.id
<1>1. PICK r \in HandlerResults(f), ok \in BOOLEAN :
        /\ Complete(f, r, ok)
        /\ heap' = Live([heap EXCEPT ![x] = HandlerDone(Finished(f, r, ok))], runs, sender)
  BY DEF FinishRun
<1>2. /\ Active(x)
      /\ UNCHANGED <<runs, preCanceled, finalizeRetries, closing, session, sender, answering,
                     owed, settled, executions, reported, disagreed, inherited, denied, spent, orphaned>>
  BY DEF FinishRun, cloud, history
<1>3. /\ f \in RunState /\ heap \in [Objects -> RunState \cup {Nothing}] /\ f # Nothing
      /\ q \in Requests /\ r \in Recorded /\ r # Nothing
  BY <1>2, NothingAssumption DEF TypeInv, ObjectTypes, Active, RunState, HandlerResults, Recorded
<1> DEFINE e == Finished(f, r, ok)
           g == HandlerDone(e)
           h == [heap EXCEPT ![x] = g]
<1>4. /\ e \in RunState /\ e.id = q /\ e.finished
      /\ ~ ok => e.terminal = r
      /\ \A m : Contains(e.pending, m) => Contains(f.pending, m) \/ (ok /\ m = r)
  BY <1>3, FinishedObject
<1> HIDE DEF e
<1>5. /\ g \in RunState /\ g.id = q /\ g.finished /\ g.handler = "none" /\ g # Nothing
      /\ g.terminal = e.terminal /\ g.pending = e.pending
  BY <1>4, NothingAssumption DEF HandlerDone, RunState
<1> HIDE DEF g
<1>6. /\ h \in [Objects -> RunState \cup {Nothing}] /\ h[x] = g
      /\ \A o \in Objects \ {x} : h[o] = heap[o]
  BY <1>3, <1>5
<1>7. heap' = Live(h, runs', sender')
  BY <1>1, <1>2 DEF e, g
<1> HIDE DEF h
<1>8. /\ LogStep
      /\ \A p \in Requests \ {q} : ring'[p] = ring[p]
      /\ ok => /\ ring'[q].state \in {"completed", "acknowledged"}
               /\ ring'[q].result = r /\ limbo' = Nothing
  BY <1>1, <1>3, CompleteStep
<1>9. TypeInv'
  <2>1. \A p \in Requests : Mapped(p)' => h[runs'[p]] # Nothing /\ h[runs'[p]].id = p
    BY <1>2, <1>5, <1>6 DEF TypeInv, ObjectTypes, Mapped
  <2>2. sender' = Idle \/ (sender' \in Carrier /\ h[sender'.obj] # Nothing)
    BY <1>2, <1>5, <1>6 DEF TypeInv, ObjectTypes, Carrier
  <2>3. runs' \in [Requests -> Objects \cup {Nothing}]
    BY <1>2 DEF TypeInv, ObjectTypes
  <2>4. ObjectTypes'
    BY <1>6, <1>7, <2>1, <2>2, <2>3, LiveTypes
  <2>5. PlainTypes'
    BY <1>2 DEF TypeInv, PlainTypes
  <2> QED BY <1>8, <2>4, <2>5, LogStepTypes DEF TypeInv
<1>10. ASSUME SafeInv, ~ LateRedelivery
       PROVE  SafeInv'
  <2>1. runs[q] = x /\ ~ f.finished /\ ring[q].state = "reserved"
    BY <1>2, <1>10 DEF SafeInv, OwnerInv
  <2>2. \A o \in Objects : heap'[o] \in {h[o], Nothing}
    BY <1>6, <1>7, LiveObjects
  <2>3. heap'[x] = g
    BY <1>2, <1>3, <1>6, <1>7, <2>1, LiveObjects
  <2>4. \A o \in Objects \ {x} : heap'[o] \in {heap[o], Nothing}
    BY <1>6, <2>2
  <2> HIDE DEF q, f
  <2>5. OwnerInv'
    <3>1. ASSUME NEW o \in Objects, Active(o)'
          PROVE  /\ runs'[heap'[o].id] = o /\ ~ heap'[o].finished /\ heap'[o].terminal = Nothing
                 /\ ring'[heap'[o].id].state = "reserved"
                 /\ heap'[o].handler = "gates" => executions'[heap'[o].id] = 0
      <4>1. o # x /\ Active(o) /\ heap'[o] = heap[o] /\ heap[o].id \in Requests
        BY <1>3, <1>5, <2>3, <2>4, <3>1 DEF Active, RunState
      <4>2. heap[o].id # q
        BY <1>2, <1>10, <4>1, OneHandler DEF q, f
      <4> QED BY <1>2, <1>8, <1>10, <4>1, <4>2 DEF SafeInv, OwnerInv
    <3> QED BY <3>1 DEF OwnerInv
  <2>6. SenderInv'
    <3>1. SUFFICES ASSUME sender # Idle
                   PROVE  SenderInv'
      BY <1>2 DEF SenderInv
    <3>2. /\ sender.obj \in Objects /\ heap'[sender.obj] # Nothing
      BY <1>2, <1>9, <3>1 DEF TypeInv, ObjectTypes, Carrier
    <3>3. /\ \/ runs[heap[sender.obj].id] = sender.obj
             \/ heap[sender.obj].id \in settled /\ ring[heap[sender.obj].id].state # "reserved"
          /\ sender.at = "removing" => heap[sender.obj].finished /\ heap[sender.obj].terminal = Nothing
      BY <1>10, <3>1 DEF SafeInv, SenderInv
    <3>4. CASE sender.obj = x
      <4>1. sender.at # "removing"
        BY <2>1, <3>3, <3>4 DEF f
      <4> QED BY <1>2, <1>5, <2>1, <2>3, <3>4, <4>1 DEF SenderInv
    <3>5. CASE sender.obj # x
      <4>1. heap'[sender.obj] = heap[sender.obj] /\ heap[sender.obj].id \in Requests
        BY <1>3, <2>4, <3>2, <3>5 DEF RunState
      <4>2. ring[heap[sender.obj].id].state # "reserved" => ring'[heap[sender.obj].id].state # "reserved"
        BY <1>8, <2>1, <4>1
      <4> QED BY <1>2, <3>1, <3>3, <4>1, <4>2 DEF SenderInv
    <3> QED BY <3>4, <3>5
  <2>7. LogInv'
    BY <1>2, <1>8, <1>10, LogInvKept
  <2>8. VoiceInv'
    <3>1. ASSUME NEW p \in Requests, NEW m \in Recorded, Voice(p, m)'
          PROVE  \/ Voice(p, m)
                 \/ /\ ring'[p].state \in {"completed", "acknowledged"} /\ ring'[p].result = m
                    /\ ~ Wedged'
      <4>1. CASE reported'[p] = m
        BY <1>2, <4>1 DEF Voice
      <4>2. ASSUME NEW o \in Objects, heap'[o] # Nothing, heap'[o].id = p, Says(o, m)'
            PROVE  \/ Voice(p, m)
                   \/ /\ ring'[p].state \in {"completed", "acknowledged"} /\ ring'[p].result = m
                      /\ ~ Wedged'
        <5>1. CASE o = x
          <6>1. p = q /\ (Says(x, m) \/ (ok /\ m = r))
            BY <1>2, <1>4, <1>5, <2>3, <4>2, <5>1 DEF Says, f
          <6> QED BY <1>3, <1>8, <6>1 DEF Voice, Wedged, q, f
        <5>2. CASE o # x
          BY <1>2, <2>4, <4>2, <5>2 DEF Says, Voice
        <5> QED BY <5>1, <5>2
      <4> QED BY <3>1, <4>1, <4>2 DEF Voice
    <3> QED BY <1>2, <1>8, <1>10, <3>1, VoiceInvKept
  <2>9. DeniedInv'
    <3>1. \A o \in Objects : Active(o)' => Active(o) /\ heap'[o].id = heap[o].id
      BY <1>5, <2>3, <2>4 DEF Active
    <3> QED BY <1>2, <1>10, <3>1 DEF SafeInv, DeniedInv, CancelHolds, PreCanceled
  <2>10. ReservationOwned'
    <3>1. ASSUME NEW p \in Requests, p # q, ring'[p].state = "reserved", p \notin inherited
          PROVE  /\ runs[p] # Nothing
                 /\ heap'[runs[p]].handler # "none" \/ heap'[runs[p]].terminal # Nothing
      <4>1. /\ runs[p] # Nothing /\ runs[p] \in Objects /\ heap[runs[p]].id = p
            /\ heap[runs[p]].handler # "none" \/ heap[runs[p]].terminal # Nothing
        BY <1>8, <1>10, <3>1 DEF SafeInv, ReservationOwned, Mapped, TypeInv, ObjectTypes
      <4>2. heap'[runs[p]] # Nothing /\ runs[p] # x
        BY <1>2, <1>9, <3>1, <4>1 DEF TypeInv, ObjectTypes, Mapped, q, f
      <4> QED BY <2>4, <4>1, <4>2
    <3>2. ring'[q].state = "reserved" => runs[q] # Nothing /\ heap'[runs[q]].terminal # Nothing
      BY <1>3, <1>4, <1>5, <1>8, <2>1, <2>3, NothingAssumption
    <3> QED BY <1>2, <3>1, <3>2 DEF ReservationOwned, Mapped
  <2>11. AtMostOnce' /\ OneOutcome'
    BY <1>2, <1>10 DEF SafeInv, AtMostOnce, OneOutcome
  <2> QED BY <2>5, <2>6, <2>7, <2>8, <2>9, <2>10, <2>11 DEF SafeInv
<1> QED BY <1>9, <1>10

-----------------------------------------------------------------------------
(* The sender. *)

\* An object whose outbox the sender took.
LEMMA TakenObject ==
    ASSUME NEW t \in RunState
    PROVE  LET g == [t EXCEPT !.pending = << >>] IN
           /\ g \in RunState /\ g.id = t.id /\ g.handler = t.handler
           /\ g.finished = t.finished /\ g.terminal = t.terminal
           /\ \A m : ~ Contains(g.pending, m)
<1> DEFINE n == << >>
           g == [t EXCEPT !.pending = n]
<1>1. n \in Seq(Messages) /\ Len(n) = 0
  OBVIOUS
<1>2. \A m : ~ Contains(n, m)
  BY <1>1 DEF Contains
<1> HIDE DEF n
<1>3. /\ g \in RunState /\ g.id = t.id /\ g.handler = t.handler
      /\ g.finished = t.finished /\ g.terminal = t.terminal /\ g.pending = n
  BY <1>1 DEF RunState
<1> QED BY <1>2, <1>3 DEF n

LEMMA TakeOutboxStep ==
    ASSUME TypeInv, NEW q \in Requests, TakeOutbox(q)
    PROVE  TypeInv' /\ (SafeInv /\ ~ LateRedelivery => SafeInv')
<1> DEFINE x == runs[q]
           f == heap[x]
<1>1. /\ sender = Idle /\ Mapped(q)
      /\ UNCHANGED <<runs, preCanceled, finalizeRetries, closing, session, answering, owed, settled,
                     executions, reported, disagreed, inherited, denied, spent, orphaned>>
  BY DEF TakeOutbox, cloud, history
<1>2. /\ x \in Objects /\ f \in RunState /\ f.id = q /\ f # Nothing
      /\ heap \in [Objects -> RunState \cup {Nothing}] /\ runs \in [Requests -> Objects \cup {Nothing}]
  BY <1>1 DEF TypeInv, ObjectTypes, Mapped
<1>3. \E t \in RunState :
        /\ sender' = [at |-> "sending", obj |-> x, msgs |-> t.pending]
        /\ heap' = [heap EXCEPT ![x] = [t EXCEPT !.pending = << >>]]
        /\ t.id = q /\ t.handler = f.handler /\ LogStep
        /\ \A p \in Requests \ {q} : ring'[p] = ring[p]
        /\ \/ f.terminal = Nothing /\ t = f /\ UNCHANGED log
           \/ /\ f.terminal # Nothing /\ t.finished
              /\ t.terminal = Nothing => ring'[q].state # "reserved"
        /\ \A m \in Recorded : Contains(t.pending, m) =>
              \/ Contains(f.pending, m)
              \/ /\ ring'[q].state \in {"completed", "acknowledged"} /\ ring'[q].result = m
                 /\ ~ Wedged'
  <2> DEFINE Take(t) ==
                 /\ sender' = [at |-> "sending", obj |-> x, msgs |-> t.pending]
                 /\ heap' = [heap EXCEPT ![x] = [t EXCEPT !.pending = << >>]]
  <2>1. CASE f.terminal = Nothing /\ Take(f) /\ UNCHANGED log
    <3>1. LogStep /\ ring' = ring
      BY <2>1, LogUnchanged DEF log
    <3> QED BY <1>2, <2>1, <3>1
  <2>2. ASSUME NEW ok \in BOOLEAN, f.terminal # Nothing, Complete(f, f.terminal, ok),
               Take(Finished(f, f.terminal, ok))
        PROVE  \E t \in RunState :
                 /\ sender' = [at |-> "sending", obj |-> x, msgs |-> t.pending]
                 /\ heap' = [heap EXCEPT ![x] = [t EXCEPT !.pending = << >>]]
                 /\ t.id = q /\ t.handler = f.handler /\ LogStep
                 /\ \A p \in Requests \ {q} : ring'[p] = ring[p]
                 /\ \/ f.terminal = Nothing /\ t = f /\ UNCHANGED log
                    \/ /\ f.terminal # Nothing /\ t.finished
                       /\ t.terminal = Nothing => ring'[q].state # "reserved"
                 /\ \A m \in Recorded : Contains(t.pending, m) =>
                       \/ Contains(f.pending, m)
                       \/ /\ ring'[q].state \in {"completed", "acknowledged"} /\ ring'[q].result = m
                          /\ ~ Wedged'
    <3> DEFINE r == f.terminal
               t == Finished(f, r, ok)
    <3>1. r \in Recorded
      BY <1>2, <2>2 DEF RunState
    <3>2. /\ t \in RunState /\ t.id = q /\ t.finished /\ t.handler = f.handler
          /\ ~ ok => t.terminal = r
          /\ \A m : Contains(t.pending, m) => Contains(f.pending, m) \/ (ok /\ m = r)
      <4>1. f \in RunState /\ f.id = q
        BY <1>2
      <4> HIDE DEF r, f
      <4>2. /\ t \in RunState /\ t.id = f.id /\ t.finished /\ t.handler = f.handler
            /\ ~ ok => t.terminal = r
            /\ \A m : Contains(t.pending, m) => Contains(f.pending, m) \/ (ok /\ m = r)
        BY <3>1, <4>1, FinishedObject
      <4> QED BY <4>1, <4>2
    <3>3. /\ LogStep
          /\ \A p \in Requests \ {q} : ring'[p] = ring[p]
          /\ ok => /\ ring'[q].state \in {"completed", "acknowledged"}
                   /\ ring'[q].result = r /\ limbo' = Nothing
      BY <1>2, <2>2, <3>1, CompleteStep
    <3>4. Take(t)
      BY <2>2
    <3> HIDE DEF t
    <3>5. t.terminal = Nothing => ring'[q].state # "reserved"
      BY <2>2, <3>2, <3>3
    <3>6. \A m \in Recorded : Contains(t.pending, m) =>
             \/ Contains(f.pending, m)
             \/ /\ ring'[q].state \in {"completed", "acknowledged"} /\ ring'[q].result = m
                /\ ~ Wedged'
      BY <3>2, <3>3 DEF Wedged
    <3> QED BY <2>2, <3>2, <3>3, <3>4, <3>5, <3>6
  <2> HIDE DEF Take
  <2>3. \/ f.terminal = Nothing /\ Take(f) /\ UNCHANGED log
        \/ f.terminal # Nothing /\ \E ok \in BOOLEAN :
              Complete(f, f.terminal, ok) /\ Take(Finished(f, f.terminal, ok))
    BY DEF TakeOutbox, Take
  <2> QED BY <2>1, <2>2, <2>3
<1>4. PICK t \in RunState :
        /\ sender' = [at |-> "sending", obj |-> x, msgs |-> t.pending]
        /\ heap' = [heap EXCEPT ![x] = [t EXCEPT !.pending = << >>]]
        /\ t.id = q /\ t.handler = f.handler /\ LogStep
        /\ \A p \in Requests \ {q} : ring'[p] = ring[p]
        /\ \/ f.terminal = Nothing /\ t = f /\ UNCHANGED log
           \/ /\ f.terminal # Nothing /\ t.finished
              /\ t.terminal = Nothing => ring'[q].state # "reserved"
        /\ \A m \in Recorded : Contains(t.pending, m) =>
              \/ Contains(f.pending, m)
              \/ /\ ring'[q].state \in {"completed", "acknowledged"} /\ ring'[q].result = m
                 /\ ~ Wedged'
  BY <1>3
<1> DEFINE g == [t EXCEPT !.pending = << >>]
<1>5. /\ g \in RunState /\ g.id = q /\ g.handler = f.handler
      /\ g.finished = t.finished /\ g.terminal = t.terminal
      /\ \A m : ~ Contains(g.pending, m)
  BY <1>4, TakenObject
<1>6. heap' = [heap EXCEPT ![x] = g]
  BY <1>4
<1> HIDE DEF g
<1>7. /\ heap' \in [Objects -> RunState \cup {Nothing}] /\ heap'[x] = g /\ g # Nothing
      /\ \A o \in Objects \ {x} : heap'[o] = heap[o]
  BY <1>2, <1>5, <1>6, NothingAssumption
<1>8. /\ sender' \in Carrier /\ sender' # Idle /\ sender'.obj = x /\ sender'.msgs = t.pending
      /\ sender'.at = "sending"
  BY <1>2, <1>4 DEF Carrier, RunState, Idle
<1>9. TypeInv'
  <2>1. ObjectTypes'
    BY <1>1, <1>2, <1>5, <1>7, <1>8 DEF TypeInv, ObjectTypes, Mapped
  <2>2. PlainTypes'
    BY <1>1 DEF TypeInv, PlainTypes
  <2> QED BY <1>4, <2>1, <2>2, LogStepTypes DEF TypeInv
<1>10. ASSUME SafeInv, ~ LateRedelivery
       PROVE  SafeInv'
  <2>1. runs'[q] = x
    BY <1>1
  <2> HIDE DEF f
  <2>2. OwnerInv'
    <3>1. ASSUME NEW o \in Objects, Active(o)'
          PROVE  /\ runs'[heap'[o].id] = o /\ ~ heap'[o].finished /\ heap'[o].terminal = Nothing
                 /\ ring'[heap'[o].id].state = "reserved"
                 /\ heap'[o].handler = "gates" => executions'[heap'[o].id] = 0
      <4>1. /\ Active(o) /\ heap'[o].id = heap[o].id /\ heap'[o].handler = heap[o].handler
            /\ heap[o].id \in Requests
        BY <1>2, <1>5, <1>7, <3>1 DEF Active, RunState, f
      <4>2. /\ runs[heap[o].id] = o /\ ~ heap[o].finished /\ heap[o].terminal = Nothing
            /\ ring[heap[o].id].state = "reserved"
            /\ heap[o].handler = "gates" => executions[heap[o].id] = 0
        BY <1>10, <4>1 DEF SafeInv, OwnerInv
      <4>3. CASE o = x
        <5>1. t = f /\ UNCHANGED log
          BY <1>4, <4>2, <4>3 DEF f
        <5> QED BY <1>1, <1>5, <1>7, <4>1, <4>2, <4>3, <5>1 DEF log, f
      <4>4. CASE o # x
        <5>1. heap[o].id # q
          BY <4>2, <4>4
        <5> QED BY <1>1, <1>4, <1>7, <4>1, <4>2, <4>4, <5>1
      <4> QED BY <4>3, <4>4
    <3> QED BY <3>1 DEF OwnerInv
  <2>3. SenderInv'
    BY <1>5, <1>7, <1>8, <2>1 DEF SenderInv
  <2>4. LogInv'
    BY <1>1, <1>4, <1>10, LogInvKept
  <2>5. VoiceInv'
    <3>1. ASSUME NEW p \in Requests, NEW m \in Recorded, Voice(p, m)'
          PROVE  \/ Voice(p, m)
                 \/ /\ ring'[p].state \in {"completed", "acknowledged"} /\ ring'[p].result = m
                    /\ ~ Wedged'
      <4>1. CASE reported'[p] = m
        BY <1>1, <4>1 DEF Voice
      <4>2. ASSUME NEW o \in Objects, heap'[o] # Nothing, heap'[o].id = p, Says(o, m)'
            PROVE  \/ Voice(p, m)
                   \/ /\ ring'[p].state \in {"completed", "acknowledged"} /\ ring'[p].result = m
                      /\ ~ Wedged'
        <5>1. CASE o = x
          <6>1. p = q /\ Contains(t.pending, m)
            BY <1>5, <1>7, <1>8, <4>2, <5>1 DEF Says
          <6>2. Contains(f.pending, m) => Voice(q, m)
            BY <1>2 DEF Voice, Says, f
          <6> QED BY <1>4, <6>1, <6>2
        <5>2. CASE o # x
          BY <1>7, <1>8, <4>2, <5>2 DEF Says, Voice
        <5> QED BY <5>1, <5>2
      <4> QED BY <3>1, <4>1, <4>2 DEF Voice
    <3> QED BY <1>1, <1>4, <1>10, <3>1, VoiceInvKept
  <2>6. DeniedInv'
    <3>1. \A o \in Objects : Active(o)' => Active(o) /\ heap'[o].id = heap[o].id
      BY <1>2, <1>5, <1>7 DEF Active, f
    <3>2. denied' = denied /\ spent' = spent /\ preCanceled' = preCanceled
      BY <1>1
    <3>3. /\ \A p \in denied \ spent : PreCanceled(p)
          /\ \A o \in Objects : Active(o) => heap[o].id \notin denied \ spent
      BY <1>10 DEF SafeInv, DeniedInv, CancelHolds
    <3>4. \A p \in (denied \ spent)' : PreCanceled(p)'
      BY <3>2, <3>3 DEF PreCanceled
    <3>5. \A o \in Objects : Active(o)' => heap'[o].id \notin (denied \ spent)'
      BY <3>1, <3>2, <3>3
    <3> QED BY <3>4, <3>5 DEF DeniedInv, CancelHolds
  <2>7. ReservationOwned'
    <3>1. ASSUME NEW p \in Requests, ring'[p].state = "reserved", p \notin inherited
          PROVE  /\ runs[p] # Nothing
                 /\ heap'[runs[p]].handler # "none" \/ heap'[runs[p]].terminal # Nothing
      <4>1. CASE p = q
        <5>1. CASE f.terminal = Nothing /\ t = f /\ UNCHANGED log
          <6>1. ring[q].state = "reserved" /\ q \notin inherited
            BY <3>1, <4>1, <5>1 DEF log
          <6>2. f.handler # "none" \/ f.terminal # Nothing
            BY <1>10, <6>1 DEF SafeInv, ReservationOwned, f
          <6> QED BY <1>1, <1>5, <1>7, <4>1, <5>1, <6>2 DEF Mapped
        <5>2. CASE t.terminal = Nothing => ring'[q].state # "reserved"
          BY <1>1, <1>5, <1>7, <3>1, <4>1, <5>2 DEF Mapped
        <5> QED BY <1>4, <5>1, <5>2
      <4>2. CASE p # q
        <5>1. /\ runs[p] # Nothing /\ runs[p] \in Objects /\ heap[runs[p]].id = p
              /\ heap[runs[p]].handler # "none" \/ heap[runs[p]].terminal # Nothing
          BY <1>4, <1>10, <3>1, <4>2 DEF SafeInv, ReservationOwned, Mapped, TypeInv, ObjectTypes
        <5>2. runs[p] # x
          BY <1>2, <4>2, <5>1 DEF f
        <5> QED BY <1>7, <5>1, <5>2
      <4> QED BY <4>1, <4>2
    <3> QED BY <1>1, <3>1 DEF ReservationOwned, Mapped
  <2>8. AtMostOnce' /\ OneOutcome'
    BY <1>1, <1>10 DEF SafeInv, AtMostOnce, OneOutcome
  <2> QED BY <2>2, <2>3, <2>4, <2>5, <2>6, <2>7, <2>8 DEF SafeInv
<1> QED BY <1>9, <1>10

\* What is received for q was a voice of q before.
LEMMA DeliveredVoice ==
    ASSUME TypeInv, sender \in Carrier, sender # Idle, sender.msgs # << >>,
           Delivered(heap[sender.obj].id, Head(sender.msgs))
    PROVE  /\ heap[sender.obj].id \in Requests /\ Head(sender.msgs) \in Messages
           /\ Tail(sender.msgs) \in Seq(Messages)
           /\ \A m : Contains(Tail(sender.msgs), m) => Contains(sender.msgs, m)
           /\ UNCHANGED <<executions, inherited, denied, spent, orphaned>>
           /\ reported' \in [Requests -> Recorded \cup {Nothing}] /\ disagreed' \subseteq Requests
           /\ \A p \in Requests, m \in Recorded : reported'[p] = m => Voice(p, m)
           /\ SafeInv => disagreed' = disagreed
<1> DEFINE x == sender.obj
           q == heap[x].id
           k == sender.msgs
           h == Head(k)
<1>1. x \in Objects /\ k \in Seq(Messages) /\ heap[x] # Nothing
  BY DEF TypeInv, ObjectTypes, Carrier
<1>2. q \in Requests
  BY <1>1 DEF TypeInv, ObjectTypes, RunState
<1>3. /\ h \in Messages /\ Tail(k) \in Seq(Messages) /\ Len(Tail(k)) = Len(k) - 1
      /\ \A i \in 1 .. Len(Tail(k)) : Tail(k)[i] = k[i + 1]
      /\ Len(k) \in Nat \ {0} /\ h = k[1]
  BY <1>1, HeadTailProperties, EmptySeq
<1>4. Contains(k, h)
  BY <1>3 DEF Contains
<1>5. \A m : Contains(Tail(k), m) => Contains(k, m)
  <2>1. \A i \in 1 .. Len(Tail(k)) : i + 1 \in 1 .. Len(k)
    BY <1>3
  <2> QED BY <1>3, <2>1 DEF Contains
<1>6. Voice(q, h)
  BY <1>1, <1>4 DEF Voice, Says
<1>7. /\ reported' = IF h \in Recorded THEN [reported EXCEPT ![q] = h] ELSE reported
      /\ disagreed' = IF h \in Recorded /\ reported[q] \notin {Nothing, h}
                      THEN disagreed \cup {q} ELSE disagreed
      /\ UNCHANGED <<executions, inherited, denied, spent, orphaned>>
  BY DEF Delivered
<1>8. reported \in [Requests -> Recorded \cup {Nothing}] /\ disagreed \subseteq Requests
  BY DEF TypeInv, PlainTypes
<1> HIDE DEF q, h
<1>9. reported' \in [Requests -> Recorded \cup {Nothing}] /\ disagreed' \subseteq Requests
  BY <1>2, <1>7, <1>8
<1>10. ASSUME NEW p \in Requests, NEW m \in Recorded, reported'[p] = m
       PROVE  Voice(p, m)
  <2>1. CASE p = q /\ h \in Recorded
    BY <1>2, <1>6, <1>7, <1>8, <1>10, <2>1
  <2>2. CASE ~ (p = q /\ h \in Recorded)
    <3>1. reported[p] = m
      BY <1>2, <1>7, <1>8, <1>10, <2>2
    <3> QED BY <3>1 DEF Voice
  <2> QED BY <2>1, <2>2
<1>11. ASSUME SafeInv
       PROVE  disagreed' = disagreed
  <2>1. h \in Recorded /\ reported[q] # Nothing => reported[q] = h
    <3>1. SUFFICES ASSUME h \in Recorded, reported[q] # Nothing
                   PROVE  reported[q] = h
      OBVIOUS
    <3>2. reported[q] \in Recorded
      BY <1>2, <1>8, <3>1
    <3>3. Voice(q, reported[q])
      BY DEF Voice
    <3> QED BY <1>2, <1>6, <1>11, <3>1, <3>2, <3>3 DEF SafeInv, VoiceInv
  <2> QED BY <1>7, <2>1
<1> QED BY <1>2, <1>3, <1>5, <1>7, <1>9, <1>10, <1>11 DEF q, h

LEMMA SendStep ==
    ASSUME TypeInv, Send
    PROVE  TypeInv' /\ (SafeInv /\ ~ LateRedelivery => SafeInv')
<1> DEFINE q == heap[sender.obj].id
           k == sender.msgs
           n == Tail(k)
<1>1. /\ sender.at = "sending" /\ k # << >>
      /\ sender' = [sender EXCEPT !.msgs = n]
      /\ Delivered(q, Head(k)) /\ owed' \subseteq owed \cup {q}
      /\ UNCHANGED <<runs, heap, preCanceled, finalizeRetries, closing, session, answering, log,
                     settled>>
  BY DEF Send
<1>2. sender \in Carrier /\ sender # Idle
  BY <1>1 DEF TypeInv, ObjectTypes, Idle
<1>3. /\ q \in Requests /\ n \in Seq(Messages)
      /\ \A m : Contains(n, m) => Contains(k, m)
      /\ UNCHANGED <<executions, inherited, denied, spent, orphaned>>
      /\ reported' \in [Requests -> Recorded \cup {Nothing}] /\ disagreed' \subseteq Requests
      /\ \A p \in Requests, m \in Recorded : reported'[p] = m => Voice(p, m)
      /\ SafeInv => disagreed' = disagreed
  BY <1>1, <1>2, DeliveredVoice
<1> HIDE DEF n, q
<1>4. /\ sender' \in Carrier /\ sender'.obj = sender.obj /\ sender'.at = "sending"
      /\ sender'.msgs = n /\ sender' # Idle
  BY <1>1, <1>2, <1>3 DEF Carrier, Idle
<1>5. TypeInv'
  <2>1. ObjectTypes'
    BY <1>1, <1>2, <1>4 DEF TypeInv, ObjectTypes, Mapped
  <2>2. PlainTypes'
    BY <1>1, <1>3 DEF TypeInv, PlainTypes
  <2> QED BY <1>1, <2>1, <2>2, LogUnchanged, LogStepTypes DEF TypeInv
<1>6. ASSUME SafeInv, ~ LateRedelivery
      PROVE  SafeInv'
  <2>1. ASSUME NEW p \in Requests, NEW m \in Recorded, Voice(p, m)'
        PROVE  Voice(p, m)
    <3>1. ASSUME NEW o \in Objects, heap'[o] # Nothing, heap'[o].id = p, Says(o, m)'
          PROVE  Voice(p, m)
      BY <1>1, <1>2, <1>3, <1>4, <3>1 DEF Voice, Says
    <3> QED BY <1>3, <2>1, <3>1 DEF Voice
  <2> QED BY <1>1, <1>2, <1>3, <1>4, <1>5, <1>6, <2>1, LogUnchanged, ForgettingSafe DEF log
<1> QED BY <1>5, <1>6

\* The messages that were not sent go back in front of the outbox.
LEMMA RequeuedObject ==
    ASSUME NEW f \in RunState, NEW k \in Seq(Messages)
    PROVE  LET g == [f EXCEPT !.pending = k \o f.pending] IN
           /\ g \in RunState /\ g.id = f.id /\ g.handler = f.handler
           /\ g.finished = f.finished /\ g.terminal = f.terminal
           /\ \A m : Contains(g.pending, m) => Contains(k, m) \/ Contains(f.pending, m)
<1> DEFINE n == k \o f.pending
           g == [f EXCEPT !.pending = n]
<1>1. f.pending \in Seq(Messages)
  BY DEF RunState
<1>2. n \in Seq(Messages) /\ \A m : Contains(n, m) => Contains(k, m) \/ Contains(f.pending, m)
  BY <1>1, ConcatContains
<1> HIDE DEF n
<1>3. /\ g \in RunState /\ g.id = f.id /\ g.handler = f.handler
      /\ g.finished = f.finished /\ g.terminal = f.terminal /\ g.pending = n
  BY <1>2 DEF RunState
<1> QED BY <1>2, <1>3 DEF n

LEMMA SendFailsStep ==
    ASSUME TypeInv, SendFails
    PROVE  TypeInv' /\ (SafeInv /\ ~ LateRedelivery => SafeInv')
<1> DEFINE x == sender.obj
           f == heap[x]
           k == sender.msgs
           g == [f EXCEPT !.pending = k \o f.pending]
           h == [heap EXCEPT ![x] = g]
<1>1. /\ sender.at = "sending" /\ k # << >> /\ sender' = Idle
      /\ heap' = Live([heap EXCEPT ![sender.obj].pending = sender.msgs \o @], runs, sender')
      /\ session' = "ending"
      /\ UNCHANGED history \/ Delivered(heap[sender.obj].id, Head(sender.msgs))
      /\ UNCHANGED <<runs, preCanceled, finalizeRetries, closing, answering, log, owed, settled>>
  BY DEF SendFails, EndSession, cloud
<1>2. /\ sender \in Carrier /\ sender # Idle /\ x \in Objects /\ f # Nothing /\ f \in RunState
      /\ heap \in [Objects -> RunState \cup {Nothing}] /\ k \in Seq(Messages)
  BY <1>1 DEF TypeInv, ObjectTypes, Idle, Carrier
<1>3. /\ UNCHANGED <<executions, inherited, denied, spent, orphaned>>
      /\ reported' \in [Requests -> Recorded \cup {Nothing}] /\ disagreed' \subseteq Requests
      /\ \A p \in Requests, m \in Recorded : reported'[p] = m => Voice(p, m)
      /\ SafeInv => disagreed' = disagreed
  <2>1. CASE UNCHANGED history
    BY <2>1 DEF history, TypeInv, PlainTypes, Voice
  <2>2. CASE Delivered(heap[sender.obj].id, Head(sender.msgs))
    BY <1>1, <1>2, <2>2, DeliveredVoice
  <2> QED BY <1>1, <2>1, <2>2
<1>4. [heap EXCEPT ![sender.obj].pending = sender.msgs \o @] = h
  BY <1>2
<1>5. /\ g \in RunState /\ g.id = f.id /\ g.handler = f.handler
      /\ g.finished = f.finished /\ g.terminal = f.terminal
      /\ \A m : Contains(g.pending, m) => Contains(k, m) \/ Contains(f.pending, m)
  BY <1>2, RequeuedObject
<1>6. heap' = Live(h, runs', sender')
  BY <1>1, <1>4
<1> HIDE DEF g, f
<1>7. /\ h \in [Objects -> RunState \cup {Nothing}] /\ h[x] = g /\ g # Nothing
      /\ \A o \in Objects \ {x} : h[o] = heap[o]
  BY <1>2, <1>5, NothingAssumption
<1> HIDE DEF h
<1>8. TypeInv'
  <2>1. \A p \in Requests : Mapped(p)' => h[runs'[p]] # Nothing /\ h[runs'[p]].id = p
    BY <1>1, <1>5, <1>7 DEF TypeInv, ObjectTypes, Mapped, f
  <2>2. runs' \in [Requests -> Objects \cup {Nothing}]
    BY <1>1 DEF TypeInv, ObjectTypes
  <2>3. ObjectTypes'
    BY <1>1, <1>6, <1>7, <2>1, <2>2, LiveTypes
  <2>4. PlainTypes'
    BY <1>1, <1>3 DEF TypeInv, PlainTypes
  <2> QED BY <1>1, <2>3, <2>4, LogUnchanged, LogStepTypes DEF TypeInv
<1>9. ASSUME SafeInv, ~ LateRedelivery
      PROVE  SafeInv'
  <2>1. \A o \in Objects : heap'[o] \in {h[o], Nothing}
    BY <1>6, <1>7, LiveObjects
  <2>2. \A o \in Objects : heap'[o] # Nothing =>
          /\ heap[o] # Nothing /\ heap'[o].id = heap[o].id
          /\ heap'[o].handler = heap[o].handler
          /\ heap'[o].finished = heap[o].finished
          /\ heap'[o].terminal = heap[o].terminal
    BY <1>2, <1>5, <1>7, <2>1 DEF f
  <2>3. ASSUME NEW p \in Requests, NEW m \in Recorded, Voice(p, m)'
        PROVE  Voice(p, m)
    <3>1. ASSUME NEW o \in Objects, heap'[o] # Nothing, heap'[o].id = p, Says(o, m)'
          PROVE  Voice(p, m)
      <4>1. heap[o] # Nothing /\ heap[o].id = p /\ heap'[o] = h[o]
        BY <2>1, <2>2, <3>1
      <4>2. Contains(h[o].pending, m)
        BY <1>1, <3>1, <4>1 DEF Says
      <4>3. Says(o, m)
        <5>1. CASE o = x
          BY <1>2, <1>5, <1>7, <4>2, <5>1 DEF Says, f
        <5>2. CASE o # x
          BY <1>7, <4>2, <5>2 DEF Says
        <5> QED BY <5>1, <5>2
      <4> QED BY <4>1, <4>3 DEF Voice
    <3> QED BY <1>3, <2>3, <3>1 DEF Voice
  <2> QED BY <1>1, <1>3, <1>8, <1>9, <2>2, <2>3, LogUnchanged, ForgettingSafe DEF log
<1> QED BY <1>8, <1>9

LEMMA SentAllStep ==
    ASSUME TypeInv, SentAll
    PROVE  TypeInv' /\ (SafeInv /\ ~ LateRedelivery => SafeInv')
<1>1. /\ sender.at = "sending"
      /\ UNCHANGED <<runs, preCanceled, finalizeRetries, closing, session, answering, log, owed,
                     settled, executions, reported, disagreed, inherited, denied, spent, orphaned>>
  BY DEF SentAll, cloud, history
<1>2. sender \in Carrier /\ sender # Idle /\ heap \in [Objects -> RunState \cup {Nothing}]
  BY <1>1 DEF TypeInv, ObjectTypes, Idle
<1>3. CASE /\ heap[sender.obj].finished /\ heap[sender.obj].terminal = Nothing
           /\ sender' = [sender EXCEPT !.at = "removing"] /\ UNCHANGED heap
  <2>1. /\ sender' \in Carrier /\ sender'.obj = sender.obj /\ sender'.msgs = sender.msgs
        /\ sender' # Idle
    BY <1>2, <1>3 DEF Carrier, Idle
  <2>2. TypeInv'
    <3>1. ObjectTypes'
      BY <1>1, <1>2, <1>3, <2>1 DEF TypeInv, ObjectTypes, Mapped
    <3>2. PlainTypes'
      BY <1>1 DEF TypeInv, PlainTypes
    <3> QED BY <1>1, <3>1, <3>2, LogUnchanged, LogStepTypes DEF TypeInv
  <2>3. ASSUME SafeInv, ~ LateRedelivery
        PROVE  SafeInv'
    <3>1. \A p \in Requests, m \in Recorded : Voice(p, m)' => Voice(p, m)
      BY <1>1, <1>2, <1>3, <2>1 DEF Voice, Says
    <3> QED BY <1>1, <1>2, <1>3, <2>1, <2>2, <2>3, <3>1, LogUnchanged, ForgettingSafe DEF log
  <2> QED BY <2>2, <2>3
<1>4. CASE sender' = Idle /\ heap' = Live(heap, runs, sender')
  <2>1. \A o \in Objects : heap'[o] \in {heap[o], Nothing}
    BY <1>2, <1>4, LiveObjects
  <2>2. TypeInv'
    <3>1. \A p \in Requests : Mapped(p)' => heap[runs'[p]] # Nothing /\ heap[runs'[p]].id = p
      BY <1>1 DEF TypeInv, ObjectTypes, Mapped
    <3>2. runs' \in [Requests -> Objects \cup {Nothing}] /\ heap' = Live(heap, runs', sender')
      BY <1>1, <1>4 DEF TypeInv, ObjectTypes
    <3>3. ObjectTypes'
      BY <1>2, <1>4, <3>1, <3>2, LiveTypes
    <3>4. PlainTypes'
      BY <1>1 DEF TypeInv, PlainTypes
    <3> QED BY <1>1, <3>3, <3>4, LogUnchanged, LogStepTypes DEF TypeInv
  <2>3. ASSUME SafeInv, ~ LateRedelivery
        PROVE  SafeInv'
    <3>1. \A p \in Requests, m \in Recorded : Voice(p, m)' => Voice(p, m)
      BY <1>1, <1>4, <2>1, <2>2, ForgottenVoices
    <3>2. \A o \in Objects : heap'[o] # Nothing => heap'[o] = heap[o] /\ heap[o] # Nothing
      BY <2>1
    <3> QED BY <1>1, <1>4, <2>2, <2>3, <3>1, <3>2, LogUnchanged, ForgettingSafe DEF log
  <2> QED BY <2>2, <2>3
<1> QED BY <1>3, <1>4 DEF SentAll

LEMMA RemoveSentStep ==
    ASSUME TypeInv, RemoveSent
    PROVE  TypeInv' /\ (SafeInv /\ ~ LateRedelivery => SafeInv')
<1> DEFINE x == sender.obj
           q == heap[x].id
<1>1. /\ sender.at = "removing" /\ sender' = Idle /\ RemoveRun(q, sender')
      /\ UNCHANGED <<preCanceled, finalizeRetries, closing, session, answering, log, owed, settled,
                     executions, reported, disagreed, inherited, denied, spent>>
      /\ orphaned' \subseteq orphaned \cup {q}
  BY DEF RemoveSent, cloud
<1>2. /\ sender # Idle /\ x \in Objects /\ heap[x] # Nothing /\ q \in Requests
      /\ runs \in [Requests -> Objects \cup {Nothing}]
  BY <1>1 DEF TypeInv, ObjectTypes, Idle, Carrier, RunState
<1> HIDE DEF q
<1>3. /\ ObjectTypes'
      /\ runs'[q] = Nothing /\ \A p \in Requests \ {q} : runs'[p] = runs[p]
      /\ \A o \in Objects : heap'[o] \in {heap[o], Nothing}
  BY <1>1, <1>2, RemovedObjects
<1>4. TypeInv'
  <2>1. PlainTypes'
    BY <1>1, <1>2 DEF TypeInv, PlainTypes
  <2> QED BY <1>1, <1>3, <2>1, LogUnchanged, LogStepTypes DEF TypeInv
<1>5. ASSUME SafeInv, ~ LateRedelivery
      PROVE  SafeInv'
  <2>1. \A p \in Requests, m \in Recorded : Voice(p, m)' => Voice(p, m)
    BY <1>1, <1>3, <1>4, ForgottenVoices
  <2>2. /\ heap[x].finished /\ heap[x].terminal = Nothing
        /\ runs[q] = x \/ ring[q].state # "reserved"
    BY <1>1, <1>2, <1>5 DEF SafeInv, SenderInv, q
  <2>3. ~ Active(x)
    BY <1>2, <1>5, <2>2 DEF SafeInv, OwnerInv
  <2>4. \A o \in Objects : Active(o) => heap[o].id # q
    BY <1>5, <2>2, <2>3 DEF SafeInv, OwnerInv
  <2>5. ring[q].state # "reserved" \/ q \in inherited
    BY <1>2, <1>5, <2>2, <2>3 DEF SafeInv, ReservationOwned, Active, Mapped
  <2>6. \A o \in Objects : heap'[o] # Nothing => heap'[o] = heap[o] /\ heap[o] # Nothing
    BY <1>3
  <2> QED BY <1>1, <1>2, <1>3, <1>4, <1>5, <2>1, <2>4, <2>5, <2>6, LogUnchanged, ForgettingSafe DEF log
<1> QED BY <1>4, <1>5


-----------------------------------------------------------------------------
(* Sessions and processes. *)

\* requeueActiveStarts adds no result.
LEMMA WithStartObject ==
    ASSUME NEW s \in RunState
    PROVE  LET g == WithStart(s) IN
           /\ g \in RunState /\ g.id = s.id /\ g.handler = s.handler
           /\ g.terminal = s.terminal /\ g.finished = s.finished
           /\ \A m \in Results : Contains(g.pending, m) => Contains(s.pending, m)
<1> DEFINE p == <<"started">> \o s.pending
           g == [s EXCEPT !.pending = p]
<1>1. WithStart(s) \in {s, g}
  BY DEF WithStart
<1>2. s.pending \in Seq(Messages) /\ <<"started">> \in Seq(Messages)
  BY DEF RunState, Messages
<1>3. \A m : Contains(<<"started">>, m) => m = "started"
  BY DEF Contains
<1>4. p \in Seq(Messages) /\ \A m : Contains(p, m) => m = "started" \/ Contains(s.pending, m)
  BY <1>2, <1>3, ConcatContains
<1> HIDE DEF p
<1>5. /\ g \in RunState /\ g.id = s.id /\ g.handler = s.handler
      /\ g.terminal = s.terminal /\ g.finished = s.finished /\ g.pending = p
  BY <1>4 DEF RunState
<1>6. "started" \notin Results
  BY DEF Results, Recorded, Refusals
<1> HIDE DEF g
<1> QED BY <1>1, <1>4, <1>5, <1>6

\* requeueUnacknowledgedResults adds the recorded result.
LEMMA WithResultObject ==
    ASSUME NEW s \in RunState, NEW r \in Recorded
    PROVE  LET g == WithResult(s, r) IN
           /\ g \in RunState /\ g.id = s.id /\ g.handler = s.handler
           /\ g.terminal = s.terminal /\ (s.finished => g.finished)
           /\ \A m \in Results : Contains(g.pending, m) => Contains(s.pending, m) \/ m = r
<1> DEFINE p == <<r>>
           g == [s EXCEPT !.pending = p, !.finished = TRUE]
<1>1. WithResult(s, r) \in {s, g}
  BY DEF WithResult
<1>2. p \in Seq(Messages)
  BY DEF Messages, Results
<1>3. \A m : Contains(p, m) => m = r
  BY DEF Contains
<1> HIDE DEF p
<1>4. /\ g \in RunState /\ g.id = s.id /\ g.handler = s.handler
      /\ g.terminal = s.terminal /\ g.finished /\ g.pending = p
  BY <1>2 DEF RunState
<1> HIDE DEF g
<1> QED BY <1>1, <1>3, <1>4

\* What a reconnect leaves of an object, and the objects it adds.
Kept(o) ==
    /\ heap'[o] \in RunState /\ heap'[o].id = heap[o].id
    /\ heap'[o].handler = heap[o].handler /\ heap'[o].terminal = heap[o].terminal
    /\ heap[o].finished => heap'[o].finished
    /\ heap'[o].finished # heap[o].finished => ring[heap[o].id].state = "completed"
    /\ \A m \in Results : Contains(heap'[o].pending, m) =>
          \/ Contains(heap[o].pending, m)
          \/ /\ ring[heap[o].id].state = "completed" /\ ring[heap[o].id].result = m
             /\ ~ Wedged

Added(o, q) ==
    /\ runs[q] = Nothing /\ runs'[q] = o /\ heap[o] = Nothing
    /\ ring[q].state = "completed" /\ ring[q].result \in Recorded /\ ~ Wedged
    /\ heap'[o] = TransientState(q, ring[q].result)

LEMMA ConnectObjects ==
    ASSUME TypeInv, Connect
    PROVE  /\ \A o \in Objects : heap[o] # Nothing => Kept(o)
           /\ \A o \in Objects : heap[o] = Nothing /\ heap'[o] # Nothing =>
                 \E q \in Requests : Added(o, q)
           /\ \A q \in Requests : runs[q] # Nothing => runs'[q] = runs[q]
           /\ \A q \in Requests : runs[q] = Nothing /\ runs'[q] # Nothing =>
                 runs'[q] \in Objects /\ Added(runs'[q], q)
           /\ DOMAIN runs' = Requests /\ DOMAIN heap' = Objects
           /\ runs' = [q \in Requests |-> runs'[q]] /\ heap' = [o \in Objects |-> heap'[o]]
<1> DEFINE fresh == {q \in Unacknowledged : ~ Mapped(q)}
           old(o) == IF heap[o] = Nothing \/ \A q \in Requests : runs[q] # o THEN heap[o]
                     ELSE WithStart(IF heap[o].id \in Unacknowledged
                                    THEN WithResult(heap[o], ring[heap[o].id].result)
                                    ELSE heap[o])
<1>1. /\ runs \in [Requests -> Objects \cup {Nothing}]
      /\ heap \in [Objects -> RunState \cup {Nothing}]
  BY DEF TypeInv, ObjectTypes
<1>2. \A q \in Unacknowledged : /\ q \in Requests /\ ring[q].state = "completed"
                                /\ ring[q].result \in Recorded /\ ~ Wedged
  BY DEF Unacknowledged, TypeInv, LogTypes, Records, Shaped
<1>3. PICK place \in [fresh -> {o \in Objects : heap[o] = Nothing}] :
        /\ \A p, q \in fresh : place[p] = place[q] => p = q
        /\ runs' = [q \in Requests |-> IF q \in fresh THEN place[q] ELSE runs[q]]
        /\ heap' = [o \in Objects |->
             IF \E q \in fresh : place[q] = o
             THEN LET q == CHOOSE q \in fresh : place[q] = o
                  IN  TransientState(q, ring[q].result)
             ELSE old(o)]
  BY DEF Connect
<1>4. \A q \in fresh : q \in Unacknowledged /\ q \in Requests /\ runs[q] = Nothing
  BY <1>2 DEF Mapped
<1> HIDE DEF fresh
<1>5. \A q \in fresh : place[q] \in Objects /\ heap[place[q]] = Nothing
  BY <1>3
<1>6. \A q \in fresh : runs'[q] = place[q]
  BY <1>3, <1>4
<1>7. \A q \in Requests : q \notin fresh => runs'[q] = runs[q]
  BY <1>3
<1>8. ASSUME NEW o \in Objects, NEW q \in fresh, place[q] = o
      PROVE  Added(o, q)
  <2>1. q = CHOOSE p \in fresh : place[p] = o
    BY <1>3, <1>8
  <2>2. heap'[o] = TransientState(q, ring[q].result)
    <3>1. heap'[o] = LET p == CHOOSE p \in fresh : place[p] = o
                     IN  TransientState(p, ring[p].result)
      BY <1>3, <1>8
    <3> QED BY <2>1, <3>1
  <2> QED BY <1>2, <1>4, <1>5, <1>6, <1>8, <2>2 DEF Added
<1>9. ASSUME NEW o \in Objects, \A q \in fresh : place[q] # o
      PROVE  heap'[o] = old(o)
  BY <1>3, <1>9
<1>10. ASSUME NEW o \in Objects, heap[o] # Nothing
       PROVE  Kept(o)
  <2>1. heap'[o] = old(o)
    BY <1>5, <1>9, <1>10
  <2>2. heap[o] \in RunState
    BY <1>1, <1>10
  <2> DEFINE s == heap[o]
             r == ring[s.id].result
             t == IF s.id \in Unacknowledged THEN WithResult(s, r) ELSE s
  <2>3. /\ t \in RunState /\ t.id = s.id /\ t.handler = s.handler
        /\ t.terminal = s.terminal /\ (s.finished => t.finished)
        /\ t.finished # s.finished => ring[s.id].state = "completed"
        /\ \A m \in Results : Contains(t.pending, m) =>
              \/ Contains(s.pending, m)
              \/ ring[s.id].state = "completed" /\ ring[s.id].result = m /\ ~ Wedged
    <3>1. CASE s.id \in Unacknowledged
      <4>1. r \in Recorded /\ ring[s.id].state = "completed" /\ ~ Wedged /\ t = WithResult(s, r)
        BY <1>2, <3>1
      <4> DEFINE w == WithResult(s, r)
      <4>2. /\ w \in RunState /\ w.id = s.id /\ w.handler = s.handler
            /\ w.terminal = s.terminal /\ (s.finished => w.finished)
            /\ \A m \in Results : Contains(w.pending, m) => Contains(s.pending, m) \/ m = r
        BY <2>2, <4>1, WithResultObject
      <4> HIDE DEF w
      <4>3. t = w
        BY <4>1 DEF w
      <4> HIDE DEF t
      <4> QED BY <4>1, <4>2, <4>3
    <3>2. CASE s.id \notin Unacknowledged
      BY <2>2, <3>2
    <3> QED BY <3>1, <3>2
  <2>4. old(o) \in {s, WithStart(t)}
    OBVIOUS
  <2> HIDE DEF t, old
  <2> DEFINE g == WithStart(t)
  <2>5. /\ g \in RunState /\ g.id = t.id /\ g.handler = t.handler
        /\ g.terminal = t.terminal /\ g.finished = t.finished
        /\ \A m \in Results : Contains(g.pending, m) => Contains(t.pending, m)
    BY <2>3, WithStartObject
  <2>6. heap'[o] = s \/ heap'[o] = g
    BY <2>1, <2>4
  <2> HIDE DEF g
  <2>7. CASE heap'[o] = s
    BY <2>2, <2>7 DEF Kept
  <2>8. CASE heap'[o] = g
    BY <2>3, <2>5, <2>8 DEF Kept
  <2> QED BY <2>6, <2>7, <2>8
<1>11. ASSUME NEW o \in Objects, heap[o] = Nothing, heap'[o] # Nothing
       PROVE  \E q \in Requests : Added(o, q)
  <2>1. CASE \E q \in fresh : place[q] = o
    BY <1>4, <1>8, <2>1
  <2>2. CASE \A q \in fresh : place[q] # o
    BY <1>9, <1>11, <2>2
  <2> QED BY <2>1, <2>2
<1>12. ASSUME NEW q \in Requests, runs[q] = Nothing, runs'[q] # Nothing
       PROVE  runs'[q] \in Objects /\ Added(runs'[q], q)
  <2>1. q \in fresh
    BY <1>7, <1>12
  <2> QED BY <1>5, <1>6, <1>8, <2>1
<1>13. \A q \in Requests : runs[q] # Nothing => runs'[q] = runs[q]
  BY <1>4, <1>7
<1>14. /\ DOMAIN runs' = Requests /\ DOMAIN heap' = Objects
       /\ runs' = [q \in Requests |-> runs'[q]] /\ heap' = [o \in Objects |-> heap'[o]]
  <2> HIDE DEF old
  <2> QED BY <1>3
<1> QED BY <1>10, <1>11, <1>12, <1>13, <1>14

LEMMA ConnectStep ==
    ASSUME TypeInv, Connect
    PROVE  TypeInv' /\ (SafeInv /\ ~ LateRedelivery => SafeInv')
<1>1. /\ session' = "up"
      /\ UNCHANGED <<preCanceled, finalizeRetries, closing, sender, answering, log, owed, settled,
                     executions, reported, disagreed, inherited, denied, spent, orphaned>>
  BY DEF Connect, cloud, history
<1>2. /\ runs \in [Requests -> Objects \cup {Nothing}]
      /\ heap \in [Objects -> RunState \cup {Nothing}]
      /\ \A q \in Requests : runs[q] # Nothing => heap[runs[q]] # Nothing /\ heap[runs[q]].id = q
      /\ sender = Idle \/ (sender \in Carrier /\ heap[sender.obj] # Nothing)
      /\ Nothing \notin Objects /\ Nothing \notin RunState
  BY NothingAssumption DEF TypeInv, ObjectTypes, Mapped
<1>3. /\ \A o \in Objects : heap[o] # Nothing => Kept(o)
      /\ \A o \in Objects : heap[o] = Nothing /\ heap'[o] # Nothing =>
            \E q \in Requests : Added(o, q)
      /\ \A q \in Requests : runs[q] # Nothing => runs'[q] = runs[q]
      /\ \A q \in Requests : runs[q] = Nothing /\ runs'[q] # Nothing =>
            runs'[q] \in Objects /\ Added(runs'[q], q)
      /\ runs' = [q \in Requests |-> runs'[q]] /\ heap' = [o \in Objects |-> heap'[o]]
  BY ConnectObjects
<1>4. \A o \in Objects, q \in Requests : Added(o, q) =>
        /\ heap'[o] \in RunState /\ heap'[o].id = q /\ heap'[o].handler = "none"
        /\ \A m \in Recorded : Contains(heap'[o].pending, m) => m = ring[q].result
  BY TransientType DEF Added, Messages, Results
<1>5. \A o \in Objects : heap'[o] # Nothing => heap'[o] \in RunState
  BY <1>3, <1>4 DEF Kept
<1>6. TypeInv'
  <2>1. heap' \in [Objects -> RunState \cup {Nothing}]
    BY <1>3, <1>5
  <2>2. runs' \in [Requests -> Objects \cup {Nothing}]
    BY <1>2, <1>3
  <2>3. ASSUME NEW q \in Requests, runs'[q] # Nothing
        PROVE  heap'[runs'[q]] # Nothing /\ heap'[runs'[q]].id = q
    <3>1. CASE runs[q] # Nothing
      <4>1. runs[q] \in Objects /\ Kept(runs[q]) /\ runs'[q] = runs[q] /\ heap[runs[q]].id = q
        BY <1>2, <1>3, <3>1
      <4> QED BY <1>2, <4>1 DEF Kept
    <3>2. CASE runs[q] = Nothing
      BY <1>2, <1>3, <1>4, <2>3, <3>2
    <3> QED BY <3>1, <3>2
  <2>4. sender' = Idle \/ (sender' \in Carrier /\ heap'[sender'.obj] # Nothing)
    BY <1>1, <1>2, <1>3 DEF Carrier, Kept
  <2>5. ObjectTypes'
    BY <2>1, <2>2, <2>3, <2>4 DEF ObjectTypes, Mapped
  <2>6. PlainTypes'
    BY <1>1 DEF TypeInv, PlainTypes
  <2> QED BY <1>1, <2>5, <2>6, LogUnchanged, LogStepTypes DEF TypeInv
<1>7. ASSUME SafeInv, ~ LateRedelivery
      PROVE  SafeInv'
  <2>1. LogStep /\ ring' = ring /\ limbo' = limbo
    BY <1>1, LogUnchanged DEF log
  <2>2. ASSUME NEW o \in Objects, Active(o)'
        PROVE  /\ Active(o) /\ Kept(o) /\ heap[o].id \in Requests
               /\ heap'[o].finished = heap[o].finished
    <3>1. heap[o] # Nothing
      BY <1>3, <1>4, <2>2 DEF Active
    <3>2. Kept(o) /\ Active(o)
      BY <1>3, <2>2, <3>1 DEF Active, Kept
    <3>3. heap[o].id \in Requests
      BY <1>2, <3>1 DEF RunState
    <3> QED BY <1>7, <3>2, <3>3 DEF Kept, SafeInv, OwnerInv
  <2>3. OwnerInv'
    <3>1. ASSUME NEW o \in Objects, Active(o)'
          PROVE  /\ runs'[heap'[o].id] = o
                 /\ ~ heap'[o].finished /\ heap'[o].terminal = Nothing
                 /\ ring'[heap'[o].id].state = "reserved"
                 /\ heap'[o].handler = "gates" => executions'[heap'[o].id] = 0
      <4>1. /\ runs[heap[o].id] = o /\ ~ heap[o].finished /\ heap[o].terminal = Nothing
            /\ ring[heap[o].id].state = "reserved"
            /\ heap[o].handler = "gates" => executions[heap[o].id] = 0
        BY <1>7, <2>2, <3>1 DEF SafeInv, OwnerInv
      <4>2. runs'[heap[o].id] = o
        BY <1>2, <1>3, <2>2, <3>1, <4>1
      <4> QED BY <1>1, <2>1, <2>2, <3>1, <4>1, <4>2 DEF Kept
    <3> QED BY <3>1 DEF OwnerInv
  <2>4. SenderInv'
    <3>1. SUFFICES ASSUME sender # Idle
                   PROVE  SenderInv'
      BY <1>1 DEF SenderInv
    <3> DEFINE s == heap[sender.obj]
    <3>2. sender.obj \in Objects /\ Kept(sender.obj) /\ s.id \in Requests
      BY <1>2, <1>3, <3>1 DEF Carrier, RunState
    <3>3. /\ runs[s.id] = sender.obj \/ (s.id \in settled /\ ring[s.id].state # "reserved")
          /\ sender.at = "removing" => s.finished /\ s.terminal = Nothing
      BY <1>7, <3>1 DEF SafeInv, SenderInv
    <3>4. /\ heap'[sender.obj].id = s.id /\ heap'[sender.obj].terminal = s.terminal
          /\ s.finished => heap'[sender.obj].finished
      BY <3>2 DEF Kept
    <3> HIDE DEF s
    <3>5. runs[s.id] = sender.obj => runs'[s.id] = sender.obj
      BY <1>2, <1>3, <3>2
    <3> QED BY <1>1, <2>1, <3>3, <3>4, <3>5 DEF SenderInv
  <2>5. LogInv'
    BY <1>1, <1>7, <2>1, LogInvKept
  <2>6. VoiceInv'
    <3>1. ASSUME NEW p \in Requests, NEW m \in Recorded, Voice(p, m)'
          PROVE  \/ Voice(p, m)
                 \/ ring[p].state = "completed" /\ ring[p].result = m /\ ~ Wedged
      <4>1. CASE reported'[p] = m
        BY <1>1, <4>1 DEF Voice
      <4>2. ASSUME NEW o \in Objects, heap'[o] # Nothing, heap'[o].id = p, Says(o, m)'
            PROVE  \/ Voice(p, m)
                   \/ ring[p].state = "completed" /\ ring[p].result = m /\ ~ Wedged
        <5>1. CASE heap[o] # Nothing
          <6>1. Kept(o) /\ heap[o].id = p
            BY <1>3, <4>2, <5>1 DEF Kept
          <6>2. CASE Contains(heap'[o].pending, m)
            BY <5>1, <6>1, <6>2 DEF Kept, Voice, Says, Results
          <6>3. CASE sender # Idle /\ sender.obj = o /\ Contains(sender.msgs, m)
            BY <5>1, <6>1, <6>3 DEF Voice, Says
          <6> QED BY <1>1, <4>2, <6>2, <6>3 DEF Says
        <5>2. CASE heap[o] = Nothing
          <6>1. PICK q \in Requests : Added(o, q)
            BY <1>3, <4>2, <5>2
          <6>2. sender = Idle \/ sender.obj # o
            BY <1>2, <5>2
          <6>3. Contains(heap'[o].pending, m)
            BY <1>1, <4>2, <6>2 DEF Says
          <6>4. q = p /\ m = ring[q].result
            BY <1>4, <4>2, <6>1, <6>3
          <6> QED BY <6>1, <6>4 DEF Added
        <5> QED BY <5>1, <5>2
      <4> QED BY <3>1, <4>1, <4>2 DEF Voice
    <3>2. Wedged' = Wedged
      BY <2>1 DEF Wedged
    <3>3. \A p \in Requests, m \in Recorded : Voice(p, m)' =>
            \/ Voice(p, m)
            \/ /\ ring'[p].state \in {"completed", "acknowledged"} /\ ring'[p].result = m
               /\ ~ Wedged'
      BY <2>1, <3>1, <3>2
    <3> QED BY <1>1, <1>7, <2>1, <3>3, VoiceInvKept
  <2>7. DeniedInv'
    <3>1. \A o \in Objects : Active(o)' => heap'[o].id \notin (denied \ spent)'
      BY <1>1, <1>7, <2>2 DEF SafeInv, DeniedInv, CancelHolds, Kept
    <3>2. \A p \in (denied \ spent)' : PreCanceled(p)'
      BY <1>1, <1>7 DEF SafeInv, DeniedInv, PreCanceled
    <3> QED BY <3>1, <3>2 DEF DeniedInv, CancelHolds
  <2>8. ReservationOwned'
    <3>1. ASSUME NEW p \in Requests, ring[p].state = "reserved", p \notin inherited
          PROVE  /\ runs'[p] # Nothing
                 /\ heap'[runs'[p]].handler # "none" \/ heap'[runs'[p]].terminal # Nothing
      <4>1. /\ runs[p] # Nothing /\ runs[p] \in Objects
            /\ heap[runs[p]].handler # "none" \/ heap[runs[p]].terminal # Nothing
            /\ heap[runs[p]] # Nothing
        BY <1>2, <1>7, <3>1 DEF SafeInv, ReservationOwned, Mapped
      <4> QED BY <1>3, <4>1 DEF Kept
    <3> QED BY <1>1, <2>1, <3>1 DEF ReservationOwned, Mapped
  <2>9. AtMostOnce' /\ OneOutcome'
    BY <1>1, <1>7 DEF SafeInv, AtMostOnce, OneOutcome
  <2> QED BY <2>3, <2>4, <2>5, <2>6, <2>7, <2>8, <2>9 DEF SafeInv
<1> QED BY <1>6, <1>7

LEMMA ShutdownStep ==
    ASSUME TypeInv, Shutdown
    PROVE  TypeInv' /\ (SafeInv /\ ~ LateRedelivery => SafeInv')
<1>1. /\ closing' = TRUE
      /\ UNCHANGED <<runs, preCanceled, finalizeRetries, session, sender, answering, log, owed,
                     settled, executions, reported, disagreed, inherited, denied, spent, orphaned>>
  BY DEF Shutdown, cloud, history
<1>2. heap' = [o \in Objects |->
        IF Active(o) /\ \E q \in Requests : runs[q] = o
        THEN [heap[o] EXCEPT !.canceled = TRUE] ELSE heap[o]]
  BY DEF Shutdown
<1>3. heap \in [Objects -> RunState \cup {Nothing}] /\ Nothing \notin RunState
  BY NothingAssumption DEF TypeInv, ObjectTypes
<1>4. ASSUME NEW o \in Objects, heap[o] # Nothing
      PROVE  /\ heap'[o] \in RunState /\ heap'[o].id = heap[o].id
             /\ heap'[o].handler = heap[o].handler
             /\ heap'[o].finished = heap[o].finished
             /\ heap'[o].terminal = heap[o].terminal
             /\ heap'[o].pending = heap[o].pending
  <2>1. heap[o] \in RunState
    BY <1>3, <1>4
  <2> DEFINE s == heap[o]
             g == [s EXCEPT !.canceled = TRUE]
  <2>2. heap'[o] = s \/ heap'[o] = g
    BY <1>2
  <2>3. /\ g \in RunState /\ g.id = s.id /\ g.handler = s.handler /\ g.finished = s.finished
        /\ g.terminal = s.terminal /\ g.pending = s.pending
    BY <2>1 DEF RunState
  <2> HIDE DEF g
  <2> QED BY <2>1, <2>2, <2>3
<1>5. \A o \in Objects : heap[o] = Nothing => heap'[o] = Nothing
  BY <1>2 DEF Active
<1>6. TypeInv'
  <2>1. heap' \in [Objects -> RunState \cup {Nothing}]
    <3>1. \A o \in Objects : heap'[o] \in RunState \cup {Nothing}
      BY <1>4, <1>5
    <3>2. heap' = [o \in Objects |-> heap'[o]]
      BY <1>2
    <3> QED BY <3>1, <3>2
  <2>2. ObjectTypes'
    BY <1>1, <1>3, <1>4, <2>1 DEF TypeInv, ObjectTypes, Mapped, Carrier
  <2>3. PlainTypes'
    BY <1>1 DEF TypeInv, PlainTypes
  <2> QED BY <1>1, <2>2, <2>3, LogUnchanged, LogStepTypes DEF TypeInv
<1>7. ASSUME SafeInv, ~ LateRedelivery
      PROVE  SafeInv'
  <2>1. \A p \in (denied \ spent)' : PreCanceled(p)' /\ p \in denied \ spent
    BY <1>1, <1>7 DEF SafeInv, DeniedInv, PreCanceled
  <2>2. \A o \in Objects :
          /\ heap[o] = Nothing => heap'[o] = Nothing
          /\ heap[o] # Nothing =>
                /\ heap'[o] # Nothing /\ heap'[o].id = heap[o].id
                /\ heap'[o].handler = heap[o].handler
                /\ heap'[o].finished = heap[o].finished
                /\ heap'[o].terminal = heap[o].terminal
                /\ heap'[o].pending = heap[o].pending
    BY <1>3, <1>4, <1>5
  <2> QED BY <1>1, <1>6, <1>7, <2>1, <2>2, LogUnchanged, SameObjectsSafe DEF log
<1> QED BY <1>6, <1>7

\* A new process has no objects; what was sent fits the log it loads, whichever of the
\* two an unusable one left.
LEMMA RestartStep ==
    ASSUME TypeInv, Restart
    PROVE  TypeInv' /\ (SafeInv /\ ~ LateRedelivery => SafeInv')
<1>1. /\ runs' = [q \in Requests |-> Nothing] /\ heap' = [o \in Objects |-> Nothing]
      /\ preCanceled' = << >> /\ finalizeRetries' = {} /\ closing' = FALSE
      /\ session' = "down" /\ sender' = Idle /\ answering' = Nothing
      /\ ring' = ring \/ (Wedged /\ ring' = limbo)
      /\ limbo' = Nothing /\ owed' = {} /\ denied' = {} /\ spent' = {} /\ orphaned' = {}
      /\ inherited' = {q \in Requests : ring'[q].state = "reserved"}
      /\ UNCHANGED <<settled, executions, reported, disagreed>>
  BY DEF Restart
<1>2. TypeInv'
  <2>1. ObjectTypes'
    BY <1>1 DEF ObjectTypes, Mapped
  <2>2. preCanceled' \in Seq(Requests) /\ Len(preCanceled') <= DedupRingSize
    <3>1. Len(<< >>) = 0 /\ << >> \in Seq(Requests)
      OBVIOUS
    <3> QED BY <1>1, <3>1, RunnerClientAssumption
  <2>3. PlainTypes'
    <3>1. /\ finalizeRetries' \subseteq Requests /\ owed' \subseteq Requests
          /\ inherited' \subseteq Requests /\ denied' \subseteq Requests
          /\ spent' \subseteq Requests /\ orphaned' \subseteq Requests
          /\ answering' = Nothing /\ closing' \in BOOLEAN /\ session' = "down"
      BY <1>1
    <3> QED BY <1>1, <2>2, <3>1 DEF TypeInv, PlainTypes
  <2>4. LogTypes'
    BY <1>1 DEF TypeInv, LogTypes, Wedged
  <2> QED BY <2>1, <2>3, <2>4 DEF TypeInv
<1>3. ASSUME SafeInv
      PROVE  SafeInv'
  <2>1. \A o \in Objects : heap'[o] = Nothing
    BY <1>1
  <2>2. ~ Wedged'
    BY <1>1 DEF Wedged
  <2>3. OwnerInv' /\ DeniedInv'
    BY <1>1, <2>1 DEF OwnerInv, DeniedInv, CancelHolds, Active
  <2>4. SenderInv'
    BY <1>1 DEF SenderInv, Idle
  <2>5. LogInv'
    BY <1>1, <1>3, <2>2 DEF SafeInv, LogInv, Sound
  <2>6. VoiceInv'
    <3>1. \A q \in Requests, m \in Recorded : Voice(q, m)' => Voice(q, m)
      BY <1>1, <2>1 DEF Voice
    <3>2. \A q \in Requests, m \in Recorded : Voice(q, m)' => Fits(ring[q], q, m)'
      BY <1>1, <1>3, <3>1 DEF SafeInv, VoiceInv, Fits
    <3>3. \A q \in Requests, m \in Recorded, n \in Recorded : Voice(q, m)' /\ Voice(q, n)' => n = m
      BY <1>3, <3>1 DEF SafeInv, VoiceInv
    <3> QED BY <2>2, <3>2, <3>3 DEF VoiceInv
  <2>7. ReservationOwned'
    BY <1>1 DEF ReservationOwned
  <2>8. AtMostOnce' /\ OneOutcome'
    BY <1>1, <1>3 DEF SafeInv, AtMostOnce, OneOutcome
  <2> QED BY <2>3, <2>4, <2>5, <2>6, <2>7, <2>8 DEF SafeInv
<1> QED BY <1>2, <1>3

-----------------------------------------------------------------------------
(* Every step, and the theorems. *)

LEMMA InitInv == Init => TypeInv /\ SafeInv
<1> SUFFICES ASSUME Init
             PROVE  TypeInv /\ SafeInv
  OBVIOUS
<1>1. /\ runs = [q \in Requests |-> Nothing] /\ heap = [o \in Objects |-> Nothing]
      /\ preCanceled = << >> /\ finalizeRetries = {}
      /\ closing = FALSE /\ session = "down" /\ sender = Idle /\ answering = Nothing
      /\ ring = [q \in Requests |-> NoRecord] /\ limbo = Nothing
      /\ owed = {} /\ settled = {}
      /\ executions = [q \in Requests |-> 0] /\ reported = [q \in Requests |-> Nothing]
      /\ disagreed = {} /\ inherited = {} /\ denied = {} /\ spent = {} /\ orphaned = {}
  BY DEF Init
<1>2. \A o \in Objects : heap[o] = Nothing
  BY <1>1
<1>3. /\ NoRecord \in Record /\ Shaped(NoRecord) /\ NoRecord.state = "none"
  BY DEF NoRecord, Record, Shaped
<1>4. \A q \in Requests : ring[q] = NoRecord /\ executions[q] = 0 /\ reported[q] = Nothing
  BY <1>1
<1>5. ~ Wedged
  BY <1>1 DEF Wedged
<1>6. ObjectTypes
  BY <1>1 DEF ObjectTypes, Mapped
<1>7. PlainTypes
  <2>1. Len(<< >>) = 0 /\ << >> \in Seq(Requests)
    OBVIOUS
  <2>2. preCanceled \in Seq(Requests) /\ Len(preCanceled) <= DedupRingSize
    BY <1>1, <2>1, RunnerClientAssumption
  <2>3. executions \in [Requests -> {0, 1, 2}] /\ reported \in [Requests -> Recorded \cup {Nothing}]
    BY <1>1
  <2> QED BY <1>1, <2>2, <2>3 DEF PlainTypes
<1>8. LogTypes
  BY <1>1, <1>3, <1>5 DEF LogTypes, Records
<1>9. OwnerInv /\ DeniedInv
  BY <1>1, <1>2 DEF OwnerInv, DeniedInv, CancelHolds, Active
<1>10. SenderInv /\ OneOutcome
  BY <1>1 DEF SenderInv, OneOutcome
<1>11. LogInv /\ ReservationOwned /\ AtMostOnce
  BY <1>3, <1>4, <1>5 DEF LogInv, Sound, ReservationOwned, AtMostOnce
<1>12. VoiceInv
  BY <1>2, <1>4, NothingAssumption DEF VoiceInv, Voice
<1> QED BY <1>6, <1>7, <1>8, <1>9, <1>10, <1>11, <1>12 DEF TypeInv, SafeInv

LEMMA FrameStep ==
    ASSUME TypeInv, NEW q \in Requests, Frame(q)
    PROVE  TypeInv' /\ (SafeInv /\ ~ LateRedelivery => SafeInv')
<1>1. CASE \/ InspectFails(q) \/ RefuseAtCap(q) \/ RefuseUndecodable(q)
           \/ \E d \in Digests : ReplayResult(q, d) \/ RefuseConflict(q, d)
  BY <1>1, RefusalStep
<1>2. CASE \E d \in Digests : ReserveFails(q, d)
  BY <1>2, ReserveFailsStep
<1>3. CASE \E d \in Digests : CancelBeforeStart(q, d)
  BY <1>3, CancelBeforeStartStep
<1>4. CASE \E d \in Digests : StartRun(q, d)
  BY <1>4, StartRunStep
<1>5. CASE \/ \E d \in Digests : FindPending(q, d)
           \/ RefuseBacklog(q) \/ AckDropped(q) \/ FinalizeFailedIgnored(q)
  BY <1>5, QuietStep
<1>6. CASE CancelActive(q)
  BY <1>6, CancelActiveStep
<1>7. CASE RememberPreCancel(q)
  BY <1>7, RememberPreCancelStep
<1>8. CASE AckFails(q)
  BY <1>8, AckFailsStep
<1>9. CASE AckRun(q)
  BY <1>9, AckRunStep
<1>10. CASE FinalizeFailed(q)
  BY <1>10, FinalizeFailedStep
<1> QED BY <1>1, <1>2, <1>3, <1>4, <1>5, <1>6, <1>7, <1>8, <1>9, <1>10 DEF Frame

LEMMA StutterStep ==
    ASSUME TypeInv, UNCHANGED vars
    PROVE  TypeInv' /\ (SafeInv /\ ~ LateRedelivery => SafeInv')
<1>1. /\ Still /\ UNCHANGED log
      /\ UNCHANGED <<preCanceled, finalizeRetries, closing, session, answering, owed, settled,
                     executions, reported, disagreed, inherited, denied, spent, orphaned>>
  BY DEF vars, client, cloud, history, Still
<1>2. TypeInv'
  <2>1. ObjectTypes'
    BY <1>1 DEF Still, TypeInv, ObjectTypes, Mapped
  <2>2. PlainTypes'
    BY <1>1 DEF TypeInv, PlainTypes
  <2> QED BY <1>1, <2>1, <2>2, LogUnchanged, LogStepTypes DEF TypeInv
<1>3. ASSUME SafeInv, ~ LateRedelivery
      PROVE  SafeInv'
  <2>1. \A p \in (denied \ spent)' : PreCanceled(p)' /\ p \in denied \ spent
    BY <1>1, <1>3 DEF SafeInv, DeniedInv, PreCanceled
  <2> QED BY <1>1, <1>2, <1>3, <2>1, LogUnchanged, SameObjectsSafe DEF log, Still
<1> QED BY <1>2, <1>3

LEMMA NextStep ==
    ASSUME TypeInv, [Next]_vars
    PROVE  TypeInv' /\ (SafeInv /\ ~ LateRedelivery => SafeInv')
<1>1. CASE \E q \in Requests : Frame(q)
  BY <1>1, FrameStep
<1>2. CASE AnswerPending
  BY <1>2, AnswerPendingStep
<1>3. CASE Handler
  BY <1>3, PassGatesStep, FinishRunStep DEF Handler
<1>4. CASE Sender
  BY <1>4, TakeOutboxStep, SendStep, SendFailsStep, SentAllStep, RemoveSentStep DEF Sender
<1>5. CASE Connect
  BY <1>5, ConnectStep
<1>6. CASE SessionFails \/ SessionEnds
  BY <1>6, QuietStep
<1>7. CASE Shutdown
  BY <1>7, ShutdownStep
<1>8. CASE Exit \/ Crash
  BY <1>8, RestartStep DEF Exit, Crash
<1>9. CASE UNCHANGED vars
  BY <1>9, StutterStep
<1> QED BY <1>1, <1>2, <1>3, <1>4, <1>5, <1>6, <1>7, <1>8, <1>9 DEF Next, Process

LEMMA TypeInvImplies == TypeInv => TypeOK
<1> SUFFICES ASSUME TypeInv
             PROVE  TypeOK
  OBVIOUS
<1>1. sender.at \in {"idle", "sending", "removing"} /\ (sender # Idle => heap[sender.obj] # Nothing)
  BY DEF TypeInv, ObjectTypes, Idle, Carrier
<1> QED BY <1>1 DEF TypeInv, ObjectTypes, PlainTypes, LogTypes, Records, TypeOK

\* The client's state stays well formed: what Client.runs and the sender point to
\* exists, an id maps to a runState of that id, preCanceledOrder is within its bound.
\* This holds whatever the control plane redelivers.
THEOREM TypeCorrect == Spec => []TypeOK
<1>1. Init => TypeInv
  BY InitInv
<1>2. TypeInv /\ [Next]_vars => TypeInv'
  BY NextStep
<1>3. QED BY <1>1, <1>2, TypeInvImplies, PTL DEF Spec

\* The inductive invariant, when the control plane redelivers nothing it has
\* acknowledged.
THEOREM SafeInvHolds ==
    ASSUME ~ LateRedelivery
    PROVE  Spec => [](TypeInv /\ SafeInv)
<1>1. Init => TypeInv /\ SafeInv
  BY InitInv
<1>2. TypeInv /\ SafeInv /\ [Next]_vars => (TypeInv /\ SafeInv)'
  BY NextStep
<1>3. QED BY <1>1, <1>2, PTL DEF Spec

\* The engine is entered at most once for a request id until its result is
\* acknowledged, over failed commits and rollbacks, reconnects and crashes.
THEOREM ExecutedAtMostOnce ==
    ASSUME ~ LateRedelivery
    PROVE  Spec => []AtMostOnce
<1>1. SafeInv => AtMostOnce
  BY DEF SafeInv
<1>2. QED BY <1>1, SafeInvHolds, PTL

\* All recorded results the control plane is sent of one reservation are the same,
\* whether finishRun, a replay, a reconnect or the next process sends them.
THEOREM AlwaysOneOutcome ==
    ASSUME ~ LateRedelivery
    PROVE  Spec => []OneOutcome
<1>1. SafeInv => OneOutcome
  BY DEF SafeInv
<1>2. QED BY <1>1, SafeInvHolds, PTL

\* Every reservation in the log has a handler, a held result or a previous process
\* that accounts for it.
THEOREM ReservationsAlwaysOwned ==
    ASSUME ~ LateRedelivery
    PROVE  Spec => []ReservationOwned
<1>1. SafeInv => ReservationOwned
  BY DEF SafeInv
<1>2. QED BY <1>1, SafeInvHolds, PTL

\* No handler is at work on an id cancelled before its dispatch, unless a reservation
\* that then failed consumed the tombstone.
THEOREM CancelsAlwaysHold ==
    ASSUME ~ LateRedelivery
    PROVE  Spec => []CancelHolds
<1>1. SafeInv => CancelHolds
  BY DEF SafeInv, DeniedInv
<1>2. QED BY <1>1, SafeInvHolds, PTL

-----------------------------------------------------------------------------
(* The cap and truthful refusals: what steps do to handlers and to queued       *)
(* refusals.                                                                   *)

\* An object the map or the sender can still send from, and one that will send
\* dispatch_reservation_failed.
Held(o) ==
    /\ heap[o] # Nothing
    /\ runs[heap[o].id] = o \/ (sender # Idle /\ sender.obj = o)

Refuses(o) == Held(o) /\ Says(o, "reservation_failed")

NoNewHandler == \A o \in Objects : Active(o)' => Active(o)

NoNewRefusal ==
    \A o \in Objects : Refuses(o)' => Refuses(o) /\ heap'[o].id = heap[o].id

Calm == NoNewHandler /\ NoNewRefusal

LEMMA CalmObjects ==
    ASSUME TypeInv, TypeInv',
           \A o \in Objects : heap'[o] # Nothing =>
              /\ heap[o] # Nothing /\ heap'[o].id = heap[o].id
              /\ heap'[o].handler # "none" => heap[o].handler # "none",
           \A p \in Requests : runs'[p] # Nothing => runs'[p] = runs[p],
           sender' = Idle \/ Held(sender'.obj),
           \A o \in Objects : heap'[o] # Nothing /\ Says(o, "reservation_failed")' =>
              Says(o, "reservation_failed")
    PROVE  Calm
<1>1. NoNewHandler
  BY DEF NoNewHandler, Active
<1>2. ASSUME NEW o \in Objects, Refuses(o)'
      PROVE  Refuses(o) /\ heap'[o].id = heap[o].id
  <2>1. heap'[o] # Nothing /\ heap[o] # Nothing /\ heap'[o].id = heap[o].id
    BY <1>2 DEF Refuses, Held
  <2>2. heap[o].id \in Requests
    BY <2>1 DEF TypeInv, ObjectTypes, RunState
  <2>3. Says(o, "reservation_failed")
    BY <1>2, <2>1 DEF Refuses
  <2>4. o # Nothing
    BY NothingAssumption
  <2>5. CASE runs'[heap'[o].id] = o
    BY <2>1, <2>2, <2>3, <2>4, <2>5 DEF Refuses, Held
  <2>6. CASE sender' # Idle /\ sender'.obj = o
    BY <2>1, <2>3, <2>6 DEF Refuses
  <2> QED BY <1>2, <2>5, <2>6 DEF Refuses, Held
<1> QED BY <1>1, <1>2 DEF Calm, NoNewRefusal

LEMMA CalmStill ==
    ASSUME TypeInv, Still
    PROVE  Calm
BY DEF Calm, NoNewHandler, NoNewRefusal, Refuses, Held, Says, Active, Still

\* The sender's object is held.
LEMMA SenderHolds ==
    ASSUME TypeInv
    PROVE  sender = Idle \/ Held(sender.obj)
BY DEF TypeInv, ObjectTypes, Held

LEMMA CalmForgetting ==
    ASSUME TypeInv, TypeInv', \A o \in Objects : heap'[o] \in {heap[o], Nothing},
           \A p \in Requests : runs'[p] # Nothing => runs'[p] = runs[p],
           sender' = sender \/ sender' = Idle
    PROVE  Calm
<1>1. \A o \in Objects : heap'[o] # Nothing /\ Says(o, "reservation_failed")' =>
         Says(o, "reservation_failed")
  BY DEF Says
<1>2. \A o \in Objects : heap'[o] # Nothing => heap'[o] = heap[o]
  OBVIOUS
<1> QED BY <1>1, <1>2, SenderHolds, CalmObjects

\* A new object adds no refusal unless it is one, and no handler unless it has one.
LEMMA CalmInstalled ==
    ASSUME TypeInv, TypeInv', NEW q \in Requests, NEW s \in RunState, s.id = q, Installed(q, s)
    PROVE  /\ s.handler = "none" => NoNewHandler
           /\ ~ Contains(s.pending, "reservation_failed") => NoNewRefusal
           /\ \A o \in Objects : Refuses(o)' =>
                 (Refuses(o) /\ heap'[o].id = heap[o].id) \/ heap'[o].id = q
<1>1. PICK x \in Objects : /\ heap[x] = Nothing
                           /\ runs' = [runs EXCEPT ![q] = x]
                           /\ heap' = [heap EXCEPT ![x] = s]
  BY DEF Installed
<1>2. /\ runs \in [Requests -> Objects \cup {Nothing}]
      /\ heap \in [Objects -> RunState \cup {Nothing}]
      /\ sender' = sender /\ s # Nothing
      /\ sender = Idle \/ (sender \in Carrier /\ heap[sender.obj] # Nothing)
  BY NothingAssumption DEF TypeInv, ObjectTypes, Installed
<1>3. /\ runs'[q] = x /\ heap'[x] = s
      /\ \A p \in Requests \ {q} : runs'[p] = runs[p]
      /\ \A o \in Objects \ {x} : heap'[o] = heap[o]
  BY <1>1, <1>2
<1>4. s.handler = "none" => NoNewHandler
  BY <1>3 DEF NoNewHandler, Active
<1>5. ASSUME NEW o \in Objects, o # x, Refuses(o)'
      PROVE  Refuses(o) /\ heap'[o].id = heap[o].id
  <2>1. heap'[o] = heap[o] /\ heap[o] # Nothing /\ heap[o].id \in Requests
    BY <1>2, <1>3, <1>5 DEF Refuses, Held, RunState
  <2>2. Says(o, "reservation_failed")
    BY <1>2, <1>5, <2>1 DEF Refuses, Says
  <2>3. runs'[heap[o].id] = o => runs[heap[o].id] = o
    BY <1>3, <1>5, <2>1
  <2>4. Held(o)
    BY <1>2, <1>5, <2>1, <2>3 DEF Refuses, Held
  <2> QED BY <2>1, <2>2, <2>4 DEF Refuses
<1>6. Refuses(x)' => Contains(s.pending, "reservation_failed")
  BY <1>1, <1>2, <1>3 DEF Refuses, Says
<1> QED BY <1>3, <1>4, <1>5, <1>6 DEF NoNewRefusal

LEMMA CalmReplied ==
    ASSUME TypeInv, TypeInv', NEW q \in Requests, NEW msg \in Messages, Replied(q, msg),
           msg = "reservation_failed" => ~ Mapped(q)
    PROVE  /\ NoNewHandler
           /\ msg # "reservation_failed" => NoNewRefusal
           /\ \A o \in Objects : Refuses(o)' =>
                 (Refuses(o) /\ heap'[o].id = heap[o].id) \/ heap'[o].id = q
<1>1. CASE Still
  BY <1>1, CalmStill DEF Calm, NoNewRefusal
<1>2. CASE Queued(q, msg)
  <2>1. UNCHANGED <<runs, sender>> /\ msg # "reservation_failed"
    BY <1>2 DEF Queued
  <2> DEFINE x == runs[q]
  <2>2. /\ x \in Objects /\ heap'[x].id = q /\ heap[x].id = q
        /\ heap[x] # Nothing
        /\ heap'[x].handler = heap[x].handler
        /\ \A m : Contains(heap'[x].pending, m) <=> Contains(heap[x].pending, m) \/ m = msg
        /\ \A o \in Objects \ {x} : heap'[o] = heap[o]
    BY <1>2, QueuedObject, NothingAssumption
  <2> HIDE DEF x
  <2>3. \A o \in Objects : heap'[o] # Nothing =>
          /\ heap[o] # Nothing /\ heap'[o].id = heap[o].id
          /\ heap'[o].handler # "none" => heap[o].handler # "none"
    BY <2>2
  <2>4. \A o \in Objects : heap'[o] # Nothing /\ Says(o, "reservation_failed")' =>
          Says(o, "reservation_failed")
    BY <2>1, <2>2 DEF Says
  <2>5. Calm
    BY <2>1, <2>3, <2>4, SenderHolds, CalmObjects
  <2> QED BY <2>5 DEF Calm, NoNewRefusal
<1>3. CASE Installed(q, TransientState(q, msg))
  <2> DEFINE s == TransientState(q, msg)
  <2>1. /\ s \in RunState /\ s.id = q /\ s.handler = "none"
        /\ \A m : Contains(s.pending, m) => m = msg
    BY TransientType
  <2>2. Installed(q, s)
    BY <1>3
  <2> HIDE DEF s
  <2> QED BY <2>1, <2>2, CalmInstalled
<1> QED BY <1>1, <1>2, <1>3 DEF Replied

-----------------------------------------------------------------------------
(* ... step by step.  Only StartRun adds a handler, only a failing log a refusal. *)

LEMMA FrameCalm ==
    ASSUME TypeInv, TypeInv', NEW q \in Requests,
           \/ RefuseAtCap(q) \/ RefuseUndecodable(q) \/ RefuseBacklog(q)
           \/ \E d \in Digests : ReplayResult(q, d) \/ RefuseConflict(q, d) \/ FindPending(q, d)
           \/ RememberPreCancel(q) \/ AckDropped(q) \/ AckFails(q) \/ FinalizeFailed(q)
           \/ FinalizeFailedIgnored(q)
    PROVE  Calm
<1>1. ASSUME NEW msg \in Messages, msg # "reservation_failed", Replied(q, msg)
      PROVE  Calm
  BY <1>1, CalmReplied DEF Calm
<1>2. CASE RefuseAtCap(q)
  BY <1>1, <1>2, ReplyReplies DEF RefuseAtCap, Keeps, Messages
<1>3. CASE RefuseUndecodable(q)
  BY <1>1, <1>3, AddTransientReplies DEF RefuseUndecodable, Keeps, Messages, Results, Refusals
<1>4. ASSUME NEW d \in Digests, ReplayResult(q, d)
      PROVE  Calm
  <2>1. ring[q].result \in Recorded
    BY <1>4 DEF ReplayResult, TypeInv, LogTypes, Records, Shaped
  <2>2. ring[q].result \in Messages /\ ring[q].result # "reservation_failed"
    BY <2>1 DEF Messages, Results, Recorded
  <2> QED BY <1>1, <1>4, <2>2, ReplyReplies DEF ReplayResult, Keeps
<1>5. ASSUME NEW d \in Digests, RefuseConflict(q, d)
      PROVE  Calm
  BY <1>1, <1>5, ReplyReplies DEF RefuseConflict, Keeps, Messages, Results, Refusals
<1>6. CASE FinalizeFailed(q)
  <2>1. ring[q].result \in Recorded
    BY <1>6 DEF FinalizeFailed, TypeInv, LogTypes, Records, Shaped
  <2>2. ring[q].result \in Messages /\ ring[q].result # "reservation_failed"
    BY <2>1 DEF Messages, Results, Recorded
  <2> QED BY <1>1, <1>6, <2>2, AddTransientReplies DEF FinalizeFailed
<1>7. CASE \/ RefuseBacklog(q) \/ (\E d \in Digests : FindPending(q, d)) \/ RememberPreCancel(q)
           \/ AckDropped(q) \/ AckFails(q) \/ FinalizeFailedIgnored(q)
  <2>1. Still
    BY <1>7 DEF RefuseBacklog, FindPending, RememberPreCancel, AckDropped, AckFails,
                FinalizeFailedIgnored, Keeps, client, Still
  <2> QED BY <2>1, CalmStill
<1> QED BY <1>2, <1>3, <1>4, <1>5, <1>6, <1>7

\* A refusal for want of a reservation is for an id without a record.
LEMMA RefusalCalm ==
    ASSUME TypeInv, TypeInv', NEW q \in Requests,
           InspectFails(q) \/ \E d \in Digests : ReserveFails(q, d)
    PROVE  /\ NoNewHandler
           /\ \A o \in Objects : Refuses(o)' =>
                 (Refuses(o) /\ heap'[o].id = heap[o].id) \/ heap'[o].id = q
           /\ UNCHANGED <<executions, settled>>
           /\ ~ Wedged => ring[q].state = "none" /\ (q \in settled => LateRedelivery)
<1>1. /\ Reply(q, "reservation_failed") /\ Dispatched(q)
      /\ UNCHANGED <<sender, executions, settled>>
      /\ ~ Wedged => ring[q].state = "none"
  BY DEF InspectFails, ReserveFails, Admitted, Unknown, Keeps, cloud, history
<1>2. ~ Mapped(q) /\ (q \in settled => LateRedelivery)
  BY <1>1 DEF Dispatched
<1>3. "reservation_failed" \in Messages
  BY DEF Messages, Results, Refusals
<1>4. Replied(q, "reservation_failed")
  BY <1>1, ReplyReplies
<1> QED BY <1>1, <1>2, <1>3, <1>4, CalmReplied

LEMMA RecordCalm ==
    ASSUME TypeInv, TypeInv',
           AnswerPending \/ \E q \in Requests, d \in Digests : CancelBeforeStart(q, d)
    PROVE  Calm
<1>1. ASSUME NEW q \in Requests, NEW d \in Digests, NEW r \in Recorded, NEW ok \in BOOLEAN,
             ~ Mapped(q), Install(q, Finished(NewState(q, d), r, ok)), UNCHANGED sender
      PROVE  Calm
  <2> DEFINE s == NewState(q, d)
             g == Finished(s, r, ok)
  <2>1. s \in RunState /\ s.id = q /\ s.handler = "none" /\ \A m : ~ Contains(s.pending, m)
    BY NewStateType
  <2>2. Installed(q, g)
    BY <1>1, InstallInstalls
  <2> HIDE DEF s
  <2>3. /\ g \in RunState /\ g.id = q /\ g.handler = "none"
        /\ \A m : Contains(g.pending, m) => m = r
    BY <2>1, FinishedObject
  <2> HIDE DEF g
  <2>4. r # "reservation_failed"
    BY DEF Recorded
  <2> QED BY <2>2, <2>3, <2>4, CalmInstalled DEF Calm
<1>2. CASE AnswerPending
  <2>1. /\ answering # Nothing /\ UNCHANGED sender
        /\ \/ UNCHANGED <<runs, heap>>
           \/ ~ Mapped(answering.id) /\ \E ok \in BOOLEAN :
                Install(answering.id, Finished(NewState(answering.id, answering.digest),
                                               "outcome_unknown", ok))
    BY <1>2 DEF AnswerPending, Keeps
  <2>2. answering.id \in Requests /\ answering.digest \in Digests /\ "outcome_unknown" \in Recorded
    BY <2>1 DEF TypeInv, PlainTypes, Recorded
  <2> QED BY <1>1, <2>1, <2>2, CalmStill DEF Still
<1>3. ASSUME NEW q \in Requests, NEW d \in Digests, CancelBeforeStart(q, d)
      PROVE  Calm
  <2>1. ~ Mapped(q) /\ UNCHANGED sender
        /\ \E ok \in BOOLEAN : Install(q, Finished(NewState(q, d), "cancelled", ok))
    BY <1>3 DEF CancelBeforeStart, Admitted, Unknown, Dispatched, Keeps
  <2>2. "cancelled" \in Recorded
    BY DEF Recorded
  <2> QED BY <1>1, <2>1, <2>2
<1> QED BY <1>2, <1>3

\* One object changes, in nothing that raises a refusal or adds a handler.
LEMMA CalmChange ==
    ASSUME TypeInv, TypeInv', NEW x \in Objects, heap[x] # Nothing, NEW g \in RunState,
           g.id = heap[x].id, g.handler # "none" => heap[x].handler # "none",
           NEW h, h = [heap EXCEPT ![x] = g],
           \A o \in Objects : heap'[o] \in {h[o], Nothing},
           UNCHANGED runs, sender' = Idle \/ sender' = sender,
           Contains(g.pending, "reservation_failed") => Says(x, "reservation_failed")
    PROVE  Calm
<1>1. heap \in [Objects -> RunState \cup {Nothing}] /\ g # Nothing
  BY NothingAssumption DEF TypeInv, ObjectTypes
<1>2. h[x] = g /\ \A o \in Objects \ {x} : h[o] = heap[o]
  BY <1>1
<1>3. \A o \in Objects : heap'[o] # Nothing =>
        /\ heap[o] # Nothing /\ heap'[o].id = heap[o].id
        /\ heap'[o].handler # "none" => heap[o].handler # "none"
  BY <1>2
<1>4. ASSUME NEW o \in Objects, heap'[o] # Nothing, Says(o, "reservation_failed")'
      PROVE  Says(o, "reservation_failed")
  <2>1. heap'[o] = h[o]
    BY <1>4
  <2>2. CASE sender' # Idle /\ sender'.obj = o /\ Contains(sender'.msgs, "reservation_failed")
    BY <2>2 DEF Says
  <2>3. CASE Contains(heap'[o].pending, "reservation_failed")
    BY <1>2, <2>1, <2>3 DEF Says
  <2> QED BY <1>4, <2>2, <2>3 DEF Says
<1> QED BY <1>3, <1>4, SenderHolds, CalmObjects

LEMMA CancelActiveCalm ==
    ASSUME TypeInv, TypeInv', NEW q \in Requests, CancelActive(q)
    PROVE  Calm
<1> DEFINE x == runs[q]
           f == heap[x]
           g == [f EXCEPT !.canceled = TRUE]
<1>1. /\ Mapped(q) /\ heap' = [heap EXCEPT ![runs[q]].canceled = TRUE]
      /\ UNCHANGED <<runs, sender>>
  BY DEF CancelActive, Keeps
<1>2. x \in Objects /\ f \in RunState /\ heap \in [Objects -> RunState \cup {Nothing}] /\ f # Nothing
  BY <1>1 DEF TypeInv, ObjectTypes, Mapped
<1>3. g \in RunState /\ g.id = f.id /\ g.handler = f.handler /\ g.pending = f.pending
  BY <1>2 DEF RunState
<1>4. heap' = [heap EXCEPT ![x] = g]
  BY <1>1, <1>2
<1>5. Contains(g.pending, "reservation_failed") => Says(x, "reservation_failed")
  BY <1>3 DEF Says
<1> HIDE DEF g, x, f
<1> QED BY <1>1, <1>2, <1>3, <1>4, <1>5, CalmChange DEF f

LEMMA PassGatesCalm ==
    ASSUME TypeInv, TypeInv', NEW x \in Objects, PassGates(x)
    PROVE  Calm
<1> DEFINE f == heap[x]
           n == Append(f.pending, "started")
           g == [f EXCEPT !.handler = "engine", !.started = TRUE, !.pending = n]
<1>1. /\ Active(x)
      /\ heap' = [heap EXCEPT ![x].handler = "engine", ![x].started = TRUE,
                              ![x].pending = Append(@, "started")]
      /\ UNCHANGED <<runs, sender>>
  BY DEF PassGates
<1>2. f \in RunState /\ heap \in [Objects -> RunState \cup {Nothing}] /\ f # Nothing
      /\ f.handler # "none"
  BY <1>1 DEF TypeInv, ObjectTypes, Active
<1>3. "started" \in Messages /\ f.pending \in Seq(Messages)
  BY <1>2 DEF Messages, RunState
<1>4. /\ n \in Seq(Messages)
      /\ Contains(n, "reservation_failed") => Contains(f.pending, "reservation_failed")
  BY <1>3, AppendContains
<1>5. heap' = [heap EXCEPT ![x] = g]
  BY <1>1, <1>2
<1> HIDE DEF n
<1>6. g \in RunState /\ g.id = f.id /\ g.pending = n
  BY <1>2, <1>4 DEF RunState
<1>7. Contains(g.pending, "reservation_failed") => Says(x, "reservation_failed")
  BY <1>4, <1>6 DEF Says
<1> HIDE DEF g
<1> QED BY <1>1, <1>2, <1>5, <1>6, <1>7, CalmChange

LEMMA FinishRunCalm ==
    ASSUME TypeInv, TypeInv', NEW x \in Objects, FinishRun(x)
    PROVE  Calm
<1> DEFINE f == heap[x]
<1>1. PICK r \in HandlerResults(f), ok \in BOOLEAN :
        heap' = Live([heap EXCEPT ![x] = HandlerDone(Finished(f, r, ok))], runs, sender)
  BY DEF FinishRun
<1>2. Active(x) /\ UNCHANGED <<runs, sender>>
  BY DEF FinishRun
<1>3. /\ f \in RunState /\ heap \in [Objects -> RunState \cup {Nothing}] /\ f # Nothing
      /\ r \in Recorded /\ r # "reservation_failed"
  BY <1>2 DEF TypeInv, ObjectTypes, Active, HandlerResults, Recorded
<1> DEFINE e == Finished(f, r, ok)
           g == HandlerDone(e)
           h == [heap EXCEPT ![x] = g]
<1>4. /\ e \in RunState /\ e.id = f.id
      /\ \A m : Contains(e.pending, m) => Contains(f.pending, m) \/ m = r
  BY <1>3, FinishedObject
<1> HIDE DEF e
<1>5. g \in RunState /\ g.id = f.id /\ g.handler = "none" /\ g.pending = e.pending
  BY <1>4 DEF HandlerDone, RunState
<1>6. heap' = Live(h, runs, sender)
  BY <1>1 DEF e
<1> HIDE DEF g
<1>7. h \in [Objects -> RunState \cup {Nothing}]
  BY <1>3, <1>5
<1>8. \A o \in Objects : heap'[o] \in {h[o], Nothing}
  <2> HIDE DEF h
  <2> QED BY <1>6, <1>7, LiveObjects
<1>9. Contains(g.pending, "reservation_failed") => Says(x, "reservation_failed")
  BY <1>3, <1>4, <1>5 DEF Says
<1> QED BY <1>2, <1>3, <1>5, <1>8, <1>9, CalmChange

LEMMA TakeOutboxCalm ==
    ASSUME TypeInv, TypeInv', NEW q \in Requests, TakeOutbox(q)
    PROVE  Calm
<1> DEFINE x == runs[q]
           f == heap[x]
<1>1. sender = Idle /\ Mapped(q) /\ UNCHANGED runs
  BY DEF TakeOutbox
<1>2. /\ x \in Objects /\ f \in RunState /\ f.id = q /\ f # Nothing
      /\ heap \in [Objects -> RunState \cup {Nothing}]
  BY <1>1 DEF TypeInv, ObjectTypes, Mapped
<1>3. \E t \in RunState :
        /\ sender' = [at |-> "sending", obj |-> x, msgs |-> t.pending]
        /\ heap' = [heap EXCEPT ![x] = [t EXCEPT !.pending = << >>]]
        /\ t.id = f.id /\ t.handler = f.handler
        /\ Contains(t.pending, "reservation_failed") => Contains(f.pending, "reservation_failed")
  <2> DEFINE Take(t) ==
                 /\ sender' = [at |-> "sending", obj |-> x, msgs |-> t.pending]
                 /\ heap' = [heap EXCEPT ![x] = [t EXCEPT !.pending = << >>]]
  <2>1. CASE Take(f)
    BY <1>2, <2>1
  <2>2. ASSUME NEW ok \in BOOLEAN, f.terminal # Nothing, Take(Finished(f, f.terminal, ok))
        PROVE  \E t \in RunState :
                 /\ sender' = [at |-> "sending", obj |-> x, msgs |-> t.pending]
                 /\ heap' = [heap EXCEPT ![x] = [t EXCEPT !.pending = << >>]]
                 /\ t.id = f.id /\ t.handler = f.handler
                 /\ Contains(t.pending, "reservation_failed") =>
                       Contains(f.pending, "reservation_failed")
    <3> DEFINE r == f.terminal
               t == Finished(f, r, ok)
    <3>1. r \in Recorded /\ r # "reservation_failed"
      BY <1>2, <2>2 DEF RunState, Recorded
    <3>2. f \in RunState
      BY <1>2
    <3>3. Take(t)
      BY <2>2
    <3> HIDE DEF r, f
    <3>4. /\ t \in RunState /\ t.id = f.id /\ t.handler = f.handler
          /\ \A m : Contains(t.pending, m) => Contains(f.pending, m) \/ m = r
      BY <3>1, <3>2, FinishedObject
    <3> HIDE DEF t
    <3> QED BY <3>1, <3>3, <3>4
  <2> QED BY <2>1, <2>2 DEF TakeOutbox
<1>4. PICK t \in RunState :
        /\ sender' = [at |-> "sending", obj |-> x, msgs |-> t.pending]
        /\ heap' = [heap EXCEPT ![x] = [t EXCEPT !.pending = << >>]]
        /\ t.id = f.id /\ t.handler = f.handler
        /\ Contains(t.pending, "reservation_failed") => Contains(f.pending, "reservation_failed")
  BY <1>3
<1> DEFINE g == [t EXCEPT !.pending = << >>]
<1>5. g.id = t.id /\ g.handler = t.handler /\ \A m : ~ Contains(g.pending, m)
  BY TakenObject
<1> HIDE DEF g
<1>6. heap'[x] = g /\ \A o \in Objects \ {x} : heap'[o] = heap[o]
  BY <1>2, <1>4 DEF g
<1>7. sender'.obj = x /\ sender'.msgs = t.pending
  BY <1>4
<1>8. Held(sender'.obj)
  BY <1>2, <1>7 DEF Held
<1>9. \A o \in Objects : heap'[o] # Nothing =>
        /\ heap[o] # Nothing /\ heap'[o].id = heap[o].id
        /\ heap'[o].handler # "none" => heap[o].handler # "none"
  BY <1>2, <1>4, <1>5, <1>6
<1>10. \A o \in Objects : heap'[o] # Nothing /\ Says(o, "reservation_failed")' =>
         Says(o, "reservation_failed")
  BY <1>4, <1>5, <1>6, <1>7 DEF Says
<1> QED BY <1>1, <1>8, <1>9, <1>10, CalmObjects

LEMMA SenderCalm ==
    ASSUME TypeInv, TypeInv', Send \/ SendFails \/ SentAll \/ RemoveSent
    PROVE  Calm
<1>1. CASE Send
  <2>1. /\ sender.at = "sending" /\ sender.msgs # << >>
        /\ sender' = [sender EXCEPT !.msgs = Tail(@)]
        /\ UNCHANGED <<runs, heap>> /\ Delivered(heap[sender.obj].id, Head(sender.msgs))
    BY <1>1 DEF Send
  <2>2. sender \in Carrier /\ sender # Idle
    BY <2>1 DEF TypeInv, ObjectTypes, Idle
  <2>3. \A m : Contains(Tail(sender.msgs), m) => Contains(sender.msgs, m)
    BY <2>1, <2>2, DeliveredVoice
  <2>4. sender'.obj = sender.obj /\ sender'.msgs = Tail(sender.msgs)
    BY <2>1, <2>2 DEF Carrier
  <2>5. \A o \in Objects : heap'[o] # Nothing /\ Says(o, "reservation_failed")' =>
          Says(o, "reservation_failed")
    BY <2>1, <2>2, <2>3, <2>4 DEF Says
  <2>6. Held(sender'.obj)
    BY <2>2, <2>4, SenderHolds
  <2> QED BY <2>1, <2>5, <2>6, CalmObjects
<1>2. CASE SendFails
  <2> DEFINE x == sender.obj
             f == heap[x]
             k == sender.msgs
             g == [f EXCEPT !.pending = k \o f.pending]
             h == [heap EXCEPT ![x] = g]
  <2>1. /\ sender.at = "sending" /\ sender' = Idle /\ UNCHANGED runs
        /\ heap' = Live([heap EXCEPT ![sender.obj].pending = sender.msgs \o @], runs, sender')
    BY <1>2 DEF SendFails
  <2>2. /\ sender \in Carrier /\ sender # Idle /\ x \in Objects /\ f # Nothing /\ f \in RunState
        /\ heap \in [Objects -> RunState \cup {Nothing}] /\ k \in Seq(Messages)
    BY <2>1 DEF TypeInv, ObjectTypes, Idle, Carrier
  <2>3. [heap EXCEPT ![sender.obj].pending = sender.msgs \o @] = h
    BY <2>2
  <2>4. /\ g \in RunState /\ g.id = f.id /\ g.handler = f.handler
        /\ \A m : Contains(g.pending, m) => Contains(k, m) \/ Contains(f.pending, m)
    BY <2>2, RequeuedObject
  <2> HIDE DEF g
  <2>5. h \in [Objects -> RunState \cup {Nothing}]
    BY <2>2, <2>4
  <2>6. \A o \in Objects : heap'[o] \in {h[o], Nothing}
    <3> HIDE DEF h
    <3> QED BY <2>1, <2>3, <2>5, LiveObjects
  <2>7. Contains(g.pending, "reservation_failed") => Says(x, "reservation_failed")
    BY <2>2, <2>4 DEF Says
  <2> QED BY <2>1, <2>2, <2>4, <2>6, <2>7, CalmChange
<1>3. CASE SentAll
  <2>1. sender.at = "sending" /\ UNCHANGED runs
    BY <1>3 DEF SentAll
  <2>2. sender \in Carrier /\ sender # Idle /\ heap \in [Objects -> RunState \cup {Nothing}]
    BY <2>1 DEF TypeInv, ObjectTypes, Idle
  <2>3. CASE sender' = [sender EXCEPT !.at = "removing"] /\ UNCHANGED heap
    <3>1. sender'.obj = sender.obj /\ sender'.msgs = sender.msgs
      BY <2>2, <2>3 DEF Carrier
    <3>2. \A o \in Objects : heap'[o] # Nothing /\ Says(o, "reservation_failed")' =>
            Says(o, "reservation_failed")
      BY <2>2, <2>3, <3>1 DEF Says
    <3>3. Held(sender'.obj)
      BY <2>2, <3>1, SenderHolds
    <3> QED BY <2>1, <2>3, <3>2, <3>3, CalmObjects
  <2>4. CASE sender' = Idle /\ heap' = Live(heap, runs, sender')
    <3>1. \A o \in Objects : heap'[o] \in {heap[o], Nothing}
      BY <2>2, <2>4, LiveObjects
    <3> QED BY <2>1, <2>4, <3>1, CalmForgetting
  <2> QED BY <1>3, <2>3, <2>4 DEF SentAll
<1>4. CASE RemoveSent
  <2>1. sender.at = "removing" /\ sender' = Idle /\ RemoveRun(heap[sender.obj].id, sender')
    BY <1>4 DEF RemoveSent
  <2>2. heap[sender.obj].id \in Requests
    BY <2>1 DEF TypeInv, ObjectTypes, Idle, Carrier, RunState
  <2>3. /\ \A p \in Requests : runs'[p] # Nothing => runs'[p] = runs[p]
        /\ \A o \in Objects : heap'[o] \in {heap[o], Nothing}
    BY <2>1, <2>2, RemovedObjects
  <2> QED BY <2>1, <2>3, CalmForgetting
<1> QED BY <1>1, <1>2, <1>3, <1>4

LEMMA AckRunCalm ==
    ASSUME TypeInv, TypeInv', NEW q \in Requests, AckRun(q)
    PROVE  Calm
<1>1. RemoveRun(q, sender) /\ UNCHANGED sender
  BY DEF AckRun
<1>2. /\ \A p \in Requests : runs'[p] # Nothing => runs'[p] = runs[p]
      /\ \A o \in Objects : heap'[o] \in {heap[o], Nothing}
  BY <1>1, RemovedObjects
<1> QED BY <1>1, <1>2, CalmForgetting

LEMMA ConnectCalm ==
    ASSUME TypeInv, TypeInv', Connect
    PROVE  Calm
<1>1. sender' = sender
  BY DEF Connect
<1>2. /\ \A o \in Objects : heap[o] # Nothing => Kept(o)
      /\ \A o \in Objects : heap[o] = Nothing /\ heap'[o] # Nothing =>
            \E q \in Requests : Added(o, q)
      /\ \A q \in Requests : runs[q] # Nothing => runs'[q] = runs[q]
      /\ \A q \in Requests : runs[q] = Nothing /\ runs'[q] # Nothing =>
            runs'[q] \in Objects /\ Added(runs'[q], q)
  BY ConnectObjects
<1>3. ASSUME NEW o \in Objects, NEW q \in Requests, Added(o, q)
      PROVE  /\ heap'[o].handler = "none"
             /\ ~ Contains(heap'[o].pending, "reservation_failed")
             /\ heap[o] = Nothing
  <2>1. ring[q].result \in Recorded /\ heap[o] = Nothing
    BY <1>3 DEF Added
  <2>2. ring[q].result \in Messages /\ ring[q].result # "reservation_failed"
    BY <2>1 DEF Messages, Results, Recorded
  <2> DEFINE s == TransientState(q, ring[q].result)
  <2>3. s.handler = "none" /\ \A m : Contains(s.pending, m) => m = ring[q].result
    BY <2>2, TransientType
  <2>4. heap'[o] = s
    BY <1>3 DEF Added
  <2> HIDE DEF s
  <2> QED BY <2>1, <2>2, <2>3, <2>4
<1>4. NoNewHandler
  BY <1>2, <1>3 DEF NoNewHandler, Active, Kept
<1>5. ASSUME NEW o \in Objects, Refuses(o)'
      PROVE  Refuses(o) /\ heap'[o].id = heap[o].id
  <2>1. sender = Idle \/ (sender \in Carrier /\ heap[sender.obj] # Nothing)
    BY DEF TypeInv, ObjectTypes
  <2>2. heap[o] # Nothing
    <3>1. SUFFICES ASSUME heap[o] = Nothing
                   PROVE  FALSE
      OBVIOUS
    <3>2. heap'[o] # Nothing
      BY <1>5 DEF Refuses, Held
    <3>3. ~ Contains(heap'[o].pending, "reservation_failed")
      BY <1>2, <1>3, <3>1, <3>2
    <3> QED BY <1>1, <1>5, <2>1, <3>1, <3>3 DEF Refuses, Says
  <2>3. Kept(o) /\ heap[o].id \in Requests
    BY <1>2, <2>2 DEF TypeInv, ObjectTypes, RunState
  <2>4. Says(o, "reservation_failed")
    <3>1. ring[heap[o].id].state = "completed" => ring[heap[o].id].result # "reservation_failed"
      BY <2>3 DEF TypeInv, LogTypes, Records, Shaped, Recorded
    <3>2. Contains(heap'[o].pending, "reservation_failed") =>
            Contains(heap[o].pending, "reservation_failed")
      BY <2>3, <3>1 DEF Kept, Results, Refusals
    <3> QED BY <1>1, <1>5, <3>2 DEF Refuses, Says
  <2>5. runs'[heap[o].id] = o => runs[heap[o].id] = o
    <3>1. o # Nothing
      BY NothingAssumption
    <3> QED BY <1>2, <1>3, <2>2, <2>3, <3>1
  <2>6. Held(o)
    BY <1>1, <1>5, <2>2, <2>3, <2>5 DEF Refuses, Held, Kept
  <2> QED BY <2>3, <2>4, <2>6 DEF Refuses, Kept
<1> QED BY <1>4, <1>5 DEF Calm, NoNewRefusal

LEMMA ProcessCalm ==
    ASSUME TypeInv, TypeInv', Process
    PROVE  Calm
<1>1. CASE Connect
  BY <1>1, ConnectCalm
<1>2. CASE SessionFails \/ SessionEnds
  BY <1>2, CalmStill DEF SessionFails, SessionEnds, Still
<1>3. CASE Shutdown
  <2>1. UNCHANGED <<runs, sender>>
    BY <1>3 DEF Shutdown
  <2>2. ASSUME NEW o \in Objects, heap'[o] # Nothing
        PROVE  /\ heap[o] # Nothing /\ heap'[o].id = heap[o].id
               /\ heap'[o].handler = heap[o].handler /\ heap'[o].pending = heap[o].pending
    <3>1. heap[o] # Nothing
      BY <1>3, <2>2 DEF Shutdown, Active
    <3>2. heap[o] \in RunState
      BY <3>1 DEF TypeInv, ObjectTypes
    <3>3. heap'[o] = heap[o] \/ heap'[o] = [heap[o] EXCEPT !.canceled = TRUE]
      BY <1>3 DEF Shutdown
    <3> QED BY <3>1, <3>2, <3>3 DEF RunState
  <2>3. \A o \in Objects : heap'[o] # Nothing /\ Says(o, "reservation_failed")' =>
          Says(o, "reservation_failed")
    BY <2>1, <2>2 DEF Says
  <2> QED BY <2>1, <2>2, <2>3, SenderHolds, CalmObjects
<1>4. CASE Exit \/ Crash
  <2>1. \A o \in Objects : heap'[o] = Nothing
    BY <1>4 DEF Exit, Crash, Restart
  <2> QED BY <2>1 DEF Calm, NoNewHandler, NoNewRefusal, Refuses, Held, Active
<1> QED BY <1>1, <1>2, <1>3, <1>4 DEF Process

-----------------------------------------------------------------------------
(* The cap, whatever is redelivered. *)

\* A handler whose id no removal has orphaned works on the object its id maps to,
\* which is unfinished, without a result, and whose id is reserved.
CountedInv ==
    \A o \in Objects : Active(o) /\ heap[o].id \notin orphaned =>
        /\ runs[heap[o].id] = o
        /\ ~ heap[o].finished /\ heap[o].terminal = Nothing
        /\ ring[heap[o].id].state = "reserved"

\* The handlers the cap is kept for.
Counted(o) == Active(o) /\ heap[o].id \notin orphaned

\* A step leaves what CountedInv says of a handler as it was.
Undisturbed(o) ==
    /\ heap'[o].id = heap[o].id
    /\ heap'[o].finished = heap[o].finished /\ heap'[o].terminal = heap[o].terminal
    /\ runs'[heap[o].id] = runs[heap[o].id]
    /\ ring'[heap[o].id].state = ring[heap[o].id].state

NoNewCounted == \A o \in Objects : Counted(o)' => Counted(o)

LEMMA CountedKept ==
    ASSUME CountedInv, \A o \in Objects : Counted(o)' => Counted(o) /\ Undisturbed(o)
    PROVE  CountedInv' /\ NoNewCounted
BY DEF CountedInv, Counted, Undisturbed, NoNewCounted

\* An object is mapped for an id that has no such handler.
LEMMA CountedInstalled ==
    ASSUME TypeInv, CountedInv, NEW q \in Requests, NEW s \in RunState, s.id = q,
           Installed(q, s), UNCHANGED orphaned,
           s.handler # "none" => /\ ~ s.finished /\ s.terminal = Nothing
                                 /\ ring'[q].state = "reserved",
           \A p \in Requests \ {q} : ring[p].state = "reserved" => ring'[p].state = "reserved"
    PROVE  CountedInv' /\ (s.handler = "none" => NoNewCounted)
<1>1. PICK x \in Objects : /\ heap[x] = Nothing
                           /\ runs' = [runs EXCEPT ![q] = x]
                           /\ heap' = [heap EXCEPT ![x] = s]
  BY DEF Installed
<1>2. /\ runs \in [Requests -> Objects \cup {Nothing}]
      /\ heap \in [Objects -> RunState \cup {Nothing}]
      /\ runs[q] = Nothing /\ Nothing \notin Objects
  BY NothingAssumption DEF TypeInv, ObjectTypes, Installed, Mapped
<1>3. /\ runs'[q] = x /\ heap'[x] = s
      /\ \A p \in Requests \ {q} : runs'[p] = runs[p]
      /\ \A o \in Objects \ {x} : heap'[o] = heap[o]
  BY <1>1, <1>2
<1>4. ASSUME NEW o \in Objects, Active(o)', heap'[o].id \notin orphaned'
      PROVE  /\ runs'[heap'[o].id] = o
             /\ ~ heap'[o].finished /\ heap'[o].terminal = Nothing
             /\ ring'[heap'[o].id].state = "reserved"
  <2>1. CASE o = x
    BY <1>3, <1>4, <2>1 DEF Active
  <2>2. CASE o # x
    <3>1. Active(o) /\ heap'[o] = heap[o] /\ heap[o].id \notin orphaned
      BY <1>3, <1>4, <2>2 DEF Active
    <3>2. heap[o].id \in Requests
      BY <1>2, <3>1 DEF Active, RunState
    <3>3. /\ runs[heap[o].id] = o /\ ~ heap[o].finished /\ heap[o].terminal = Nothing
          /\ ring[heap[o].id].state = "reserved"
      BY <3>1 DEF CountedInv
    <3> QED BY <1>2, <1>3, <3>1, <3>2, <3>3
  <2> QED BY <2>1, <2>2
<1>5. s.handler = "none" => NoNewCounted
  BY <1>3 DEF NoNewCounted, Counted, Active
<1> QED BY <1>4, <1>5 DEF CountedInv

LEMMA CountedReplied ==
    ASSUME TypeInv, CountedInv, NEW q \in Requests, NEW msg \in Messages, Replied(q, msg),
           UNCHANGED <<ring, orphaned>>
    PROVE  CountedInv' /\ NoNewCounted
<1>1. CASE Still
  BY <1>1 DEF Still, CountedInv, Active, Counted, NoNewCounted
<1>2. CASE Queued(q, msg)
  <2> DEFINE x == runs[q]
  <2>1. /\ x \in Objects /\ heap'[x].id = heap[x].id /\ heap[x] # Nothing
        /\ heap'[x].handler = heap[x].handler
        /\ heap'[x].terminal = heap[x].terminal
        /\ heap'[x].finished = heap[x].finished
        /\ \A o \in Objects \ {x} : heap'[o] = heap[o]
    BY <1>2, QueuedObject, NothingAssumption
  <2>2. runs' = runs
    BY <1>2 DEF Queued
  <2> HIDE DEF x
  <2>3. \A o \in Objects : Counted(o)' => Counted(o) /\ Undisturbed(o)
    BY <2>1, <2>2 DEF Counted, Undisturbed, Active
  <2> QED BY <2>3, CountedKept
<1>3. CASE Installed(q, TransientState(q, msg))
  <2> DEFINE s == TransientState(q, msg)
  <2>1. s \in RunState /\ s.id = q /\ s.handler = "none"
    BY TransientType
  <2>2. Installed(q, s)
    BY <1>3
  <2> HIDE DEF s
  <2> QED BY <2>1, <2>2, CountedInstalled
<1> QED BY <1>1, <1>2, <1>3 DEF Replied

\* Replies, and the frames that change no object.
LEMMA CountedFrame ==
    ASSUME TypeInv, CountedInv, NEW q \in Requests,
           \/ InspectFails(q) \/ \E d \in Digests : ReserveFails(q, d)
           \/ RefuseAtCap(q) \/ RefuseUndecodable(q) \/ RefuseBacklog(q)
           \/ \E d \in Digests : ReplayResult(q, d) \/ RefuseConflict(q, d) \/ FindPending(q, d)
           \/ RememberPreCancel(q) \/ AckDropped(q) \/ AckFails(q) \/ FinalizeFailed(q)
           \/ FinalizeFailedIgnored(q)
    PROVE  CountedInv' /\ NoNewCounted
<1>1. ASSUME NEW msg \in Messages, Replied(q, msg), UNCHANGED <<ring, orphaned>>
      PROVE  CountedInv' /\ NoNewCounted
  BY <1>1, CountedReplied
<1>2. CASE InspectFails(q)
  BY <1>1, <1>2, ReplyReplies DEF InspectFails, Keeps, log, history, Messages, Results, Refusals
<1>3. ASSUME NEW d \in Digests, ReserveFails(q, d)
      PROVE  CountedInv' /\ NoNewCounted
  <2>1. /\ Reply(q, "reservation_failed") /\ UNCHANGED <<sender, orphaned>>
        /\ UNCHANGED log \/ \E next \in Reservations(q, d) : CommitFails(next)
    BY <1>3 DEF ReserveFails, Keeps
  <2>2. ring' = ring
    BY <2>1 DEF log, CommitFails
  <2> QED BY <1>1, <2>1, <2>2, ReplyReplies DEF Messages, Results, Refusals
<1>4. CASE RefuseAtCap(q)
  BY <1>1, <1>4, ReplyReplies DEF RefuseAtCap, Keeps, log, history, Messages
<1>5. CASE RefuseUndecodable(q)
  BY <1>1, <1>5, AddTransientReplies
     DEF RefuseUndecodable, Keeps, log, history, Messages, Results, Refusals
<1>6. ASSUME NEW d \in Digests, ReplayResult(q, d)
      PROVE  CountedInv' /\ NoNewCounted
  <2>1. ring[q].result \in Messages
    BY <1>6 DEF ReplayResult, TypeInv, LogTypes, Records, Shaped, Messages, Results
  <2> QED BY <1>1, <1>6, <2>1, ReplyReplies DEF ReplayResult, Keeps, log, history
<1>7. ASSUME NEW d \in Digests, RefuseConflict(q, d)
      PROVE  CountedInv' /\ NoNewCounted
  BY <1>1, <1>7, ReplyReplies DEF RefuseConflict, Keeps, log, history, Messages, Results, Refusals
<1>8. CASE FinalizeFailed(q)
  <2>1. ring[q].result \in Messages
    BY <1>8 DEF FinalizeFailed, TypeInv, LogTypes, Records, Shaped, Messages, Results
  <2> QED BY <1>1, <1>8, <2>1, AddTransientReplies DEF FinalizeFailed, log, history
<1>9. CASE \/ RefuseBacklog(q) \/ (\E d \in Digests : FindPending(q, d)) \/ RememberPreCancel(q)
           \/ AckDropped(q) \/ AckFails(q) \/ FinalizeFailedIgnored(q)
  <2>1. UNCHANGED <<runs, heap, ring, orphaned>>
    BY <1>9 DEF RefuseBacklog, FindPending, RememberPreCancel, AckDropped, AckFails, CommitFails,
                FinalizeFailedIgnored, Keeps, client, log, history
  <2> QED BY <2>1 DEF CountedInv, Active, Counted, NoNewCounted
<1> QED BY <1>2, <1>3, <1>4, <1>5, <1>6, <1>7, <1>8, <1>9

\* New reservations, and the answer to a pending one.
LEMMA CountedRecord ==
    ASSUME TypeInv, CountedInv,
           \/ AnswerPending
           \/ \E q \in Requests, d \in Digests : CancelBeforeStart(q, d)
    PROVE  CountedInv' /\ NoNewCounted
<1>1. ASSUME NEW q \in Requests, NEW d \in Digests, NEW r \in Recorded, NEW ok \in BOOLEAN,
             ~ Mapped(q), Install(q, Finished(NewState(q, d), r, ok)),
             UNCHANGED <<sender, orphaned>>,
             \A p \in Requests \ {q} : ring[p].state = "reserved" => ring'[p].state = "reserved"
      PROVE  CountedInv' /\ NoNewCounted
  <2> DEFINE s == NewState(q, d)
             g == Finished(s, r, ok)
  <2>1. s \in RunState /\ s.id = q /\ s.handler = "none"
    BY NewStateType
  <2>2. Installed(q, g)
    BY <1>1, InstallInstalls
  <2> HIDE DEF s
  <2>3. g \in RunState /\ g.id = q /\ g.handler = "none"
    BY <2>1, FinishedObject
  <2> HIDE DEF g
  <2> QED BY <1>1, <2>2, <2>3, CountedInstalled
<1>2. CASE AnswerPending
  <2> DEFINE q == answering.id
             s == NewState(q, answering.digest)
  <2>1. /\ answering # Nothing /\ UNCHANGED <<sender, orphaned>>
        /\ \/ UNCHANGED <<runs, heap, log>>
           \/ ~ Mapped(q) /\ \E ok \in BOOLEAN :
                /\ Complete(s, "outcome_unknown", ok)
                /\ Install(q, Finished(s, "outcome_unknown", ok))
    BY <1>2 DEF AnswerPending, Keeps, history
  <2>2. q \in Requests /\ answering.digest \in Digests /\ "outcome_unknown" \in Recorded
    BY <2>1 DEF TypeInv, PlainTypes, Recorded
  <2>3. CASE UNCHANGED <<runs, heap, log>>
    BY <2>1, <2>3 DEF CountedInv, Active, log, Counted, NoNewCounted
  <2>4. ASSUME NEW ok \in BOOLEAN, ~ Mapped(q), Complete(s, "outcome_unknown", ok),
               Install(q, Finished(s, "outcome_unknown", ok))
        PROVE  CountedInv' /\ NoNewCounted
    <3>1. s \in RunState /\ s.id = q
      BY <2>2, NewStateType
    <3>2. \A p \in Requests \ {q} : ring'[p] = ring[p]
      <4> HIDE DEF s, q
      <4> QED BY <2>2, <2>4, <3>1, CompleteStep
    <3> HIDE DEF q
    <3> QED BY <1>1, <2>1, <2>2, <2>4, <3>2
  <2> QED BY <2>1, <2>3, <2>4
<1>3. ASSUME NEW q \in Requests, NEW d \in Digests, CancelBeforeStart(q, d)
      PROVE  CountedInv' /\ NoNewCounted
  <2>1. Unknown(q) /\ UNCHANGED <<sender, orphaned>>
    BY <1>3 DEF CancelBeforeStart, Admitted, Keeps
  <2>2. PICK reserved \in Reservations(q, d), ok \in BOOLEAN :
          /\ IF ok THEN Commit(Completed(reserved, q)) ELSE ring' = reserved
          /\ Install(q, Finished(NewState(q, d), "cancelled", ok))
    BY <1>3 DEF CancelBeforeStart, Completed
  <2>3. ring[q].state = "none" /\ ~ Mapped(q) /\ "cancelled" \in Recorded
    BY <2>1 DEF Unknown, Dispatched, Recorded
  <2>4. /\ reserved \in Records
        /\ \A p \in Requests \ {q} :
              \/ reserved[p] = ring[p]
              \/ ring[p].state = "acknowledged" /\ reserved[p].state = "none"
    BY <2>2, <2>3, ReservationRecords
  <2>5. \A p \in Requests \ {q} : Completed(reserved, q)[p] = reserved[p]
    BY <2>4, CancelledRecords
  <2>6. \A p \in Requests \ {q} : ring[p].state = "reserved" => ring'[p].state = "reserved"
    BY <2>2, <2>4, <2>5 DEF Commit
  <2> QED BY <1>1, <2>1, <2>2, <2>3, <2>6
<1> QED BY <1>2, <1>3

LEMMA CountedStartRun ==
    ASSUME TypeInv, CountedInv, NEW q \in Requests, NEW d \in Digests, StartRun(q, d)
    PROVE  CountedInv'
<1> DEFINE n == NewState(q, d)
           s == [n EXCEPT !.handler = "gates"]
<1>1. Unknown(q) /\ UNCHANGED <<sender, orphaned>> /\ Install(q, s)
  BY DEF StartRun, Admitted, Keeps
<1>2. PICK reserved \in Reservations(q, d) : ring' = reserved
  BY DEF StartRun, Commit
<1>3. ring[q].state = "none" /\ ~ Mapped(q)
  BY <1>1 DEF Unknown, Dispatched
<1>4. /\ reserved[q].state = "reserved"
      /\ \A p \in Requests \ {q} :
            \/ reserved[p] = ring[p]
            \/ ring[p].state = "acknowledged" /\ reserved[p].state = "none"
  BY <1>2, <1>3, ReservationRecords
<1>5. n \in RunState /\ n.id = q /\ ~ n.finished /\ n.terminal = Nothing
  BY NewStateType
<1> HIDE DEF n
<1>6. s \in RunState /\ s.id = q /\ ~ s.finished /\ s.terminal = Nothing
  BY <1>5 DEF RunState
<1> HIDE DEF s
<1>7. Installed(q, s)
  BY <1>1, <1>3, InstallInstalls
<1> QED BY <1>1, <1>2, <1>4, <1>6, <1>7, CountedInstalled

\* One object changes: it keeps its fields, or it is not the handler of a counted run.
LEMMA CountedChange ==
    ASSUME TypeInv, CountedInv, NEW x \in Objects, heap[x] # Nothing, NEW g \in RunState,
           NEW h, h = [heap EXCEPT ![x] = g],
           \A o \in Objects : heap'[o] \in {h[o], Nothing},
           UNCHANGED <<runs, orphaned>>,
           \/ g.handler = "none"
           \/ /\ g.handler # "none" => heap[x].handler # "none"
              /\ g.id = heap[x].id /\ g.finished = heap[x].finished
              /\ g.terminal = heap[x].terminal,
           \A o \in Objects \ {x} : Counted(o) => ring'[heap[o].id].state = "reserved",
           g.handler # "none" => ring' = ring
    PROVE  CountedInv' /\ NoNewCounted
<1>1. heap \in [Objects -> RunState \cup {Nothing}] /\ g # Nothing
  BY NothingAssumption DEF TypeInv, ObjectTypes
<1>2. h[x] = g /\ \A o \in Objects \ {x} : h[o] = heap[o]
  BY <1>1
<1>3. ASSUME NEW o \in Objects, Counted(o)'
      PROVE  Counted(o) /\ Undisturbed(o)
  <2>1. heap'[o] = h[o] /\ heap'[o] # Nothing /\ heap'[o].handler # "none"
        /\ heap'[o].id \notin orphaned
    BY <1>3 DEF Counted, Active
  <2>2. CASE o = x
    BY <1>2, <2>1, <2>2 DEF Counted, Active, Undisturbed
  <2>3. CASE o # x
    <3>1. heap'[o] = heap[o] /\ Counted(o)
      BY <1>2, <2>1, <2>3 DEF Counted, Active
    <3>2. ring[heap[o].id].state = "reserved" /\ ring'[heap[o].id].state = "reserved"
      BY <2>3, <3>1 DEF CountedInv, Counted
    <3> QED BY <3>1, <3>2 DEF Undisturbed
  <2> QED BY <2>2, <2>3
<1> QED BY <1>3, CountedKept

LEMMA CountedCancelActive ==
    ASSUME TypeInv, CountedInv, NEW q \in Requests, CancelActive(q)
    PROVE  CountedInv' /\ NoNewCounted
<1> DEFINE x == runs[q]
           f == heap[x]
           g == [f EXCEPT !.canceled = TRUE]
<1>1. /\ Mapped(q) /\ heap' = [heap EXCEPT ![runs[q]].canceled = TRUE]
      /\ UNCHANGED <<runs, ring, orphaned>>
  BY DEF CancelActive, Keeps, log, history
<1>2. x \in Objects /\ f \in RunState /\ heap \in [Objects -> RunState \cup {Nothing}] /\ f # Nothing
  BY <1>1 DEF TypeInv, ObjectTypes, Mapped
<1>3. /\ g \in RunState /\ g.id = f.id /\ g.handler = f.handler
      /\ g.finished = f.finished /\ g.terminal = f.terminal
  BY <1>2 DEF RunState
<1>4. heap' = [heap EXCEPT ![x] = g]
  BY <1>1, <1>2
<1> HIDE DEF g, x
<1>5. \A o \in Objects : Counted(o)' => Counted(o) /\ Undisturbed(o)
  BY <1>1, <1>2, <1>3, <1>4 DEF Counted, Undisturbed, Active
<1> QED BY <1>5, CountedKept

LEMMA CountedHandler ==
    ASSUME TypeInv, CountedInv, NEW x \in Objects, PassGates(x) \/ FinishRun(x)
    PROVE  CountedInv' /\ NoNewCounted
<1> DEFINE f == heap[x]
<1>1. /\ Active(x) /\ UNCHANGED <<runs, orphaned>>
      /\ f \in RunState /\ heap \in [Objects -> RunState \cup {Nothing}] /\ f # Nothing
  BY DEF PassGates, FinishRun, history, Active, TypeInv, ObjectTypes
<1>2. CASE PassGates(x)
  <2> DEFINE n == Append(f.pending, "started")
             g == [f EXCEPT !.handler = "engine", !.started = TRUE, !.pending = n]
  <2>1. /\ heap' = [heap EXCEPT ![x].handler = "engine", ![x].started = TRUE,
                                ![x].pending = Append(@, "started")]
        /\ ring' = ring
    BY <1>2 DEF PassGates, log
  <2>2. heap' = [heap EXCEPT ![x] = g]
    BY <1>1, <2>1
  <2> HIDE DEF n
  <2>3. g.id = f.id /\ g.finished = f.finished /\ g.terminal = f.terminal
    BY <1>1 DEF RunState
  <2>4. heap'[x] = g /\ \A o \in Objects \ {x} : heap'[o] = heap[o]
    BY <1>1, <2>2
  <2> HIDE DEF g
  <2>5. \A o \in Objects : Counted(o)' => Counted(o) /\ Undisturbed(o)
    BY <1>1, <2>1, <2>3, <2>4 DEF Counted, Undisturbed, Active
  <2> QED BY <2>5, CountedKept
<1>3. CASE FinishRun(x)
  <2>1. PICK r \in HandlerResults(f), ok \in BOOLEAN :
          /\ Complete(f, r, ok)
          /\ heap' = Live([heap EXCEPT ![x] = HandlerDone(Finished(f, r, ok))], runs, sender)
    BY <1>3 DEF FinishRun
  <2>2. r \in Recorded
    BY DEF HandlerResults, Recorded
  <2> DEFINE e == Finished(f, r, ok)
             g == HandlerDone(e)
             h == [heap EXCEPT ![x] = g]
  <2>3. e \in RunState
    BY <1>1, <2>2, FinishedObject
  <2> HIDE DEF e
  <2>4. g \in RunState /\ g.handler = "none"
    BY <2>3 DEF HandlerDone, RunState
  <2>5. heap' = Live(h, runs, sender)
    BY <2>1 DEF e
  <2> HIDE DEF g
  <2>6. h \in [Objects -> RunState \cup {Nothing}]
    BY <1>1, <2>4
  <2>7. \A o \in Objects : heap'[o] \in {h[o], Nothing}
    <3> HIDE DEF h
    <3> QED BY <2>5, <2>6, LiveObjects
  <2>8. ASSUME NEW o \in Objects \ {x}, Counted(o)
        PROVE  ring'[heap[o].id].state = "reserved"
    <3>1. heap[o].id \in Requests
      BY <1>1, <2>8 DEF Counted, Active, RunState
    <3>2. runs[heap[o].id] = o /\ ring[heap[o].id].state = "reserved"
      BY <2>8 DEF CountedInv, Counted
    <3>3. heap[o].id # f.id
      <4>1. SUFFICES ASSUME heap[o].id = f.id
                     PROVE  FALSE
        OBVIOUS
      <4>2. Counted(x)
        BY <1>1, <2>8, <4>1 DEF Counted
      <4>3. runs[f.id] = x
        BY <4>2 DEF CountedInv, Counted
      <4> QED BY <2>8, <3>2, <4>1, <4>3
    <3>4. \A p \in Requests \ {f.id} : ring'[p] = ring[p]
      <4> HIDE DEF f
      <4> QED BY <1>1, <2>1, <2>2, CompleteStep
    <3> QED BY <3>1, <3>2, <3>3, <3>4
  <2> HIDE DEF h
  <2>9. h = [heap EXCEPT ![x] = g]
    BY DEF h
  <2> QED BY <1>1, <2>4, <2>7, <2>8, <2>9, CountedChange
<1> QED BY <1>2, <1>3

\* A terminal result is held by no counted handler.
LEMMA CountedTakeOutbox ==
    ASSUME TypeInv, CountedInv, NEW q \in Requests, TakeOutbox(q)
    PROVE  CountedInv' /\ NoNewCounted
<1> DEFINE x == runs[q]
           f == heap[x]
           Taken(t) == heap' = [heap EXCEPT ![x] = [t EXCEPT !.pending = << >>]]
<1>1. Mapped(q) /\ UNCHANGED <<runs, orphaned>>
  BY DEF TakeOutbox, history
<1>2. /\ x \in Objects /\ f \in RunState /\ f.id = q /\ f # Nothing
      /\ heap \in [Objects -> RunState \cup {Nothing}]
  BY <1>1 DEF TypeInv, ObjectTypes, Mapped
<1>3. CASE f.terminal = Nothing /\ Taken(f) /\ UNCHANGED log
  <2> DEFINE g == [f EXCEPT !.pending = << >>]
  <2>1. /\ g.id = f.id /\ g.handler = f.handler
        /\ g.finished = f.finished /\ g.terminal = f.terminal
    BY <1>2, TakenObject
  <2> HIDE DEF g
  <2>2. heap'[x] = g /\ \A o \in Objects \ {x} : heap'[o] = heap[o]
    BY <1>2, <1>3 DEF g
  <2>3. ring' = ring
    BY <1>3 DEF log
  <2> HIDE DEF x
  <2>4. \A o \in Objects : Counted(o)' => Counted(o) /\ Undisturbed(o)
    BY <1>1, <1>2, <2>1, <2>2, <2>3 DEF Counted, Undisturbed, Active
  <2> QED BY <2>4, CountedKept
<1>4. ASSUME NEW ok \in BOOLEAN, f.terminal # Nothing, Complete(f, f.terminal, ok),
             Taken(Finished(f, f.terminal, ok))
      PROVE  CountedInv' /\ NoNewCounted
  <2> DEFINE r == f.terminal
             t == Finished(f, r, ok)
             g == [t EXCEPT !.pending = << >>]
  <2>1. r \in Recorded
    BY <1>2, <1>4 DEF RunState
  <2>2. heap' = [heap EXCEPT ![x] = g]
    BY <1>4
  <2>3. \A p \in Requests \ {q} : ring'[p] = ring[p]
    BY <1>2, <1>4, <2>1, CompleteStep
  <2>4. t.id = f.id /\ t.handler = f.handler /\ t \in RunState
    <3> HIDE DEF r
    <3> QED BY <1>2, <2>1, FinishedObject
  <2> HIDE DEF t, r
  <2>5. g.id = f.id /\ g.handler = f.handler
    BY <2>4, TakenObject
  <2> HIDE DEF g
  <2>6. heap'[x] = g /\ \A o \in Objects \ {x} : heap'[o] = heap[o]
    BY <1>2, <2>2
  <2>7. ASSUME NEW o \in Objects, Counted(o)'
        PROVE  Counted(o) /\ Undisturbed(o)
    <3>1. Counted(o) /\ heap'[o].id = heap[o].id
      BY <1>1, <1>2, <2>5, <2>6, <2>7 DEF Counted, Active
    <3>2. runs[heap[o].id] = o /\ heap[o].terminal = Nothing
      BY <3>1 DEF CountedInv, Counted
    <3>3. o # x
      BY <1>4, <3>2
    <3>4. heap[o].id # q /\ heap[o].id \in Requests
      BY <1>2, <3>1, <3>2, <3>3 DEF Counted, Active, RunState
    <3> QED BY <1>1, <2>3, <2>6, <3>1, <3>3, <3>4 DEF Undisturbed
  <2> QED BY <2>7, CountedKept
<1> QED BY <1>3, <1>4 DEF TakeOutbox

\* Objects are forgotten, and one id is unmapped that no counted handler has.
LEMMA CountedForgetting ==
    ASSUME TypeInv, CountedInv, NEW q \in Requests, orphaned \subseteq orphaned',
           \A o \in Objects : heap'[o] \in {heap[o], Nothing},
           \A p \in Requests \ {q} : runs'[p] = runs[p] /\ ring'[p] = ring[p],
           \A o \in Objects : Counted(o) /\ heap[o].id = q => q \in orphaned'
    PROVE  CountedInv' /\ NoNewCounted
<1>1. ASSUME NEW o \in Objects, Counted(o)'
      PROVE  Counted(o) /\ Undisturbed(o)
  <2>1. heap'[o] = heap[o] /\ Counted(o)
    BY <1>1 DEF Counted, Active
  <2>2. heap[o].id \in Requests
    BY <2>1 DEF Counted, Active, TypeInv, ObjectTypes, RunState
  <2>3. heap[o].id # q
    BY <1>1, <2>1 DEF Counted
  <2> QED BY <2>1, <2>2, <2>3 DEF Undisturbed
<1> QED BY <1>1, CountedKept

LEMMA CountedAckRun ==
    ASSUME TypeInv, CountedInv, NEW q \in Requests, AckRun(q)
    PROVE  CountedInv' /\ NoNewCounted
<1>1. /\ RemoveRun(q, sender) /\ UNCHANGED <<sender, orphaned>> /\ ring[q].state # "reserved"
      /\ UNCHANGED log \/ Commit(Acknowledged(q))
  BY DEF AckRun
<1>2. /\ \A p \in Requests \ {q} : runs'[p] = runs[p]
      /\ \A o \in Objects : heap'[o] \in {heap[o], Nothing}
  BY <1>1, RemovedObjects
<1>3. \A p \in Requests \ {q} : ring'[p] = ring[p]
  BY <1>1 DEF log, Commit, Acknowledged, TypeInv, LogTypes, Records
<1>4. \A o \in Objects : Counted(o) => heap[o].id # q
  BY <1>1 DEF CountedInv, Counted
<1> QED BY <1>1, <1>2, <1>3, <1>4, CountedForgetting

LEMMA CountedSender ==
    ASSUME TypeInv, CountedInv, Send \/ SendFails \/ SentAll \/ RemoveSent
    PROVE  CountedInv' /\ NoNewCounted
<1> DEFINE x == sender.obj
           f == heap[x]
<1>1. /\ sender \in Carrier /\ sender # Idle /\ x \in Objects /\ f # Nothing /\ f \in RunState
      /\ heap \in [Objects -> RunState \cup {Nothing}] /\ f.id \in Requests
  BY DEF Send, SendFails, SentAll, RemoveSent, TypeInv, ObjectTypes, Idle, Carrier, RunState
<1>2. CASE Send
  <2>1. UNCHANGED <<runs, heap, ring, orphaned>>
    BY <1>2 DEF Send, Delivered, log
  <2> QED BY <2>1 DEF CountedInv, Active, Counted, NoNewCounted
<1>3. CASE SendFails
  <2> DEFINE k == sender.msgs
             g == [f EXCEPT !.pending = k \o f.pending]
             h == [heap EXCEPT ![x] = g]
  <2>1. /\ UNCHANGED <<runs, ring, orphaned>>
        /\ heap' = Live([heap EXCEPT ![sender.obj].pending = sender.msgs \o @], runs, sender')
    BY <1>3 DEF SendFails, Delivered, log, history
  <2>2. [heap EXCEPT ![sender.obj].pending = sender.msgs \o @] = h
    BY <1>1
  <2>3. k \in Seq(Messages)
    BY <1>1 DEF Carrier
  <2>4. /\ g \in RunState /\ g.id = f.id /\ g.handler = f.handler
        /\ g.finished = f.finished /\ g.terminal = f.terminal
    BY <1>1, <2>3, RequeuedObject
  <2> HIDE DEF g
  <2>5. h \in [Objects -> RunState \cup {Nothing}]
    BY <1>1, <2>4
  <2>6. \A o \in Objects : heap'[o] \in {h[o], Nothing}
    <3> HIDE DEF h
    <3> QED BY <2>1, <2>2, <2>5, LiveObjects
  <2>7. \A o \in Objects \ {x} : Counted(o) => ring'[heap[o].id].state = "reserved"
    BY <2>1 DEF CountedInv, Counted
  <2>8. h = [heap EXCEPT ![x] = g]
    OBVIOUS
  <2>9. /\ x \in Objects /\ heap[x] # Nothing /\ g \in RunState
        /\ g.handler # "none" => heap[x].handler # "none"
        /\ g.id = heap[x].id /\ g.finished = heap[x].finished
        /\ g.terminal = heap[x].terminal
    BY <1>1, <2>4
  <2>10. UNCHANGED <<runs, orphaned>> /\ ring' = ring
    BY <2>1
  <2> HIDE DEF h, k, x, f
  <2> QED BY <2>6, <2>7, <2>8, <2>9, <2>10, CountedChange
<1>4. CASE SentAll
  <2>1. UNCHANGED <<runs, ring, orphaned>>
        /\ (UNCHANGED heap \/ heap' = Live(heap, runs, sender'))
    BY <1>4 DEF SentAll, log, history
  <2>2. \A o \in Objects : heap'[o] \in {heap[o], Nothing}
    BY <1>1, <2>1, LiveObjects
  <2>3. \A o \in Objects : Counted(o)' => Counted(o) /\ Undisturbed(o)
    BY <2>1, <2>2 DEF Counted, Undisturbed, Active
  <2> QED BY <2>3, CountedKept
<1>5. CASE RemoveSent
  <2> DEFINE q == f.id
  <2>1. /\ sender' = Idle /\ RemoveRun(q, sender') /\ ring' = ring
        /\ orphaned' = orphaned \cup IF Mapped(q) /\ Active(runs[q]) THEN {q} ELSE {}
    BY <1>5 DEF RemoveSent, log
  <2>2. q \in Requests
    BY <1>1
  <2> HIDE DEF q
  <2>3. /\ \A p \in Requests \ {q} : runs'[p] = runs[p]
        /\ \A o \in Objects : heap'[o] \in {heap[o], Nothing}
    BY <2>1, <2>2, RemovedObjects
  <2>4. ASSUME NEW o \in Objects, Counted(o), heap[o].id = q
        PROVE  q \in orphaned'
    <3>1. runs[q] = o /\ Active(o)
      BY <2>4 DEF CountedInv, Counted
    <3>2. Mapped(q)
      BY <3>1, NothingAssumption DEF Mapped
    <3> QED BY <2>1, <3>1, <3>2
  <2> QED BY <2>1, <2>2, <2>3, <2>4, CountedForgetting
<1> QED BY <1>2, <1>3, <1>4, <1>5

LEMMA CountedProcess ==
    ASSUME TypeInv, CountedInv, Process
    PROVE  CountedInv' /\ NoNewCounted
<1>1. CASE Connect
  <2>1. /\ \A o \in Objects : heap[o] # Nothing => Kept(o)
        /\ \A o \in Objects : heap[o] = Nothing /\ heap'[o] # Nothing =>
              \E q \in Requests : Added(o, q)
        /\ \A q \in Requests : runs[q] # Nothing => runs'[q] = runs[q]
    BY <1>1, ConnectObjects
  <2>2. UNCHANGED <<ring, orphaned>>
    BY <1>1 DEF Connect, log, history
  <2>3. ASSUME NEW o \in Objects, Counted(o)'
        PROVE  Counted(o) /\ Undisturbed(o)
    <3>1. heap[o] # Nothing
      <4>1. SUFFICES ASSUME heap[o] = Nothing
                     PROVE  FALSE
        OBVIOUS
      <4>2. PICK q \in Requests : Added(o, q)
        BY <2>1, <2>3, <4>1 DEF Counted, Active
      <4>3. ring[q].result \in Messages
        BY <4>2 DEF Added, Messages, Results
      <4>4. TransientState(q, ring[q].result).handler = "none"
        BY <4>3, TransientType
      <4> QED BY <2>3, <4>2, <4>4 DEF Added, Counted, Active
    <3>2. Kept(o)
      BY <2>1, <3>1
    <3>3. Counted(o)
      BY <2>2, <2>3, <3>1, <3>2 DEF Counted, Active, Kept
    <3>4. runs[heap[o].id] = o /\ ring[heap[o].id].state = "reserved"
      BY <3>3 DEF CountedInv, Counted
    <3>5. heap[o].id \in Requests /\ o # Nothing
      BY <3>1, NothingAssumption DEF TypeInv, ObjectTypes, RunState
    <3> QED BY <2>1, <2>2, <3>2, <3>3, <3>4, <3>5 DEF Undisturbed, Kept
  <2> QED BY <2>3, CountedKept
<1>2. CASE SessionFails \/ SessionEnds
  <2>1. UNCHANGED <<runs, heap, ring, orphaned>>
    BY <1>2 DEF SessionFails, SessionEnds, log, history
  <2> QED BY <2>1 DEF CountedInv, Active, Counted, NoNewCounted
<1>3. CASE Shutdown
  <2>1. UNCHANGED <<runs, ring, orphaned>>
    BY <1>3 DEF Shutdown, log, history
  <2>2. ASSUME NEW o \in Objects, Counted(o)'
        PROVE  Counted(o) /\ Undisturbed(o)
    <3>1. heap[o] # Nothing
      BY <1>3, <2>2 DEF Shutdown, Counted, Active
    <3>2. heap[o] \in RunState
      BY <3>1 DEF TypeInv, ObjectTypes
    <3>3. heap'[o] = heap[o] \/ heap'[o] = [heap[o] EXCEPT !.canceled = TRUE]
      BY <1>3 DEF Shutdown
    <3>4. /\ heap'[o].id = heap[o].id /\ heap'[o].handler = heap[o].handler
          /\ heap'[o].finished = heap[o].finished /\ heap'[o].terminal = heap[o].terminal
      BY <3>2, <3>3 DEF RunState
    <3> QED BY <2>1, <2>2, <3>1, <3>4 DEF Counted, Undisturbed, Active
  <2> QED BY <2>2, CountedKept
<1>4. CASE Exit \/ Crash
  <2>1. \A o \in Objects : heap'[o] = Nothing
    BY <1>4 DEF Exit, Crash, Restart
  <2> QED BY <2>1 DEF CountedInv, Active, Counted, NoNewCounted
<1> QED BY <1>1, <1>2, <1>3, <1>4 DEF Process

LEMMA CountedStep ==
    ASSUME TypeInv, CountedInv, [Next]_vars
    PROVE  CountedInv' /\ (NoNewCounted \/ \E q \in Requests, d \in Digests : StartRun(q, d))
<1>1. ASSUME NEW q \in Requests, Frame(q)
      PROVE  /\ CountedInv'
             /\ NoNewCounted \/ \E p \in Requests, d \in Digests : StartRun(p, d)
  BY <1>1, CountedFrame, CountedRecord, CountedStartRun, CountedCancelActive, CountedAckRun DEF Frame
<1>2. CASE AnswerPending
  BY <1>2, CountedRecord
<1>3. CASE Handler
  BY <1>3, CountedHandler DEF Handler
<1>4. CASE Sender
  BY <1>4, CountedTakeOutbox, CountedSender DEF Sender
<1>5. CASE Process
  BY <1>5, CountedProcess
<1>6. CASE UNCHANGED vars
  BY <1>6 DEF vars, client, log, history, CountedInv, Active, Counted, NoNewCounted
<1> QED BY <1>1, <1>2, <1>3, <1>4, <1>5, <1>6 DEF Next

LEMMA CountedFinite ==
    IsFiniteSet({o \in Objects : Counted(o)})
<1>1. {o \in Objects : Counted(o)} \subseteq Objects
  OBVIOUS
<1> QED BY <1>1, RunnerClientAssumption, FS_Subset

\* A counted handler is an active run of the map, and no two are the same one.
LEMMA CountedAreActiveRuns ==
    ASSUME TypeInv, CountedInv
    PROVE  /\ IsFiniteSet(ActiveRuns)
           /\ Cardinality({o \in Objects : Counted(o)}) <= Cardinality(ActiveRuns)
<1> DEFINE H == {o \in Objects : Counted(o)}
           idOf == [o \in H |-> heap[o].id]
           objectOf == [q \in ActiveRuns |-> runs[q]]
<1>1. objectOf \in Injection(ActiveRuns, Objects)
  <2>1. \A q \in ActiveRuns : q \in Requests /\ runs[q] \in Objects /\ heap[runs[q]].id = q
    BY DEF ActiveRuns, Mapped, TypeInv, ObjectTypes
  <2>2. objectOf \in [ActiveRuns -> Objects]
    BY <2>1
  <2>3. \A p, q \in ActiveRuns : objectOf[p] = objectOf[q] => p = q
    BY <2>1
  <2> QED BY <2>2, <2>3 DEF Injection, IsInjective
<1>2. IsFiniteSet(ActiveRuns)
  BY <1>1, RunnerClientAssumption, FS_Injection
<1>3. idOf \in Injection(H, ActiveRuns)
  <2>1. \A o \in H : /\ heap[o].id \in Requests /\ runs[heap[o].id] = o
                     /\ o # Nothing /\ ~ heap[o].finished
    BY NothingAssumption DEF CountedInv, Counted, TypeInv, ObjectTypes, RunState, Active
  <2>2. \A o \in H : heap[o].id \in ActiveRuns
    BY <2>1 DEF ActiveRuns, Mapped
  <2>3. idOf \in [H -> ActiveRuns]
    BY <2>2
  <2>4. \A o, p \in H : idOf[o] = idOf[p] => o = p
    BY <2>1
  <2> QED BY <2>3, <2>4 DEF Injection, IsInjective
<1>4. Cardinality(H) <= Cardinality(ActiveRuns)
  BY <1>2, <1>3, FS_Injection
<1> QED BY <1>2, <1>4

\* startRun counts under c.mu and adds one.
LEMMA StartRunCap ==
    ASSUME TypeInv, CountedInv, NEW q \in Requests, NEW d \in Digests, StartRun(q, d)
    PROVE  CapRespected' /\ NoNewRefusal /\ UNCHANGED executions
<1> DEFINE n == NewState(q, d)
           s == [n EXCEPT !.handler = "gates"]
           H == {o \in Objects : Counted(o)}
           N == {o \in Objects : Counted(o)'}
<1>1. /\ Admitted(q) /\ ~ PreCanceled(q) /\ Unknown(q) /\ Install(q, s)
      /\ UNCHANGED <<sender, executions, orphaned>>
  BY DEF StartRun, Admitted, Keeps
<1>2. Cardinality(ActiveRuns) < MaxConcurrentRuns /\ ~ Mapped(q)
  BY <1>1 DEF Admitted, Unknown, Dispatched
<1>3. n \in RunState /\ n.id = q /\ \A m : ~ Contains(n.pending, m)
  BY NewStateType
<1> HIDE DEF n
<1>4. s \in RunState /\ s.id = q /\ s.pending = n.pending
  BY <1>3 DEF RunState
<1> HIDE DEF s
<1>5. Installed(q, s)
  BY <1>1, <1>2, InstallInstalls
<1>6. PICK x \in Objects : heap[x] = Nothing /\ heap' = [heap EXCEPT ![x] = s]
  BY <1>5 DEF Installed
<1>7. \A o \in Objects \ {x} : heap'[o] = heap[o]
  BY <1>6 DEF TypeInv, ObjectTypes
<1>8. N \subseteq H \cup {x} /\ x \notin H
  BY <1>1, <1>6, <1>7 DEF Counted, Active
<1>9. IsFiniteSet(H) /\ Cardinality(H) <= Cardinality(ActiveRuns) /\ IsFiniteSet(ActiveRuns)
  BY CountedFinite, CountedAreActiveRuns
<1> HIDE DEF N, H
<1>10. IsFiniteSet(H \cup {x}) /\ Cardinality(H \cup {x}) = Cardinality(H) + 1
  BY <1>8, <1>9, FS_AddElement
<1>11. Cardinality(N) <= Cardinality(H \cup {x}) /\ IsFiniteSet(N)
  BY <1>8, <1>10, FS_Subset
<1>12. Cardinality(N) \in Nat /\ Cardinality(H) \in Nat /\ Cardinality(ActiveRuns) \in Nat
  BY <1>9, <1>11, FS_CardinalityType
<1>13. Cardinality(N) <= MaxConcurrentRuns
  BY <1>2, <1>9, <1>10, <1>11, <1>12, RunnerClientAssumption
<1>14. TypeInv'
  BY StartRunStep
<1>15. NoNewRefusal
  BY <1>3, <1>4, <1>5, <1>14, CalmInstalled
<1> QED BY <1>1, <1>13, <1>15 DEF CapRespected, N, Counted

LEMMA CapStep ==
    ASSUME TypeInv, CountedInv, CapRespected, [Next]_vars
    PROVE  CapRespected'
<1> DEFINE H == {o \in Objects : Counted(o)}
           N == {o \in Objects : Counted(o)'}
<1>1. CASE NoNewCounted
  <2>1. N \subseteq H
    BY <1>1 DEF NoNewCounted
  <2>2. IsFiniteSet(H)
    BY CountedFinite
  <2>3. Cardinality(N) <= Cardinality(H) /\ IsFiniteSet(N)
    BY <2>1, <2>2, FS_Subset
  <2>4. Cardinality(N) \in Nat /\ Cardinality(H) \in Nat
    BY <2>2, <2>3, FS_CardinalityType
  <2>5. Cardinality(H) <= MaxConcurrentRuns
    BY DEF CapRespected, Counted
  <2>6. Cardinality(N) <= MaxConcurrentRuns
    <3> HIDE DEF N, H
    <3> QED BY <2>3, <2>4, <2>5, RunnerClientAssumption
  <2> QED BY <2>6 DEF CapRespected, Counted
<1>2. CASE \E q \in Requests, d \in Digests : StartRun(q, d)
  BY <1>2, StartRunCap
<1> QED BY <1>1, <1>2, CountedStep

\* Handlers at work never exceed MaxConcurrentRuns, but for those of ids whose state was
\* removed under a handler: with redeliveries, late ones included, and log failures of
\* every kind, although startRun counts the unfinished states of Client.runs.
THEOREM CapAlwaysRespected == Spec => []CapRespected
<1>1. Init => TypeInv /\ CountedInv /\ CapRespected
  <2> SUFFICES ASSUME Init
               PROVE  TypeInv /\ CountedInv /\ CapRespected
    OBVIOUS
  <2>1. TypeInv
    BY InitInv
  <2>2. \A o \in Objects : ~ Active(o)
    BY DEF Init, Active
  <2>3. {o \in Objects : Active(o) /\ heap[o].id \notin orphaned} = {}
    BY <2>2
  <2> QED BY <2>1, <2>2, <2>3, FS_EmptySet, RunnerClientAssumption DEF CountedInv, CapRespected
<1>2. TypeInv /\ CountedInv /\ CapRespected /\ [Next]_vars =>
        TypeInv' /\ CountedInv' /\ CapRespected'
  BY NextStep, CountedStep, CapStep
<1>3. QED BY <1>1, <1>2, PTL DEF Spec

-----------------------------------------------------------------------------
(* Truthful refusals, as long as the log is usable. *)

\* An object that will refuse has no handler, and its id was not executed.
TruthInv ==
    \A o \in Objects : Refuses(o) => ~ Active(o) /\ executions[heap[o].id] = 0

LEMMA TruthCalm ==
    ASSUME TypeInv, TypeInv', TruthInv, Calm,
           \A p \in Requests : executions'[p] \in {executions[p], 0}
    PROVE  TruthInv'
<1>1. ASSUME NEW o \in Objects, Refuses(o)'
      PROVE  ~ Active(o)' /\ executions'[heap'[o].id] = 0
  <2>1. Refuses(o) /\ heap'[o].id = heap[o].id
    BY <1>1 DEF Calm, NoNewRefusal
  <2>2. heap[o].id \in Requests
    BY <2>1 DEF Refuses, Held, TypeInv, ObjectTypes, RunState
  <2> QED BY <2>1, <2>2 DEF TruthInv, Calm, NoNewHandler
<1> QED BY <1>1 DEF TruthInv

\* A failed reservation is for an id without a record, which was not executed, and
\* whose handler would have one.
LEMMA TruthRefusal ==
    ASSUME TypeInv, TypeInv', SafeInv, TruthInv, ~ LateRedelivery, ~ Wedged, NEW q \in Requests,
           InspectFails(q) \/ \E d \in Digests : ReserveFails(q, d)
    PROVE  TruthInv'
<1>1. /\ NoNewHandler
      /\ \A o \in Objects : Refuses(o)' =>
            (Refuses(o) /\ heap'[o].id = heap[o].id) \/ heap'[o].id = q
      /\ UNCHANGED <<executions, settled>>
      /\ ring[q].state = "none" /\ q \notin settled
  BY RefusalCalm
<1>2. executions[q] = 0
  BY <1>1 DEF SafeInv, LogInv, Sound
<1>3. ASSUME NEW o \in Objects, Refuses(o)'
      PROVE  ~ Active(o)' /\ executions'[heap'[o].id] = 0
  <2>1. CASE Refuses(o) /\ heap'[o].id = heap[o].id
    BY <1>1, <2>1 DEF TruthInv, NoNewHandler
  <2>2. CASE heap'[o].id = q
    <3>1. ~ Active(o)'
      <4>1. SUFFICES ASSUME Active(o)'
                     PROVE  FALSE
        OBVIOUS
      <4>2. Active(o)
        BY <1>1, <4>1 DEF NoNewHandler
      <4>3. ring'[q].state = "reserved"
        <5>1. SafeInv'
          BY NextStep DEF Next, Frame
        <5> QED BY <2>2, <4>1, <5>1 DEF SafeInv, OwnerInv
      <4>4. ring' = ring
        BY DEF InspectFails, ReserveFails, CommitFails, log
      <4> QED BY <1>1, <4>3, <4>4
    <3> QED BY <1>1, <1>2, <2>2, <3>1
  <2> QED BY <1>1, <1>3, <2>1, <2>2
<1> QED BY <1>3 DEF TruthInv

\* The engine is entered for an object of the map that nobody refuses.
LEMMA TruthPassGates ==
    ASSUME TypeInv, TypeInv', SafeInv, TruthInv, NEW x \in Objects, PassGates(x)
    PROVE  TruthInv'
<1>1. /\ Active(x) /\ executions' = [executions EXCEPT ![heap[x].id] = IF @ = 0 THEN 1 ELSE 2]
  BY DEF PassGates, Active
<1>3. Calm
  BY PassGatesCalm
<1>2. ASSUME NEW o \in Objects, Refuses(o)'
      PROVE  ~ Active(o)' /\ executions'[heap'[o].id] = 0
  <2>1. Refuses(o) /\ heap'[o].id = heap[o].id /\ ~ Active(o) /\ executions[heap[o].id] = 0
    BY <1>1, <1>2, <1>3 DEF Calm, NoNewRefusal, TruthInv
  <2>2. heap[o].id \in Requests
    BY <2>1 DEF Refuses, Held, TypeInv, ObjectTypes, RunState
  <2>3. heap[o].id # heap[x].id
    <3>1. SUFFICES ASSUME heap[o].id = heap[x].id
                   PROVE  FALSE
      OBVIOUS
    <3>2. runs[heap[x].id] = x /\ ring[heap[x].id].state = "reserved"
      BY <1>1 DEF SafeInv, OwnerInv
    <3>3. o # x
      BY <1>1, <2>1
    <3>4. sender # Idle /\ sender.obj = o
      BY <2>1, <3>1, <3>2, <3>3 DEF Refuses, Held
    <3>5. runs[heap[o].id] = o \/ ring[heap[o].id].state # "reserved"
      BY <3>4 DEF SafeInv, SenderInv
    <3> QED BY <3>1, <3>2, <3>3, <3>5
  <2>4. executions'[heap[o].id] = executions[heap[o].id]
    BY <1>1, <2>2, <2>3 DEF TypeInv, PlainTypes
  <2> QED BY <1>1, <1>3, <2>1, <2>4 DEF Calm, NoNewHandler
<1> QED BY <1>2 DEF TruthInv

LEMMA TruthStep ==
    ASSUME TypeInv, SafeInv, TruthInv, ~ LateRedelivery, ~ Wedged, [Next]_vars
    PROVE  TruthInv'
<1>1. TypeInv'
  BY NextStep
<1>2. ASSUME Calm, \A p \in Requests : executions'[p] \in {executions[p], 0}
      PROVE  TruthInv'
  BY <1>1, <1>2, TruthCalm
<1>3. ASSUME NEW q \in Requests, Frame(q)
      PROVE  TruthInv'
  <2>1. CASE \E d \in Digests : StartRun(q, d)
    <3>1. NoNewRefusal /\ executions' = executions
      <4>1. CountedInv
        BY DEF SafeInv, OwnerInv, CountedInv
      <4> QED BY <2>1, <4>1, StartRunCap
    <3>2. PICK d \in Digests : StartRun(q, d)
      BY <2>1
    <3>3. ~ Mapped(q) /\ q \notin settled
      BY <3>2 DEF StartRun, Admitted, Unknown, Dispatched
    <3>4. ASSUME NEW o \in Objects, Refuses(o)'
          PROVE  ~ Active(o)' /\ executions'[heap'[o].id] = 0
      <4>1. Refuses(o) /\ heap'[o].id = heap[o].id /\ ~ Active(o) /\ executions[heap[o].id] = 0
        BY <3>1, <3>4 DEF NoNewRefusal, TruthInv
      <4>2. heap[o] # Nothing
        BY <4>1 DEF Refuses, Held
      <4>3. heap'[o] = heap[o]
        <5>1. Install(q, [NewState(q, d) EXCEPT !.handler = "gates"])
          BY <3>2 DEF StartRun
        <5>2. heap[Allocate] = Nothing
          BY <5>1 DEF Install, CanAllocate, Allocate
        <5> QED BY <4>2, <5>1, <5>2 DEF Install, TypeInv, ObjectTypes
      <4> QED BY <3>1, <4>1, <4>3 DEF Active
    <3> QED BY <3>4 DEF TruthInv
  <2>2. CASE InspectFails(q) \/ \E d \in Digests : ReserveFails(q, d)
    BY <1>1, <2>2, TruthRefusal
  <2>3. CASE \E d \in Digests : CancelBeforeStart(q, d)
    BY <1>1, <1>2, <2>3, RecordCalm DEF CancelBeforeStart
  <2>4. CASE CancelActive(q)
    BY <1>1, <1>2, <2>4, CancelActiveCalm DEF CancelActive, history
  <2>5. CASE AckRun(q)
    <3>1. \A p \in Requests : executions'[p] \in {executions[p], 0}
      BY <2>5 DEF AckRun, TypeInv, PlainTypes
    <3> QED BY <1>1, <1>2, <2>5, <3>1, AckRunCalm
  <2>6. CASE \/ RefuseAtCap(q) \/ RefuseUndecodable(q) \/ RefuseBacklog(q)
             \/ \E d \in Digests : ReplayResult(q, d) \/ RefuseConflict(q, d) \/ FindPending(q, d)
             \/ RememberPreCancel(q) \/ AckDropped(q) \/ AckFails(q) \/ FinalizeFailed(q)
             \/ FinalizeFailedIgnored(q)
    <3>1. executions' = executions
      BY <2>6 DEF RefuseAtCap, RefuseUndecodable, RefuseBacklog, ReplayResult, RefuseConflict,
                  FindPending, RememberPreCancel, AckDropped, AckFails, FinalizeFailed,
                  FinalizeFailedIgnored, history
    <3> QED BY <1>1, <1>2, <2>6, <3>1, FrameCalm
  <2> QED BY <1>3, <2>1, <2>2, <2>3, <2>4, <2>5, <2>6 DEF Frame
<1>4. CASE AnswerPending
  BY <1>1, <1>2, <1>4, RecordCalm DEF AnswerPending, history
<1>5. ASSUME NEW o \in Objects, PassGates(o)
      PROVE  TruthInv'
  BY <1>1, <1>5, TruthPassGates
<1>6. ASSUME NEW o \in Objects, FinishRun(o)
      PROVE  TruthInv'
  BY <1>1, <1>2, <1>6, FinishRunCalm DEF FinishRun, history
<1>7. CASE Sender
  <2>1. Calm
    BY <1>1, <1>7, TakeOutboxCalm, SenderCalm DEF Sender
  <2>2. executions' = executions
    BY <1>7 DEF Sender, TakeOutbox, Send, SendFails, SentAll, RemoveSent, Delivered, history
  <2> QED BY <1>2, <2>1, <2>2
<1>8. CASE Process
  <2>1. executions' = executions
    BY <1>8 DEF Process, Connect, SessionFails, SessionEnds, Shutdown, Exit, Crash, Restart, history
  <2> QED BY <1>1, <1>2, <1>8, <2>1, ProcessCalm
<1>9. CASE UNCHANGED vars
  BY <1>2, <1>9, CalmStill DEF vars, client, history, Still
<1> QED BY <1>3, <1>4, <1>5, <1>6, <1>7, <1>8, <1>9 DEF Next, Handler

\* An unusable log stays so until the process is replaced.
LEMMA WedgedUntilRestart ==
    ASSUME Wedged, [Next]_vars
    PROVE  Wedged' \/ TruthInv'
<1>1. SUFFICES ASSUME limbo' = limbo \/ Exit \/ Crash
               PROVE  Wedged' \/ TruthInv'
  <2>1. ASSUME NEW s, NEW r, NEW ok, Complete(s, r, ok)
        PROVE  limbo' = limbo
    BY <2>1 DEF Complete, log
  <2>2. ASSUME NEW q \in Requests, Frame(q)
        PROVE  limbo' = limbo
    BY <2>2 DEF Frame, InspectFails, RefuseAtCap, RefuseBacklog, RefuseUndecodable, ReplayResult,
                RefuseConflict, FindPending, ReserveFails, CancelBeforeStart, StartRun,
                CancelActive, RememberPreCancel, AckDropped, AckFails, AckRun, FinalizeFailed,
                FinalizeFailedIgnored, Admitted, Unknown, log
  <2>3. CASE AnswerPending
    BY <2>1, <2>3 DEF AnswerPending, log
  <2>4. CASE Handler
    BY <2>1, <2>4 DEF Handler, PassGates, FinishRun, log
  <2>5. CASE Sender
    BY <2>1, <2>5 DEF Sender, TakeOutbox, Send, SendFails, SentAll, RemoveSent, log
  <2>6. CASE Process
    BY <2>6 DEF Process, Connect, SessionFails, SessionEnds, Shutdown, log
  <2>7. CASE UNCHANGED vars
    BY <2>7 DEF vars, log
  <2> QED BY <1>1, <2>2, <2>3, <2>4, <2>5, <2>6, <2>7 DEF Next
<1>2. CASE limbo' = limbo
  BY <1>2 DEF Wedged
<1>3. CASE Exit \/ Crash
  <2>1. \A o \in Objects : heap'[o] = Nothing
    BY <1>3 DEF Exit, Crash, Restart
  <2> QED BY <2>1 DEF TruthInv, Refuses, Held
<1> QED BY <1>1, <1>2, <1>3

\* dispatch_reservation_failed, "action was not executed", is not queued for an id whose
\* action was executed and whose result is unacknowledged, until a rollback of the log
\* fails; and again from the next start on.
THEOREM RefusalsAlwaysTruthful ==
    ASSUME ~ LateRedelivery
    PROVE  Spec => []TruthfulRefusal
<1>1. Init => Wedged \/ TruthInv
  BY DEF Init, TruthInv, Refuses, Held
<1>2. TypeInv /\ SafeInv /\ (Wedged \/ TruthInv) /\ [Next]_vars => (Wedged \/ TruthInv)'
  BY TruthStep, WedgedUntilRestart
<1>3. TypeInv /\ (Wedged \/ TruthInv) => TruthfulRefusal
  <2>1. ASSUME TypeInv, TruthInv, NEW q \in Requests, Mapped(q),
               Contains(heap[runs[q]].pending, "reservation_failed")
        PROVE  executions[q] = 0
    <3>1. runs[q] \in Objects /\ heap[runs[q]] # Nothing /\ heap[runs[q]].id = q
      BY <2>1 DEF TypeInv, ObjectTypes, Mapped
    <3> QED BY <2>1, <3>1 DEF TruthInv, Refuses, Held, Says
  <2> QED BY <2>1 DEF TruthfulRefusal
<1>4. QED BY <1>1, <1>2, <1>3, SafeInvHolds, PTL DEF Spec

-----------------------------------------------------------------------------
(* The number of runStates. *)

\* Ids with a record, and a log within its capacity.
Used(r) == {q \in Requests : r[q].state # "none"}

Small(r) == IsFiniteSet(Used(r)) /\ Cardinality(Used(r)) <= DedupRingSize

Open(rec) == rec.state \in {"reserved", "completed"}

\* Mapped ids whose record, if any, is acknowledged: replies, and results on their way.
Loose == {q \in Requests : Mapped(q) /\ ~ Open(ring[q])}

\* Loose ids are within the space left to replies; the others have a record each.
CountInv ==
    /\ Small(ring) /\ (Wedged => Small(limbo))
    /\ Cardinality(Loose) <= MaxConcurrentRuns + DedupRingSize
    /\ answering # Nothing => Open(ring[answering.id])

LEMMA MappedFinite ==
    ASSUME TypeInv
    PROVE  IsFiniteSet({q \in Requests : Mapped(q)})
<1> DEFINE M == {q \in Requests : Mapped(q)}
           objectOf == [q \in M |-> runs[q]]
<1>1. \A q \in M : q \in Requests /\ runs[q] \in Objects /\ heap[runs[q]].id = q
  BY DEF Mapped, TypeInv, ObjectTypes
<1>2. objectOf \in [M -> Objects]
  BY <1>1
<1>3. \A p, q \in M : objectOf[p] = objectOf[q] => p = q
  BY <1>1
<1>4. objectOf \in Injection(M, Objects)
  BY <1>2, <1>3 DEF Injection, IsInjective
<1> QED BY <1>4, RunnerClientAssumption, FS_Injection

LEMMA CountImpliesBound ==
    ASSUME TypeInv, CountInv
    PROVE  RunsBounded
<1> DEFINE M == {q \in Requests : Mapped(q)}
           L == Loose
           U == Used(ring)
<1>1. IsFiniteSet(M) /\ L \subseteq M
  BY MappedFinite DEF Loose
<1>2. IsFiniteSet(L)
  BY <1>1, FS_Subset
<1>3. IsFiniteSet(U) /\ Cardinality(U) <= DedupRingSize
      /\ Cardinality(L) <= MaxConcurrentRuns + DedupRingSize
  BY DEF CountInv, Small
<1>4. M \subseteq L \cup U
  BY DEF Loose, Used, Open
<1> HIDE DEF M, L, U
<1>5. /\ IsFiniteSet(L \cup U)
      /\ Cardinality(L \cup U) = Cardinality(L) + Cardinality(U) - Cardinality(L \cap U)
  BY <1>2, <1>3, FS_Union
<1>6. IsFiniteSet(L \cap U)
  BY <1>2, FS_Subset
<1>7. Cardinality(M) <= Cardinality(L \cup U)
  BY <1>4, <1>5, FS_Subset
<1>8. /\ Cardinality(M) \in Nat /\ Cardinality(L) \in Nat /\ Cardinality(U) \in Nat
      /\ Cardinality(L \cap U) \in Nat
  BY <1>1, <1>2, <1>3, <1>6, FS_CardinalityType
<1>9. Cardinality(M) <= MaxConcurrentRuns + 2 * DedupRingSize
  BY <1>3, <1>5, <1>7, <1>8, RunnerClientAssumption
<1> QED BY <1>9 DEF RunsBounded, RunStates, maxRunStates, M

LEMMA SmallKept ==
    ASSUME NEW r, NEW t, Small(r), Used(t) \subseteq Used(r)
    PROVE  Small(t)
<1>1. IsFiniteSet(Used(t)) /\ Cardinality(Used(t)) <= Cardinality(Used(r)) /\ IsFiniteSet(Used(r))
      /\ Cardinality(Used(r)) <= DedupRingSize
  BY FS_Subset DEF Small
<1>2. Cardinality(Used(t)) \in Nat /\ Cardinality(Used(r)) \in Nat
  BY <1>1, FS_CardinalityType
<1>3. Cardinality(Used(t)) <= DedupRingSize
  BY <1>1, <1>2, RunnerClientAssumption
<1> QED BY <1>1, <1>3 DEF Small

\* A full ring gives up a record for each reservation.
LEMMA ReservationSmall ==
    ASSUME TypeInv, Small(ring), NEW q \in Requests, NEW d \in Digests, ring[q].state = "none",
           NEW next \in Reservations(q, d)
    PROVE  Small(next)
<1> DEFINE U == Used(ring)
           r == Reserved(q, d)
<1>1. IsFiniteSet(U) /\ Cardinality(U) <= DedupRingSize /\ q \notin U
  BY DEF Small, Used
<1>2. /\ r \in Records /\ r[q].state = "reserved"
      /\ \A p \in Requests \ {q} : r[p] = ring[p]
  BY ReservedRecords
<1> HIDE DEF r
<1>3. Used(r) = U \cup {q}
  BY <1>2 DEF Used
<1>4. CASE next = r /\ Cardinality(U) < DedupRingSize
  <2> HIDE DEF U
  <2>1. /\ IsFiniteSet(U \cup {q}) /\ Cardinality(U \cup {q}) = Cardinality(U) + 1
        /\ Cardinality(U) \in Nat
    BY <1>1, FS_AddElement, FS_CardinalityType
  <2>2. Cardinality(U \cup {q}) <= DedupRingSize
    BY <1>4, <2>1, RunnerClientAssumption
  <2> QED BY <1>3, <1>4, <2>1, <2>2 DEF Small
<1>5. ASSUME NEW g \in Requests, ring[g].state = "acknowledged", next = [r EXCEPT ![g] = NoRecord]
      PROVE  Small(next)
  <2>1. g \in U /\ g # q
    BY <1>1, <1>5 DEF Used
  <2>2. next[g] = NoRecord /\ \A p \in Requests \ {g} : next[p] = r[p]
    BY <1>2, <1>5 DEF Records
  <2>3. Used(next) = (U \ {g}) \cup {q}
    BY <1>3, <2>1, <2>2 DEF Used, NoRecord
  <2> HIDE DEF U
  <2>4. IsFiniteSet(U \ {g}) /\ Cardinality(U \ {g}) = Cardinality(U) - 1 /\ Cardinality(U) \in Nat
    BY <1>1, <2>1, FS_RemoveElement, FS_CardinalityType
  <2>5. /\ IsFiniteSet((U \ {g}) \cup {q})
        /\ Cardinality((U \ {g}) \cup {q}) = Cardinality(U \ {g}) + 1
    BY <1>1, <2>4, FS_AddElement
  <2>6. Cardinality((U \ {g}) \cup {q}) <= DedupRingSize
    BY <1>1, <2>4, <2>5, RunnerClientAssumption
  <2> QED BY <2>3, <2>5, <2>6 DEF Small
<1>6. \/ next = Reserved(q, d) /\ Cardinality(U) < DedupRingSize
      \/ \E g \in Requests : ring[g].state = "acknowledged"
            /\ next = [Reserved(q, d) EXCEPT ![g] = NoRecord]
  BY DEF Reservations, Used
<1> QED BY <1>4, <1>5, <1>6 DEF r

LEMMA CountKept ==
    ASSUME TypeInv, TypeInv', CountInv, Small(ring'), Wedged' => Small(limbo'),
           \A p \in Requests : Mapped(p)' /\ ~ Open(ring'[p]) => Mapped(p) /\ ~ Open(ring[p]),
           answering' # Nothing => Open(ring'[answering'.id])
    PROVE  CountInv'
<1> DEFINE L == Loose
           N == {q \in Requests : Mapped(q)' /\ ~ Open(ring'[q])}
<1>1. N \subseteq L
  BY DEF Loose
<1>2. IsFiniteSet(L)
  <2>1. L \subseteq {q \in Requests : Mapped(q)}
    BY DEF Loose
  <2> QED BY <2>1, MappedFinite, FS_Subset
<1>3. Cardinality(L) <= MaxConcurrentRuns + DedupRingSize
  BY DEF CountInv
<1>4. Loose' = N
  BY DEF Loose, Open
<1> HIDE DEF L, N
<1>5. Cardinality(N) <= Cardinality(L) /\ IsFiniteSet(N)
  BY <1>1, <1>2, FS_Subset
<1>6. Cardinality(N) \in Nat /\ Cardinality(L) \in Nat
  BY <1>2, <1>5, FS_CardinalityType
<1>7. Cardinality(N) <= MaxConcurrentRuns + DedupRingSize
  BY <1>3, <1>5, <1>6, RunnerClientAssumption
<1> QED BY <1>4, <1>7 DEF CountInv, Small, Used, Open

\* Steps that leave the map and the open records alone.
LEMMA CountQuiet ==
    ASSUME TypeInv, TypeInv', CountInv, runs' = runs, UNCHANGED log,
           answering' = answering \/ answering' = Nothing
    PROVE  CountInv'
<1>1. ring' = ring /\ limbo' = limbo
  BY DEF log
<1> QED BY <1>1, CountKept DEF CountInv, Mapped, Wedged

\* enqueueTransientLocked adds a state only while the replies' share has room.
LEMMA CountReply ==
    ASSUME TypeInv, TypeInv', CountInv, NEW q \in Requests, NEW msg,
           \/ runs' = runs
           \/ TransientFits(q) /\ AddTransient(q, msg),
           ring' = ring, Wedged' => Small(limbo'), answering' = answering
    PROVE  CountInv'
<1>1. CASE runs' = runs
  BY <1>1, CountKept DEF CountInv, Mapped
<1>2. CASE TransientFits(q) /\ AddTransient(q, msg) /\ ~ Mapped(q)
  <2> DEFINE M == {p \in Requests : Mapped(p)}
             N == {p \in Requests : Mapped(p)' /\ ~ Open(ring'[p])}
  <2>1. Cardinality(M) < MaxConcurrentRuns + DedupRingSize
    BY <1>2 DEF TransientFits, RunStates
  <2>2. IsFiniteSet(M)
    BY MappedFinite
  <2>3. runs' = [runs EXCEPT ![q] = Allocate]
    BY <1>2 DEF AddTransient, Install
  <2>4. N \subseteq M \cup {q}
    BY <2>3 DEF Mapped, TypeInv, ObjectTypes
  <2>5. Loose' = N
    BY DEF Loose, Open
  <2> HIDE DEF M, N
  <2>6. /\ IsFiniteSet(M \cup {q}) /\ Cardinality(M \cup {q}) <= Cardinality(M) + 1
        /\ Cardinality(M) \in Nat /\ Cardinality(M \cup {q}) \in Nat
    <3>1. /\ IsFiniteSet(M \cup {q}) /\ Cardinality(M) \in Nat /\ Cardinality(M \cup {q}) \in Nat
          /\ Cardinality(M \cup {q}) = IF q \in M THEN Cardinality(M) ELSE Cardinality(M) + 1
      BY <2>2, FS_AddElement, FS_CardinalityType
    <3> QED BY <3>1
  <2>7. Cardinality(N) <= Cardinality(M \cup {q}) /\ IsFiniteSet(N)
    BY <2>4, <2>6, FS_Subset
  <2>8. Cardinality(N) \in Nat
    BY <2>7, FS_CardinalityType
  <2>9. Cardinality(N) <= MaxConcurrentRuns + DedupRingSize
    BY <2>1, <2>6, <2>7, <2>8, RunnerClientAssumption
  <2> QED BY <2>5, <2>9 DEF CountInv, Small, Used, Open
<1>3. CASE TransientFits(q) /\ AddTransient(q, msg) /\ Mapped(q)
  <2>1. runs' = runs
    BY <1>3 DEF AddTransient
  <2> QED BY <1>1, <2>1
<1> QED BY <1>1, <1>2, <1>3

\* complete neither opens nor settles a record.
LEMMA CompleteCount ==
    ASSUME TypeInv, CountInv, NEW s \in RunState, NEW r \in Recorded, NEW ok \in BOOLEAN,
           Complete(s, r, ok)
    PROVE  /\ \A p \in Requests : Open(ring'[p]) <=> Open(ring[p])
           /\ Small(ring') /\ (Wedged' => Small(limbo'))
<1> DEFINE q == s.id
           next == [ring EXCEPT ![q].state = "completed", ![q].result = r]
<1>1. q \in Requests /\ ring \in [Requests -> Record]
  BY DEF RunState, TypeInv, LogTypes, Records
<1>2. \/ UNCHANGED log
      \/ ring[q].state = "reserved" /\ ring' = next /\ limbo' = limbo
      \/ ring[q].state = "reserved" /\ ring' = ring /\ (limbo' = limbo \/ limbo' = next)
  BY DEF Complete, Commit, CommitFails
<1> DEFINE e == [ring[q] EXCEPT !.state = "completed", !.result = r]
<1>3. next = [ring EXCEPT ![q] = e] /\ e.state = "completed"
  BY <1>1 DEF Record
<1> HIDE DEF e, next
<1>4. next[q].state = "completed" /\ \A p \in Requests \ {q} : next[p] = ring[p]
  BY <1>1, <1>3
<1>5. ring[q].state = "reserved" =>
        /\ Used(next) \subseteq Used(ring)
        /\ \A p \in Requests : Open(next[p]) <=> Open(ring[p])
  BY <1>4 DEF Used, Open
<1>6. ring[q].state = "reserved" => Small(next)
  BY <1>5, SmallKept DEF CountInv
<1>7. Small(ring) /\ (Wedged => Small(limbo))
  BY DEF CountInv
<1>8. CASE ring' = ring /\ limbo' = limbo
  BY <1>7, <1>8 DEF Wedged
<1>9. CASE ring[q].state = "reserved" /\ ring' = next /\ limbo' = limbo
  BY <1>5, <1>6, <1>7, <1>9 DEF Wedged
<1>10. CASE ring[q].state = "reserved" /\ ring' = ring /\ limbo' = next
  BY <1>6, <1>7, <1>10 DEF Wedged
<1> QED BY <1>2, <1>8, <1>9, <1>10 DEF log

\* A frame that replies or changes nothing.
LEMMA FrameCount ==
    ASSUME TypeInv, TypeInv', CountInv, NEW q \in Requests,
           \/ InspectFails(q) \/ RefuseAtCap(q) \/ RefuseUndecodable(q) \/ RefuseBacklog(q)
           \/ \E d \in Digests : ReplayResult(q, d) \/ RefuseConflict(q, d) \/ FindPending(q, d)
           \/ CancelActive(q) \/ RememberPreCancel(q) \/ AckDropped(q) \/ FinalizeFailed(q)
           \/ FinalizeFailedIgnored(q)
    PROVE  CountInv'
<1>1. ASSUME NEW msg, Reply(q, msg), UNCHANGED log, answering' = answering
      PROVE  CountInv'
  <2>1. runs' = runs \/ (TransientFits(q) /\ AddTransient(q, msg))
    BY <1>1 DEF Reply
  <2>2. ring' = ring /\ (Wedged' => Small(limbo'))
    BY <1>1 DEF log, Wedged, CountInv
  <2> QED BY <1>1, <2>1, <2>2, CountReply
<1>2. CASE InspectFails(q)
  BY <1>1, <1>2 DEF InspectFails
<1>3. CASE RefuseAtCap(q)
  BY <1>1, <1>3 DEF RefuseAtCap
<1>4. CASE RefuseUndecodable(q) \/ FinalizeFailed(q)
  <2>1. PICK msg : AddTransient(q, msg)
    BY <1>4 DEF RefuseUndecodable, FinalizeFailed
  <2>2. TransientFits(q) /\ UNCHANGED log /\ answering' = answering
    BY <1>4 DEF RefuseUndecodable, FinalizeFailed
  <2>3. ring' = ring /\ (Wedged' => Small(limbo'))
    BY <2>2 DEF log, Wedged, CountInv
  <2> QED BY <2>1, <2>2, <2>3, CountReply
<1>5. ASSUME NEW d \in Digests, ReplayResult(q, d) \/ RefuseConflict(q, d)
      PROVE  CountInv'
  BY <1>1, <1>5 DEF ReplayResult, RefuseConflict
<1>6. ASSUME NEW d \in Digests, FindPending(q, d)
      PROVE  CountInv'
  <2>1. /\ runs' = runs /\ UNCHANGED log /\ ring[q].state = "reserved"
        /\ answering' = [id |-> q, digest |-> d]
    BY <1>6 DEF FindPending
  <2>2. ring' = ring /\ limbo' = limbo /\ answering'.id = q
    BY <2>1 DEF log
  <2> QED BY <2>1, <2>2, CountKept DEF CountInv, Mapped, Wedged, Open
<1>7. CASE \/ RefuseBacklog(q) \/ CancelActive(q) \/ RememberPreCancel(q) \/ AckDropped(q)
           \/ FinalizeFailedIgnored(q)
  <2>1. runs' = runs /\ UNCHANGED log /\ answering' = answering
    BY <1>7 DEF RefuseBacklog, CancelActive, RememberPreCancel, AckDropped, FinalizeFailedIgnored,
                client
  <2> QED BY <2>1, CountQuiet
<1> QED BY <1>2, <1>3, <1>4, <1>5, <1>6, <1>7

LEMMA AckCount ==
    ASSUME TypeInv, TypeInv', CountInv, NEW q \in Requests, AckFails(q) \/ AckRun(q)
    PROVE  CountInv'
<1>1. CASE AckFails(q)
  <2>1. /\ ring[q].state = "completed" /\ runs' = runs /\ answering' = answering
        /\ ring' = ring /\ (limbo' = limbo \/ limbo' = Acknowledged(q))
    BY <1>1 DEF AckFails, CommitFails, client
  <2>2. Used(Acknowledged(q)) \subseteq Used(ring)
    BY <2>1, AcknowledgedRecords DEF Used
  <2>3. Wedged' => Small(limbo')
    BY <2>1, <2>2, SmallKept DEF CountInv, Wedged
  <2> QED BY <2>1, <2>3, CountKept DEF CountInv, Mapped
<1>2. CASE AckRun(q)
  <2>1. /\ IF ring[q].state = "completed" THEN Commit(Acknowledged(q)) ELSE UNCHANGED log
        /\ RemoveRun(q, sender) /\ UNCHANGED sender /\ answering' = Nothing
    BY <1>2 DEF AckRun, Acked, Receiving
  <2>2. runs'[q] = Nothing /\ \A p \in Requests \ {q} : runs'[p] = runs[p]
    BY <2>1, RemovedObjects
  <2>3. /\ Used(ring') \subseteq Used(ring) /\ limbo' = limbo
        /\ \A p \in Requests \ {q} : ring'[p] = ring[p]
    <3>1. CASE ring[q].state = "completed"
      <4>1. ring' = Acknowledged(q) /\ limbo' = limbo
        BY <2>1, <3>1 DEF Commit
      <4> QED BY <3>1, <4>1, AcknowledgedRecords DEF Used
    <3>2. CASE ring[q].state # "completed"
      BY <2>1, <3>2 DEF log
    <3> QED BY <3>1, <3>2
  <2>4. Small(ring') /\ (Wedged' => Small(limbo'))
    BY <2>3, SmallKept DEF CountInv, Wedged
  <2> QED BY <2>1, <2>2, <2>3, <2>4, CountKept DEF Mapped
<1> QED BY <1>1, <1>2

LEMMA ReserveCount ==
    ASSUME TypeInv, TypeInv', CountInv, NEW q \in Requests, NEW d \in Digests,
           ReserveFails(q, d) \/ CancelBeforeStart(q, d) \/ StartRun(q, d)
    PROVE  CountInv'
<1>1. ring[q].state = "none" /\ ~ Wedged /\ ~ Mapped(q) /\ answering = Nothing /\ answering' = answering
  BY DEF ReserveFails, CancelBeforeStart, StartRun, Admitted, Unknown, Dispatched, Receiving
<1>2. \A next \in Reservations(q, d) :
        /\ Small(next) /\ next \in Records /\ next[q].state = "reserved"
        /\ \A p \in Requests \ {q} : Open(next[p]) <=> Open(ring[p])
  <2> TAKE next \in Reservations(q, d)
  <2>1. Small(next)
    BY <1>1, ReservationSmall DEF CountInv
  <2>2. /\ next \in Records /\ next[q].state = "reserved"
        /\ \A p \in Requests \ {q} :
              \/ next[p] = ring[p]
              \/ ring[p].state = "acknowledged" /\ next[p].state = "none"
    BY <1>1, ReservationRecords
  <2> QED BY <2>1, <2>2 DEF Open
<1>3. CASE ReserveFails(q, d)
  <2>1. /\ Reply(q, "reservation_failed") /\ ring' = ring
        /\ limbo' = limbo \/ limbo' \in Reservations(q, d)
    BY <1>3 DEF ReserveFails, CommitFails, log
  <2>2. Wedged' => Small(limbo')
    BY <1>1, <1>2, <2>1 DEF Wedged
  <2>3. runs' = runs \/ (TransientFits(q) /\ AddTransient(q, "reservation_failed"))
    BY <2>1 DEF Reply
  <2> QED BY <1>1, <2>1, <2>2, <2>3, CountReply
<1>4. ASSUME NEW x, runs' = [runs EXCEPT ![q] = x], Small(ring'), Wedged' => Small(limbo'),
             Open(ring'[q]), \A p \in Requests \ {q} : Open(ring'[p]) <=> Open(ring[p])
      PROVE  CountInv'
  <2>1. \A p \in Requests \ {q} : Mapped(p)' => Mapped(p)
    BY <1>4 DEF Mapped, TypeInv, ObjectTypes
  <2> QED BY <1>1, <1>4, <2>1, CountKept
<1>5. CASE CancelBeforeStart(q, d)
  <2>1. PICK reserved \in Reservations(q, d), ok \in BOOLEAN :
          /\ IF ok THEN Commit(Completed(reserved, q))
             ELSE /\ ring' = reserved
                  /\ limbo' = limbo \/ limbo' = Completed(reserved, q)
          /\ runs' = [runs EXCEPT ![q] = Allocate]
    BY <1>5 DEF CancelBeforeStart, Completed, Install
  <2> DEFINE next == Completed(reserved, q)
  <2>2. /\ Small(reserved) /\ reserved \in Records /\ reserved[q].state = "reserved"
        /\ \A p \in Requests \ {q} : Open(reserved[p]) <=> Open(ring[p])
    BY <1>2
  <2>3. next[q].state = "completed" /\ \A p \in Requests \ {q} : next[p] = reserved[p]
    BY <2>2, CancelledRecords
  <2>4. IF ok THEN ring' = next /\ limbo' = limbo
        ELSE ring' = reserved /\ (limbo' = limbo \/ limbo' = next)
    BY <2>1 DEF Commit
  <2> HIDE DEF next
  <2>5. Used(next) \subseteq Used(reserved)
    BY <2>2, <2>3 DEF Used
  <2>6. Small(next)
    BY <2>2, <2>5, SmallKept
  <2>7. Small(ring') /\ (Wedged' => Small(limbo'))
    BY <1>1, <2>2, <2>4, <2>6 DEF Wedged
  <2>8. Open(ring'[q]) /\ \A p \in Requests \ {q} : Open(ring'[p]) <=> Open(ring[p])
    BY <2>2, <2>3, <2>4 DEF Open
  <2> QED BY <1>4, <2>1, <2>7, <2>8
<1>6. CASE StartRun(q, d)
  <2>1. ring' \in Reservations(q, d) /\ limbo' = limbo /\ runs' = [runs EXCEPT ![q] = Allocate]
    BY <1>6 DEF StartRun, Commit, Install
  <2>2. Small(ring') /\ ~ Wedged' /\ Open(ring'[q])
    BY <1>1, <1>2, <2>1 DEF Wedged, Open
  <2> QED BY <1>2, <1>4, <2>1, <2>2
<1> QED BY <1>3, <1>5, <1>6

LEMMA AnswerCount ==
    ASSUME TypeInv, TypeInv', CountInv, AnswerPending
    PROVE  CountInv'
<1> DEFINE q == answering.id
           s == NewState(q, answering.digest)
           r == "outcome_unknown"
<1>1. answering # Nothing /\ answering' = Nothing
  BY DEF AnswerPending
<1>2. q \in Requests /\ answering.digest \in Digests /\ Open(ring[q]) /\ r \in Recorded
  BY <1>1 DEF TypeInv, PlainTypes, CountInv, Recorded
<1>3. s \in RunState
  BY <1>2, NewStateType
<1>4. \/ runs' = runs /\ UNCHANGED log
      \/ runs' = [runs EXCEPT ![q] = Allocate] /\ \E ok \in BOOLEAN : Complete(s, r, ok)
  BY DEF AnswerPending, Install
<1> HIDE DEF s, r, q
<1>5. CASE runs' = runs /\ UNCHANGED log
  BY <1>1, <1>5, CountQuiet
<1>6. ASSUME NEW ok \in BOOLEAN, Complete(s, r, ok), runs' = [runs EXCEPT ![q] = Allocate]
      PROVE  CountInv'
  <2>1. /\ \A p \in Requests : Open(ring'[p]) <=> Open(ring[p])
        /\ Small(ring') /\ (Wedged' => Small(limbo'))
    BY <1>2, <1>3, <1>6, CompleteCount
  <2>2. \A p \in Requests \ {q} : Mapped(p)' => Mapped(p)
    BY <1>6 DEF Mapped, TypeInv, ObjectTypes
  <2> QED BY <1>1, <1>2, <2>1, <2>2, CountKept
<1> QED BY <1>4, <1>5, <1>6

LEMMA HandlerCount ==
    ASSUME TypeInv, TypeInv', CountInv, NEW x \in Objects, PassGates(x) \/ FinishRun(x)
    PROVE  CountInv'
<1>1. CASE PassGates(x)
  BY <1>1, CountQuiet DEF PassGates
<1>2. CASE FinishRun(x)
  <2>1. PICK r \in HandlerResults(heap[x]), ok \in BOOLEAN : Complete(heap[x], r, ok)
    BY <1>2 DEF FinishRun
  <2>2. heap[x] \in RunState /\ r \in Recorded /\ runs' = runs /\ answering' = answering
    BY <1>2 DEF FinishRun, Active, TypeInv, ObjectTypes, HandlerResults, Recorded
  <2>3. /\ \A p \in Requests : Open(ring'[p]) <=> Open(ring[p])
        /\ Small(ring') /\ (Wedged' => Small(limbo'))
    BY <2>1, <2>2, CompleteCount
  <2>4. answering' # Nothing => Open(ring'[answering'.id])
    BY <2>2, <2>3 DEF CountInv, TypeInv, PlainTypes
  <2> QED BY <2>2, <2>3, <2>4, CountKept DEF Mapped
<1> QED BY <1>1, <1>2

LEMMA SenderCount ==
    ASSUME TypeInv, TypeInv', CountInv, Sender
    PROVE  CountInv'
<1>1. ASSUME NEW q \in Requests, TakeOutbox(q)
      PROVE  CountInv'
  <2> DEFINE s == heap[runs[q]]
  <2>1. Mapped(q) /\ runs' = runs /\ answering' = answering
    BY <1>1 DEF TakeOutbox
  <2>2. \/ UNCHANGED log
        \/ s.terminal # Nothing /\ \E ok \in BOOLEAN : Complete(s, s.terminal, ok)
    BY <1>1 DEF TakeOutbox
  <2>3. s \in RunState
    BY <2>1 DEF TypeInv, ObjectTypes, Mapped
  <2>4. CASE UNCHANGED log
    BY <2>1, <2>4, CountQuiet
  <2>5. ASSUME NEW ok \in BOOLEAN, s.terminal # Nothing, Complete(s, s.terminal, ok)
        PROVE  CountInv'
    <3>1. s.terminal \in Recorded
      BY <2>3, <2>5 DEF RunState
    <3>2. /\ \A p \in Requests : Open(ring'[p]) <=> Open(ring[p])
          /\ Small(ring') /\ (Wedged' => Small(limbo'))
      BY <2>3, <2>5, <3>1, CompleteCount
    <3>3. answering' # Nothing => Open(ring'[answering'.id])
      BY <2>1, <3>2 DEF CountInv, TypeInv, PlainTypes
    <3> QED BY <2>1, <3>2, <3>3, CountKept DEF Mapped
  <2> QED BY <2>2, <2>4, <2>5
<1>2. CASE Send \/ SendFails \/ SentAll
  <2>1. runs' = runs /\ UNCHANGED log /\ answering' = answering
    BY <1>2 DEF Send, SendFails, SentAll
  <2> QED BY <2>1, CountQuiet
<1>3. CASE RemoveSent
  <2>1. /\ sender.at = "removing" /\ sender' = Idle /\ RemoveRun(heap[sender.obj].id, sender')
        /\ UNCHANGED log /\ answering' = answering
    BY <1>3 DEF RemoveSent
  <2>2. heap[sender.obj].id \in Requests
    BY <2>1 DEF TypeInv, ObjectTypes, Idle, Carrier, RunState
  <2>3. \A p \in Requests : runs'[p] # Nothing => runs'[p] = runs[p]
    BY <2>1, <2>2, RemovedObjects
  <2>4. ring' = ring /\ limbo' = limbo
    BY <2>1 DEF log
  <2> QED BY <2>1, <2>3, <2>4, CountKept DEF CountInv, Mapped, Wedged
<1> QED BY <1>1, <1>2, <1>3 DEF Sender

\* A reconnect adds states without a test, but only for completed records.
LEMMA ProcessCount ==
    ASSUME TypeInv, TypeInv', CountInv, Process
    PROVE  CountInv'
<1>1. CASE Connect
  <2>1. ring' = ring /\ limbo' = limbo /\ answering' = answering
    BY <1>1 DEF Connect, log
  <2>2. \A p \in Requests : Mapped(p)' => Mapped(p) \/ ring[p].state = "completed"
    BY <1>1, ConnectObjects DEF Mapped, Added
  <2> QED BY <2>1, <2>2, CountKept DEF CountInv, Wedged, Open
<1>2. CASE SessionFails \/ SessionEnds \/ Shutdown
  <2>1. runs' = runs /\ UNCHANGED log /\ answering' = answering
    BY <1>2 DEF SessionFails, SessionEnds, Shutdown
  <2> QED BY <2>1, CountQuiet
<1>3. CASE Exit \/ Crash
  <2>1. /\ ring' = ring \/ (Wedged /\ ring' = limbo)
        /\ limbo' = Nothing /\ answering' = Nothing /\ runs' = [q \in Requests |-> Nothing]
    BY <1>3 DEF Exit, Crash, Restart
  <2>2. Small(ring') /\ ~ Wedged' /\ \A p \in Requests : ~ Mapped(p)'
    BY <2>1 DEF CountInv, Wedged, Mapped
  <2> QED BY <2>1, <2>2, CountKept
<1> QED BY <1>1, <1>2, <1>3 DEF Process

LEMMA CountStep ==
    ASSUME TypeInv, CountInv, [Next]_vars
    PROVE  CountInv'
<1>1. TypeInv'
  BY NextStep
<1>2. ASSUME NEW q \in Requests, Frame(q)
      PROVE  CountInv'
  <2>1. CASE AckFails(q) \/ AckRun(q)
    BY <1>1, <2>1, AckCount
  <2>2. CASE \E d \in Digests : ReserveFails(q, d) \/ CancelBeforeStart(q, d) \/ StartRun(q, d)
    BY <1>1, <2>2, ReserveCount
  <2>3. CASE \/ InspectFails(q) \/ RefuseAtCap(q) \/ RefuseUndecodable(q) \/ RefuseBacklog(q)
             \/ \E d \in Digests : ReplayResult(q, d) \/ RefuseConflict(q, d) \/ FindPending(q, d)
             \/ CancelActive(q) \/ RememberPreCancel(q) \/ AckDropped(q) \/ FinalizeFailed(q)
             \/ FinalizeFailedIgnored(q)
    BY <1>1, <2>3, FrameCount
  <2> QED BY <1>2, <2>1, <2>2, <2>3 DEF Frame
<1>3. CASE AnswerPending
  BY <1>1, <1>3, AnswerCount
<1>4. CASE Handler
  BY <1>1, <1>4, HandlerCount DEF Handler
<1>5. CASE Sender
  BY <1>1, <1>5, SenderCount
<1>6. CASE Process
  BY <1>1, <1>6, ProcessCount
<1>7. CASE UNCHANGED vars
  <2>1. runs' = runs /\ UNCHANGED log /\ answering' = answering
    BY <1>7 DEF vars, client
  <2> QED BY <1>1, <2>1, CountQuiet
<1> QED BY <1>2, <1>3, <1>4, <1>5, <1>6, <1>7 DEF Next

\* Client.runs stays within maxRunStates, whatever is redelivered and whichever commits
\* fail: a reconnect adds states only for open records, of which the ring bounds the
\* number, and replies leave room for them.
THEOREM RunsAlwaysBounded == Spec => []RunsBounded
<1>1. Init => CountInv
  <2> SUFFICES ASSUME Init
               PROVE  CountInv
    OBVIOUS
  <2>1. /\ \A q \in Requests : ring[q] = NoRecord /\ ~ Mapped(q)
        /\ limbo = Nothing /\ answering = Nothing
    BY DEF Init, Mapped
  <2>2. Used(ring) = {} /\ Loose = {} /\ ~ Wedged
    BY <2>1 DEF Used, Loose, NoRecord, Wedged
  <2>3. Small(ring)
    BY <2>2, FS_EmptySet, RunnerClientAssumption DEF Small
  <2>4. Cardinality(Loose) <= MaxConcurrentRuns + DedupRingSize
    BY <2>2, FS_EmptySet, RunnerClientAssumption
  <2> QED BY <2>1, <2>2, <2>3, <2>4 DEF CountInv
<1>2. Init => TypeInv
  BY InitInv
<1>3. TypeInv /\ CountInv /\ [Next]_vars => TypeInv' /\ CountInv'
  BY NextStep, CountStep
<1>4. TypeInv /\ CountInv => RunsBounded
  BY CountImpliesBound
<1>5. QED BY <1>1, <1>2, <1>3, <1>4, PTL DEF Spec
=============================================================================

------------------------- MODULE DispatchLogProofs -------------------------
(***************************************************************************)
(* Proofs about DispatchLog, for any requests, results, capacities,        *)
(* compaction thresholds and both kinds of filesystem.                     *)
(***************************************************************************)
EXTENDS DispatchLog, FiniteSetTheorems, SequenceTheorems, TLAPS

-----------------------------------------------------------------------------
(* Rings. *)

\* Deleting position i of a key sequence closes the gap (slices.Delete).
LEMMA RemoveAtProperties ==
    ASSUME NEW S, NEW s \in Seq(S), NEW i \in DOMAIN s
    PROVE  /\ RemoveAt(s, i) \in Seq(S)
           /\ Len(RemoveAt(s, i)) = Len(s) - 1
           /\ \A j \in 1 .. (Len(s) - 1) :
                RemoveAt(s, i)[j] = IF j < i THEN s[j] ELSE s[j + 1]
<1> DEFINE n == Len(s)
           left == SubSeq(s, 1, i - 1)
           right == SubSeq(s, i + 1, n)
           cat == left \o right
<1>1. n \in Nat /\ i \in 1 .. n /\ \A j \in 1 .. n : s[j] \in S
  BY LenProperties
<1> HIDE DEF n
<1>2. left \in Seq(S) /\ Len(left) = i - 1 /\ \A j \in 1 .. (i - 1) : left[j] = s[j]
  BY <1>1, SubSeqProperties
<1>3. /\ right \in Seq(S) /\ Len(right) = n - i
      /\ \A j \in 1 .. (n - i) : right[j] = s[i + j]
  BY <1>1, SubSeqProperties
<1> HIDE DEF left, right
<1>4. /\ cat \in Seq(S)
      /\ Len(cat) = Len(left) + Len(right)
      /\ \A j \in 1 .. Len(left) + Len(right) : cat[j] =
            IF j <= Len(left) THEN left[j] ELSE right[j - Len(left)]
  BY <1>2, <1>3, ConcatProperties
<1>5. RemoveAt(s, i) = cat
  BY DEF RemoveAt, left, right, n
<1> HIDE DEF cat
<1>6. ASSUME NEW j \in 1 .. (n - 1)
      PROVE  cat[j] = IF j < i THEN s[j] ELSE s[j + 1]
  <2>1. CASE j < i
    <3>1. j \in 1 .. (i - 1) /\ j \in 1 .. Len(left) + Len(right) /\ j <= Len(left)
      BY <2>1, <1>1, <1>2, <1>3
    <3>2. cat[j] = left[j]
      BY <3>1, <1>4
    <3>3. left[j] = s[j]
      BY <3>1, <1>2
    <3> QED BY <3>2, <3>3, <2>1
  <2>2. CASE j >= i
    <3> DEFINE k == j - (i - 1)
    <3>1. k \in 1 .. (n - i) /\ i + k = j + 1 /\ k = j - Len(left)
      BY <2>2, <1>1, <1>2
    <3>4. j \in 1 .. Len(left) + Len(right) /\ ~ (j <= Len(left))
      BY <2>2, <1>1, <1>2, <1>3
    <3> HIDE DEF k
    <3>2. cat[j] = right[k]
      BY <3>1, <3>4, <1>4
    <3>3. right[k] = s[j + 1]
      BY <3>1, <1>3
    <3> QED BY <3>2, <3>3, <2>2, <1>1
  <2> QED BY <2>1, <2>2, <1>1
<1>7. Len(cat) = n - 1
  BY <1>1, <1>2, <1>3, <1>4
<1> QED
  BY <1>4, <1>5, <1>6, <1>7 DEF n

\* Evicting one record of a well-formed ring leaves a well-formed ring.
LEMMA EvictProperties ==
    ASSUME NEW ring \in Ring, WellFormed(ring), NEW i \in DOMAIN ring.keys
    PROVE  /\ Evict(ring, i) \in Ring
           /\ WellFormed(Evict(ring, i))
           /\ Len(Evict(ring, i).keys) = Len(ring.keys) - 1
           /\ ring.keys[i] \in Requests
           /\ Evict(ring, i).recs = [ring.recs EXCEPT ![ring.keys[i]] = NoEntry]
<1> DEFINE s == ring.keys  t == RemoveAt(s, i)  n == Len(s)  e == Evict(ring, i)
<1>1. s \in Seq(Requests) /\ ring.recs \in [Requests -> Entry] /\ n \in Nat /\ i \in 1 .. n
      /\ DOMAIN s = 1 .. n
  BY LenProperties DEF Ring
<1>2. /\ t \in Seq(Requests) /\ Len(t) = n - 1 /\ DOMAIN t = 1 .. (n - 1)
      /\ \A j \in 1 .. (n - 1) : t[j] = IF j < i THEN s[j] ELSE s[j + 1]
  <2>1. /\ t \in Seq(Requests) /\ Len(t) = n - 1
        /\ \A j \in 1 .. (n - 1) : t[j] = IF j < i THEN s[j] ELSE s[j + 1]
    BY <1>1, RemoveAtProperties
  <2>2. DOMAIN t = 1 .. Len(t)
    BY <2>1, LenProperties
  <2> QED BY <2>1, <2>2
<1>3. s[i] \in Requests
  BY <1>1
<1>4. e.keys = t /\ e.recs = [ring.recs EXCEPT ![s[i]] = NoEntry]
  BY DEF Evict
<1>5. NoEntry \in Entry
  BY DEF NoEntry, Entry, RecordState
<1>6. e \in Ring
  <2>1. e.recs \in [Requests -> Entry]
    BY <1>1, <1>4, <1>5
  <2> QED BY <2>1, <1>2, <1>4 DEF Evict, Ring
<1>7. \A j, k \in 1 .. n : s[j] = s[k] => j = k
  BY <1>1 DEF WellFormed
<1>8. \A j, k \in 1 .. (n - 1) : t[j] = t[k] => j = k
  <2> TAKE j, k \in 1 .. (n - 1)
  <2> HAVE t[j] = t[k]
  <2> DEFINE a == IF j < i THEN j ELSE j + 1  b == IF k < i THEN k ELSE k + 1
  <2>1. a \in 1 .. n /\ b \in 1 .. n
    BY <1>1
  <2>3. t[j] = s[a] /\ t[k] = s[b]
    BY <1>2
  <2>2. a = b
    <3> HIDE DEF a, b
    <3> QED BY <2>1, <2>3, <1>7
  <2> QED BY <2>2, <1>1
<1>9. \A q \in Requests : e.recs[q].state # "none" <=> \E j \in 1 .. (n - 1) : t[j] = q
  <2> TAKE q \in Requests
  <2>1. ring.recs[q].state # "none" <=> \E j \in 1 .. n : s[j] = q
    BY <1>1 DEF WellFormed
  <2>2. CASE q = s[i]
    <3>1. e.recs[q].state = "none"
      BY <2>2, <1>1, <1>4 DEF NoEntry
    <3>2. ASSUME NEW j \in 1 .. (n - 1), t[j] = q PROVE FALSE
      <4> DEFINE a == IF j < i THEN j ELSE j + 1
      <4>1. a \in 1 .. n /\ t[j] = s[a] /\ a # i
        BY <1>1, <1>2
      <4> QED BY <4>1, <3>2, <2>2, <1>7, <1>1
    <3> QED BY <3>1, <3>2
  <2>3. CASE q # s[i]
    <3>1. e.recs[q] = ring.recs[q]
      BY <2>3, <1>1, <1>3, <1>4
    <3>2. ASSUME NEW j \in 1 .. n, s[j] = q PROVE \E k \in 1 .. (n - 1) : t[k] = q
      <4>1. j # i
        BY <3>2, <2>3
      <4>2. CASE j < i
        <5>1. j \in 1 .. (n - 1) /\ t[j] = s[j]
          BY <4>2, <1>1, <1>2
        <5> QED BY <5>1, <3>2
      <4>3. CASE j > i
        <5>1. (j - 1) \in 1 .. (n - 1) /\ t[j - 1] = s[j]
          BY <4>3, <1>1, <1>2
        <5> QED BY <5>1, <3>2
      <4> QED BY <4>1, <4>2, <4>3, <1>1
    <3>3. ASSUME NEW j \in 1 .. (n - 1), t[j] = q PROVE \E k \in 1 .. n : s[k] = q
      <4> DEFINE a == IF j < i THEN j ELSE j + 1
      <4>1. a \in 1 .. n /\ t[j] = s[a]
        BY <1>1, <1>2
      <4> QED BY <4>1, <3>3
    <3> QED BY <3>1, <3>2, <3>3, <2>1
  <2> QED BY <2>2, <2>3
<1>10. WellFormed(e)
  <2>1. DOMAIN e.keys = 1 .. (n - 1)
    BY <1>2, <1>4
  <2> QED BY <2>1, <1>4, <1>8, <1>9 DEF WellFormed
<1> QED BY <1>2, <1>3, <1>4, <1>6, <1>10

\* Applying a valid transition to a well-formed ring: the record of the id and
\* the evicted record change, and nothing else (applyDispatchTransition).
LEMMA ApplyProperties ==
    ASSUME NEW ring \in Ring, WellFormed(ring),
           NEW t \in Transition, ValidTransition(ring, t)
    PROVE  /\ ApplyTransition(ring, t) \in Ring
           /\ WellFormed(ApplyTransition(ring, t))
           /\ Len(ApplyTransition(ring, t).keys) =
                IF t.entry.state # "reserved" THEN Len(ring.keys)
                ELSE IF t.evict = Nothing THEN Len(ring.keys) + 1 ELSE Len(ring.keys)
           /\ ApplyTransition(ring, t).recs[t.id] = t.entry
           /\ \A q \in Requests : q # t.id =>
                ApplyTransition(ring, t).recs[q] = IF q = t.evict THEN NoEntry ELSE ring.recs[q]
<1> DEFINE new == ApplyTransition(ring, t)
           rest == IF t.evict = Nothing THEN ring
                   ELSE Evict(ring, CHOOSE i \in DOMAIN ring.keys : ring.keys[i] = t.evict)
<1>1. /\ t.id \in Requests /\ t.entry \in Entry /\ t.evict \in Requests \cup {Nothing}
      /\ t.id # Nothing /\ t.evict # t.id
  BY DispatchLogAssumption DEF Transition, ValidTransition
<1>2. /\ rest \in Ring /\ WellFormed(rest)
      /\ Len(rest.keys) = IF t.evict = Nothing THEN Len(ring.keys) ELSE Len(ring.keys) - 1
      /\ \A q \in Requests : rest.recs[q] = IF q = t.evict THEN NoEntry ELSE ring.recs[q]
  <2>1. CASE t.evict = Nothing
    BY <2>1, DispatchLogAssumption
  <2>2. CASE t.evict # Nothing
    <3> DEFINE i == CHOOSE i \in DOMAIN ring.keys : ring.keys[i] = t.evict
    <3>1. t.evict \in Requests /\ ring.recs[t.evict].state = "acknowledged"
      BY <2>2, <1>1 DEF ValidTransition
    <3>2. \E j \in DOMAIN ring.keys : ring.keys[j] = t.evict
      BY <3>1 DEF WellFormed
    <3>3. i \in DOMAIN ring.keys /\ ring.keys[i] = t.evict
      BY <3>2
    <3>4. rest = Evict(ring, i)
      BY <2>2
    <3> HIDE DEF i
    <3>5. ring.recs \in [Requests -> Entry]
      BY DEF Ring
    <3>6. /\ Evict(ring, i) \in Ring /\ WellFormed(Evict(ring, i))
          /\ Len(Evict(ring, i).keys) = Len(ring.keys) - 1
          /\ Evict(ring, i).recs = [ring.recs EXCEPT ![ring.keys[i]] = NoEntry]
      BY <3>3, EvictProperties
    <3>7. \A q \in Requests : Evict(ring, i).recs[q] = IF q = t.evict THEN NoEntry ELSE ring.recs[q]
      BY <3>3, <3>5, <3>6
    <3> QED BY <2>2, <3>4, <3>6, <3>7
  <2> QED BY <2>1, <2>2
<1>3. new.keys = IF t.entry.state = "reserved" THEN Append(rest.keys, t.id) ELSE rest.keys
  BY DEF ApplyTransition, Evict
<1>4. new.recs = [q \in Requests |-> IF q = t.id THEN t.entry ELSE rest.recs[q]]
  BY <1>2 DEF ApplyTransition
<1>5. new = [keys |-> new.keys, recs |-> new.recs]
  BY DEF ApplyTransition
<1> HIDE DEF new, rest
<1>6. /\ rest.keys \in Seq(Requests) /\ rest.recs \in [Requests -> Entry]
      /\ Len(rest.keys) \in Nat /\ DOMAIN rest.keys = 1 .. Len(rest.keys)
      /\ Len(ring.keys) \in Nat
  BY <1>2, LenProperties DEF Ring
<1>7. new.recs \in [Requests -> Entry]
  BY <1>1, <1>4, <1>6
<1>8. CASE t.entry.state = "reserved"
  <2> DEFINE k == rest.keys  m == Len(rest.keys)
  <2>1. /\ new.keys = Append(k, t.id) /\ new.keys \in Seq(Requests) /\ Len(new.keys) = m + 1
        /\ DOMAIN new.keys = 1 .. (m + 1) /\ new.keys[m + 1] = t.id
        /\ \A j \in 1 .. m : new.keys[j] = k[j]
    BY <1>1, <1>3, <1>6, <1>8
  <2>2. rest.recs[t.id].state = "none"
    BY <1>1, <1>2, <1>8 DEF ValidTransition, NoEntry
  <2>3. \A j \in 1 .. m : k[j] # t.id
    BY <1>1, <1>2, <1>6, <2>2 DEF WellFormed
  <2>4. \A j, l \in 1 .. (m + 1) : new.keys[j] = new.keys[l] => j = l
    <3>1. \A j, l \in 1 .. m : k[j] = k[l] => j = l
      BY <1>2, <1>6 DEF WellFormed
    <3> QED BY <3>1, <1>6, <2>1, <2>3
  <2>5. \A q \in Requests : new.recs[q].state # "none" <=> \E j \in 1 .. (m + 1) : new.keys[j] = q
    <3> TAKE q \in Requests
    <3>1. rest.recs[q].state # "none" <=> \E j \in 1 .. m : k[j] = q
      BY <1>2, <1>6 DEF WellFormed
    <3>2. CASE q = t.id
      BY <3>2, <1>4, <1>6, <1>8, <2>1
    <3>3. CASE q # t.id
      <4>1. new.recs[q] = rest.recs[q]
        BY <3>3, <1>4
      <4>2. (\E j \in 1 .. (m + 1) : new.keys[j] = q) <=> (\E j \in 1 .. m : k[j] = q)
        BY <3>3, <1>6, <2>1
      <4> QED BY <4>1, <4>2, <3>1
    <3> QED BY <3>2, <3>3
  <2>6. WellFormed(new)
    BY <2>1, <2>4, <2>5 DEF WellFormed
  <2>7. new \in Ring
    BY <2>1, <1>5, <1>7 DEF Ring
  <2> QED BY <1>1, <1>2, <1>4, <1>6, <1>8, <2>1, <2>6, <2>7 DEF new
<1>9. CASE t.entry.state # "reserved"
  <2>1. new.keys = rest.keys /\ t.evict = Nothing
    BY <1>3, <1>9 DEF ValidTransition
  <2>2. t.entry.state # "none" /\ rest.recs[t.id].state # "none"
    BY <1>1, <1>2, <1>9, <2>1 DEF ValidTransition
  <2>3. \A q \in Requests : new.recs[q].state # "none" <=> rest.recs[q].state # "none"
    BY <1>4, <2>2
  <2>4. WellFormed(new)
    BY <1>2, <2>1, <2>3 DEF WellFormed
  <2>5. new \in Ring
    BY <2>1, <1>5, <1>6, <1>7 DEF Ring
  <2> QED BY <1>1, <1>2, <1>4, <1>6, <1>9, <2>1, <2>4, <2>5 DEF new
<1> QED BY <1>8, <1>9

-----------------------------------------------------------------------------
(* Images. *)

\* The unfinished records of an older log are finitely many, and the ring has room for them.
LEMMA CapacityFacts ==
    /\ IsFiniteSet(Inherited) /\ Cardinality(Inherited) \in Nat
    /\ RingMax \in Nat /\ Capacity \in Nat
    /\ RingMax <= Capacity /\ Cardinality(Inherited) <= Capacity
<1> DEFINE n == Len(LegacyKeys)
           all == {LegacyKeys[i] : i \in 1 .. n}
<1>1. n \in Nat /\ LegacyKeys \in [1 .. n -> Requests] /\ DOMAIN LegacyKeys = 1 .. n
  BY DispatchLogAssumption, LenProperties
<1>2. LegacyKeys \in Surjection(1 .. n, all)
  BY <1>1 DEF Surjection
<1>3. IsFiniteSet(1 .. n)
  BY <1>1, FS_Interval
<1>4. Inherited \subseteq all
  BY <1>1, LegacyAssumption DEF Inherited, Unfinished, LegacyRing, NoEntry
<1> HIDE DEF all, n
<1>5. IsFiniteSet(all)
  BY <1>2, <1>3, FS_Surjection
<1>6. IsFiniteSet(Inherited)
  BY <1>4, <1>5, FS_Subset
<1>7. Cardinality(Inherited) \in Nat
  BY <1>6, FS_CardinalityType
<1> QED BY <1>6, <1>7, DispatchLogAssumption DEF Capacity

\* A ring of nothing but inherited records is no longer than those.
LEMMA KeysInherited ==
    ASSUME NEW ring \in Ring, WellFormed(ring),
           \A i \in DOMAIN ring.keys : ring.keys[i] \in Inherited
    PROVE  Len(ring.keys) <= Cardinality(Inherited)
<1> DEFINE n == Len(ring.keys)
           f == ring.keys
<1>1. n \in Nat /\ f \in [1 .. n -> Requests] /\ DOMAIN f = 1 .. n
  BY LenProperties DEF Ring
<1>2. \A i, j \in 1 .. n : f[i] = f[j] => i = j
  BY <1>1 DEF WellFormed
<1>3. \A i \in 1 .. n : f[i] \in Inherited
  BY <1>1
<1> HIDE DEF n, f
<1>4. f \in Injection(1 .. n, Inherited)
  BY <1>1, <1>2, <1>3 DEF Injection, IsInjective
<1>5. Cardinality(1 .. n) <= Cardinality(Inherited)
  BY <1>4, CapacityFacts, FS_Injection
<1>6. Cardinality(1 .. n) = n
  BY <1>1, FS_Interval
<1> QED BY <1>5, <1>6 DEF n

\* The empty and the legacy ring are rings that fit, and the fixed images are images.
LEMMA Constants ==
    /\ EmptyRing \in Ring /\ Fits(EmptyRing) /\ Len(EmptyRing.keys) = 0
    /\ \A q \in Requests : EmptyRing.recs[q].state = "none"
    /\ LegacyRing \in Ring /\ Fits(LegacyRing)
    /\ Absent \in Image /\ Torn \in Image /\ Invalid \in Image /\ LegacyLog \in Image
<1>1. NoEntry \in Entry /\ LegacyEntry \in Entry
  BY DEF NoEntry, LegacyEntry, Entry, RecordState
<1>2. EmptyRing \in Ring /\ EmptyRing.keys = << >> /\ Len(EmptyRing.keys) = 0
  BY <1>1 DEF EmptyRing, Ring
<1>3. DOMAIN << >> = {}
  OBVIOUS
<1>4. \A q \in Requests : EmptyRing.recs[q].state = "none"
  BY DEF EmptyRing, NoEntry
<1>5. Fits(EmptyRing)
  BY <1>2, <1>3, <1>4, CapacityFacts DEF Fits, WellFormed
<1>6. LegacyRing \in Ring
  BY DispatchLogAssumption, LegacyAssumption DEF LegacyRing, Ring
<1>7. Fits(LegacyRing)
  <2>1. WellFormed(LegacyRing)
    BY LegacyAssumption DEF LegacyRing, WellFormed, ValidLegacyRecord, LegacyEntry, NoEntry
  <2> QED BY <2>1 DEF Fits, Inherited
<1>8. Absent \in Image /\ Torn \in Image /\ Invalid \in Image /\ LegacyLog \in Image
  BY <1>2, <1>6 DEF Absent, Torn, Invalid, LegacyLog, Image
<1> QED BY <1>2, <1>4, <1>5, <1>6, <1>7, <1>8

\* The line of a valid transition, appended to a log that matches memory, loads.
LEMMA AppendLineProperties ==
    ASSUME NEW img \in Image, img.kind = "ok", WellFormed(img.ring),
           NEW t \in Transition, ValidTransition(img.ring, t)
    PROVE  /\ AppendLine(img, t) \in Image
           /\ WithoutNewline(AppendLine(img, t)) \in Image
           /\ AppendLine(img, t).kind = "ok"
           /\ AppendLine(img, t).ring = ApplyTransition(img.ring, t)
           /\ WithoutNewline(AppendLine(img, t)).kind = "noeol"
           /\ WithoutNewline(AppendLine(img, t)).ring = ApplyTransition(img.ring, t)
<1>1. /\ img.ring \in Ring /\ img.lines \in Nat
      /\ img = [kind |-> "ok", ring |-> img.ring, lines |-> img.lines]
  BY DEF Image
<1>2. ApplyTransition(img.ring, t) \in Ring
  BY <1>1, ApplyProperties
<1>3. AppendLine(img, t) =
        [kind |-> "ok", ring |-> ApplyTransition(img.ring, t), lines |-> img.lines + 1]
  BY <1>1 DEF AppendLine
<1>4. WithoutNewline(AppendLine(img, t)) =
        [kind |-> "noeol", ring |-> ApplyTransition(img.ring, t), lines |-> img.lines + 1]
  BY <1>3 DEF WithoutNewline
<1>5. AppendLine(img, t) \in Image /\ WithoutNewline(AppendLine(img, t)) \in Image
  BY <1>1, <1>2, <1>3, <1>4 DEF Image
<1>6. QED
  BY <1>3, <1>4, <1>5

\* Images of the rings a running process writes: memory, or memory with the
\* operation in progress applied.  They are as good as the ones already there.
Sound(img) ==
    /\ img \in Image /\ img.kind # "invalid" /\ Fits(img.ring)
    /\ \A q \in Requests :
         /\ grants[q] > 0 =>
              \/ orphaned
              \/ Found(img).kind = "torn"
              \/ /\ Loads(Found(img))
                 /\ Found(img).ring.recs[q].state \in {"reserved", "completed"}
         /\ outcome[q] # Nothing =>
              \/ orphaned
              \/ Found(img).kind = "torn"
              \/ /\ Loads(Found(img))
                 /\ Found(img).ring.recs[q].state = "completed"
                 /\ Found(img).ring.recs[q].result = outcome[q]

\* Every image on disk is sound, and so is one that holds memory's records.
LEMMA ImagesSound ==
    ASSUME Inv
    PROVE  /\ \A img \in Images : Sound(img)
           /\ Sound(Torn)
           /\ Up => \A img \in Image : Loads(img) /\ img.ring = mem => Sound(img)
<1>0. TypeOK /\ RingsFit /\ LogMatchesMemory /\ GrantOnRecord /\ ResultDurable /\ ResultInMemory
  BY DEF Inv
<1>1. ASSUME NEW img \in Images PROVE Sound(img)
  <2>1. img \in Image /\ img.kind # "invalid" /\ Fits(img.ring)
    BY <1>0, <1>1 DEF TypeOK, RingsFit, LogMatchesMemory, ReplayAccepts, Images, CrashImages
  <2> QED BY <2>1, <1>0, <1>1 DEF Sound, GrantOnRecord, ResultDurable
<1>2. Sound(Torn)
  BY Constants DEF Sound, Torn, Found
<1>3. ASSUME Up, NEW img \in Image, Loads(img), img.ring = mem PROVE Sound(img)
  <2>1. img.kind # "invalid" /\ Fits(img.ring)
    BY <1>0, <1>3 DEF RingsFit, Loads
  <2>2. Found(img) = img
    BY <1>3 DEF Found, Loads
  <2> QED BY <2>1, <2>2, <1>0, <1>3 DEF Sound, GrantOnRecord, ResultInMemory
<1> QED BY <1>1, <1>2, <1>3

\* What the append in progress writes, in full or in part, is sound.
LEMMA AppendSound ==
    ASSUME Inv, phase \in {"write", "sync"}
    PROVE  /\ AppendLine(oldEOF, op) \in Image
           /\ AppendLine(oldEOF, op).kind = "ok"
           /\ AppendLine(oldEOF, op).ring = ApplyTransition(mem, op)
           /\ \A img \in AppendImages(oldEOF, op) : Sound(img)
<1>0. TypeOK /\ RingsFit /\ CallValid /\ LogMatchesMemory /\ GrantOnRecord /\ ResultInMemory
  BY DEF Inv
<1>1. /\ oldEOF \in Image /\ oldEOF.kind = "ok" /\ oldEOF.ring = mem
      /\ op # NoOp /\ op \in Transition /\ ValidTransition(mem, op)
      /\ mem \in Ring /\ Fits(mem) /\ Up /\ Len(mem.keys) <= Capacity
  BY <1>0 DEF TypeOK, LogMatchesMemory, CallValid, RingsFit, RingBounded, Up, Stopped
<1> DEFINE full == AppendLine(oldEOF, op)  new == ApplyTransition(mem, op)
<1>2. /\ full \in Image /\ full.kind = "ok" /\ full.ring = new
      /\ WithoutNewline(full) \in Image /\ WithoutNewline(full).kind = "noeol"
      /\ WithoutNewline(full).ring = new
  BY <1>1, AppendLineProperties DEF Fits
<1>3. /\ new \in Ring /\ WellFormed(new)
      /\ Len(new.keys) = IF op.entry.state # "reserved" THEN Len(mem.keys)
                         ELSE IF op.evict = Nothing THEN Len(mem.keys) + 1 ELSE Len(mem.keys)
      /\ new.recs[op.id] = op.entry
      /\ \A q \in Requests : q # op.id =>
           new.recs[q] = IF q = op.evict THEN NoEntry ELSE mem.recs[q]
  BY <1>1, ApplyProperties DEF Fits
<1>4. Len(mem.keys) \in Nat /\ RingMax \in Nat
  BY <1>1, LenProperties, DispatchLogAssumption DEF Ring
<1>5. Fits(new)
  BY <1>0, <1>1, <1>3, <1>4, CapacityFacts DEF Fits, CallValid
<1>6. ASSUME NEW q \in Requests, grants[q] > 0, ~ orphaned
      PROVE  new.recs[q].state \in {"reserved", "completed"}
  <2>1. /\ mem.recs[q].state \in {"reserved", "completed"}
        /\ op.id = q => op.entry.state = "completed"
    BY <1>0, <1>1, <1>6 DEF GrantOnRecord
  <2>2. q # op.evict
    BY <1>1, <2>1, DispatchLogAssumption DEF ValidTransition
  <2> QED BY <1>3, <2>1, <2>2
<1>7. ASSUME NEW q \in Requests, outcome[q] # Nothing, ~ orphaned
      PROVE  new.recs[q].state = "completed" /\ new.recs[q].result = outcome[q]
  <2>1. mem.recs[q].state = "completed" /\ mem.recs[q].result = outcome[q] /\ op.id # q
    BY <1>0, <1>1, <1>7 DEF ResultInMemory
  <2>2. q # op.evict
    BY <1>1, <2>1, DispatchLogAssumption DEF ValidTransition
  <2> QED BY <1>3, <2>1, <2>2
<1>8. ASSUME NEW img \in Image, Loads(img), img.ring = new PROVE Sound(img)
  BY <1>5, <1>6, <1>7, <1>8 DEF Sound, Loads, Found
<1>9. Sound(full) /\ Sound(WithoutNewline(full))
  BY <1>2, <1>8 DEF Loads
<1>10. Sound(Torn)
  BY ImagesSound
<1> HIDE DEF full, new
<1>11. AppendImages(oldEOF, op) = {full, WithoutNewline(full), Torn}
  BY DEF AppendImages, full
<1> QED BY <1>2, <1>9, <1>10, <1>11 DEF full, new

-----------------------------------------------------------------------------
(* The invariant, one lemma per action. *)

\* Loading a readable log: memory is the log, so it holds what every image holds.
LEMMA LoadCurrentInv ==
    ASSUME Inv, LoadCurrent
    PROVE  Inv'
<1> USE DEF diskVars, ringVars, callVars, history, Found
<1>0. /\ TypeOK /\ RingsFit /\ CallValid /\ LogMatchesMemory /\ RenameDurable
      /\ GrantOnRecord /\ ResultDurable /\ ResultInMemory /\ AtMostOnce
  BY DEF Inv
<1>1. TypeOK'
  <2>1. FlagsOK'
    BY <1>0, Zenon DEF TypeOK, FlagsOK, LoadCurrent, FreshProcess, NoCall, Stopped, Loads
  <2> QED
    BY <1>0, <2>1, Constants DEF TypeOK, Phase, LoadCurrent, FreshProcess, NoCall, Stopped, Loads,
       Image
<1>4. LogMatchesMemory'
  <2>1. ~ needsSnapshot' => file.kind = "ok"
    BY Zenon DEF LoadCurrent
  <2> QED
    BY <1>0, <2>1 DEF LoadCurrent, FreshProcess, NoCall, LogMatchesMemory, ReplayAccepts, Images,
       CrashImages, Up, Stopped
<1>8. ResultInMemory'
  BY <1>0 DEF LoadCurrent, FreshProcess, NoCall, Loads, ResultInMemory, ResultDurable, Images, Up,
     Stopped
<1>2. RingsFit' /\ CallValid' /\ RenameDurable' /\ GrantOnRecord' /\ ResultDurable' /\ AtMostOnce'
  BY <1>0, Constants, DispatchLogAssumption DEF LoadCurrent, FreshProcess, NoCall, Stopped, Loads,
     RingsFit, RingBounded, Up, Images, CrashImages, CallValid, RenameDurable, GrantOnRecord,
     ResultDurable, AtMostOnce
<1> QED
  BY <1>1, <1>2, <1>4, <1>8 DEF Inv

\* Without a current log nothing was ever granted, so the legacy log is safe to adopt.
LEMMA LoadLegacyInv ==
    ASSUME Inv, LoadLegacy
    PROVE  Inv'
<1> USE DEF diskVars, ringVars, callVars, history, Found
<1>0. /\ TypeOK /\ RingsFit /\ CallValid /\ LogMatchesMemory /\ RenameDurable
      /\ GrantOnRecord /\ ResultDurable /\ ResultInMemory /\ AtMostOnce
  BY DEF Inv
<1>1. TypeOK'
  <2>1. adopting' \in BOOLEAN
    BY DEF LoadLegacy, Loads
  <2>2. FlagsOK'
    BY <1>0, <2>1, Zenon DEF TypeOK, FlagsOK, LoadLegacy, FreshProcess, NoCall
  <2> QED
    BY <1>0, <2>2, Constants DEF TypeOK, Phase, LoadLegacy, FreshProcess, NoCall, Image
<1>8. ResultInMemory'
  BY <1>0 DEF LoadLegacy, FreshProcess, NoCall, Loads, ResultInMemory, ResultDurable, Images, Up,
     Stopped
<1>2. /\ RingsFit' /\ CallValid' /\ LogMatchesMemory' /\ RenameDurable' /\ GrantOnRecord'
      /\ ResultDurable' /\ AtMostOnce'
  BY <1>0, Constants, DispatchLogAssumption DEF LoadLegacy, FreshProcess, NoCall, Stopped, Loads,
     RingsFit, RingBounded, Up, Images, CrashImages, CallValid, LogMatchesMemory, ReplayAccepts,
     RenameDurable, GrantOnRecord, ResultDurable, AtMostOnce
<1> QED
  BY <1>1, <1>2, <1>8 DEF Inv

\* Cutting a loaded ring to capacity drops acknowledged records only.
LEMMA EvictToMaxInv ==
    ASSUME Inv, EvictToMax
    PROVE  Inv'
<1> USE DEF diskVars, ringVars, callVars, history, Found
<1>0. /\ TypeOK /\ RingsFit /\ CallValid /\ LogMatchesMemory /\ RenameDurable
      /\ GrantOnRecord /\ ResultDurable /\ ResultInMemory /\ AtMostOnce
  BY DEF Inv
<1>a. PICK i \in DOMAIN mem.keys : OldestAcknowledged(mem, i) /\ mem' = Evict(mem, i)
  BY DEF EvictToMax
<1>b. /\ mem' \in Ring /\ WellFormed(mem') /\ Len(mem'.keys) = Len(mem.keys) - 1
      /\ mem.keys[i] \in Requests
      /\ mem'.recs = [mem.recs EXCEPT ![mem.keys[i]] = NoEntry]
  BY <1>0, <1>a, EvictProperties DEF TypeOK, RingsFit, Fits
<1>c. /\ mem.recs[mem.keys[i]].state = "acknowledged" /\ mem.recs \in [Requests -> Entry]
      /\ Len(mem.keys) \in Nat /\ RingMax \in Nat
  BY <1>0, <1>a, LenProperties, DispatchLogAssumption DEF OldestAcknowledged, TypeOK, Ring
<1>1. TypeOK'
  <2>1. FlagsOK'
    BY <1>0, Zenon DEF TypeOK, FlagsOK, EvictToMax
  <2> QED
    BY <1>0, <1>b, <2>1 DEF TypeOK, EvictToMax
<1>2. RingsFit'
  <2>1. Fits(mem)
    BY <1>0 DEF RingsFit
  <2>2. Unfinished(mem') \subseteq Unfinished(mem)
    BY <1>b, <1>c DEF Unfinished, NoEntry
  <2>3. Fits(mem')
    BY <1>b, <1>c, <2>1, <2>2, CapacityFacts DEF Fits
  <2> QED
    BY <1>0, <2>3 DEF EvictToMax, RingsFit, RingBounded, Up, Stopped, Images, CrashImages
<1>6. GrantOnRecord'
  <2>1. \A q \in Requests : mem.recs[q].state # "acknowledged" => mem'.recs[q] = mem.recs[q]
    BY <1>b, <1>c
  <2> QED
    BY <1>0, <2>1 DEF EvictToMax, GrantOnRecord, Images, CrashImages, Up, Stopped
<1>8. ResultInMemory'
  <2>1. \A q \in Requests : mem.recs[q].state # "acknowledged" => mem'.recs[q] = mem.recs[q]
    BY <1>b, <1>c
  <2> QED
    BY <1>0, <2>1 DEF EvictToMax, ResultInMemory, Up, Stopped
<1>3. CallValid' /\ LogMatchesMemory' /\ RenameDurable' /\ ResultDurable' /\ AtMostOnce'
  BY <1>0 DEF EvictToMax, CallValid, Stopped, LogMatchesMemory, ReplayAccepts, Images,
     CrashImages, Up, RenameDurable, ResultDurable, AtMostOnce
<1> QED
  BY <1>1, <1>2, <1>3, <1>6, <1>8 DEF Inv

\* Where nothing may be cut any more every record is inherited.
LEMMA LoadedInv ==
    ASSUME Inv, Loaded
    PROVE  Inv'
<1> USE DEF diskVars, ringVars, callVars, history, Found
<1>0. /\ TypeOK /\ RingsFit /\ CallValid /\ LogMatchesMemory /\ RenameDurable
      /\ GrantOnRecord /\ ResultDurable /\ ResultInMemory /\ AtMostOnce
  BY DEF Inv
<1>1. TypeOK'
  <2>1. FlagsOK'
    BY <1>0, Zenon DEF TypeOK, FlagsOK, Loaded
  <2> QED
    BY <1>0, <2>1, Constants DEF TypeOK, Phase, Loaded
<1>2. RingsFit'
  <2>1. Len(mem.keys) \in Nat /\ RingMax \in Nat /\ DOMAIN mem.keys = 1 .. Len(mem.keys)
        /\ \A i \in 1 .. Len(mem.keys) : mem.keys[i] \in Requests
    BY <1>0, LenProperties, DispatchLogAssumption DEF TypeOK, Ring
  <2>2. Len(mem.keys) <= Capacity
    <3>1. CASE Len(mem.keys) <= RingMax
      BY <2>1, <3>1, CapacityFacts
    <3>2. CASE Unfinished(mem) \subseteq Inherited /\ ~ (Len(mem.keys) <= RingMax)
      <4>1. \A q \in Requests : mem.recs[q].state # "acknowledged"
        BY <3>2 DEF Loaded
      <4>2. ASSUME NEW i \in DOMAIN mem.keys PROVE mem.keys[i] \in Inherited
        <5>1. mem.keys[i] \in Requests
          BY <2>1
        <5>2. mem.recs[mem.keys[i]].state # "none"
          BY <1>0, <5>1 DEF RingsFit, Fits, WellFormed
        <5>3. mem.recs[mem.keys[i]].state \in RecordState
          BY <1>0, <5>1 DEF TypeOK, Ring, Entry
        <5> QED BY <3>2, <4>1, <5>1, <5>2, <5>3 DEF Unfinished, RecordState
      <4>3. Len(mem.keys) <= Cardinality(Inherited)
        BY <1>0, <4>2, KeysInherited DEF TypeOK, RingsFit, Fits
      <4> QED BY <2>1, <4>3, CapacityFacts
    <3>3. CASE Len(mem.keys) <= Capacity
      BY <3>3
    <3> QED BY <1>0, <3>1, <3>2, <3>3 DEF RingsFit, Fits
  <2> QED
    BY <1>0, <2>1, <2>2 DEF Loaded, RingsFit, RingBounded, Images, CrashImages
<1>3. /\ CallValid' /\ LogMatchesMemory' /\ RenameDurable' /\ GrantOnRecord' /\ ResultDurable'
      /\ ResultInMemory' /\ AtMostOnce'
  BY <1>0 DEF Loaded, CallValid, Stopped, LogMatchesMemory, ReplayAccepts, Images, CrashImages,
     Up, RenameDurable, GrantOnRecord, ResultDurable, ResultInMemory, AtMostOnce
<1> QED
  BY <1>1, <1>2, <1>3 DEF Inv

\* A refusal to start changes nothing.
LEMMA LoadRefusedInv ==
    ASSUME Inv, LoadRefused
    PROVE  Inv'
<1> USE DEF diskVars, ringVars, callVars, history, Found
<1>0. /\ TypeOK /\ RingsFit /\ CallValid /\ LogMatchesMemory /\ RenameDurable
      /\ GrantOnRecord /\ ResultDurable /\ ResultInMemory /\ AtMostOnce
  BY DEF Inv
<1>1. TypeOK'
  <2>1. FlagsOK'
    BY <1>0, Zenon DEF TypeOK, FlagsOK, LoadRefused, Stopped
  <2> QED
    BY <1>0, <2>1, Constants DEF TypeOK, Phase, LoadRefused, Stopped
<1>2. /\ RingsFit' /\ CallValid' /\ LogMatchesMemory' /\ RenameDurable' /\ GrantOnRecord'
      /\ ResultDurable' /\ ResultInMemory' /\ AtMostOnce'
  BY <1>0, Constants, DispatchLogAssumption DEF LoadRefused, Stopped, RingsFit, RingBounded, Up,
     Images, CrashImages, CallValid, LogMatchesMemory, ReplayAccepts, RenameDurable,
     GrantOnRecord, ResultDurable, ResultInMemory, AtMostOnce
<1> QED
  BY <1>1, <1>2 DEF Inv

\* A reservation starts only for an id memory does not know.
LEMMA ReserveInv ==
    ASSUME Inv, NEW q \in Requests, NEW d \in Digests, Reserve(q, d)
    PROVE  Inv'
<1> USE DEF diskVars, ringVars, callVars, history, Found
<1>0. /\ TypeOK /\ RingsFit /\ CallValid /\ LogMatchesMemory /\ RenameDurable
      /\ GrantOnRecord /\ ResultDurable /\ ResultInMemory /\ AtMostOnce
  BY DEF Inv
<1>a. PICK key \in Requests \cup {Nothing} :
        /\ Evicted(mem, key)
        /\ StartCommit([id |-> q, evict |-> key,
                        entry |-> [state |-> "reserved", digest |-> d, result |-> Nothing]])
  BY DEF Reserve
<1>b. /\ op' \in Transition /\ ValidTransition(mem, op') /\ op'.id = q /\ op' # NoOp
      /\ op'.entry.state = "reserved" /\ op'.evict = key
  BY <1>a, DispatchLogAssumption DEF StartCommit, Transition, Entry, RecordState, NoOp
<1>c. key = Nothing => Len(mem.keys) < RingMax
  <2>1. mem.keys \in Seq(Requests) /\ \A i \in DOMAIN mem.keys : mem.keys[i] \in Requests
    BY <1>0 DEF TypeOK, Ring
  <2> QED BY <1>a, <2>1, DispatchLogAssumption DEF Evicted
<1>d. phase' \in {"snapshot", "open"} /\ mem' = mem
  BY <1>a DEF StartCommit, Prepare
<1>1. TypeOK'
  <2>1. FlagsOK'
    BY <1>0, Zenon DEF TypeOK, FlagsOK, Reserve, StartCommit
  <2> QED
    BY <1>0, <1>b, <1>d, <2>1, Constants DEF TypeOK, Phase, Reserve, StartCommit
<1>3. CallValid'
  BY <1>b, <1>c, <1>d DEF CallValid, Stopped
<1>2. /\ RingsFit' /\ LogMatchesMemory' /\ RenameDurable' /\ GrantOnRecord' /\ ResultDurable'
      /\ ResultInMemory' /\ AtMostOnce'
  BY <1>0, Constants, DispatchLogAssumption DEF Reserve, StartCommit, Prepare, Usable, RingsFit,
     RingBounded, Up, Stopped, Images, CrashImages, LogMatchesMemory, ReplayAccepts,
     RenameDurable, GrantOnRecord, ResultDurable, ResultInMemory, AtMostOnce
<1> QED
  BY <1>1, <1>2, <1>3 DEF Inv

\* A completion starts only on its reservation.
LEMMA CompleteInv ==
    ASSUME Inv, NEW q \in Requests, NEW r \in Results, Complete(q, r)
    PROVE  Inv'
<1> USE DEF diskVars, ringVars, callVars, history, Found
<1>0. /\ TypeOK /\ RingsFit /\ CallValid /\ LogMatchesMemory /\ RenameDurable
      /\ GrantOnRecord /\ ResultDurable /\ ResultInMemory /\ AtMostOnce
  BY DEF Inv
<1>a. StartCommit([id |-> q, evict |-> Nothing,
                   entry |-> [mem.recs[q] EXCEPT !.state = "completed", !.result = r]])
  BY DEF Complete
<1>b. /\ op' \in Transition /\ ValidTransition(mem, op') /\ op'.id = q /\ op' # NoOp
      /\ op'.entry.state = "completed" /\ op'.evict = Nothing /\ op'.entry.result = r
  <2>1. mem.recs[q] \in Entry
    BY <1>0 DEF TypeOK, Ring
  <2> QED BY <1>a, <2>1, DispatchLogAssumption DEF StartCommit, Transition, Entry, RecordState, NoOp
<1>d. phase' \in {"snapshot", "open"} /\ mem' = mem
  BY <1>a DEF StartCommit, Prepare
<1>1. TypeOK'
  <2>1. FlagsOK'
    BY <1>0, Zenon DEF TypeOK, FlagsOK, Complete, StartCommit
  <2> QED
    BY <1>0, <1>b, <1>d, <2>1, Constants DEF TypeOK, Phase, Complete, StartCommit
<1>3. CallValid'
  BY <1>b, <1>d DEF CallValid, Stopped
<1>6. GrantOnRecord'
  BY <1>0, <1>b, <1>d DEF Complete, StartCommit, Usable, GrantOnRecord, Images, CrashImages, Up,
     Stopped
<1>2. /\ RingsFit' /\ LogMatchesMemory' /\ RenameDurable' /\ ResultDurable' /\ ResultInMemory'
      /\ AtMostOnce'
  BY <1>0, Constants, DispatchLogAssumption DEF Complete, StartCommit, Prepare, Usable, RingsFit,
     RingBounded, Up, Stopped, Images, CrashImages, LogMatchesMemory, ReplayAccepts,
     RenameDurable, ResultDurable, ResultInMemory, AtMostOnce
<1> QED
  BY <1>1, <1>2, <1>3, <1>6 DEF Inv

\* An acknowledgement ends the grant and the claim on the result.
LEMMA AcknowledgeInv ==
    ASSUME Inv, NEW q \in Requests, Acknowledge(q)
    PROVE  Inv'
<1> USE DEF diskVars, ringVars, callVars, history, Found
<1>0. /\ TypeOK /\ RingsFit /\ CallValid /\ LogMatchesMemory /\ RenameDurable
      /\ GrantOnRecord /\ ResultDurable /\ ResultInMemory /\ AtMostOnce
  BY DEF Inv
<1>a. StartCommit([id |-> q, evict |-> Nothing,
                   entry |-> [mem.recs[q] EXCEPT !.state = "acknowledged"]])
  BY DEF Acknowledge
<1>b. /\ op' \in Transition /\ ValidTransition(mem, op') /\ op'.id = q /\ op' # NoOp
      /\ op'.entry.state = "acknowledged" /\ op'.evict = Nothing
  <2>1. mem.recs[q] \in Entry
    BY <1>0 DEF TypeOK, Ring
  <2> QED BY <1>a, <2>1, DispatchLogAssumption DEF StartCommit, Transition, Entry, RecordState, NoOp
<1>d. phase' \in {"snapshot", "open"} /\ mem' = mem
  BY <1>a DEF StartCommit, Prepare
<1>1. TypeOK'
  <2>1. FlagsOK'
    BY <1>0, Zenon DEF TypeOK, FlagsOK, Acknowledge, StartCommit
  <2> QED
    BY <1>0, <1>b, <1>d, <2>1, Constants DEF TypeOK, Phase, Acknowledge, StartCommit
<1>3. CallValid'
  BY <1>b, <1>d DEF CallValid, Stopped
<1>6. GrantOnRecord'
  <2>1. \A p \in Requests : grants'[p] > 0 => p # q /\ grants[p] > 0
    BY <1>0 DEF Acknowledge, TypeOK
  <2> QED
    BY <1>0, <1>b, <1>d, <2>1 DEF Acknowledge, StartCommit, Usable, GrantOnRecord, Images,
       CrashImages, Up, Stopped
<1>8. ResultInMemory'
  <2>1. \A p \in Requests : outcome'[p] # Nothing => p # q /\ outcome'[p] = outcome[p]
    BY <1>0 DEF Acknowledge, TypeOK
  <2> QED
    BY <1>0, <1>b, <1>d, <2>1 DEF Acknowledge, StartCommit, Usable, ResultInMemory, Up, Stopped
<1>2. RingsFit' /\ LogMatchesMemory' /\ RenameDurable' /\ ResultDurable' /\ AtMostOnce'
  BY <1>0, Constants, DispatchLogAssumption DEF Acknowledge, StartCommit, Prepare, Usable,
     RingsFit, RingBounded, Up, Stopped, Images, CrashImages, LogMatchesMemory, ReplayAccepts,
     RenameDurable, ResultDurable, AtMostOnce
<1> QED
  BY <1>1, <1>2, <1>3, <1>6, <1>8 DEF Inv

\* A snapshot that fails before its rename leaves the disk alone.
LEMMA SnapshotFailsInv ==
    ASSUME Inv, SnapshotFails
    PROVE  Inv'
<1> USE DEF diskVars, ringVars, callVars, history, Found
<1>0. /\ TypeOK /\ RingsFit /\ CallValid /\ LogMatchesMemory /\ RenameDurable
      /\ GrantOnRecord /\ ResultDurable /\ ResultInMemory /\ AtMostOnce
  BY DEF Inv
<1>1. TypeOK'
  <2>1. FlagsOK'
    BY <1>0, Zenon DEF TypeOK, FlagsOK, SnapshotFails, ReplyError, NoCall
  <2> QED
    BY <1>0, <2>1, Constants DEF TypeOK, Phase, SnapshotFails, ReplyError, NoCall
<1>2. /\ RingsFit' /\ CallValid' /\ LogMatchesMemory' /\ RenameDurable' /\ GrantOnRecord'
      /\ ResultDurable' /\ ResultInMemory' /\ AtMostOnce'
  BY <1>0, Constants, DispatchLogAssumption DEF SnapshotFails, ReplyError, NoCall, RingsFit,
     RingBounded, Up, Stopped, Images, CrashImages, CallValid, LogMatchesMemory, ReplayAccepts,
     RenameDurable, GrantOnRecord, ResultDurable, ResultInMemory, AtMostOnce
<1> QED
  BY <1>1, <1>2 DEF Inv

\* A renamed snapshot holds memory; the log it replaces may still come back.
LEMMA SnapshotRenameInv ==
    ASSUME Inv, SnapshotRename
    PROVE  Inv'
<1> USE DEF diskVars, ringVars, callVars, history, Found
<1>0. /\ TypeOK /\ RingsFit /\ CallValid /\ LogMatchesMemory /\ RenameDurable
      /\ GrantOnRecord /\ ResultDurable /\ ResultInMemory /\ AtMostOnce
  BY DEF Inv
<1>a. /\ file' \in Image /\ Loads(file') /\ file'.ring = mem /\ Up
  BY <1>0 DEF SnapshotRename, Snapshot, Image, Loads, TypeOK, Up, Stopped
<1>s. \A img \in Images' : Sound(img)
  BY <1>a, ImagesSound DEF SnapshotRename, Images, CrashImages
<1>1. TypeOK'
  <2>1. FlagsOK'
    BY <1>0, Zenon DEF TypeOK, FlagsOK, SnapshotRename
  <2> QED
    BY <1>0, <2>1, Constants DEF TypeOK, Phase, SnapshotRename, Image, Snapshot
<1>2. RingsFit'
  BY <1>0, <1>s, Constants DEF SnapshotRename, Sound, RingsFit, RingBounded, Up, Stopped
<1>4. LogMatchesMemory'
  BY <1>0, <1>s DEF SnapshotRename, Sound, LogMatchesMemory, ReplayAccepts, Up, Stopped
<1>6. GrantOnRecord'
  BY <1>0, <1>s DEF SnapshotRename, Sound, GrantOnRecord, Up, Stopped
<1>7. ResultDurable'
  BY <1>0, <1>s DEF SnapshotRename, Sound, ResultDurable
<1>3. CallValid' /\ RenameDurable' /\ ResultInMemory' /\ AtMostOnce'
  BY <1>0 DEF SnapshotRename, CallValid, Stopped, RenameDurable, ResultInMemory, Up, AtMostOnce
<1> QED
  BY <1>1, <1>2, <1>3, <1>4, <1>6, <1>7 DEF Inv

\* A failed directory fsync leaves a snapshot owed, so nothing is appended.
LEMMA DirSyncFailsInv ==
    ASSUME Inv, DirSyncFails
    PROVE  Inv'
<1> USE DEF diskVars, ringVars, callVars, history, Found
<1>0. /\ TypeOK /\ RingsFit /\ CallValid /\ LogMatchesMemory /\ RenameDurable
      /\ GrantOnRecord /\ ResultDurable /\ ResultInMemory /\ AtMostOnce
  BY DEF Inv
<1>1. TypeOK'
  <2>1. FlagsOK'
    BY <1>0, Zenon DEF TypeOK, FlagsOK, DirSyncFails, ReplyError, NoCall
  <2> QED
    BY <1>0, <2>1, Constants DEF TypeOK, Phase, DirSyncFails, ReplyError, NoCall
<1>2. /\ RingsFit' /\ CallValid' /\ LogMatchesMemory' /\ RenameDurable' /\ GrantOnRecord'
      /\ ResultDurable' /\ ResultInMemory' /\ AtMostOnce'
  BY <1>0, Constants, DispatchLogAssumption DEF DirSyncFails, ReplyError, NoCall, RingsFit,
     RingBounded, Up, Stopped, Images, CrashImages, CallValid, LogMatchesMemory, ReplayAccepts,
     RenameDurable, GrantOnRecord, ResultDurable, ResultInMemory, AtMostOnce
<1> QED
  BY <1>1, <1>2 DEF Inv

\* A successful one leaves the snapshot as the only image.
LEMMA DirSyncInv ==
    ASSUME Inv, DirSync
    PROVE  Inv'
<1> USE DEF diskVars, ringVars, callVars, history, Found
<1>0. /\ TypeOK /\ RingsFit /\ CallValid /\ LogMatchesMemory /\ RenameDurable
      /\ GrantOnRecord /\ ResultDurable /\ ResultInMemory /\ AtMostOnce
  BY DEF Inv
<1>s. \A img \in Images' : Sound(img)
  BY ImagesSound DEF DirSync, Images, CrashImages
<1>1. TypeOK'
  <2>1. FlagsOK'
    BY <1>0, Zenon DEF TypeOK, FlagsOK, DirSync
  <2> QED
    BY <1>0, <2>1, Constants DEF TypeOK, Phase, DirSync
<1>2. RingsFit'
  BY <1>0, <1>s, Constants DEF DirSync, Sound, Absent, RingsFit, RingBounded, Up, Stopped
<1>4. LogMatchesMemory'
  BY <1>0, <1>s DEF DirSync, Sound, Snapshot, LogMatchesMemory, ReplayAccepts, Up, Stopped
<1>5. /\ \A img \in Images' : img = file'
      /\ file' = file /\ file.kind = "ok" /\ file \in Images
      /\ Found(file)' = file /\ Found(file) = file
  <2>1. file' = file /\ file.kind = "ok" /\ file \in Images
    BY <1>0 DEF DirSync, LogMatchesMemory, Snapshot, Images
  <2>2. Images' = {file}
    BY <1>0 DEF DirSync, Images, CrashImages, LogMatchesMemory
  <2> QED
    BY <2>1, <2>2
<1>6. GrantOnRecord'
  BY <1>0, <1>5 DEF DirSync, GrantOnRecord, Up, Stopped
<1>7. ResultDurable'
  BY <1>0, <1>5 DEF DirSync, ResultDurable
<1>3. CallValid' /\ RenameDurable' /\ ResultInMemory' /\ AtMostOnce'
  BY <1>0 DEF DirSync, CallValid, Stopped, RenameDurable, ResultInMemory, Up, AtMostOnce
<1> QED
  BY <1>1, <1>2, <1>3, <1>4, <1>6, <1>7 DEF Inv

\* The append starts on a log that matches memory.
LEMMA OpenAppendInv ==
    ASSUME Inv, OpenAppend
    PROVE  Inv'
<1> USE DEF diskVars, ringVars, callVars, history, Found
<1>0. /\ TypeOK /\ RingsFit /\ CallValid /\ LogMatchesMemory /\ RenameDurable
      /\ GrantOnRecord /\ ResultDurable /\ ResultInMemory /\ AtMostOnce
  BY DEF Inv
<1>1. TypeOK'
  <2>1. FlagsOK'
    BY <1>0, Zenon DEF TypeOK, FlagsOK, OpenAppend
  <2> QED
    BY <1>0, <2>1, Constants DEF TypeOK, Phase, OpenAppend
<1>2. /\ RingsFit' /\ CallValid' /\ LogMatchesMemory' /\ RenameDurable' /\ GrantOnRecord'
      /\ ResultDurable' /\ ResultInMemory' /\ AtMostOnce'
  BY <1>0, Constants, DispatchLogAssumption DEF OpenAppend, RingsFit, RingBounded, Up, Stopped,
     Images, CrashImages, CallValid, LogMatchesMemory, ReplayAccepts, RenameDurable,
     GrantOnRecord, ResultDurable, ResultInMemory, AtMostOnce
<1> QED
  BY <1>1, <1>2 DEF Inv

\* A drifted log is rewritten from memory.
LEMMA OpenDriftedInv ==
    ASSUME Inv, OpenDrifted
    PROVE  Inv'
<1> USE DEF diskVars, ringVars, callVars, history, Found
<1>0. /\ TypeOK /\ RingsFit /\ CallValid /\ LogMatchesMemory /\ RenameDurable
      /\ GrantOnRecord /\ ResultDurable /\ ResultInMemory /\ AtMostOnce
  BY DEF Inv
<1>1. TypeOK'
  <2>1. FlagsOK'
    BY <1>0, Zenon DEF TypeOK, FlagsOK, OpenDrifted
  <2> QED
    BY <1>0, <2>1, Constants DEF TypeOK, Phase, OpenDrifted
<1>2. /\ RingsFit' /\ CallValid' /\ LogMatchesMemory' /\ RenameDurable' /\ GrantOnRecord'
      /\ ResultDurable' /\ ResultInMemory' /\ AtMostOnce'
  BY <1>0, Constants, DispatchLogAssumption DEF OpenDrifted, RingsFit, RingBounded, Up, Stopped,
     Images, CrashImages, CallValid, LogMatchesMemory, ReplayAccepts, RenameDurable,
     GrantOnRecord, ResultDurable, ResultInMemory, AtMostOnce
<1> QED
  BY <1>1, <1>2 DEF Inv

\* The second drift fails the call with a snapshot owed.
LEMMA OpenGivesUpInv ==
    ASSUME Inv, OpenGivesUp
    PROVE  Inv'
<1> USE DEF diskVars, ringVars, callVars, history, Found
<1>0. /\ TypeOK /\ RingsFit /\ CallValid /\ LogMatchesMemory /\ RenameDurable
      /\ GrantOnRecord /\ ResultDurable /\ ResultInMemory /\ AtMostOnce
  BY DEF Inv
<1>1. TypeOK'
  <2>1. FlagsOK'
    BY <1>0, Zenon DEF TypeOK, FlagsOK, OpenGivesUp, ReplyError, NoCall
  <2> QED
    BY <1>0, <2>1, Constants DEF TypeOK, Phase, OpenGivesUp, ReplyError, NoCall
<1>2. /\ RingsFit' /\ CallValid' /\ LogMatchesMemory' /\ RenameDurable' /\ GrantOnRecord'
      /\ ResultDurable' /\ ResultInMemory' /\ AtMostOnce'
  BY <1>0, Constants, DispatchLogAssumption DEF OpenGivesUp, ReplyError, NoCall, RingsFit,
     RingBounded, Up, Stopped, Images, CrashImages, CallValid, LogMatchesMemory, ReplayAccepts,
     RenameDurable, GrantOnRecord, ResultDurable, ResultInMemory, AtMostOnce
<1> QED
  BY <1>1, <1>2 DEF Inv

\* A failed open fails the call.
LEMMA OpenFailsInv ==
    ASSUME Inv, OpenFails
    PROVE  Inv'
<1> USE DEF diskVars, ringVars, callVars, history, Found
<1>0. /\ TypeOK /\ RingsFit /\ CallValid /\ LogMatchesMemory /\ RenameDurable
      /\ GrantOnRecord /\ ResultDurable /\ ResultInMemory /\ AtMostOnce
  BY DEF Inv
<1>1. TypeOK'
  <2>1. FlagsOK'
    BY <1>0, Zenon DEF TypeOK, FlagsOK, OpenFails, ReplyError, NoCall
  <2> QED
    BY <1>0, <2>1, Constants DEF TypeOK, Phase, OpenFails, ReplyError, NoCall
<1>2. /\ RingsFit' /\ CallValid' /\ LogMatchesMemory' /\ RenameDurable' /\ GrantOnRecord'
      /\ ResultDurable' /\ ResultInMemory' /\ AtMostOnce'
  BY <1>0, Constants, DispatchLogAssumption DEF OpenFails, ReplyError, NoCall, RingsFit,
     RingBounded, Up, Stopped, Images, CrashImages, CallValid, LogMatchesMemory, ReplayAccepts,
     RenameDurable, GrantOnRecord, ResultDurable, ResultInMemory, AtMostOnce
<1> QED
  BY <1>1, <1>2 DEF Inv

\* The appended line is the valid next transition.
LEMMA WriteInv ==
    ASSUME Inv, Write
    PROVE  Inv'
<1> USE DEF diskVars, ringVars, callVars, history, Found
<1>0. /\ TypeOK /\ RingsFit /\ CallValid /\ LogMatchesMemory /\ RenameDurable
      /\ GrantOnRecord /\ ResultDurable /\ ResultInMemory /\ AtMostOnce
  BY DEF Inv
<1>a. file = oldEOF
  BY <1>0 DEF Write, LogMatchesMemory
<1>s. /\ \A img \in AppendImages(file, op) : Sound(img)
      /\ \A img \in Images' : Sound(img)
  BY <1>a, AppendSound, ImagesSound DEF Write, Images, CrashImages, AppendImages
<1>1. TypeOK'
  <2>1. FlagsOK'
    BY <1>0, Zenon DEF TypeOK, FlagsOK, Write
  <2> QED
    BY <1>0, <1>s, <2>1 DEF TypeOK, Phase, Sound, Write, Images, AppendImages
<1>2. RingsFit'
  BY <1>0, <1>s, Constants DEF Write, Sound, RingsFit, RingBounded, Up, Stopped
<1>4. LogMatchesMemory'
  BY <1>0, <1>s DEF Write, Sound, LogMatchesMemory, ReplayAccepts, Up, Stopped
<1>6. GrantOnRecord'
  BY <1>0, <1>s DEF Write, Sound, GrantOnRecord, Up, Stopped
<1>7. ResultDurable'
  BY <1>0, <1>s DEF Write, Sound, ResultDurable
<1>3. CallValid' /\ RenameDurable' /\ ResultInMemory' /\ AtMostOnce'
  BY <1>0 DEF Write, CallValid, Stopped, RenameDurable, ResultInMemory, Up, AtMostOnce
<1> QED
  BY <1>1, <1>2, <1>3, <1>4, <1>6, <1>7 DEF Inv

\* A short write leaves an image that loads or is refused.
LEMMA WriteFailsInv ==
    ASSUME Inv, WriteFails
    PROVE  Inv'
<1> USE DEF diskVars, ringVars, callVars, history, Found
<1>0. /\ TypeOK /\ RingsFit /\ CallValid /\ LogMatchesMemory /\ RenameDurable
      /\ GrantOnRecord /\ ResultDurable /\ ResultInMemory /\ AtMostOnce
  BY DEF Inv
<1>a. file = oldEOF
  BY <1>0 DEF WriteFails, LogMatchesMemory
<1>s. /\ \A img \in AppendImages(file, op) : Sound(img)
      /\ \A img \in Images' : Sound(img)
  BY <1>a, AppendSound, ImagesSound DEF WriteFails, Images, CrashImages, AppendImages
<1>1. TypeOK'
  <2>1. FlagsOK'
    BY <1>0, Zenon DEF TypeOK, FlagsOK, WriteFails
  <2> QED
    BY <1>0, <1>s, <2>1 DEF TypeOK, Phase, Sound, WriteFails, Images, AppendImages
<1>2. RingsFit'
  BY <1>0, <1>s, Constants DEF WriteFails, Sound, RingsFit, RingBounded, Up, Stopped
<1>4. LogMatchesMemory'
  BY <1>0, <1>s DEF WriteFails, Sound, LogMatchesMemory, ReplayAccepts, Up, Stopped
<1>6. GrantOnRecord'
  BY <1>0, <1>s DEF WriteFails, Sound, GrantOnRecord, Up, Stopped
<1>7. ResultDurable'
  BY <1>0, <1>s DEF WriteFails, Sound, ResultDurable
<1>3. CallValid' /\ RenameDurable' /\ ResultInMemory' /\ AtMostOnce'
  BY <1>0 DEF WriteFails, CallValid, Stopped, RenameDurable, ResultInMemory, Up, AtMostOnce
<1> QED
  BY <1>1, <1>2, <1>3, <1>4, <1>6, <1>7 DEF Inv

\* A failed fsync goes to the rollback.
LEMMA SyncFailsInv ==
    ASSUME Inv, SyncFails
    PROVE  Inv'
<1> USE DEF diskVars, ringVars, callVars, history, Found
<1>0. /\ TypeOK /\ RingsFit /\ CallValid /\ LogMatchesMemory /\ RenameDurable
      /\ GrantOnRecord /\ ResultDurable /\ ResultInMemory /\ AtMostOnce
  BY DEF Inv
<1>1. TypeOK'
  <2>1. FlagsOK'
    BY <1>0, Zenon DEF TypeOK, FlagsOK, SyncFails
  <2> QED
    BY <1>0, <2>1, Constants DEF TypeOK, Phase, SyncFails
<1>2. /\ RingsFit' /\ CallValid' /\ LogMatchesMemory' /\ RenameDurable' /\ GrantOnRecord'
      /\ ResultDurable' /\ ResultInMemory' /\ AtMostOnce'
  BY <1>0, Constants, DispatchLogAssumption DEF SyncFails, RingsFit, RingBounded, Up, Stopped,
     Images, CrashImages, CallValid, LogMatchesMemory, ReplayAccepts, RenameDurable,
     GrantOnRecord, ResultDurable, ResultInMemory, AtMostOnce
<1> QED
  BY <1>1, <1>2 DEF Inv

\* The commit barrier: memory, the log and the caller learn of the transition together.
LEMMA SyncInv ==
    ASSUME Inv, Sync
    PROVE  Inv'
<1> USE DEF diskVars, ringVars, callVars, history, Found
<1>0. /\ TypeOK /\ RingsFit /\ CallValid /\ LogMatchesMemory /\ RenameDurable
      /\ GrantOnRecord /\ ResultDurable /\ ResultInMemory /\ AtMostOnce
  BY DEF Inv
<1>a. /\ op # NoOp /\ op \in Transition /\ ValidTransition(mem, op) /\ Up /\ ~ needsSnapshot
      /\ file = AppendLine(oldEOF, op) /\ mem \in Ring /\ WellFormed(mem)
      /\ Len(mem.keys) \in Nat /\ RingMax \in Nat /\ Len(mem.keys) <= Capacity
  BY <1>0, LenProperties, DispatchLogAssumption
     DEF Sync, CallValid, LogMatchesMemory, TypeOK, RingsFit, RingBounded, Fits, Ring, Up, Stopped
<1>b. file \in Image /\ file.kind = "ok" /\ file.ring = mem' /\ Sound(file)
  BY <1>a, AppendSound DEF Sync, AppendImages
<1>c. /\ mem' \in Ring /\ WellFormed(mem')
      /\ Len(mem'.keys) = IF op.entry.state # "reserved" THEN Len(mem.keys)
                          ELSE IF op.evict = Nothing THEN Len(mem.keys) + 1 ELSE Len(mem.keys)
      /\ mem'.recs[op.id] = op.entry
      /\ \A q \in Requests : q # op.id =>
           mem'.recs[q] = IF q = op.evict THEN NoEntry ELSE mem.recs[q]
  BY <1>a, ApplyProperties DEF Sync
<1>d. orphaned \/ Images' = {file}
  BY <1>0, <1>a DEF Sync, FileSynced, RenameDurable, Images, CrashImages
<1>e. Images' \subseteq Images
  BY DEF Sync, FileSynced, Images, CrashImages
<1>f. op.id \in Requests /\ op.entry \in Entry /\ op.evict # op.id
      /\ (op.evict \in Requests => mem.recs[op.evict].state = "acknowledged")
  BY <1>a, DispatchLogAssumption DEF Transition, ValidTransition
<1>g. orphaned' = orphaned /\ op' = NoOp /\ phase' = "idle"
  BY DEF Sync, NoCall
<1>h. file.kind # "torn" /\ Loads(file)
  BY <1>b DEF Loads
<1>1. TypeOK'
  <2>1. FlagsOK'
    BY <1>0, Zenon DEF TypeOK, FlagsOK, Sync, NoCall
  <2>2. grants' \in [Requests -> 0 .. 2]
    BY <1>0, <1>f DEF TypeOK, Sync
  <2>3. op.entry.state = "completed" => op.entry.result \in Results
    BY <1>0, <1>a DEF CallValid
  <2>4. outcome' \in [Requests -> Results \cup {Nothing}]
    BY <1>0, <1>f, <2>3 DEF TypeOK, Sync
  <2> QED
    BY <1>0, <1>b, <1>c, <2>1, <2>2, <2>4, Constants DEF TypeOK, Phase, Sync, FileSynced, NoCall
<1>2. RingsFit'
  <2>1. Len(mem'.keys) <= Capacity
    BY <1>0, <1>a, <1>c, CapacityFacts DEF CallValid
  <2>2. Fits(mem')
    BY <1>c, <2>1 DEF Fits
  <2>3. legacyFile' = legacyFile
    BY DEF Sync
  <2>4. \A img \in Images' \cup {legacyFile'} : Fits(img.ring)
    BY <1>0, <1>e, <2>3 DEF RingsFit
  <2> QED
    BY <2>1, <2>2, <2>4 DEF RingsFit, RingBounded
<1>4. LogMatchesMemory'
  <2>1. ReplayAccepts'
    BY <1>0, <1>e DEF LogMatchesMemory, ReplayAccepts
  <2>2. file' = file
    BY DEF Sync
  <2> QED BY <1>b, <1>g, <2>1, <2>2 DEF LogMatchesMemory
<1>6. GrantOnRecord'
  <2> SUFFICES ASSUME NEW q \in Requests, grants'[q] > 0, ~ orphaned
               PROVE  /\ \A img \in Images' :
                           \/ Found(img)'.kind = "torn"
                           \/ /\ Loads(Found(img))'
                              /\ Found(img)'.ring.recs[q].state \in {"reserved", "completed"}
                      /\ mem'.recs[q].state \in {"reserved", "completed"}
    BY <1>g DEF GrantOnRecord
  <2>1. CASE q = op.id
    <3>1. op.entry.state \in {"reserved", "completed"}
      BY <1>0, <1>a, <1>f, <2>1 DEF GrantOnRecord, Sync
    <3> QED BY <3>1, <2>1, <1>b, <1>c, <1>d, <1>h
  <2>2. CASE q # op.id
    <3>1. grants[q] > 0
      BY <1>0, <1>f, <2>2 DEF Sync, TypeOK
    <3>2. mem.recs[q].state \in {"reserved", "completed"}
      BY <1>0, <1>a, <3>1 DEF GrantOnRecord
    <3>3. mem'.recs[q] = mem.recs[q]
      BY <1>c, <1>f, <2>2, <3>2
    <3> QED BY <3>2, <3>3, <1>b, <1>d, <1>h
  <2> QED BY <2>1, <2>2
<1>7. ResultDurable'
  <2> SUFFICES ASSUME NEW q \in Requests, outcome'[q] # Nothing, ~ orphaned
               PROVE  mem'.recs[q].state = "completed" /\ mem'.recs[q].result = outcome'[q]
    BY <1>b, <1>d, <1>g, <1>h DEF ResultDurable
  <2>1. CASE q = op.id /\ op.entry.state = "completed"
    BY <1>0, <1>c, <1>f, <2>1 DEF Sync, TypeOK
  <2>2. CASE q # op.id \/ op.entry.state # "completed"
    <3>1. outcome'[q] = outcome[q]
      BY <1>0, <1>f, <2>2 DEF Sync, TypeOK
    <3>2. mem.recs[q].state = "completed" /\ mem.recs[q].result = outcome[q] /\ op.id # q
      BY <1>0, <1>a, <3>1 DEF ResultInMemory
    <3>3. mem'.recs[q] = mem.recs[q]
      BY <1>c, <1>f, <3>2
    <3> QED BY <3>1, <3>2, <3>3
  <2> QED BY <2>1, <2>2
<1>8. ResultInMemory'
  BY <1>7, <1>b, <1>g, <1>h DEF ResultInMemory, ResultDurable, Images, Sync
<1>9. AtMostOnce'
  <2> SUFFICES ASSUME ~ orphaned, NEW q \in Requests PROVE grants'[q] <= 1
    BY <1>g DEF AtMostOnce
  <2>1. CASE q = op.id /\ op.entry.state = "reserved"
    <3>1. mem.recs[q].state = "none"
      BY <1>a, <2>1 DEF ValidTransition
    <3>2. grants[q] = 0
      BY <1>0, <1>a, <3>1 DEF GrantOnRecord, TypeOK
    <3> QED BY <1>0, <2>1, <3>2 DEF Sync, TypeOK
  <2>2. CASE ~ (q = op.id /\ op.entry.state = "reserved")
    BY <1>0, <1>f, <2>2 DEF Sync, TypeOK, AtMostOnce
  <2> QED BY <2>1, <2>2
<1>3. CallValid' /\ RenameDurable'
  BY <1>0 DEF Sync, FileSynced, NoCall, CallValid, Stopped, RenameDurable
<1> QED
  BY <1>1, <1>2, <1>3, <1>4, <1>6, <1>7, <1>8, <1>9 DEF Inv

\* The rollback restores memory's image.
LEMMA RollbackInv ==
    ASSUME Inv, Rollback
    PROVE  Inv'
<1> USE DEF diskVars, ringVars, callVars, history, Found
<1>0. /\ TypeOK /\ RingsFit /\ CallValid /\ LogMatchesMemory /\ RenameDurable
      /\ GrantOnRecord /\ ResultDurable /\ ResultInMemory /\ AtMostOnce
  BY DEF Inv
<1>a. /\ oldEOF \in Image /\ Loads(oldEOF) /\ oldEOF.ring = mem /\ Up /\ op # NoOp
  BY <1>0 DEF Rollback, LogMatchesMemory, CallValid, Loads, TypeOK, Up, Stopped
<1>s. \A img \in Images' : Sound(img)
  BY <1>a, ImagesSound DEF Rollback, FileSynced, Images, CrashImages
<1>1. TypeOK'
  <2>1. FlagsOK'
    BY <1>0, Zenon DEF TypeOK, FlagsOK, Rollback, FileSynced, ReplyError, NoCall
  <2> QED
    BY <1>0, <2>1, Constants DEF TypeOK, Phase, Rollback, FileSynced, ReplyError, NoCall
<1>2. RingsFit'
  BY <1>0, <1>s, Constants DEF Rollback, FileSynced, ReplyError, NoCall, Sound, RingsFit,
     RingBounded, Up, Stopped
<1>4. LogMatchesMemory'
  BY <1>0, <1>s DEF Rollback, FileSynced, ReplyError, NoCall, Sound, LogMatchesMemory,
     ReplayAccepts, Up, Stopped
<1>6. GrantOnRecord'
  BY <1>0, <1>s DEF Rollback, FileSynced, ReplyError, NoCall, Sound, GrantOnRecord, Up, Stopped
<1>7. ResultDurable'
  BY <1>0, <1>s DEF Rollback, FileSynced, ReplyError, NoCall, Sound, ResultDurable
<1>3. CallValid' /\ RenameDurable' /\ ResultInMemory' /\ AtMostOnce'
  BY <1>0 DEF Rollback, FileSynced, ReplyError, NoCall, CallValid, Stopped, RenameDurable,
     ResultInMemory, Up, AtMostOnce
<1> QED
  BY <1>1, <1>2, <1>3, <1>4, <1>6, <1>7 DEF Inv

\* A failed rollback leaves sound images and an unusable ring.
LEMMA RollbackFailsInv ==
    ASSUME Inv, RollbackFails
    PROVE  Inv'
<1> USE DEF diskVars, ringVars, callVars, history, Found
<1>0. /\ TypeOK /\ RingsFit /\ CallValid /\ LogMatchesMemory /\ RenameDurable
      /\ GrantOnRecord /\ ResultDurable /\ ResultInMemory /\ AtMostOnce
  BY DEF Inv
<1>a. /\ oldEOF \in Image /\ Loads(oldEOF) /\ oldEOF.ring = mem /\ Up /\ op # NoOp
  BY <1>0 DEF RollbackFails, LogMatchesMemory, CallValid, Loads, TypeOK, Up, Stopped
<1>s. \A img \in Images' : Sound(img)
  BY <1>a, ImagesSound DEF RollbackFails, Images, CrashImages
<1>1. TypeOK'
  <2>1. FlagsOK'
    BY <1>0, Zenon DEF TypeOK, FlagsOK, RollbackFails, ReplyError, NoCall
  <2> QED
    BY <1>0, <2>1, Constants DEF TypeOK, Phase, RollbackFails, ReplyError, NoCall
<1>2. RingsFit'
  BY <1>0, <1>s, Constants DEF RollbackFails, ReplyError, NoCall, Sound, RingsFit, RingBounded,
     Up, Stopped
<1>4. LogMatchesMemory'
  BY <1>0, <1>s DEF RollbackFails, ReplyError, NoCall, Sound, LogMatchesMemory, ReplayAccepts, Up,
     Stopped
<1>6. GrantOnRecord'
  BY <1>0, <1>s DEF RollbackFails, ReplyError, NoCall, Sound, GrantOnRecord, Up, Stopped
<1>7. ResultDurable'
  BY <1>0, <1>s DEF RollbackFails, ReplyError, NoCall, Sound, ResultDurable
<1>3. CallValid' /\ RenameDurable' /\ ResultInMemory' /\ AtMostOnce'
  BY <1>0 DEF RollbackFails, ReplyError, NoCall, CallValid, Stopped, RenameDurable,
     ResultInMemory, Up, AtMostOnce
<1> QED
  BY <1>1, <1>2, <1>3, <1>4, <1>6, <1>7 DEF Inv

\* A changed stamp changes no image.
LEMMA TouchInv ==
    ASSUME Inv, Touch
    PROVE  Inv'
<1> USE DEF diskVars, ringVars, callVars, history, Found
<1>0. /\ TypeOK /\ RingsFit /\ CallValid /\ LogMatchesMemory /\ RenameDurable
      /\ GrantOnRecord /\ ResultDurable /\ ResultInMemory /\ AtMostOnce
  BY DEF Inv
<1>1. TypeOK'
  <2>1. FlagsOK'
    BY <1>0, Zenon DEF TypeOK, FlagsOK, Touch
  <2> QED
    BY <1>0, <2>1, Constants DEF TypeOK, Phase, Touch
<1>2. /\ RingsFit' /\ CallValid' /\ LogMatchesMemory' /\ RenameDurable' /\ GrantOnRecord'
      /\ ResultDurable' /\ ResultInMemory' /\ AtMostOnce'
  BY <1>0, Constants, DispatchLogAssumption DEF Touch, RingsFit, RingBounded, Up, Stopped, Images,
     CrashImages, CallValid, LogMatchesMemory, ReplayAccepts, RenameDurable, GrantOnRecord,
     ResultDurable, ResultInMemory, AtMostOnce
<1> QED
  BY <1>1, <1>2 DEF Inv

\* A process that ends with its rename not durable is recorded as such.
LEMMA ProcessExitInv ==
    ASSUME Inv, ProcessExit
    PROVE  Inv'
<1> USE DEF diskVars, ringVars, callVars, history, Found
<1>0. /\ TypeOK /\ RingsFit /\ CallValid /\ LogMatchesMemory /\ RenameDurable
      /\ GrantOnRecord /\ ResultDurable /\ ResultInMemory /\ AtMostOnce
  BY DEF Inv
<1>1. TypeOK'
  <2>1. FlagsOK'
    BY <1>0, Zenon DEF TypeOK, FlagsOK, ProcessExit, NoCall, Stopped
  <2> QED
    BY <1>0, <2>1, Constants DEF TypeOK, Phase, ProcessExit, NoCall, Stopped
<1>2. /\ RingsFit' /\ CallValid' /\ LogMatchesMemory' /\ RenameDurable' /\ GrantOnRecord'
      /\ ResultDurable' /\ ResultInMemory' /\ AtMostOnce'
  BY <1>0, Constants, DispatchLogAssumption DEF ProcessExit, NoCall, Stopped, RingsFit,
     RingBounded, Up, Images, CrashImages, CallValid, LogMatchesMemory, ReplayAccepts,
     RenameDurable, GrantOnRecord, ResultDurable, ResultInMemory, AtMostOnce
<1> QED
  BY <1>1, <1>2 DEF Inv

\* A host crash picks one of the sound images.
LEMMA HostCrashInv ==
    ASSUME Inv, HostCrash
    PROVE  Inv'
<1> USE DEF diskVars, ringVars, callVars, history, Found
<1>0. /\ TypeOK /\ RingsFit /\ CallValid /\ LogMatchesMemory /\ RenameDurable
      /\ GrantOnRecord /\ ResultDurable /\ ResultInMemory /\ AtMostOnce
  BY DEF Inv
<1>1. TypeOK'
  <2>1. FlagsOK'
    BY <1>0, Zenon DEF TypeOK, FlagsOK, HostCrash, NoCall, CrashImages
  <2> QED
    BY <1>0, <2>1, Constants DEF TypeOK, Phase, HostCrash, NoCall, CrashImages
<1>2. /\ RingsFit' /\ CallValid' /\ LogMatchesMemory' /\ RenameDurable' /\ GrantOnRecord'
      /\ ResultDurable' /\ ResultInMemory' /\ AtMostOnce'
  BY <1>0, Constants, DispatchLogAssumption DEF HostCrash, NoCall, CrashImages, RingsFit,
     RingBounded, Up, Stopped, Images, CallValid, LogMatchesMemory, ReplayAccepts, RenameDurable,
     GrantOnRecord, ResultDurable, ResultInMemory, AtMostOnce
<1> QED
  BY <1>1, <1>2 DEF Inv

\* A host that never ran this release satisfies the invariant.
LEMMA InitInv == Init => Inv
<1> SUFFICES ASSUME Init PROVE Inv
  OBVIOUS
<1>1. /\ file \in {Absent, LegacyLog} /\ legacyFile \in {Absent, LegacyLog, Torn}
      /\ Images = {file} /\ staleDir = {} /\ Stopped
  BY DEF Init, Images, CrashImages, Stopped
<1>2. \/ Found(file) = Absent /\ \A q \in Requests : grants[q] = 0 /\ outcome[q] = Nothing
      \/ Found(file) = Torn
      \/ Found(file) = LegacyLog
  BY <1>1 DEF Init, Found, Absent, LegacyLog, EmptyRing, NoEntry
<1>3. grants \in [Requests -> 0 .. 2] /\ \A q \in Requests : grants[q] <= 1
  BY DEF Init
<1>4. /\ outcome \in [Requests -> Results \cup {Nothing}]
      /\ \A q \in Requests : grants[q] > 0 =>
            LegacyRecords[q].state \in {"reserved", "completed"}
      /\ \A q \in Requests : outcome[q] # Nothing =>
            LegacyRecords[q].state = "completed" /\ LegacyRecords[q].result = outcome[q]
  <2>1. \A q \in Requests : LegacyRecords[q].state = "completed" => LegacyRecords[q].result \in Results
    BY LegacyAssumption DEF ValidLegacyRecord, LegacyEntry, NoEntry
  <2>2. \A q \in Requests : EmptyRing.recs[q].state = "none"
    BY Constants
  <2> QED BY <2>1, <2>2 DEF Init
<1>5. TypeOK
  <2>1. FlagsOK
    BY Zenon DEF Init, FlagsOK
  <2> QED BY <1>1, <1>3, <1>4, <2>1, Constants DEF Init, TypeOK, Phase
<1>6. RingsFit
  BY <1>1, Constants DEF Init, RingsFit, RingBounded, Up, Absent, LegacyLog, Torn
<1>7. GrantOnRecord /\ ResultDurable
  BY <1>1, <1>2, <1>4 DEF Init, GrantOnRecord, ResultDurable, LegacyLog, LegacyRing, Torn, Loads, Up
<1>8. CallValid /\ RenameDurable /\ ResultInMemory /\ AtMostOnce
  BY <1>1, <1>3 DEF Init, CallValid, RenameDurable, ResultInMemory, AtMostOnce, Stopped, Up
<1>9. LogMatchesMemory
  BY <1>1 DEF Init, LogMatchesMemory, ReplayAccepts, Absent, LegacyLog, Up, Stopped
<1> QED BY <1>5, <1>6, <1>7, <1>8, <1>9 DEF Inv

\* Every reachable state of the dispatch log satisfies the inductive invariant:
\* the start does, and every boot, call, system call and crash preserves it.
THEOREM InvHolds == Spec => []Inv
<1>1. ASSUME Inv, [Next]_vars PROVE Inv'
  <2>1. CASE Boot
    BY <2>1, <1>1, LoadCurrentInv, LoadLegacyInv, EvictToMaxInv, LoadedInv, LoadRefusedInv DEF Boot
  <2>2. CASE Call
    BY <2>2, <1>1, ReserveInv, CompleteInv, AcknowledgeInv DEF Call
  <2>3. CASE IO
    BY <2>3, <1>1, SnapshotFailsInv, SnapshotRenameInv, DirSyncFailsInv, DirSyncInv,
       OpenAppendInv, OpenDriftedInv, OpenGivesUpInv, OpenFailsInv, WriteInv, WriteFailsInv,
       SyncFailsInv, SyncInv, RollbackInv, RollbackFailsInv DEF IO
  <2>4. CASE Environment
    BY <2>4, <1>1, TouchInv, ProcessExitInv, HostCrashInv DEF Environment
  <2>5. CASE UNCHANGED vars
    <3>1. /\ Images' = Images /\ Stopped' = Stopped /\ Up' = Up
      BY <2>5 DEF vars, diskVars, callVars, Images, CrashImages, Stopped, Up
    <3> QED
      BY <2>5, <3>1, <1>1
         DEF vars, diskVars, ringVars, callVars, history, Inv, TypeOK, FlagsOK, RingsFit,
             RingBounded, CallValid, LogMatchesMemory, ReplayAccepts, RenameDurable,
             GrantOnRecord, ResultDurable, ResultInMemory, AtMostOnce, Found
  <2> QED BY <2>1, <2>2, <2>3, <2>4, <2>5, <1>1 DEF Next
<1> QED BY <1>1, InitInv, PTL DEF Spec

\* The types of the ring's state, of the log's images and of the call in progress.
THEOREM TypeCorrect == Spec => []TypeOK
<1>1. Inv => TypeOK
  BY DEF Inv
<1> QED BY <1>1, InvHolds, PTL

\* For any number of requests, any capacity and any interleaving of I/O errors,
\* exits and crashes, reserve grants an id at most one execution until its
\* result is acknowledged, unless a process ended with its rename not durable.
THEOREM GrantedAtMostOnce == Spec => []AtMostOnce
<1>1. Inv => AtMostOnce
  BY DEF Inv
<1> QED BY <1>1, InvHolds, PTL

\* A result complete reported as written survives until it is acknowledged.
THEOREM ReportedResultDurable == Spec => []ResultDurable
<1>1. Inv => ResultDurable
  BY DEF Inv
<1> QED BY <1>1, InvHolds, PTL

\* The runner never writes a log that its own strict replay rejects.
THEOREM ReplayAlwaysAccepts == Spec => []ReplayAccepts
<1>1. Inv => ReplayAccepts
  BY DEF Inv, LogMatchesMemory
<1> QED BY <1>1, InvHolds, PTL

\* Insertion order and records agree in memory and in every image, and the ring
\* never exceeds its capacity once loaded.
THEOREM RingStaysSound == Spec => []RingSound
<1>1. Inv => KeysMatchRecords
  BY DEF Inv, RingsFit, Fits, KeysMatchRecords
<1>2. Inv => RingBounded
  BY DEF Inv, RingsFit
<1>3. Inv => RingSound
  BY <1>1, <1>2 DEF RingSound
<1> QED BY <1>3, InvHolds, PTL

NotOrphaned == orphaned = FALSE

\* Where a fsync covers the rename no process can orphan one.
LEMMA NeverOrphaned ==
    ASSUME JournaledRename
    PROVE  Spec => []NotOrphaned
<1>1. Init => NotOrphaned
  BY DEF Init, NotOrphaned
<1>2. ASSUME NotOrphaned, [Next]_vars PROVE NotOrphaned'
  BY <1>2, JournaledRename
     DEF vars, history, Next, Boot, Call, IO, Environment, LoadCurrent, LoadLegacy, EvictToMax,
         Loaded, LoadRefused, Reserve, Complete, Acknowledge, SnapshotFails, SnapshotRename,
         DirSyncFails, DirSync, OpenAppend, OpenDrifted, OpenGivesUp, OpenFails, Write,
         WriteFails, SyncFails, Sync, Rollback, RollbackFails, Touch, ProcessExit, HostCrash,
         ReplyError, NotOrphaned
<1> QED BY <1>1, <1>2, PTL DEF Spec

\* On a filesystem whose fsync covers the rename, at-most-once holds as the code's
\* comment states it, without reservation.
THEOREM JournaledAtMostOnce ==
    ASSUME JournaledRename
    PROVE  Spec => []AtMostOnceAcrossCrashes
<1>1. AtMostOnce /\ NotOrphaned => AtMostOnceAcrossCrashes
  BY DEF NotOrphaned, AtMostOnce, AtMostOnceAcrossCrashes
<1> QED BY <1>1, NeverOrphaned, GrantedAtMostOnce, PTL

\* The commit of a transition is the ledger's grant or report, or leaves it alone.
LEMMA SyncImplements ==
    ASSUME Inv, NotOrphaned, Sync
    PROVE  [Ledger!LedgerNext]_<<grants, outcome>>
<1>1. op.id \in Requests /\ op \in Transition /\ ValidTransition(mem, op) /\ Up /\ op # NoOp
  <2>1. op # NoOp /\ op \in Transition /\ ValidTransition(mem, op)
    BY DEF Sync, Inv, CallValid
  <2> QED BY <2>1 DEF Transition, Sync, Up, Stopped
<1>2. outcome[op.id] = Nothing
  BY <1>1 DEF Inv, ResultInMemory, NotOrphaned
<1>3. grants \in [Requests -> 0 .. 2] /\ outcome \in [Requests -> Results \cup {Nothing}]
  BY DEF Inv, TypeOK
<1>4. CASE op.entry.state = "reserved"
  <2>1. mem.recs[op.id].state = "none"
    BY <1>1, <1>4 DEF ValidTransition
  <2>2. grants[op.id] = 0
    BY <1>1, <1>3, <2>1 DEF Inv, GrantOnRecord, NotOrphaned
  <2>3. grants' = [grants EXCEPT ![op.id] = 1] /\ outcome' = outcome
    BY <1>3, <1>4, <2>2 DEF Sync
  <2> QED BY <1>1, <1>2, <2>2, <2>3 DEF Ledger!LedgerNext, Ledger!Grant
<1>5. CASE op.entry.state = "completed"
  <2>1. op.entry.result \in Results
    BY <1>1, <1>5 DEF Inv, CallValid
  <2>2. outcome' = [outcome EXCEPT ![op.id] = op.entry.result] /\ grants' = grants
    BY <1>5 DEF Sync
  <2> QED BY <1>1, <1>2, <2>1, <2>2 DEF Ledger!LedgerNext, Ledger!Report
<1>6. CASE op.entry.state \notin {"reserved", "completed"}
  BY <1>6 DEF Sync
<1> QED BY <1>4, <1>5, <1>6

\* The log implements the ledger, for any capacity, any number of requests and
\* wherever writes fail and processes or hosts stop: the only steps a caller can
\* tell apart are one grant, one result and the acknowledgement that settles them.
THEOREM JournaledImplementsLedger ==
    ASSUME JournaledRename
    PROVE  Spec => ImplementsLedger
<1>1. Init => Ledger!LedgerInit
  <2>1. Init => Inv
    BY InitInv
  <2>2. Init => grants \in [Requests -> {0, 1}] /\ outcome \in [Requests -> Results \cup {Nothing}]
    BY <2>1 DEF Init, Inv, TypeOK
  <2>3. Init => \A q \in Requests : outcome[q] # Nothing => grants[q] = 1
    BY DEF Init
  <2> QED BY <2>2, <2>3 DEF Ledger!LedgerInit
<1>2. ASSUME Inv, NotOrphaned, [Next]_vars
      PROVE  [Ledger!LedgerNext]_<<grants, outcome>>
  <2>1. CASE Sync
    BY <2>1, <1>2, SyncImplements
  <2>2. ASSUME NEW q \in Requests, Acknowledge(q) PROVE Ledger!LedgerNext
    BY <2>2 DEF Acknowledge, Ledger!LedgerNext, Ledger!Settle
  <2>3. CASE Boot \/ Environment \/ UNCHANGED vars
    BY <2>3 DEF vars, history, Boot, Environment, LoadCurrent, LoadLegacy, EvictToMax, Loaded,
                LoadRefused, Touch, ProcessExit, HostCrash
  <2>4. ASSUME NEW q \in Requests, NEW d \in Digests, Reserve(q, d)
        PROVE  UNCHANGED <<grants, outcome>>
    BY <2>4 DEF Reserve, history
  <2>6. ASSUME NEW q \in Requests, NEW r \in Results, Complete(q, r)
        PROVE  UNCHANGED <<grants, outcome>>
    BY <2>6 DEF Complete, history
  <2>5. CASE IO /\ ~ Sync
    BY <2>5 DEF IO, history, SnapshotFails, SnapshotRename, DirSyncFails, DirSync, OpenAppend,
                OpenDrifted, OpenGivesUp, OpenFails, Write, WriteFails, SyncFails, Rollback,
                RollbackFails, ReplyError
  <2> QED BY <1>2, <2>1, <2>2, <2>3, <2>4, <2>5, <2>6 DEF Next, Call
<1> QED BY <1>1, <1>2, InvHolds, NeverOrphaned, PTL DEF Spec, ImplementsLedger, Ledger!LedgerSpec
=============================================================================

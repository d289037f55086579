-------------------------- MODULE NonceStoreProofs --------------------------
(***************************************************************************)
(* The properties of NonceStore for any nonces, handlers, windows, limits  *)
(* and either kind of rename, from NonceStoreAssumption.                   *)
(***************************************************************************)
EXTENDS NonceStore, FiniteSetTheorems, TLAPS

\* What the properties except for n.
Waived(n) == orphaned \/ n \in late

-----------------------------------------------------------------------------
(* The inductive invariant. *)

\* An image the loader accepts, now and at any later time.
Readable(img) ==
    img.kind = "ok" => /\ Loadable(img, clock)
                       /\ Cardinality(img.nonces) <= img.size
                       /\ img.repeated \subseteq img.nonces

ImagesReadable == \A img \in Images : Readable(img)

\* The installed verifier never calls fresh what the store may have forgotten.
WindowCovered == ~ Stopped => maxAge <= retention

\* Nothing is appended under a name that may be taken back.
RenameDurable ==
    phase # "dirsync" /\ ~ failed => staleDir = {} \/ JournaledRename \/ orphaned

\* Who holds the mutex, and what for.
CallValid ==
    /\ failed => phase = "idle"
    /\ phase \in {"admit", "append", "sync"} => holder # Nothing
    /\ phase \in {"idle", "down", "refused"} => holder = Nothing
    /\ ~ Serving => \A c \in Checks : pending[c] = Nothing
    /\ holder # Nothing => /\ pending[holder] # Nothing
                           /\ pending[holder] \notin seen

\* A freshness verdict was right for the store's horizon when it was made.
VerdictsFresh ==
    \A c \in Checks : pending[c] # Nothing => Inside(pending[c], retention, checkedAt[c])

\* A store that has not failed knows its journal.
MemoryMatchesJournal ==
    /\ ~ Stopped => Cardinality(seen) <= MaxEntries
    /\ phase = "append" => fileSize < MaxRecords
    /\ phase \in {"append", "sync"} => Cardinality(seen) < MaxEntries
    /\ phase \in {"admit", "append", "sync"} => obsolete < MaxEntries
    /\ ~ Stopped /\ file.kind = "absent" => phase = "rewrite" /\ holder = Nothing /\ seen = {}
    /\ ~ Stopped /\ ~ failed /\ file.kind # "absent" =>
         /\ file.kind = "ok" /\ file.retention = retention
         /\ phase # "sync" => FreshIn(file, clock) \subseteq seen
         /\ phase = "sync" => FreshIn(file, clock) \subseteq seen \cup {pending[holder]}
         /\ phase = "sync" => pending[holder] \in file.nonces
    /\ phase = "dirsync" => file = Journal(retention, seen)
    /\ phase \in {"idle", "admit", "append", "sync"} /\ ~ failed =>
         /\ fileSize = obsolete + Cardinality(seen)
         /\ file.size = IF phase = "sync" THEN fileSize + 1 ELSE fileSize

\* An attestation that was allowed is on record, or past the horizon, in memory and
\* in every image a process may find.
AllowedOnRecord ==
    \A n \in Nonces : accepts[n] > 0 /\ ~ Waived(n) =>
        /\ ~ Stopped => n \in seen \/ ~ Inside(n, retention, clock)
        /\ \A img \in Images :
              /\ img.kind # "absent"
              /\ img.kind = "ok" => n \in img.nonces \/ ~ Inside(n, img.retention, clock)

\* The nonce being consumed has not been allowed before.
HolderIsNew ==
    holder # Nothing => accepts[pending[holder]] = 0 \/ Waived(pending[holder])

Inv ==
    /\ TypeOK /\ ImagesReadable /\ WindowCovered /\ RenameDurable /\ CallValid
    /\ VerdictsFresh /\ MemoryMatchesJournal /\ AllowedOnRecord /\ HolderIsNew
    /\ AcceptedOnce

-----------------------------------------------------------------------------
(* Facts about cardinalities, images and time. *)

LEMMA Constants ==
    /\ IsFiniteSet(Nonces)
    /\ Nothing \notin Nonces /\ Nothing \notin Checks
    /\ Issued \in [Nonces -> Nat]
    /\ Ages \subseteq Nat \ {0}
    /\ MaxEntries \in Nat \ {0} /\ MaxRecords \in Nat /\ MaxEntries <= MaxRecords
    /\ CompactAfter \in Nat /\ CompactAfter <= MaxEntries
    /\ Horizon \in Nat /\ JournaledRename \in BOOLEAN
  BY NonceStoreAssumption

LEMMA CardNonces ==
    ASSUME NEW S \in SUBSET Nonces
    PROVE  /\ IsFiniteSet(S) /\ Cardinality(S) \in Nat
           /\ \A T \in SUBSET S : Cardinality(T) \in Nat /\ Cardinality(T) <= Cardinality(S)
           /\ \A n \in Nonces : n \notin S => Cardinality(S \cup {n}) = Cardinality(S) + 1
<1>1. IsFiniteSet(S)
  BY Constants, FS_Subset
<1>2. Cardinality(S) \in Nat
  BY <1>1, FS_CardinalityType
<1>3. ASSUME NEW T \in SUBSET S
      PROVE  Cardinality(T) \in Nat /\ Cardinality(T) <= Cardinality(S)
  BY <1>1, FS_Subset, FS_CardinalityType
<1>4. ASSUME NEW n \in Nonces, n \notin S
      PROVE  Cardinality(S \cup {n}) = Cardinality(S) + 1
  BY <1>1, <1>4, FS_AddElement
<1> QED BY <1>1, <1>2, <1>3, <1>4

LEMMA EmptyCard == Cardinality({}) = 0
  BY FS_EmptySet

\* A nonce that has left a horizon stays out.
LEMMA InsideEarlier ==
    ASSUME NEW n \in Nonces, NEW age \in Nat, NEW t \in Nat, NEW u \in Nat, t <= u,
           Inside(n, age, u)
    PROVE  Inside(n, age, t)
  BY Constants DEF Inside

LEMMA InsideWider ==
    ASSUME NEW n \in Nonces, NEW age \in Nat, NEW wide \in Nat, age <= wide, NEW t \in Nat,
           Inside(n, age, t)
    PROVE  Inside(n, wide, t)
  BY Constants DEF Inside

LEMMA LoadableLater ==
    ASSUME NEW img \in Image, NEW t \in Nat, NEW u \in Nat, t <= u, Loadable(img, t)
    PROVE  Loadable(img, u) /\ FreshIn(img, u) \subseteq FreshIn(img, t)
<1>1. FreshIn(img, u) \subseteq FreshIn(img, t)
  BY InsideEarlier DEF FreshIn, Image
<1>2. FreshIn(img, t) \in SUBSET Nonces
  BY DEF FreshIn, Image
<1>3. Cardinality(FreshIn(img, u)) <= Cardinality(FreshIn(img, t))
      /\ Cardinality(FreshIn(img, u)) \in Nat /\ Cardinality(FreshIn(img, t)) \in Nat
  BY <1>1, <1>2, CardNonces
<1> QED BY <1>1, <1>3, Constants DEF Loadable, Image

\* Absent and torn images say nothing; the ones the store writes are images.
LEMMA ImageTypes ==
    /\ Absent \in Image /\ Torn \in Image
    /\ Absent.kind = "absent" /\ Torn.kind = "torn"
    /\ \A age \in Nat, s \in SUBSET Nonces : Journal(age, s) \in Image
    /\ \A img \in Image, n \in Nonces : AppendRecord(img, n) \in Image
<1>1. \A age \in Nat, s \in SUBSET Nonces : Journal(age, s) \in Image
  BY CardNonces DEF Journal, Image
<1>2. Absent \in Image /\ Absent.kind = "absent"
  BY DEF Absent, Image
<1>3. Torn \in Image /\ Torn.kind = "torn"
  BY DEF Absent, Image, Torn
<1>4. ASSUME NEW img \in Image, NEW n \in Nonces
      PROVE  AppendRecord(img, n) \in Image
  <2>1. CASE img.kind # "ok"
    BY <1>3, <2>1 DEF AppendRecord
  <2>2. CASE img.kind = "ok"
    <3> DEFINE more == img.nonces \cup {n}
               twice == img.repeated \cup ({n} \cap img.nonces)
    <3>1. more \in SUBSET Nonces /\ twice \in SUBSET Nonces /\ img.size + 1 \in Nat
      BY DEF Image
    <3> HIDE DEF more, twice
    <3>2. [img EXCEPT !.size = @ + 1, !.nonces = more, !.repeated = twice] \in Image
      BY <3>1 DEF Image
    <3> QED BY <2>2, <3>2 DEF AppendRecord, more, twice
  <2> QED BY <2>1, <2>2
<1> QED BY <1>1, <1>2, <1>3, <1>4

\* A compacted journal loads.
LEMMA JournalLoads ==
    ASSUME NEW age \in Nat, NEW s \in SUBSET Nonces, Cardinality(s) <= MaxEntries,
           NEW t \in Nat
    PROVE  /\ Loadable(Journal(age, s), t)
           /\ Cardinality(Journal(age, s).nonces) <= Journal(age, s).size
           /\ Journal(age, s).repeated \subseteq Journal(age, s).nonces
           /\ FreshIn(Journal(age, s), t) \subseteq s
<1>1. FreshIn(Journal(age, s), t) \subseteq s
  BY DEF FreshIn, Journal
<1>2. /\ Cardinality(FreshIn(Journal(age, s), t)) \in Nat
      /\ Cardinality(FreshIn(Journal(age, s), t)) <= Cardinality(s)
      /\ Cardinality(s) \in Nat
  BY <1>1, CardNonces
<1>3. /\ Journal(age, s).size = Cardinality(s) /\ Journal(age, s).nonces = s
      /\ Journal(age, s).repeated = {}
  BY DEF Journal
<1> QED BY <1>1, <1>2, <1>3, Constants DEF Loadable

\* So does a journal with one more record, of a nonce it does not hold as fresh.
LEMMA AppendLoads ==
    ASSUME NEW img \in Image, img.kind = "ok", NEW s \in SUBSET Nonces, NEW n \in Nonces,
           NEW t \in Nat,
           Loadable(img, t), Cardinality(img.nonces) <= img.size,
           img.repeated \subseteq img.nonces,
           FreshIn(img, t) \subseteq s, n \notin s, Cardinality(s) < MaxEntries,
           img.size < MaxRecords, img.size < 2 * MaxEntries
    PROVE  /\ AppendRecord(img, n).kind = "ok"
           /\ AppendRecord(img, n).retention = img.retention
           /\ AppendRecord(img, n).size = img.size + 1
           /\ AppendRecord(img, n).nonces = img.nonces \cup {n}
           /\ Loadable(AppendRecord(img, n), t)
           /\ Cardinality(AppendRecord(img, n).nonces) <= AppendRecord(img, n).size
           /\ AppendRecord(img, n).repeated \subseteq AppendRecord(img, n).nonces
           /\ FreshIn(AppendRecord(img, n), t) \subseteq s \cup {n}
<1> DEFINE new == AppendRecord(img, n)
<1>1. /\ new.kind = "ok" /\ new.retention = img.retention /\ new.size = img.size + 1
      /\ new.nonces = img.nonces \cup {n}
      /\ new.repeated = img.repeated \cup ({n} \cap img.nonces)
  BY DEF AppendRecord, Image
<1>2. FreshIn(new, t) \subseteq FreshIn(img, t) \cup {n}
  BY <1>1 DEF FreshIn
<1>3. FreshIn(new, t) \cap new.repeated = {}
  <2>1. n \notin FreshIn(img, t)
    OBVIOUS
  <2>2. n \in img.nonces => ~ Inside(n, img.retention, t)
    BY <2>1 DEF FreshIn
  <2>3. n \in FreshIn(new, t) => n \notin img.nonces
    BY <1>1, <2>2 DEF FreshIn
  <2>4. FreshIn(img, t) \cap img.repeated = {}
    BY DEF Loadable
  <2> QED BY <1>1, <1>2, <2>1, <2>3, <2>4
<1>4. Cardinality(FreshIn(new, t)) <= MaxEntries
  <2>1. s \cup {n} \in SUBSET Nonces /\ Cardinality(s \cup {n}) = Cardinality(s) + 1
        /\ Cardinality(s) \in Nat
    BY CardNonces
  <2>2. Cardinality(FreshIn(new, t)) <= Cardinality(s \cup {n})
        /\ Cardinality(FreshIn(new, t)) \in Nat
    BY <1>2, <2>1, CardNonces
  <2> QED BY <2>1, <2>2, Constants
<1>5. Cardinality(new.nonces) <= new.size
  <2>1. img.nonces \in SUBSET Nonces /\ img.size \in Nat
    BY DEF Image
  <2>2. CASE n \in img.nonces
    <3>1. new.nonces = img.nonces
      BY <1>1, <2>2
    <3> QED BY <1>1, <3>1, <2>1, CardNonces
  <2>3. CASE n \notin img.nonces
    BY <1>1, <2>1, <2>3, CardNonces
  <2> QED BY <2>2, <2>3
<1>6. new.size <= MaxRecords /\ new.size <= 2 * MaxEntries
  BY <1>1, Constants DEF Image
<1> QED BY <1>1, <1>2, <1>3, <1>4, <1>5, <1>6 DEF Loadable

-----------------------------------------------------------------------------
(* Opening the journal. *)

LEMMA OpenAbsentInv ==
    ASSUME Inv, NEW age \in Ages, OpenAbsent(age)
    PROVE  Inv'
<1> USE DEF Inv, OpenAbsent, diskVars, checkVars, history, Stopped, Serving
<1>1. TypeOK'
  BY Constants DEF TypeOK, Phase
<1>2. ImagesReadable'
  BY DEF ImagesReadable, Images, Readable
<1>3. WindowCovered' /\ RenameDurable' /\ CallValid'
  BY Constants DEF TypeOK, WindowCovered, RenameDurable, CallValid
<1>4. VerdictsFresh'
  BY DEF VerdictsFresh, CallValid
<1>5. MemoryMatchesJournal'
  BY EmptyCard, Constants DEF MemoryMatchesJournal, CallValid
<1>6. AllowedOnRecord'
  BY DEF AllowedOnRecord, Images, Waived
<1>7. HolderIsNew' /\ AcceptedOnce'
  BY DEF HolderIsNew, Waived, CallValid, AcceptedOnce
<1> QED BY <1>1, <1>2, <1>3, <1>4, <1>5, <1>6, <1>7 DEF Inv

LEMMA OpenJournalInv ==
    ASSUME Inv, NEW age \in Ages, OpenJournal(age)
    PROVE  Inv'
<1> USE DEF Inv, OpenJournal, diskVars, checkVars, history, Stopped, Serving
<1>0. /\ file \in Image /\ file.nonces \in SUBSET Nonces /\ file.size \in Nat
      /\ clock \in Nat
  BY Constants DEF TypeOK, Image
<1>a. FreshIn(file, clock) \in SUBSET Nonces /\ FreshIn(file, clock) \subseteq file.nonces
  BY <1>0 DEF FreshIn
<1>b. /\ Cardinality(FreshIn(file, clock)) \in Nat
      /\ Cardinality(FreshIn(file, clock)) <= Cardinality(file.nonces)
      /\ Cardinality(file.nonces) \in Nat
  BY <1>0, <1>a, CardNonces
<1>c. Cardinality(file.nonces) <= file.size
  BY DEF ImagesReadable, Images, Readable
<1>d. obsolete' \in Nat
  BY <1>0, <1>b, <1>c
<1>1. TypeOK'
  BY <1>0, <1>a, <1>d DEF TypeOK, Phase, Image
<1>2. ImagesReadable'
  BY DEF ImagesReadable, Images, Readable
<1>3. WindowCovered' /\ RenameDurable' /\ CallValid'
  BY DEF WindowCovered, RenameDurable, CallValid
<1>4. VerdictsFresh'
  BY DEF VerdictsFresh, CallValid
<1>5. MemoryMatchesJournal'
  <2>1. Cardinality(seen') <= MaxEntries
    BY DEF Loadable
  <2>2. phase' \in {"idle", "rewrite"}
    OBVIOUS
  <2> QED BY <1>0, <1>b, <1>d, <2>1, <2>2 DEF MemoryMatchesJournal
<1>6. AllowedOnRecord'
  BY DEF AllowedOnRecord, Images, Waived, FreshIn
<1>7. HolderIsNew' /\ AcceptedOnce'
  BY DEF HolderIsNew, Waived, CallValid, AcceptedOnce
<1> QED BY <1>1, <1>2, <1>3, <1>4, <1>5, <1>6, <1>7 DEF Inv

LEMMA OpenRefusedInv ==
    ASSUME Inv, OpenRefused
    PROVE  Inv'
<1> USE DEF Inv, OpenRefused, diskVars, storeVars, checkVars, history, Stopped, Serving
<1>1. TypeOK'
  BY DEF TypeOK, Phase
<1>2. ImagesReadable'
  BY DEF ImagesReadable, Images, Readable
<1>3. WindowCovered' /\ RenameDurable' /\ CallValid'
  BY DEF WindowCovered, RenameDurable, CallValid
<1>4. VerdictsFresh'
  BY DEF VerdictsFresh
<1>5. MemoryMatchesJournal'
  BY DEF MemoryMatchesJournal, CallValid
<1>6. AllowedOnRecord' /\ HolderIsNew' /\ AcceptedOnce'
  BY DEF AllowedOnRecord, Images, Waived, HolderIsNew, CallValid, AcceptedOnce
<1> QED BY <1>1, <1>2, <1>3, <1>4, <1>5, <1>6 DEF Inv

LEMMA ReloadInv ==
    ASSUME Inv, NEW age \in Ages, Reload(age)
    PROVE  Inv'
<1> USE DEF Inv, Reload, diskVars, storeVars, callVars, checkVars, history, Stopped, Serving
<1>1. TypeOK'
  BY DEF TypeOK
<1>2. ImagesReadable'
  BY DEF ImagesReadable, Images, Readable
<1>3. WindowCovered' /\ RenameDurable' /\ CallValid'
  BY DEF WindowCovered, RenameDurable, CallValid
<1>4. VerdictsFresh' /\ MemoryMatchesJournal'
  BY DEF VerdictsFresh, MemoryMatchesJournal
<1>5. AllowedOnRecord' /\ HolderIsNew' /\ AcceptedOnce'
  BY DEF AllowedOnRecord, Images, Waived, HolderIsNew, AcceptedOnce
<1> QED BY <1>1, <1>2, <1>3, <1>4, <1>5 DEF Inv

-----------------------------------------------------------------------------
(* Verifier.Check. *)

LEMMA PassesFreshnessInv ==
    ASSUME Inv, NEW c \in Checks, NEW n \in Nonces, PassesFreshness(c, n)
    PROVE  Inv'
<1> USE DEF Inv, PassesFreshness, diskVars, storeVars, callVars, history, Stopped, Serving
<1>1. TypeOK'
  BY DEF TypeOK
<1>2. ImagesReadable'
  BY DEF ImagesReadable, Images, Readable
<1>3. holder # c \/ holder = Nothing
  BY DEF CallValid
<1>4. WindowCovered' /\ RenameDurable' /\ CallValid'
  BY <1>3, Constants DEF WindowCovered, RenameDurable, CallValid, TypeOK
<1>5. VerdictsFresh'
  <2>1. ~ Stopped
    BY DEF CallValid
  <2>2. Inside(n, retention, clock)
    BY <2>1, InsideWider, Constants DEF Fresh, WindowCovered, TypeOK
  <2>3. ASSUME NEW d \in Checks, pending'[d] # Nothing
        PROVE  Inside(pending'[d], retention', checkedAt'[d])
    <3>1. CASE d = c
      BY <2>2, <3>1 DEF TypeOK, Inside
    <3>2. CASE d # c
      BY <2>3, <3>2 DEF TypeOK, Inside, VerdictsFresh
    <3> QED BY <3>1, <3>2
  <2> QED BY <2>3 DEF VerdictsFresh
<1>6. holder # Nothing => pending'[holder] = pending[holder]
  BY <1>3 DEF TypeOK
<1>7. MemoryMatchesJournal'
  BY <1>6 DEF MemoryMatchesJournal, CallValid
<1>8. AllowedOnRecord' /\ HolderIsNew' /\ AcceptedOnce'
  BY <1>6 DEF AllowedOnRecord, Images, Waived, HolderIsNew, AcceptedOnce
<1> QED BY <1>1, <1>2, <1>4, <1>5, <1>7, <1>8 DEF Inv

\* A Check that returns leaves the others where they are.
LEMMA ReturnVerdicts ==
    ASSUME Inv, NEW c \in Checks, Return(c), UNCHANGED retention
    PROVE  /\ pending' \in [Checks -> Nonces \cup {Nothing}]
           /\ checkedAt' \in [Checks -> 0 .. Horizon]
           /\ VerdictsFresh'
<1> USE DEF Inv, Return, TypeOK
<1>1. /\ pending' \in [Checks -> Nonces \cup {Nothing}]
      /\ checkedAt' \in [Checks -> 0 .. Horizon]
  BY Constants
<1>2. ASSUME NEW d \in Checks, pending'[d] # Nothing
      PROVE  Inside(pending'[d], retention', checkedAt'[d])
  BY <1>2 DEF VerdictsFresh, Inside
<1> QED BY <1>1, <1>2 DEF VerdictsFresh

\* What pruneLocked forgets is past the horizon.
LEMMA PruneKeeps ==
    ASSUME Inv, Prune, phase = "idle"
    PROVE  /\ seen' \subseteq seen
           /\ \A n \in seen : Inside(n, retention, clock) => n \in seen'
           /\ obsolete' \in Nat
           /\ Cardinality(seen') \in Nat /\ Cardinality(seen') <= MaxEntries
           /\ obsolete' + Cardinality(seen') = obsolete + Cardinality(seen)
           /\ ~ failed => FreshIn(file, clock) \subseteq seen'
<1> USE DEF Inv, Prune
<1>1. seen' \subseteq seen /\ \A n \in seen : Inside(n, retention, clock) => n \in seen'
  OBVIOUS
<1>2. /\ Cardinality(seen') \in Nat /\ Cardinality(seen) \in Nat
      /\ Cardinality(seen') <= Cardinality(seen)
  BY <1>1, CardNonces DEF TypeOK
<1>3. obsolete' \in Nat /\ obsolete' + Cardinality(seen') = obsolete + Cardinality(seen)
  BY <1>2 DEF TypeOK
<1>4. Cardinality(seen') <= MaxEntries
  BY <1>2, Constants DEF MemoryMatchesJournal, Stopped
<1>5. ~ failed => FreshIn(file, clock) \subseteq seen'
  BY <1>1 DEF MemoryMatchesJournal, Stopped, FreshIn
<1> QED BY <1>1, <1>2, <1>3, <1>4, <1>5

LEMMA ConsumeFailedInv ==
    ASSUME Inv, NEW c \in Checks, ConsumeFailed(c)
    PROVE  Inv'
<1> USE DEF Inv, ConsumeFailed, diskVars, storeVars, history, Stopped, Serving
<1>1. TypeOK' /\ VerdictsFresh'
  BY ReturnVerdicts DEF TypeOK, Return, Phase
<1>2. ImagesReadable'
  BY DEF ImagesReadable, Images, Readable
<1>3. WindowCovered' /\ RenameDurable' /\ CallValid' /\ MemoryMatchesJournal'
  BY DEF WindowCovered, RenameDurable, CallValid, Return, MemoryMatchesJournal
<1>4. AllowedOnRecord' /\ HolderIsNew' /\ AcceptedOnce'
  BY DEF AllowedOnRecord, Images, Waived, HolderIsNew, AcceptedOnce, Return
<1> QED BY <1>1, <1>2, <1>3, <1>4 DEF Inv

LEMMA ConsumeReplayedInv ==
    ASSUME Inv, NEW c \in Checks, ConsumeReplayed(c)
    PROVE  Inv'
<1> USE DEF Inv, ConsumeReplayed, diskVars, history, Stopped, Serving
<1>0. /\ seen' \subseteq seen /\ obsolete' \in Nat
      /\ \A n \in seen : Inside(n, retention, clock) => n \in seen'
      /\ Cardinality(seen') \in Nat /\ Cardinality(seen') <= MaxEntries
      /\ obsolete' + Cardinality(seen') = obsolete + Cardinality(seen)
      /\ FreshIn(file, clock) \subseteq seen'
  BY PruneKeeps
<1>1. TypeOK' /\ VerdictsFresh'
  BY <1>0, ReturnVerdicts DEF TypeOK, Return, Phase
<1>2. ImagesReadable'
  BY DEF ImagesReadable, Images, Readable
<1>3. WindowCovered' /\ RenameDurable' /\ CallValid'
  BY DEF WindowCovered, RenameDurable, CallValid, Return
<1>4. MemoryMatchesJournal'
  BY <1>0 DEF MemoryMatchesJournal, Return, FreshIn
<1>5. AllowedOnRecord'
  BY <1>0 DEF AllowedOnRecord, Images, Waived, Return, Inside
<1>6. HolderIsNew' /\ AcceptedOnce'
  BY DEF HolderIsNew, AcceptedOnce, Return
<1> QED BY <1>1, <1>2, <1>3, <1>4, <1>5, <1>6 DEF Inv

\* A nonce that was allowed before is on record unless it is past the horizon, and
\* then it left the horizon after Check judged it: it is late.
LEMMA ConsumeInv ==
    ASSUME Inv, NEW c \in Checks, Consume(c)
    PROVE  Inv'
<1> USE DEF Inv, Consume, diskVars, checkVars, Stopped, Serving
<1>0. /\ seen' \subseteq seen /\ obsolete' \in Nat
      /\ \A n \in seen : Inside(n, retention, clock) => n \in seen'
      /\ Cardinality(seen') \in Nat /\ Cardinality(seen') <= MaxEntries
      /\ obsolete' + Cardinality(seen') = obsolete + Cardinality(seen)
      /\ FreshIn(file, clock) \subseteq seen'
  BY PruneKeeps
<1>a. pending[c] \in Nonces /\ holder = Nothing /\ c # Nothing
  BY Constants DEF TypeOK, CallValid
<1>b. phase' = "admit" => obsolete' < MaxEntries
  BY <1>0, Constants DEF ShouldCompact
<1>1. TypeOK'
  BY <1>0, <1>a DEF TypeOK, Phase
<1>2. ImagesReadable' /\ VerdictsFresh'
  BY DEF ImagesReadable, Images, Readable, VerdictsFresh, Inside
<1>3. WindowCovered' /\ RenameDurable' /\ CallValid'
  BY <1>a DEF WindowCovered, RenameDurable, CallValid
<1>4. MemoryMatchesJournal'
  <2>1. phase' \in {"rewrite", "admit"}
    OBVIOUS
  <2>2. file.kind # "absent"
    BY DEF MemoryMatchesJournal
  <2> QED BY <1>0, <1>b, <2>1, <2>2 DEF MemoryMatchesJournal, FreshIn
<1>5. AllowedOnRecord'
  BY <1>0 DEF AllowedOnRecord, Images, Waived, Inside
<1>6. HolderIsNew'
  <2>1. Inside(pending[c], retention, checkedAt[c])
    BY <1>a DEF VerdictsFresh
  <2>2. CASE Inside(pending[c], retention, clock)
    <3>1. pending[c] \notin seen
      BY <1>0, <2>2
    <3> QED BY <1>a, <2>2, <3>1 DEF AllowedOnRecord, HolderIsNew, Waived, TypeOK
  <2>3. CASE ~ Inside(pending[c], retention, clock)
    BY <2>1, <2>3 DEF HolderIsNew, Waived
  <2> QED BY <2>2, <2>3
<1>7. AcceptedOnce'
  BY DEF AcceptedOnce
<1> QED BY <1>1, <1>2, <1>3, <1>4, <1>5, <1>6, <1>7 DEF Inv

LEMMA AdmitRefusedInv ==
    ASSUME Inv, AdmitRefused
    PROVE  Inv'
<1> USE DEF Inv, AdmitRefused, diskVars, storeVars, history, Stopped, Serving
<1>0. holder \in Checks
  BY DEF TypeOK, CallValid
<1>1. TypeOK' /\ VerdictsFresh'
  BY <1>0, ReturnVerdicts DEF TypeOK, Return, Phase
<1>2. ImagesReadable'
  BY DEF ImagesReadable, Images, Readable
<1>3. WindowCovered' /\ RenameDurable' /\ CallValid'
  BY DEF WindowCovered, RenameDurable, CallValid, Return
<1>4. MemoryMatchesJournal'
  BY DEF MemoryMatchesJournal, Return
<1>5. AllowedOnRecord' /\ HolderIsNew' /\ AcceptedOnce'
  BY DEF AllowedOnRecord, Images, Waived, HolderIsNew, AcceptedOnce, Return
<1> QED BY <1>1, <1>2, <1>3, <1>4, <1>5 DEF Inv

LEMMA AdmitInv ==
    ASSUME Inv, Admit
    PROVE  Inv'
<1> USE DEF Inv, Admit, diskVars, storeVars, checkVars, history, Stopped, Serving
<1>1. TypeOK'
  BY DEF TypeOK, Phase
<1>2. ImagesReadable' /\ VerdictsFresh'
  BY DEF ImagesReadable, Images, Readable, VerdictsFresh
<1>3. WindowCovered' /\ RenameDurable' /\ CallValid'
  BY DEF WindowCovered, RenameDurable, CallValid
<1>4. MemoryMatchesJournal'
  BY DEF MemoryMatchesJournal
<1>5. AllowedOnRecord' /\ HolderIsNew' /\ AcceptedOnce'
  BY DEF AllowedOnRecord, Images, Waived, HolderIsNew, AcceptedOnce
<1> QED BY <1>1, <1>2, <1>3, <1>4, <1>5 DEF Inv

-----------------------------------------------------------------------------
(* The system calls of rewriteLocked and appendLocked. *)

\* A failed call ends the process's start or latches the store; what the disk then
\* holds must be in order.
LEMMA IOFailsInv ==
    ASSUME Inv, phase \in {"rewrite", "dirsync", "append", "sync"}, IOFails,
           UNCHANGED <<clock, retention, seen, obsolete, fileSize, maxAge>>,
           file' \in Image, inode' \subseteq Image, staleDir' \subseteq Image,
           ImagesReadable',
           \A n \in Nonces : accepts[n] > 0 /\ ~ Waived(n) =>
               \A img \in Images' :
                  /\ img.kind # "absent"
                  /\ img.kind = "ok" => n \in img.nonces \/ ~ Inside(n, img.retention, clock),
           phase # "dirsync" => UNCHANGED staleDir,
           holder # Nothing => file'.kind # "absent"
    PROVE  Inv'
<1> USE DEF Inv, Stopped, Serving
<1>1. CASE holder = Nothing
  <2>0. /\ phase' = "refused" /\ orphaned' = Orphaned
        /\ UNCHANGED <<holder, checkVars, failed, accepts, late>> /\ phase \in {"rewrite", "dirsync"}
    BY <1>1 DEF IOFails, CallValid, TypeOK
  <2>1. TypeOK'
    BY <2>0 DEF TypeOK, Phase, checkVars, Orphaned
  <2>2. WindowCovered' /\ CallValid' /\ VerdictsFresh'
    BY <1>1, <2>0 DEF WindowCovered, CallValid, VerdictsFresh, checkVars
  <2>3. RenameDurable'
    BY <1>1, <2>0 DEF RenameDurable, Orphaned
  <2>4. MemoryMatchesJournal'
    BY <2>0 DEF MemoryMatchesJournal
  <2>5. \A n : Waived(n) => Waived(n)'
    BY <2>0 DEF Waived, Orphaned
  <2>6. AllowedOnRecord'
    BY <2>0, <2>5 DEF AllowedOnRecord
  <2>7. HolderIsNew' /\ AcceptedOnce'
    BY <1>1, <2>0, <2>5 DEF HolderIsNew, AcceptedOnce, Orphaned
  <2> QED BY <2>1, <2>2, <2>3, <2>4, <2>6, <2>7
<1>2. CASE holder # Nothing
  <2>0. /\ failed' = TRUE /\ Return(holder) /\ UNCHANGED history /\ holder \in Checks
    BY <1>2 DEF IOFails, TypeOK
  <2>1. TypeOK' /\ VerdictsFresh'
    BY <2>0, ReturnVerdicts DEF TypeOK, Phase, history, Return
  <2>2. WindowCovered' /\ CallValid' /\ RenameDurable'
    BY <2>0 DEF WindowCovered, CallValid, RenameDurable, Return
  <2>3. MemoryMatchesJournal'
    BY <1>2, <2>0 DEF MemoryMatchesJournal, Return
  <2>4. AllowedOnRecord' /\ HolderIsNew' /\ AcceptedOnce'
    BY <2>0 DEF AllowedOnRecord, HolderIsNew, AcceptedOnce, Waived, history, Return, Inside
  <2> QED BY <2>1, <2>2, <2>3, <2>4
<1> QED BY <1>1, <1>2

LEMMA RewriteFailsInv ==
    ASSUME Inv, RewriteFails
    PROVE  Inv'
<1> USE DEF Inv, RewriteFails, diskVars
<1>1. file' \in Image /\ inode' \subseteq Image /\ staleDir' \subseteq Image
  BY DEF TypeOK
<1>2. Images' = Images /\ ImagesReadable'
  BY DEF Images, ImagesReadable, Readable
<1>3. holder # Nothing => file'.kind # "absent"
  BY DEF MemoryMatchesJournal, Stopped
<1>4. \A n \in Nonces : accepts[n] > 0 /\ ~ Waived(n) =>
        \A img \in Images' :
           /\ img.kind # "absent"
           /\ img.kind = "ok" => n \in img.nonces \/ ~ Inside(n, img.retention, clock)
  BY <1>2 DEF AllowedOnRecord
<1> QED BY <1>1, <1>2, <1>3, <1>4, IOFailsInv

LEMMA SyncFailsInv ==
    ASSUME Inv, SyncFails
    PROVE  Inv'
<1> USE DEF Inv, SyncFails, diskVars
<1>1. file' \in Image /\ inode' \subseteq Image /\ staleDir' \subseteq Image
  BY DEF TypeOK
<1>2. Images' = Images /\ ImagesReadable'
  BY DEF Images, ImagesReadable, Readable
<1>3. holder # Nothing => file'.kind # "absent"
  BY DEF MemoryMatchesJournal, Stopped
<1>4. \A n \in Nonces : accepts[n] > 0 /\ ~ Waived(n) =>
        \A img \in Images' :
           /\ img.kind # "absent"
           /\ img.kind = "ok" => n \in img.nonces \/ ~ Inside(n, img.retention, clock)
  BY <1>2 DEF AllowedOnRecord
<1> QED BY <1>1, <1>2, <1>3, <1>4, IOFailsInv

LEMMA DirSyncFailsInv ==
    ASSUME Inv, DirSyncFails
    PROVE  Inv'
<1> USE DEF Inv, DirSyncFails
<1>1. file' \in Image /\ inode' \subseteq Image /\ staleDir' \subseteq Image
  BY DEF TypeOK
<1>2. Images' \subseteq Images /\ ImagesReadable'
  BY DEF Images, ImagesReadable, Readable
<1>3. holder # Nothing => file'.kind # "absent"
  BY DEF MemoryMatchesJournal, Stopped
<1>4. \A n \in Nonces : accepts[n] > 0 /\ ~ Waived(n) =>
        \A img \in Images' :
           /\ img.kind # "absent"
           /\ img.kind = "ok" => n \in img.nonces \/ ~ Inside(n, img.retention, clock)
  BY <1>2 DEF AllowedOnRecord
<1> QED BY <1>1, <1>2, <1>3, <1>4, IOFailsInv

LEMMA WriteFailsInv ==
    ASSUME Inv, WriteFails
    PROVE  Inv'
<1> USE DEF Inv, WriteFails
<1>1. file' \in Image /\ inode' \subseteq Image /\ staleDir' \subseteq Image
  BY ImageTypes DEF TypeOK
<1>2. Images' \subseteq Images \cup {Torn}
  BY DEF Images
<1>3. ImagesReadable'
  BY <1>2, ImageTypes DEF ImagesReadable, Readable
<1>4. holder # Nothing => file'.kind # "absent"
  BY ImageTypes DEF MemoryMatchesJournal, Stopped
<1>5. \A n \in Nonces : accepts[n] > 0 /\ ~ Waived(n) =>
        \A img \in Images' :
           /\ img.kind # "absent"
           /\ img.kind = "ok" => n \in img.nonces \/ ~ Inside(n, img.retention, clock)
  BY <1>2, ImageTypes DEF AllowedOnRecord
<1> QED BY <1>1, <1>3, <1>4, <1>5, IOFailsInv

LEMMA RewriteRenameInv ==
    ASSUME Inv, RewriteRename
    PROVE  Inv'
<1> USE DEF Inv, RewriteRename, storeVars, checkVars, history, Stopped, Serving
<1>0. /\ file' = Journal(retention, seen) /\ file' \in Image
      /\ seen \in SUBSET Nonces /\ Cardinality(seen) <= MaxEntries
      /\ clock \in Nat /\ retention \in Nat
  BY ImageTypes, Constants DEF TypeOK, MemoryMatchesJournal
<1>a. /\ Loadable(file', clock) /\ Cardinality(file'.nonces) <= file'.size
      /\ file'.repeated \subseteq file'.nonces /\ FreshIn(file', clock) \subseteq seen
  BY <1>0, JournalLoads
<1>b. file'.kind = "ok" /\ file'.retention = retention /\ file'.nonces = seen
  BY <1>0 DEF Journal
<1>c. Images' \subseteq Images \cup {file'}
  BY DEF Images
<1>1. TypeOK'
  BY <1>0 DEF TypeOK, Phase
<1>2. ImagesReadable'
  BY <1>a, <1>c DEF ImagesReadable, Readable
<1>3. WindowCovered' /\ RenameDurable' /\ CallValid' /\ VerdictsFresh'
  BY DEF WindowCovered, RenameDurable, CallValid, VerdictsFresh
<1>4. MemoryMatchesJournal'
  <2>1. FreshIn(file', clock') \subseteq seen'
    BY <1>a
  <2>2. /\ phase' = "dirsync" /\ file'.kind = "ok" /\ file'.retention = retention'
        /\ file' = Journal(retention', seen') /\ Cardinality(seen') <= MaxEntries
    BY <1>0, <1>b
  <2> QED BY <2>1, <2>2 DEF MemoryMatchesJournal
<1>5. AllowedOnRecord'
  BY <1>b, <1>c DEF AllowedOnRecord, Waived, Inside
<1>6. HolderIsNew' /\ AcceptedOnce'
  BY DEF HolderIsNew, AcceptedOnce, Waived
<1> QED BY <1>1, <1>2, <1>3, <1>4, <1>5, <1>6

LEMMA DirSyncInv ==
    ASSUME Inv, DirSync
    PROVE  Inv'
<1> USE DEF Inv, DirSync, checkVars, history, Stopped, Serving
<1>0. /\ file = Journal(retention, seen) /\ seen \in SUBSET Nonces
      /\ Cardinality(seen) \in Nat /\ Cardinality(seen) <= MaxEntries
  BY CardNonces DEF MemoryMatchesJournal, TypeOK
<1>b. file.kind = "ok" /\ file.retention = retention /\ file.nonces = seen
      /\ file.size = Cardinality(seen)
  BY <1>0 DEF Journal
<1>c. Images' \subseteq Images
  BY DEF Images
<1>1. TypeOK'
  BY <1>0 DEF TypeOK, Phase
<1>2. ImagesReadable' /\ VerdictsFresh'
  BY <1>c DEF ImagesReadable, Readable, VerdictsFresh
<1>3. WindowCovered' /\ RenameDurable' /\ CallValid'
  BY DEF WindowCovered, RenameDurable, CallValid
<1>4. MemoryMatchesJournal'
  <2>1. FreshIn(file, clock) \subseteq seen
    BY <1>b DEF FreshIn
  <2>2. phase' \in {"idle", "admit"}
    OBVIOUS
  <2> QED BY <1>0, <1>b, <2>1, <2>2, Constants DEF MemoryMatchesJournal
<1>5. AllowedOnRecord'
  BY <1>c DEF AllowedOnRecord, Waived, Inside
<1>6. HolderIsNew' /\ AcceptedOnce'
  BY DEF HolderIsNew, AcceptedOnce, Waived
<1> QED BY <1>1, <1>2, <1>3, <1>4, <1>5, <1>6

LEMMA WriteInv ==
    ASSUME Inv, Write
    PROVE  Inv'
<1> USE DEF Inv, Write, storeVars, checkVars, history, Stopped, Serving
<1>0. /\ holder \in Checks /\ pending[holder] \in Nonces /\ pending[holder] \notin seen
      /\ file \in Image /\ file.kind = "ok" /\ file.retention = retention
      /\ ~ failed /\ clock \in Nat /\ seen \in SUBSET Nonces
  BY Constants DEF TypeOK, CallValid, MemoryMatchesJournal
<1>a. /\ file.size = obsolete + Cardinality(seen) /\ obsolete < MaxEntries
      /\ Cardinality(seen) < MaxEntries /\ file.size < MaxRecords
      /\ file.size < 2 * MaxEntries
  <2>1. /\ file.size = obsolete + Cardinality(seen) /\ obsolete < MaxEntries
        /\ Cardinality(seen) < MaxEntries /\ file.size < MaxRecords
    BY <1>0 DEF MemoryMatchesJournal
  <2>2. obsolete \in Nat /\ Cardinality(seen) \in Nat
    BY <1>0, CardNonces DEF TypeOK
  <2> QED BY <2>1, <2>2, Constants
<1>b. /\ Loadable(file, clock) /\ Cardinality(file.nonces) <= file.size
      /\ file.repeated \subseteq file.nonces
  BY <1>0 DEF ImagesReadable, Images, Readable
<1>c. FreshIn(file, clock) \subseteq seen
  BY <1>0 DEF MemoryMatchesJournal
<1>d. /\ file'.kind = "ok" /\ file'.retention = retention
      /\ file'.size = file.size + 1 /\ file'.nonces = file.nonces \cup {pending[holder]}
      /\ Loadable(file', clock) /\ Cardinality(file'.nonces) <= file'.size
      /\ file'.repeated \subseteq file'.nonces
      /\ FreshIn(file', clock) \subseteq seen \cup {pending[holder]}
  BY <1>0, <1>a, <1>b, <1>c, AppendLoads
<1>e. Images' \subseteq Images \cup {file', Torn}
  BY DEF Images
<1>1. TypeOK'
  BY <1>0, ImageTypes DEF TypeOK, Phase
<1>2. ImagesReadable' /\ VerdictsFresh'
  BY <1>d, <1>e, ImageTypes DEF ImagesReadable, Readable, VerdictsFresh
<1>3. WindowCovered' /\ RenameDurable' /\ CallValid'
  BY DEF WindowCovered, RenameDurable, CallValid
<1>4. MemoryMatchesJournal'
  <2>1. phase' = "sync" /\ FreshIn(file', clock') \subseteq seen' \cup {pending'[holder']}
    BY <1>d
  <2>2. /\ fileSize = obsolete + Cardinality(seen) /\ file.size = fileSize
        /\ Cardinality(seen) <= MaxEntries
    BY <1>0 DEF MemoryMatchesJournal
  <2> QED BY <1>a, <1>d, <2>1, <2>2 DEF MemoryMatchesJournal
<1>5. AllowedOnRecord'
  <2>1. ASSUME NEW n \in Nonces, accepts[n] > 0, ~ Waived(n), NEW img \in Images'
        PROVE  /\ img.kind # "absent"
               /\ img.kind = "ok" => n \in img.nonces \/ ~ Inside(n, img.retention, clock)
    <3>1. CASE img \in Images
      BY <2>1, <3>1 DEF AllowedOnRecord
    <3>2. CASE img = Torn
      BY <3>2, ImageTypes
    <3>3. CASE img = file'
      BY <1>0, <1>d, <2>1, <3>3 DEF AllowedOnRecord, Images
    <3> QED BY <1>e, <3>1, <3>2, <3>3
  <2> QED BY <2>1 DEF AllowedOnRecord, Waived, Inside
<1>6. HolderIsNew' /\ AcceptedOnce'
  BY DEF HolderIsNew, AcceptedOnce, Waived
<1> QED BY <1>1, <1>2, <1>3, <1>4, <1>5, <1>6

\* The dispatch is allowed.  No image is left without its nonce: the name is durable,
\* or the fsync has made it so.
LEMMA SyncInv ==
    ASSUME Inv, Sync
    PROVE  Inv'
<1> USE DEF Inv, Sync, Stopped, Serving
<1> DEFINE n == pending[holder]
<1>0. /\ holder \in Checks /\ n \in Nonces /\ n \notin seen
      /\ file \in Image /\ file.kind = "ok" /\ file.retention = retention
      /\ n \in file.nonces /\ ~ failed /\ seen \in SUBSET Nonces
  BY Constants DEF TypeOK, CallValid, MemoryMatchesJournal
<1>a. /\ Cardinality(seen') = Cardinality(seen) + 1 /\ Cardinality(seen) \in Nat
  BY <1>0, CardNonces
<1>b. Images' \subseteq Images
  BY DEF Images
<1>c. staleDir' = {} \/ orphaned
  BY <1>0 DEF RenameDurable
<1>1. TypeOK' /\ VerdictsFresh'
  <2>1. accepts' \in [Nonces -> 0 .. 2]
    BY <1>0 DEF TypeOK
  <2>2. /\ pending' \in [Checks -> Nonces \cup {Nothing}]
        /\ checkedAt' \in [Checks -> 0 .. Horizon] /\ VerdictsFresh'
    BY <1>0, ReturnVerdicts
  <2>3. seen' \subseteq Nonces /\ staleDir' \subseteq Image /\ inode' \subseteq Image
    BY <1>0 DEF TypeOK
  <2>4. phase' = "idle" /\ holder' = Nothing
    BY DEF Return
  <2> QED BY <1>0, <2>1, <2>2, <2>3, <2>4 DEF TypeOK, Phase
<1>2. ImagesReadable'
  BY <1>b DEF ImagesReadable, Readable
<1>3. WindowCovered' /\ RenameDurable' /\ CallValid'
  BY <1>0, <1>c DEF WindowCovered, RenameDurable, CallValid, Return
<1>4. MemoryMatchesJournal'
  <2>1. phase' = "idle" /\ holder' = Nothing
    BY DEF Return
  <2>2. /\ fileSize = obsolete + Cardinality(seen) /\ file.size = fileSize + 1
        /\ Cardinality(seen) < MaxEntries /\ FreshIn(file, clock) \subseteq seen'
    BY <1>0 DEF MemoryMatchesJournal
  <2>3. obsolete \in Nat /\ fileSize \in Nat
    BY DEF TypeOK
  <2> QED BY <1>0, <1>a, <2>1, <2>2, <2>3, Constants DEF MemoryMatchesJournal
<1>5. AllowedOnRecord'
  <2>1. ASSUME NEW m \in Nonces, accepts'[m] > 0, ~ Waived(m)
        PROVE  /\ m \in seen' \/ ~ Inside(m, retention, clock)
               /\ \A img \in Images' :
                     /\ img.kind # "absent"
                     /\ img.kind = "ok" => m \in img.nonces \/ ~ Inside(m, img.retention, clock)
    <3>1. CASE m = n
      <4>1. Images' = {file}
        BY <1>c, <2>1 DEF Images, Waived
      <4> QED BY <1>0, <3>1, <4>1
    <3>2. CASE m # n
      <4>1. accepts[m] > 0
        BY <1>0, <2>1, <3>2 DEF TypeOK
      <4> QED BY <1>b, <2>1, <4>1 DEF AllowedOnRecord
    <3> QED BY <3>1, <3>2
  <2> QED BY <2>1 DEF AllowedOnRecord, Waived, Inside
<1>6. HolderIsNew'
  BY DEF HolderIsNew, Return
<1>7. AcceptedOnce'
  <2>1. ASSUME NEW m \in Nonces, ~ Waived(m)
        PROVE  accepts'[m] <= 1
    <3>1. CASE m = n
      <4>1. accepts[m] = 0 /\ holder # Nothing
        BY <1>0, <2>1, <3>1, Constants DEF HolderIsNew
      <4> QED BY <1>0, <3>1, <4>1 DEF TypeOK
    <3>2. CASE m # n
      BY <1>0, <2>1, <3>2 DEF AcceptedOnce, Waived, TypeOK
    <3> QED BY <3>1, <3>2
  <2> QED BY <2>1 DEF AcceptedOnce, Waived
<1> QED BY <1>1, <1>2, <1>3, <1>4, <1>5, <1>6, <1>7

-----------------------------------------------------------------------------
(* The environment. *)

LEMMA TickInv ==
    ASSUME Inv, Tick
    PROVE  Inv'
<1> USE DEF Inv, Tick, diskVars, storeVars, callVars, checkVars, history, Stopped, Serving
<1>0. clock \in Nat /\ clock' \in Nat /\ clock <= clock' /\ retention \in Nat
      /\ file \in Image
  BY Constants DEF TypeOK
<1>1. TypeOK'
  BY Constants DEF TypeOK
<1>2. ImagesReadable'
  <2>1. Images' = Images /\ Images \subseteq Image
    BY DEF Images, TypeOK
  <2> QED BY <1>0, <2>1, LoadableLater DEF ImagesReadable, Readable
<1>3. WindowCovered' /\ RenameDurable' /\ CallValid' /\ VerdictsFresh'
  BY DEF WindowCovered, RenameDurable, CallValid, VerdictsFresh
<1>4. FreshIn(file, clock') \subseteq FreshIn(file, clock)
  BY <1>0, InsideEarlier DEF FreshIn, Image
<1>5. MemoryMatchesJournal'
  BY <1>4 DEF MemoryMatchesJournal
<1>6. AllowedOnRecord'
  <2>1. Images' = Images /\ Images \subseteq Image
    BY DEF Images, TypeOK
  <2>2. \A m \in Nonces, age \in Nat : Inside(m, age, clock') => Inside(m, age, clock)
    BY <1>0, InsideEarlier
  <2> QED BY <1>0, <2>1, <2>2 DEF AllowedOnRecord, Waived, Image
<1>7. HolderIsNew' /\ AcceptedOnce'
  BY DEF HolderIsNew, AcceptedOnce, Waived
<1> QED BY <1>1, <1>2, <1>3, <1>5, <1>6, <1>7

\* Nothing is left of the process, and the disk is in order.
LEMMA NoProcessInv ==
    ASSUME Inv, NoProcess, UNCHANGED <<clock, accepts, late>>,
           orphaned' \in BOOLEAN, orphaned => orphaned',
           file' \in Images, inode' \subseteq Images, staleDir' \subseteq Images,
           staleDir' = {} \/ JournaledRename \/ orphaned'
    PROVE  Inv'
<1> USE DEF Inv, NoProcess, Stopped, Serving
<1>0. Images \subseteq Image /\ Images' \subseteq Images
  BY DEF Images, TypeOK
<1>1. TypeOK'
  <2>1. 0 \in 0 .. Horizon
    BY Constants
  <2>2. /\ pending' \in [Checks -> Nonces \cup {Nothing}]
        /\ checkedAt' \in [Checks -> 0 .. Horizon]
    BY <2>1
  <2> QED BY <1>0, <2>2 DEF TypeOK, Phase
<1>2. ImagesReadable'
  BY <1>0 DEF ImagesReadable, Readable
<1>3. WindowCovered' /\ RenameDurable' /\ CallValid' /\ VerdictsFresh'
  BY DEF WindowCovered, RenameDurable, CallValid, VerdictsFresh
<1>4. MemoryMatchesJournal'
  BY DEF MemoryMatchesJournal
<1>5. AllowedOnRecord'
  BY <1>0 DEF AllowedOnRecord, Waived, Inside
<1>6. HolderIsNew' /\ AcceptedOnce'
  BY DEF HolderIsNew, AcceptedOnce
<1> QED BY <1>1, <1>2, <1>3, <1>4, <1>5, <1>6

LEMMA ProcessExitInv ==
    ASSUME Inv, ProcessExit
    PROVE  Inv'
<1>1. /\ NoProcess /\ UNCHANGED <<clock, accepts, late>>
      /\ file' \in Images /\ inode' \subseteq Images /\ staleDir' \subseteq Images
  BY DEF ProcessExit, diskVars, Images
<1>2. /\ orphaned' \in BOOLEAN /\ (orphaned => orphaned')
      /\ staleDir' = {} \/ JournaledRename \/ orphaned'
  BY Constants DEF ProcessExit, Orphaned, Inv, TypeOK
<1> QED BY <1>1, <1>2, NoProcessInv

LEMMA HostCrashInv ==
    ASSUME Inv, HostCrash
    PROVE  Inv'
<1>1. /\ NoProcess /\ UNCHANGED <<clock, accepts, late, orphaned>>
      /\ file' \in Images /\ inode' \subseteq Images /\ staleDir' = {}
  BY DEF HostCrash, history, Images
<1>2. orphaned' \in BOOLEAN
  BY <1>1 DEF Inv, TypeOK
<1> QED BY <1>1, <1>2, NoProcessInv

-----------------------------------------------------------------------------
(* Theorems. *)

LEMMA InitInv == Init => Inv
<1> SUFFICES ASSUME Init PROVE Inv
  OBVIOUS
<1> USE DEF Init, Stopped, Serving
<1>1. TypeOK
  <2>1. 0 \in 0 .. Horizon
    BY Constants
  <2>2. pending \in [Checks -> Nonces \cup {Nothing}] /\ checkedAt \in [Checks -> 0 .. Horizon]
    BY <2>1
  <2>3. accepts \in [Nonces -> 0 .. 2]
    OBVIOUS
  <2> QED BY <2>1, <2>2, <2>3, ImageTypes DEF TypeOK, Phase
<1>2. ImagesReadable
  BY ImageTypes DEF ImagesReadable, Images, Readable
<1>3. WindowCovered /\ RenameDurable /\ CallValid /\ VerdictsFresh
  BY DEF WindowCovered, RenameDurable, CallValid, VerdictsFresh
<1>4. MemoryMatchesJournal
  BY DEF MemoryMatchesJournal
<1>5. AllowedOnRecord /\ HolderIsNew /\ AcceptedOnce
  BY DEF AllowedOnRecord, HolderIsNew, AcceptedOnce
<1> QED BY <1>1, <1>2, <1>3, <1>4, <1>5 DEF Inv

LEMMA StutterInv == Inv /\ UNCHANGED vars => Inv'
<1> SUFFICES ASSUME Inv, UNCHANGED vars PROVE Inv'
  OBVIOUS
<1> USE DEF Inv, vars, diskVars, storeVars, callVars, checkVars, history
<1>1. TypeOK' /\ ImagesReadable'
  BY DEF TypeOK, ImagesReadable, Images, Readable
<1>2. WindowCovered' /\ RenameDurable' /\ CallValid' /\ VerdictsFresh'
  BY DEF WindowCovered, RenameDurable, CallValid, VerdictsFresh, Stopped, Serving
<1>3. MemoryMatchesJournal'
  BY DEF MemoryMatchesJournal, Stopped
<1>4. AllowedOnRecord' /\ HolderIsNew' /\ AcceptedOnce'
  BY DEF AllowedOnRecord, HolderIsNew, AcceptedOnce, Waived, Stopped, Images
<1> QED BY <1>1, <1>2, <1>3, <1>4

LEMMA NextInv == Inv /\ [Next]_vars => Inv'
<1> SUFFICES ASSUME Inv, [Next]_vars PROVE Inv'
  OBVIOUS
<1>1. CASE Open
  BY <1>1, OpenRefusedInv, OpenAbsentInv, OpenJournalInv DEF Open
<1>2. CASE Check
  BY <1>2, PassesFreshnessInv, ConsumeFailedInv, ConsumeReplayedInv, ConsumeInv DEF Check
<1>3. CASE IO
  BY <1>3, AdmitRefusedInv, AdmitInv, RewriteFailsInv, RewriteRenameInv, DirSyncFailsInv,
     DirSyncInv, WriteInv, WriteFailsInv, SyncFailsInv, SyncInv DEF IO
<1>4. CASE \E age \in Ages : Reload(age)
  BY <1>4, ReloadInv
<1>5. CASE Tick \/ ProcessExit \/ HostCrash
  BY <1>5, TickInv, ProcessExitInv, HostCrashInv
<1>6. CASE UNCHANGED vars
  BY <1>6, StutterInv
<1> QED BY <1>1, <1>2, <1>3, <1>4, <1>5, <1>6 DEF Next

\* The inductive invariant holds in every state the store and its journal reach.
THEOREM InvHolds == Spec => []Inv
  BY InitInv, NextInv, PTL DEF Spec

\* Every variable of the store keeps its type; its counters never go below zero.
THEOREM TypeCorrect == Spec => []TypeOK
<1>1. Inv => TypeOK
  BY DEF Inv
<1> QED BY <1>1, InvHolds, PTL

\* Verifier.Check allows an attestation at most once, except as AcceptedOnce says.
THEOREM AllowedAtMostOnce == Spec => []AcceptedOnce
<1>1. Inv => AcceptedOnce
  BY DEF Inv
<1> QED BY <1>1, InvHolds, PTL

\* What was allowed and Check still calls fresh is remembered by consume.
THEOREM WindowAlwaysCovered == Spec => []FreshRemembered
<1>1. Inv => FreshRemembered
  <2> SUFFICES ASSUME Inv, phase = "idle", NEW n \in Nonces, accepts[n] > 0,
                      Fresh(n, clock), ~ Waived(n)
               PROVE  n \in seen
    BY DEF FreshRemembered, Waived
  <2>1. Inside(n, maxAge, clock) /\ maxAge <= retention /\ maxAge \in Nat /\ retention \in Nat
        /\ clock \in Nat
    BY Constants DEF Fresh, Inv, WindowCovered, Stopped, TypeOK
  <2>2. Inside(n, retention, clock)
    BY <2>1, InsideWider
  <2> QED BY <2>2 DEF Inv, AllowedOnRecord, Stopped
<1> QED BY <1>1, InvHolds, PTL

\* OpenNonceStore accepts every journal the store leaves, except for a torn last line.
THEOREM JournalAlwaysReadable == Spec => []JournalReadable
<1>1. Inv => JournalReadable
  BY DEF Inv, ImagesReadable, Readable, JournalReadable
<1> QED BY <1>1, InvHolds, PTL
=============================================================================

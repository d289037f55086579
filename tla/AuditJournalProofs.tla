------------------------- MODULE AuditJournalProofs -------------------------
(***************************************************************************)
(* The properties of AuditJournal for any processes, file sizes, numbers   *)
(* of backups and events, from AuditJournalAssumption.                     *)
(***************************************************************************)
EXTENDS AuditJournal, SequenceTheorems, FiniteSetTheorems, TLAPS

Names == 0 .. MaxBackups

-----------------------------------------------------------------------------
(* The inductive invariant. *)

\* Each file is one chain, and no more of it is durable than there is.
Sound(file) == Verifies(file.lines) /\ file.synced <= Len(file.lines)

FilesSound == \A i \in DOMAIN files : Sound(files[i])

\* A directory names existing files, newer files under lower names.
Orderly(d) ==
    /\ \A n \in Names : d[n] \in 0 .. Len(files)
    /\ \A n, m \in Names : n < m /\ d[n] # 0 /\ d[m] # 0 => d[m] < d[n]

DirectoriesOrderly == dir \in dirImages /\ \A d \in dirImages : Orderly(d)

\* What a process remembers of its file was there once, and files only grow.
Remembers(s) ==
    held[s] # 0 =>
        /\ held[s] \in DOMAIN files
        /\ size[s] <= Len(files[held[s]].lines)
        /\ lastHash[s] = IF size[s] = 0 THEN None ELSE files[held[s]].lines[size[s]].ev

TailsRemembered == \A s \in Sinks : Remembers(s)

\* The rotation has moved every backup above the one it is at.
RotationValid ==
    /\ pc = "shift" => /\ dir[0] # 0
                       /\ (shift = 0 <=> MaxBackups = 0)
                       /\ shift < MaxBackups => dir[shift] = 0
    /\ pc = "fresh" => dir[0] = 0

\* The process that appends knows the end of the journal.
AppendValid ==
    /\ pc \in {"dirsync", "write", "sync"} => held[holder] = dir[0] /\ dir[0] # 0 /\ ~ Active.torn
    /\ pc \in {"dirsync", "write"} => size[holder] = Len(Active.lines)
    /\ pc = "sync" => /\ Len(Active.lines) = size[holder] + 1
                      /\ Active.lines[Len(Active.lines)].ev = event
                      /\ Active.synced < Len(Active.lines)

\* The lock protects one event, which is in no file before its line is written and
\* nowhere else after.
LockValid ==
    /\ (pc = "unlocked" <=> holder = Nothing)
    /\ pc # "unlocked" => event \in Events
    /\ pc \in {"shift", "fresh", "dirsync", "write"} => ~ Recorded(event)
    /\ pc = "sync" => \A i \in DOMAIN files : \A k \in DOMAIN files[i].lines :
                         files[i].lines[k].ev = event => i = dir[0] /\ k = Len(files[i].lines)

\* Every line of a reported event is durable, and there is one.
AckedSynced ==
    \A i \in DOMAIN files : \A k \in DOMAIN files[i].lines :
        IsAcked(files[i].lines[k]) => k <= files[i].synced

AckedKept ==
    \A a \in DOMAIN acked : \E i \in DOMAIN files : \E k \in DOMAIN files[i].lines :
        files[i].lines[k].ev = acked[a]

\* Reported events follow each other within a file and from older to newer files.
Before(i, k, j, l) == i < j \/ (i = j /\ k < l)

AckedOrdered ==
    \A i, j \in DOMAIN files :
        \A k \in DOMAIN files[i].lines, l \in DOMAIN files[j].lines : \A a, b \in DOMAIN acked :
            files[i].lines[k].ev = acked[a] /\ files[j].lines[l].ev = acked[b]
                => (a < b <=> Before(i, k, j, l))

\* A file with a reported event that a directory does not name is older than all that
\* it names, and the last name is taken.
Dropped(d, i) ==
    /\ \A n \in Names : d[n] # 0 => i < d[n]
    /\ MaxBackups >= 2 => d[MaxBackups] # 0
    /\ MaxBackups = 1 => d[0] # 0 \/ d[1] # 0

OldestDropped ==
    \A d \in dirImages : \A i \in DOMAIN files :
        HoldsAcked(files[i]) => Dropped(d, i) \/ \E n \in Names : d[n] = i

Inv ==
    /\ TypeOK /\ FilesSound /\ DirectoriesOrderly /\ TailsRemembered /\ RotationValid
    /\ AppendValid /\ LockValid /\ AckedSynced /\ AckedKept /\ AckedOrdered /\ OldestDropped

-----------------------------------------------------------------------------
(* Facts about files. *)

LEMMA Constants ==
    /\ Nothing \notin Sinks
    /\ MaxEvents \in Nat /\ MaxLines \in Nat \ {0} /\ MaxBackups \in Nat /\ MaxFiles \in Nat
    /\ 0 \in Names
  BY AuditJournalAssumption DEF Names

LEMMA FileFields ==
    ASSUME NEW f \in File
    PROVE  /\ f.lines \in Seq(Line) /\ f.synced \in Nat /\ f.torn \in BOOLEAN
           /\ Len(f.lines) \in Nat /\ DOMAIN f.lines = 1 .. Len(f.lines)
           /\ \A k \in DOMAIN f.lines : f.lines[k] \in Line
           /\ \A k \in DOMAIN f.lines : f.lines[k].ev \in Events
<1>1. f.lines \in Seq(Line) /\ f.synced \in Nat /\ f.torn \in BOOLEAN
  BY DEF File
<1>2. Len(f.lines) \in Nat /\ DOMAIN f.lines = 1 .. Len(f.lines)
      /\ \A k \in DOMAIN f.lines : f.lines[k] \in Line
  BY <1>1, LenProperties, ElementOfSeq
<1> QED BY <1>1, <1>2 DEF Line

LEMMA EmptyFileSound ==
    EmptyFile \in File /\ Sound(EmptyFile) /\ EmptyFile.lines = << >> /\ EmptyFile.synced = 0
    /\ EmptyFile.torn = FALSE /\ Len(EmptyFile.lines) = 0 /\ DOMAIN EmptyFile.lines = {}
  BY EmptySeq DEF EmptyFile, File, Sound, Verifies

LEMMA HealedSound ==
    ASSUME NEW f \in File, Sound(f)
    PROVE  /\ Healed(f) \in File /\ Sound(Healed(f))
           /\ Healed(f).lines = f.lines /\ ~ Healed(f).torn /\ f.synced <= Healed(f).synced
<1>1. f.synced \in Nat /\ Len(f.lines) \in Nat /\ f.lines \in Seq(Line)
  BY FileFields
<1>2. CASE f.torn
  <2>1. Healed(f) = [f EXCEPT !.torn = FALSE, !.synced = Len(f.lines)]
    BY <1>2 DEF Healed
  <2>2. /\ Healed(f).lines = f.lines /\ Healed(f).torn = FALSE /\ Healed(f).synced = Len(f.lines)
        /\ Healed(f) \in File
    BY <1>1, <2>1 DEF File
  <2> QED BY <1>1, <2>2 DEF Sound
<1>3. CASE ~ f.torn
  BY <1>1, <1>3 DEF Healed
<1> QED BY <1>2, <1>3

LEMMA ChainHeadIs ==
    ASSUME NEW f \in File
    PROVE  /\ ChainHead(f) = IF Len(f.lines) = 0 THEN None ELSE f.lines[Len(f.lines)].ev
           /\ ChainHead(f) \in Events \cup {None}
<1>1. f.lines \in Seq(Line) /\ Len(f.lines) \in Nat
      /\ \A k \in 1 .. Len(f.lines) : f.lines[k].ev \in Events
  BY FileFields
<1>2. f.lines = << >> <=> Len(f.lines) = 0
  BY <1>1, EmptySeq
<1>3. Len(f.lines) # 0 => f.lines[Len(f.lines)].ev \in Events
  BY <1>1
<1> QED BY <1>2, <1>3 DEF ChainHead, Last

\* A line whose prev_hash is the hash of the last one keeps the chain.
LEMMA AppendSound ==
    ASSUME NEW f \in File, Sound(f), NEW line \in Line, line.prev = ChainHead(f),
           NEW g \in File, g.lines = Append(f.lines, line), g.synced = f.synced
    PROVE  /\ Sound(g)
           /\ Len(g.lines) = Len(f.lines) + 1
           /\ g.lines[Len(f.lines) + 1] = line
           /\ \A k \in DOMAIN f.lines : k \in DOMAIN g.lines /\ g.lines[k] = f.lines[k]
<1>1. f.lines \in Seq(Line) /\ Len(f.lines) \in Nat /\ DOMAIN f.lines = 1 .. Len(f.lines)
      /\ f.synced \in Nat
  BY FileFields
<1>3. Len(g.lines) = Len(f.lines) + 1 /\ g.lines[Len(f.lines) + 1] = line
      /\ \A k \in 1 .. Len(f.lines) : g.lines[k] = f.lines[k]
  BY <1>1
<1>4. DOMAIN g.lines = 1 .. (Len(f.lines) + 1)
  BY <1>3, FileFields
<1>5. ChainHead(f) = IF Len(f.lines) = 0 THEN None ELSE f.lines[Len(f.lines)].ev
  BY ChainHeadIs
<1>6. Verifies(g.lines)
  <2> SUFFICES ASSUME NEW i \in 1 .. (Len(f.lines) + 1)
               PROVE  g.lines[i].prev = IF i = 1 THEN None ELSE g.lines[i - 1].ev
    BY <1>4 DEF Verifies
  <2>1. CASE i \in 1 .. Len(f.lines)
    <3>1. i # 1 => g.lines[i - 1] = f.lines[i - 1]
      BY <1>1, <1>3, <2>1
    <3> QED BY <1>1, <1>3, <2>1, <3>1 DEF Sound, Verifies
  <2>2. CASE i = Len(f.lines) + 1
    <3>1. g.lines[i].prev = ChainHead(f)
      BY <1>3, <2>2
    <3>2. i # 1 => g.lines[i - 1] = f.lines[i - 1] /\ i - 1 = Len(f.lines)
      BY <1>1, <1>3, <2>2
    <3> QED BY <1>1, <1>5, <2>2, <3>1, <3>2
  <2> QED BY <1>1, <2>1, <2>2
<1>7. Sound(g)
  BY <1>1, <1>3, <1>6 DEF Sound
<1> QED BY <1>1, <1>3, <1>4, <1>7

\* What a host crash leaves of a file is a prefix of it with the durable lines.
LEMMA CrashSound ==
    ASSUME NEW f \in File, Sound(f), NEW g \in CrashFiles(f) \cup {Durable(f)}
    PROVE  /\ g \in File /\ Sound(g)
           /\ f.synced <= g.synced /\ Len(g.lines) <= Len(f.lines)
           /\ DOMAIN g.lines = 1 .. g.synced /\ DOMAIN g.lines \subseteq DOMAIN f.lines
           /\ \A k \in DOMAIN g.lines : g.lines[k] = f.lines[k]
<1>1. f.lines \in Seq(Line) /\ Len(f.lines) \in Nat /\ DOMAIN f.lines = 1 .. Len(f.lines)
      /\ f.synced \in Nat /\ f.synced <= Len(f.lines) /\ \A k \in 1 .. Len(f.lines) : f.lines[k] \in Line
  BY FileFields DEF Sound
<1>2. PICK n \in f.synced .. Len(f.lines), t \in BOOLEAN :
        g = [lines |-> SubSeq(f.lines, 1, n), synced |-> n, torn |-> t]
  <2>1. CASE g \in CrashFiles(f)
    BY <2>1 DEF CrashFiles
  <2>2. CASE g = Durable(f)
    <3>1. f.synced \in f.synced .. Len(f.lines)
      BY <1>1
    <3> QED BY <2>2, <3>1 DEF Durable
  <2> QED BY <2>1, <2>2
<1>3. n \in Nat /\ n <= Len(f.lines)
  BY <1>1
<1>4. /\ SubSeq(f.lines, 1, n) \in Seq(Line)
      /\ Len(SubSeq(f.lines, 1, n)) = n
      /\ \A i \in 1 .. n : SubSeq(f.lines, 1, n)[i] = f.lines[i]
  <2>1. \A i \in 1 .. n : f.lines[i] \in Line
    BY <1>1, <1>3
  <2> QED BY <1>3, <2>1, SubSeqProperties
<1>5. g \in File /\ g.synced = n /\ g.lines \in Seq(Line) /\ Len(g.lines) = n
      /\ \A i \in 1 .. n : g.lines[i] = f.lines[i]
  BY <1>2, <1>3, <1>4 DEF File
<1>6. DOMAIN g.lines = 1 .. n
  BY <1>5, FileFields
<1>7. \A i \in 1 .. n : i \in DOMAIN f.lines /\ (i # 1 => i - 1 \in 1 .. n)
  BY <1>1, <1>3
<1>8. Verifies(g.lines)
  BY <1>5, <1>6, <1>7 DEF Sound, Verifies
<1> QED BY <1>1, <1>3, <1>5, <1>6, <1>7, <1>8 DEF Sound

-----------------------------------------------------------------------------
(* Steps that neither add nor lose a line, and what they keep. *)

SameLines ==
    /\ files' \in Seq(File)
    /\ \A i \in DOMAIN files : /\ i \in DOMAIN files'
                              /\ files'[i].lines = files[i].lines
                              /\ files[i].synced <= files'[i].synced
    /\ \A i \in DOMAIN files' : Sound(files'[i]) /\ (i \in DOMAIN files \/ files'[i] = EmptyFile)

LEMMA FilesType ==
    ASSUME TypeOK
    PROVE  /\ Len(files) \in Nat /\ DOMAIN files = 1 .. Len(files)
           /\ \A i \in DOMAIN files : files[i] \in File
  BY LenProperties, ElementOfSeq DEF TypeOK

LEMMA KeepFiles ==
    ASSUME TypeOK, FilesSound, files' = files
    PROVE  SameLines
  BY FilesType, FileFields DEF SameLines, FilesSound, TypeOK

LEMMA SetFile ==
    ASSUME TypeOK, FilesSound, NEW i \in DOMAIN files, NEW f \in File, Sound(f),
           f.lines = files[i].lines, files[i].synced <= f.synced,
           files' = [files EXCEPT ![i] = f]
    PROVE  /\ SameLines /\ Len(files') = Len(files) /\ DOMAIN files' = DOMAIN files
           /\ files'[i] = f /\ \A j \in DOMAIN files : j # i => files'[j] = files[j]
<1>1. files \in Seq(File) /\ i \in 1 .. Len(files) /\ DOMAIN files = 1 .. Len(files)
      /\ \A j \in DOMAIN files : files[j] \in File /\ files[j].synced \in Nat
  BY FilesType, FileFields DEF TypeOK
<1>2. files' \in Seq(File) /\ Len(files') = Len(files) /\ DOMAIN files' = DOMAIN files
      /\ files'[i] = f /\ \A j \in DOMAIN files : j # i => files'[j] = files[j]
  <2>1. /\ files' \in Seq(File) /\ Len(files') = Len(files)
        /\ \A j \in 1 .. Len(files) : files'[j] = IF j = i THEN f ELSE files[j]
    BY <1>1, ExceptSeq
  <2>2. DOMAIN files' = 1 .. Len(files')
    BY <2>1, LenProperties
  <2> QED BY <1>1, <2>1, <2>2
<1>3. \A j \in DOMAIN files : /\ files'[j].lines = files[j].lines
                             /\ files[j].synced <= files'[j].synced /\ Sound(files'[j])
  BY <1>1, <1>2 DEF FilesSound
<1> QED BY <1>2, <1>3 DEF SameLines

LEMMA AddFile ==
    ASSUME TypeOK, FilesSound, files' = Append(files, EmptyFile)
    PROVE  /\ SameLines /\ Len(files') = Len(files) + 1 /\ files'[Len(files) + 1] = EmptyFile
           /\ DOMAIN files' = 1 .. (Len(files) + 1)
<1>1. files \in Seq(File) /\ Len(files) \in Nat /\ DOMAIN files = 1 .. Len(files)
      /\ \A j \in DOMAIN files : files[j] \in File /\ files[j].synced \in Nat
  BY FilesType, FileFields DEF TypeOK
<1>2. /\ files' \in Seq(File) /\ Len(files') = Len(files) + 1
      /\ files'[Len(files) + 1] = EmptyFile
      /\ \A j \in 1 .. Len(files) : files'[j] = files[j]
  BY <1>1, EmptyFileSound
<1>3. DOMAIN files' = 1 .. (Len(files) + 1)
  BY <1>2, LenProperties
<1>4. \A j \in DOMAIN files' : j \in DOMAIN files \/ j = Len(files) + 1
  BY <1>1, <1>3
<1>5. \A j \in DOMAIN files : j \in DOMAIN files' /\ files'[j] = files[j]
  BY <1>1, <1>2, <1>3
<1>6. \A j \in DOMAIN files' : Sound(files'[j]) /\ (j \in DOMAIN files \/ files'[j] = EmptyFile)
  BY <1>2, <1>4, <1>5, EmptyFileSound DEF FilesSound
<1> QED BY <1>1, <1>2, <1>3, <1>5, <1>6 DEF SameLines

\* Such a step keeps what is said of lines and of reported events.
LEMMA SameLinesKeep ==
    ASSUME Inv, SameLines, acked' = acked
    PROVE  /\ FilesSound' /\ AckedSynced' /\ AckedKept' /\ AckedOrdered'
           /\ \A e : Recorded(e)' => Recorded(e)
           /\ \A i \in DOMAIN files' :
                 HoldsAcked(files[i])' => i \in DOMAIN files /\ HoldsAcked(files[i])
           /\ Len(files') \in Nat /\ Len(files) <= Len(files') /\ DOMAIN files' = 1 .. Len(files')
<1>1. TypeOK
  BY DEF Inv
<1>2. /\ Len(files) \in Nat /\ DOMAIN files = 1 .. Len(files)
      /\ Len(files') \in Nat /\ DOMAIN files' = 1 .. Len(files')
      /\ \A i \in DOMAIN files' : files'[i] \in File
      /\ \A i \in DOMAIN files : files[i] \in File
  BY <1>1, FilesType, LenProperties, ElementOfSeq DEF SameLines
<1>3. \A i \in DOMAIN files : /\ files[i].synced \in Nat /\ Len(files[i].lines) \in Nat
                             /\ DOMAIN files[i].lines = 1 .. Len(files[i].lines)
                             /\ files'[i].synced \in Nat /\ files'[i].synced <= Len(files[i].lines)
  BY <1>2, FileFields DEF SameLines, Sound
<1>4. \A i \in DOMAIN files' : \A k \in DOMAIN files'[i].lines :
        i \in DOMAIN files /\ k \in DOMAIN files[i].lines /\ files'[i].lines[k] = files[i].lines[k]
  BY EmptyFileSound DEF SameLines
<1>5. FilesSound'
  BY DEF SameLines, FilesSound
<1>6. AckedSynced'
  <2> SUFFICES ASSUME NEW i \in DOMAIN files', NEW k \in DOMAIN files'[i].lines,
                      IsAcked(files[i].lines[k])'
               PROVE  k <= files'[i].synced
    BY DEF AckedSynced
  <2>1. i \in DOMAIN files /\ k \in DOMAIN files[i].lines /\ IsAcked(files[i].lines[k])
    BY <1>4 DEF IsAcked
  <2>2. k <= files[i].synced
    BY <2>1 DEF Inv, AckedSynced
  <2>3. files[i].synced <= files'[i].synced
    BY <2>1 DEF SameLines
  <2> QED BY <1>3, <2>1, <2>2, <2>3
<1>7. AckedKept'
  BY DEF Inv, AckedKept, SameLines
<1>8. AckedOrdered'
  BY <1>4 DEF Inv, AckedOrdered, Before
<1>9. \A e : Recorded(e)' => Recorded(e)
  BY <1>4 DEF Recorded
<1>10. ASSUME NEW i \in DOMAIN files', HoldsAcked(files[i])'
       PROVE  i \in DOMAIN files /\ HoldsAcked(files[i])
  <2>1. PICK k \in 1 .. files'[i].synced : IsAcked(files[i].lines[k])'
    BY <1>10 DEF HoldsAcked
  <2>2. k \in DOMAIN files'[i].lines
    <3>1. files'[i].synced \in Nat /\ Len(files'[i].lines) \in Nat
          /\ DOMAIN files'[i].lines = 1 .. Len(files'[i].lines) /\ files'[i].synced <= Len(files'[i].lines)
      BY <1>2, FileFields DEF SameLines, Sound
    <3> QED BY <3>1
  <2>3. i \in DOMAIN files /\ k \in DOMAIN files[i].lines /\ IsAcked(files[i].lines[k])
    BY <1>4, <2>1, <2>2 DEF IsAcked
  <2>4. k <= files[i].synced
    BY <2>3 DEF Inv, AckedSynced
  <2>5. k \in 1 .. files[i].synced
    BY <1>3, <2>3, <2>4
  <2> QED BY <2>3, <2>5 DEF HoldsAcked
<1>11. Len(files) <= Len(files')
  <2>1. Len(files) # 0 => Len(files) \in DOMAIN files'
    BY <1>2 DEF SameLines
  <2> QED BY <1>2, <2>1
<1> QED BY <1>2, <1>5, <1>6, <1>7, <1>8, <1>9, <1>10, <1>11

\* A directory that may join the ones a host crash leaves.
Fits(d) ==
    /\ d \in Directory
    /\ \A n \in Names : d[n] \in 0 .. Len(files')
    /\ \A n, m \in Names : n < m /\ d[n] # 0 /\ d[m] # 0 => d[m] < d[n]
    /\ \A i \in DOMAIN files : HoldsAcked(files[i]) => Dropped(d, i) \/ \E n \in Names : d[n] = i

LEMMA DirectoriesKeep ==
    ASSUME Inv, SameLines, acked' = acked, dir' \in dirImages',
           \A d \in dirImages' : d \in dirImages \/ Fits(d)
    PROVE  DirectoriesOrderly' /\ OldestDropped' /\ dirImages' \subseteq Directory /\ dir' \in Directory
<1>1. /\ \A i \in DOMAIN files' :
            HoldsAcked(files[i])' => i \in DOMAIN files /\ HoldsAcked(files[i])
      /\ Len(files') \in Nat /\ Len(files) <= Len(files') /\ Len(files) \in Nat
  BY SameLinesKeep, FilesType DEF Inv
<1>2. ASSUME NEW d \in dirImages' PROVE Orderly(d)' /\ d \in Directory
  <2>1. CASE d \in dirImages
    <3>1. Orderly(d) /\ d \in Directory
      BY <2>1 DEF Inv, DirectoriesOrderly, TypeOK
    <3> QED BY <1>1, <3>1 DEF Orderly
  <2>2. CASE Fits(d)
    BY <2>2 DEF Fits, Orderly
  <2> QED BY <2>1, <2>2
<1>3. ASSUME NEW d \in dirImages', NEW i \in DOMAIN files', HoldsAcked(files[i])'
      PROVE  Dropped(d, i) \/ \E n \in Names : d[n] = i
  <2>1. i \in DOMAIN files /\ HoldsAcked(files[i])
    BY <1>1, <1>3
  <2> QED BY <2>1 DEF Inv, OldestDropped, Fits
<1>4. OldestDropped'
  BY <1>3 DEF OldestDropped, Dropped
<1> QED BY <1>2, <1>4 DEF DirectoriesOrderly

\* What a process remembers stays true while lines are only added.
LEMMA TailsKeep ==
    ASSUME Inv, NEW s \in Sinks,
           \A i \in DOMAIN files :
              /\ i \in DOMAIN files' /\ Len(files[i].lines) <= Len(files'[i].lines)
              /\ Len(files'[i].lines) \in Nat
              /\ \A k \in DOMAIN files[i].lines : files'[i].lines[k] = files[i].lines[k],
           held'[s] = 0 \/ (held'[s] = held[s] /\ size'[s] = size[s] /\ lastHash'[s] = lastHash[s])
    PROVE  Remembers(s)'
<1>1. CASE held'[s] = 0
  BY <1>1 DEF Remembers
<1>2. CASE held[s] # 0 /\ held'[s] = held[s] /\ size'[s] = size[s] /\ lastHash'[s] = lastHash[s]
  <2>1. Remembers(s) /\ size[s] \in Nat
    BY DEF Inv, TailsRemembered, TypeOK
  <2>2. held[s] \in DOMAIN files
    BY <1>2, <2>1 DEF Remembers
  <2>3. Len(files[held[s]].lines) \in Nat
        /\ DOMAIN files[held[s]].lines = 1 .. Len(files[held[s]].lines)
    BY <2>2, FilesType, FileFields DEF Inv
  <2>4. size[s] # 0 => size[s] \in DOMAIN files[held[s]].lines
    BY <1>2, <2>1, <2>3 DEF Remembers
  <2>5. /\ held[s] \in DOMAIN files' /\ size[s] <= Len(files'[held[s]].lines)
        /\ size[s] # 0 => files'[held[s]].lines[size[s]] = files[held[s]].lines[size[s]]
    BY <1>2, <2>1, <2>2, <2>3, <2>4 DEF Remembers
  <2> QED BY <1>2, <2>1, <2>5 DEF Remembers
<1> QED BY <1>1, <1>2

LEMMA TailsSame ==
    ASSUME Inv, SameLines, NEW s \in Sinks,
           held'[s] = 0 \/ (held'[s] = held[s] /\ size'[s] = size[s] /\ lastHash'[s] = lastHash[s])
    PROVE  Remembers(s)'
<1>1. \A i \in DOMAIN files :
         /\ i \in DOMAIN files' /\ Len(files[i].lines) <= Len(files'[i].lines)
         /\ Len(files'[i].lines) \in Nat
         /\ \A k \in DOMAIN files[i].lines : files'[i].lines[k] = files[i].lines[k]
  BY FilesType, FileFields DEF SameLines, Inv
<1> QED BY <1>1, TailsKeep

\* Opening and refreshing: the sink knows the end of the journal.
LEMMA FollowKnows ==
    ASSUME Inv, NEW s \in Sinks, dir[0] # 0,
           files' = [files EXCEPT ![dir[0]] = Healed(@)], Follow(s)
    PROVE  /\ SameLines /\ Len(files') = Len(files) /\ DOMAIN files' = DOMAIN files
           /\ TailsRemembered' /\ dir[0] \in DOMAIN files /\ ~ files'[dir[0]].torn
           /\ held'[s] = dir[0] /\ size'[s] = Len(files'[dir[0]].lines)
           /\ held' \in [Sinks -> Nat] /\ size' \in [Sinks -> Nat]
           /\ lastHash' \in [Sinks -> Events \cup {None}]
<1>1. TypeOK /\ FilesSound /\ dir \in Directory /\ Orderly(dir)
  BY DEF Inv, DirectoriesOrderly, TypeOK
<1>2. dir[0] \in DOMAIN files /\ dir[0] \in Nat
  BY <1>1, FilesType, Constants DEF Orderly
<1>3. Active \in File /\ Sound(Active)
  BY <1>1, <1>2, FilesType DEF Active, FilesSound
<1>4. Healed(Active) \in File /\ Sound(Healed(Active)) /\ Healed(Active).lines = Active.lines
      /\ ~ Healed(Active).torn /\ Active.synced <= Healed(Active).synced
  BY <1>3, HealedSound
<1>5. files' = [files EXCEPT ![dir[0]] = Healed(Active)]
  BY DEF Active
<1>6. /\ SameLines /\ Len(files') = Len(files) /\ DOMAIN files' = DOMAIN files
      /\ files'[dir[0]] = Healed(Active)
  BY <1>1, <1>2, <1>4, <1>5, SetFile DEF Active
<1>7. Len(Active.lines) \in Nat /\ ChainHead(Active) \in Events \cup {None}
      /\ ChainHead(Active) = IF Len(Active.lines) = 0 THEN None ELSE Active.lines[Len(Active.lines)].ev
  BY <1>3, FileFields, ChainHeadIs
<1>8. /\ held' = [held EXCEPT ![s] = dir[0]]
      /\ lastHash' = [lastHash EXCEPT ![s] = ChainHead(Active)]
      /\ size' = [size EXCEPT ![s] = Len(Active.lines)]
  BY DEF Follow
<1>9. /\ held' \in [Sinks -> Nat] /\ size' \in [Sinks -> Nat]
      /\ lastHash' \in [Sinks -> Events \cup {None}]
      /\ held'[s] = dir[0] /\ size'[s] = Len(Active.lines) /\ lastHash'[s] = ChainHead(Active)
  BY <1>1, <1>2, <1>7, <1>8 DEF TypeOK
<1>10. Remembers(s)'
  BY <1>2, <1>4, <1>6, <1>7, <1>9 DEF Remembers
<1>11. ASSUME NEW r \in Sinks, r # s PROVE Remembers(r)'
  <2>1. held'[r] = held[r] /\ size'[r] = size[r] /\ lastHash'[r] = lastHash[r]
    BY <1>1, <1>8, <1>11 DEF TypeOK
  <2> QED BY <1>6, <2>1, TailsSame
<1> QED BY <1>2, <1>4, <1>6, <1>9, <1>10, <1>11 DEF TailsRemembered

LEMMA OpenExistingInv ==
    ASSUME Inv, NEW s \in Sinks, OpenExisting(s)
    PROVE  Inv'
<1>1. /\ dir[0] # 0 /\ pc = "unlocked" /\ files' = [files EXCEPT ![dir[0]] = Healed(@)] /\ Follow(s)
      /\ sink' = [sink EXCEPT ![s] = "ready"]
      /\ UNCHANGED <<dir, dirImages, holder, pc, shift, event, acked>>
  BY DEF OpenExisting, callVars
<1>2. /\ SameLines /\ TailsRemembered'
      /\ held' \in [Sinks -> Nat] /\ size' \in [Sinks -> Nat]
      /\ lastHash' \in [Sinks -> Events \cup {None}]
  BY <1>1, FollowKnows
<1>3. FilesSound' /\ AckedSynced' /\ AckedKept' /\ AckedOrdered'
  BY <1>1, <1>2, SameLinesKeep
<1>4. DirectoriesOrderly' /\ OldestDropped'
  BY <1>1, <1>2, DirectoriesKeep DEF Inv, DirectoriesOrderly
<1>5. TypeOK'
  BY <1>1, <1>2 DEF Inv, TypeOK, SameLines
<1>6. RotationValid' /\ AppendValid' /\ LockValid'
  BY <1>1 DEF Inv, RotationValid, AppendValid, LockValid
<1> QED BY <1>2, <1>3, <1>4, <1>5, <1>6 DEF Inv

LEMMA DirectoryFacts ==
    ASSUME Inv
    PROVE  /\ dir \in [Names -> Nat] /\ Len(files) \in Nat /\ DOMAIN files = 1 .. Len(files)
           /\ \A n \in Names : dir[n] \in 0 .. Len(files)
           /\ \A n, m \in Names : n < m /\ dir[n] # 0 /\ dir[m] # 0 => dir[m] < dir[n]
           /\ 0 \in Names /\ Names \subseteq Nat /\ MaxBackups \in Names
           /\ MaxBackups \in Nat /\ (MaxBackups >= 1 => 1 \in Names)
<1>1. dir \in [Names -> Nat]
  BY DEF Inv, TypeOK, Directory, Names
<1>2. Len(files) \in Nat /\ DOMAIN files = 1 .. Len(files)
  BY FilesType DEF Inv
<1>3. Orderly(dir)
  BY DEF Inv, DirectoriesOrderly
<1>4. 0 \in Names /\ Names \subseteq Nat /\ MaxBackups \in Names
      /\ MaxBackups \in Nat /\ (MaxBackups >= 1 => 1 \in Names)
  BY Constants DEF Names
<1> QED BY <1>1, <1>2, <1>3, <1>4 DEF Orderly

\* A directory gets a new file as its journal, which it did not have.
LEMMA JournalFits ==
    ASSUME Inv, dir[0] = 0, Len(files') = Len(files) + 1,
           NEW d, d = [dir EXCEPT ![0] = Len(files) + 1]
    PROVE  Fits(d)
<1>1. /\ dir \in [Names -> Nat] /\ Len(files) \in Nat /\ DOMAIN files = 1 .. Len(files)
      /\ \A n \in Names : dir[n] \in 0 .. Len(files)
      /\ \A n, m \in Names : n < m /\ dir[n] # 0 /\ dir[m] # 0 => dir[m] < dir[n]
      /\ 0 \in Names /\ Names \subseteq Nat /\ MaxBackups \in Names
      /\ MaxBackups \in Nat /\ (MaxBackups >= 1 => 1 \in Names)
  BY DirectoryFacts
<1>2. d[0] = Len(files) + 1 /\ \A n \in Names : n # 0 => d[n] = dir[n]
  BY <1>1
<1>3. d \in Directory
  BY <1>1 DEF Directory, Names
<1>4. \A n \in Names : d[n] \in 0 .. Len(files')
  BY <1>1, <1>2
<1>5. ASSUME NEW n \in Names, NEW m \in Names, n < m, d[n] # 0, d[m] # 0
      PROVE  d[m] < d[n]
  <2>1. m # 0 /\ d[m] = dir[m]
    BY <1>1, <1>2, <1>5
  <2> QED BY <1>1, <1>2, <1>5, <2>1
<1>6. ASSUME NEW i \in DOMAIN files, HoldsAcked(files[i])
      PROVE  Dropped(d, i) \/ \E n \in Names : d[n] = i
  <2>1. CASE \E n \in Names : dir[n] = i
    BY <1>1, <1>2, <2>1
  <2>2. CASE Dropped(dir, i)
    <3>1. \A n \in Names : d[n] # 0 => i < d[n]
      BY <1>1, <1>2, <2>2 DEF Dropped
    <3>2. MaxBackups >= 2 => d[MaxBackups] # 0
      BY <1>1, <1>2, <2>2 DEF Dropped
    <3>3. MaxBackups = 1 => d[0] # 0 \/ d[1] # 0
      BY <1>1, <1>2
    <3> QED BY <3>1, <3>2, <3>3 DEF Dropped
  <2> QED BY <1>6, <2>1, <2>2 DEF Inv, OldestDropped, DirectoriesOrderly
<1> QED BY <1>3, <1>4, <1>5, <1>6 DEF Fits

LEMMA OpenNewInv ==
    ASSUME Inv, NEW s \in Sinks, OpenNew(s)
    PROVE  Inv'
<1> DEFINE d == [dir EXCEPT ![0] = Len(files) + 1]
<1>1. /\ dir[0] = 0 /\ pc = "unlocked" /\ files' = Append(files, EmptyFile)
      /\ dir' = d /\ dirImages' = dirImages \cup {d}
      /\ held' = [held EXCEPT ![s] = Len(files) + 1]
      /\ lastHash' = [lastHash EXCEPT ![s] = None] /\ size' = [size EXCEPT ![s] = 0]
      /\ sink' = [sink EXCEPT ![s] = "ready"]
      /\ UNCHANGED <<holder, pc, shift, event, acked>>
  BY DEF OpenNew, SetDirectory, callVars
<1>2. /\ SameLines /\ Len(files') = Len(files) + 1 /\ files'[Len(files) + 1] = EmptyFile
      /\ Len(files) + 1 \in DOMAIN files' /\ Len(files) \in Nat
  BY <1>1, AddFile, FilesType DEF Inv
<1>3. FilesSound' /\ AckedSynced' /\ AckedKept' /\ AckedOrdered'
  BY <1>1, <1>2, SameLinesKeep
<1>4. DirectoriesOrderly' /\ OldestDropped' /\ dirImages' \subseteq Directory /\ dir' \in Directory
  <2>1. Fits(d)
    BY <1>1, <1>2, JournalFits
  <2> HIDE DEF d
  <2> QED BY <1>1, <1>2, <2>1, DirectoriesKeep
<1>5. TypeOK'
  BY <1>1, <1>2, <1>4 DEF Inv, TypeOK, SameLines
<1>6. RotationValid' /\ AppendValid' /\ LockValid'
  BY <1>1 DEF Inv, RotationValid, AppendValid, LockValid
<1>7. ASSUME NEW r \in Sinks PROVE Remembers(r)'
  <2>1. CASE r = s
    <3>1. held'[s] = Len(files) + 1 /\ size'[s] = 0 /\ lastHash'[s] = None
      BY <1>1 DEF Inv, TypeOK
    <3>2. held'[s] \in DOMAIN files' /\ size'[s] <= Len(files'[held'[s]].lines)
      BY <1>2, <3>1, EmptyFileSound
    <3> QED BY <2>1, <3>1, <3>2 DEF Remembers
  <2>2. CASE r # s
    <3>1. held'[r] = held[r] /\ size'[r] = size[r] /\ lastHash'[r] = lastHash[r]
      BY <1>1, <2>2 DEF Inv, TypeOK
    <3> QED BY <1>2, <3>1, TailsSame
  <2> QED BY <2>1, <2>2
<1> QED BY <1>3, <1>4, <1>5, <1>6, <1>7 DEF Inv, TailsRemembered

LEMMA RefreshKnows ==
    ASSUME Inv, NEW s \in Sinks, dir[0] # 0, Refresh(s)
    PROVE  /\ SameLines /\ TailsRemembered' /\ dir[0] \in DOMAIN files /\ ~ files'[dir[0]].torn
           /\ held'[s] = dir[0] /\ size'[s] = Len(files'[dir[0]].lines)
           /\ held' \in [Sinks -> Nat] /\ size' \in [Sinks -> Nat]
           /\ lastHash' \in [Sinks -> Events \cup {None}]
<1>1. CASE Current(s)
  <2>1. UNCHANGED <<files, held, lastHash, size>>
    BY <1>1 DEF Refresh
  <2>2. SameLines
    BY <2>1, KeepFiles DEF Inv
  <2>3. TailsRemembered'
    BY <2>1, <2>2, TailsSame DEF TailsRemembered
  <2>4. dir[0] \in DOMAIN files
    BY FilesType, Constants DEF Inv, DirectoriesOrderly, Orderly
  <2> QED BY <1>1, <2>1, <2>2, <2>3, <2>4 DEF Current, Active, Inv, TypeOK
<1>2. CASE ~ Current(s)
  BY <1>2, FollowKnows DEF Refresh
<1> QED BY <1>1, <1>2

LEMMA BeginWriteInv ==
    ASSUME Inv, NEW s \in Sinks, NEW e \in Events, BeginWrite(s, e)
    PROVE  Inv'
<1>1. /\ dir[0] # 0 /\ pc = "unlocked" /\ sink[s] = "ready" /\ ~ Recorded(e) /\ Refresh(s)
      /\ \/ pc' = "shift" /\ shift' = MaxBackups
         \/ pc' = "write" /\ shift' = 0
      /\ holder' = s /\ event' = e
      /\ UNCHANGED <<dir, dirImages, sink, acked>>
  BY DEF BeginWrite
<1>2. /\ SameLines /\ TailsRemembered' /\ ~ files'[dir[0]].torn
      /\ held'[s] = dir[0] /\ size'[s] = Len(files'[dir[0]].lines)
      /\ held' \in [Sinks -> Nat] /\ size' \in [Sinks -> Nat]
      /\ lastHash' \in [Sinks -> Events \cup {None}]
  BY <1>1, RefreshKnows
<1>3. FilesSound' /\ AckedSynced' /\ AckedKept' /\ AckedOrdered' /\ ~ Recorded(e)'
  BY <1>1, <1>2, SameLinesKeep
<1>4. DirectoriesOrderly' /\ OldestDropped'
  BY <1>1, <1>2, DirectoriesKeep DEF Inv, DirectoriesOrderly
<1>5. TypeOK'
  <2>1. shift' \in 0 .. MaxBackups
    BY <1>1, Constants
  <2> QED BY <1>1, <1>2, <2>1 DEF Inv, TypeOK, SameLines
<1>6. RotationValid'
  BY <1>1, Constants DEF RotationValid
<1>7. AppendValid'
  BY <1>1, <1>2 DEF AppendValid, Active
<1>8. LockValid'
  BY <1>1, <1>3, Constants DEF LockValid, Recorded
<1> QED BY <1>2, <1>3, <1>4, <1>5, <1>6, <1>7, <1>8 DEF Inv

-----------------------------------------------------------------------------
(* Steps that give up the lock. *)

LEMMA ReleaseInv ==
    ASSUME Inv, NEW s \in Sinks, SameLines, acked' = acked, dir' \in dirImages',
           \A d \in dirImages' : d \in dirImages \/ Fits(d),
           Forget(s), Unlock, sink' \in [Sinks -> {"closed", "ready", "failed"}]
    PROVE  Inv'
<1>1. /\ held' = [held EXCEPT ![s] = 0]
      /\ lastHash' = [lastHash EXCEPT ![s] = None] /\ size' = [size EXCEPT ![s] = 0]
      /\ holder' = Nothing /\ pc' = "unlocked" /\ shift' = 0 /\ event' = None
  BY DEF Forget, Unlock
<1>2. FilesSound' /\ AckedSynced' /\ AckedKept' /\ AckedOrdered'
  BY SameLinesKeep
<1>3. DirectoriesOrderly' /\ OldestDropped' /\ dirImages' \subseteq Directory /\ dir' \in Directory
  BY DirectoriesKeep
<1>4. TypeOK'
  <2>1. 0 \in 0 .. MaxBackups
    BY Constants
  <2> QED BY <1>1, <1>3, <2>1 DEF Inv, TypeOK, SameLines
<1>5. RotationValid' /\ AppendValid' /\ LockValid'
  BY <1>1 DEF RotationValid, AppendValid, LockValid
<1>6. ASSUME NEW r \in Sinks PROVE Remembers(r)'
  <2>1. held'[r] = 0 \/ (held'[r] = held[r] /\ size'[r] = size[r] /\ lastHash'[r] = lastHash[r])
    BY <1>1 DEF Inv, TypeOK
  <2> QED BY <2>1, TailsSame
<1> QED BY <1>2, <1>3, <1>4, <1>5, <1>6 DEF Inv, TailsRemembered

LEMMA LatchInv ==
    ASSUME Inv, NEW s \in Sinks, SameLines, acked' = acked, dir' \in dirImages',
           \A d \in dirImages' : d \in dirImages \/ Fits(d), Latch(s)
    PROVE  Inv'
<1>1. sink' \in [Sinks -> {"closed", "ready", "failed"}]
  BY DEF Latch, Inv, TypeOK
<1> QED BY <1>1, ReleaseInv DEF Latch

LEMMA HolderActs ==
    ASSUME Inv, pc # "unlocked"
    PROVE  holder \in Sinks /\ event \in Events
  BY DEF Inv, TypeOK, LockValid

LEMMA FailuresInv ==
    ASSUME Inv,
           \/ \E s \in Sinks : BeginWriteFails(s)
           \/ RotationFails \/ RotationSyncFails \/ SyncLineFails
    PROVE  Inv'
<1>1. PICK s \in Sinks : Latch(s)
  BY HolderActs DEF BeginWriteFails, RotationFails, RotationSyncFails, SyncLineFails
<1>2. /\ files' = files /\ dir' = dir /\ acked' = acked
      /\ dirImages' = dirImages \/ dirImages' = {dir}
  BY DEF BeginWriteFails, RotationFails, RotationSyncFails, SyncLineFails, diskVars
<1>3. dir' \in dirImages' /\ dirImages' \subseteq dirImages
  BY <1>2 DEF Inv, DirectoriesOrderly
<1>4. SameLines
  BY <1>2, KeepFiles DEF Inv
<1> QED BY <1>1, <1>2, <1>3, <1>4, LatchInv

LEMMA WriteLineFailsInv ==
    ASSUME Inv, WriteLineFails
    PROVE  Inv'
<1>1. /\ pc = "write" /\ Latch(holder) /\ UNCHANGED <<dir, dirImages, acked>>
      /\ files' = files \/ files' = [files EXCEPT ![held[holder]].torn = TRUE]
  BY DEF WriteLineFails
<1>2. held[holder] \in DOMAIN files /\ holder \in Sinks
  BY <1>1, HolderActs DEF Inv, AppendValid, TailsRemembered, Remembers
<1>3. SameLines
  <2>1. CASE files' = files
    BY <2>1, KeepFiles DEF Inv
  <2>2. CASE files' = [files EXCEPT ![held[holder]].torn = TRUE]
    <3> DEFINE f == files[held[holder]]
               g == [f EXCEPT !.torn = TRUE]
    <3>1. f \in File /\ Sound(f)
      BY <1>2, FilesType DEF Inv, FilesSound
    <3>2. g \in File /\ g.lines = f.lines /\ g.synced = f.synced /\ f.synced \in Nat
      BY <3>1 DEF File
    <3>3. Sound(g) /\ f.synced <= g.synced
      BY <3>1, <3>2 DEF Sound
    <3>4. files' = [files EXCEPT ![held[holder]] = g]
      BY <2>2
    <3> HIDE DEF g
    <3> QED BY <1>2, <3>2, <3>3, <3>4, SetFile DEF Inv
  <2> QED BY <1>1, <2>1, <2>2
<1> QED BY <1>1, <1>2, <1>3, LatchInv DEF Inv, DirectoriesOrderly

\* .1 gives the journal its name back: nothing is dropped by that.
LEMMA RestoreFits ==
    ASSUME Inv, MaxBackups > 0, dir[0] = 0, Len(files') \in Nat, Len(files) <= Len(files'),
           NEW d, d = [dir EXCEPT ![0] = dir[1], ![1] = 0]
    PROVE  Fits(d)
<1>1. /\ dir \in [Names -> Nat] /\ Len(files) \in Nat /\ DOMAIN files = 1 .. Len(files)
      /\ \A n \in Names : dir[n] \in 0 .. Len(files)
      /\ \A n, m \in Names : n < m /\ dir[n] # 0 /\ dir[m] # 0 => dir[m] < dir[n]
      /\ 0 \in Names /\ Names \subseteq Nat /\ MaxBackups \in Names
      /\ MaxBackups \in Nat /\ 1 \in Names
  BY DirectoryFacts
<1>2. d[0] = dir[1] /\ d[1] = 0 /\ d \in [Names -> Nat]
      /\ \A n \in Names : n # 0 /\ n # 1 => d[n] = dir[n]
  BY <1>1
<1>3. d \in Directory
  BY <1>2 DEF Directory, Names
<1>4. \A n \in Names : d[n] \in 0 .. Len(files')
  BY <1>1, <1>2
<1>5. ASSUME NEW n \in Names, NEW m \in Names, n < m, d[n] # 0, d[m] # 0
      PROVE  d[m] < d[n]
  <2>1. m # 0 /\ m # 1 /\ n # 1 /\ 1 < m
    BY <1>1, <1>2, <1>5
  <2> QED BY <1>1, <1>2, <1>5, <2>1
<1>6. ASSUME NEW i \in DOMAIN files, HoldsAcked(files[i])
      PROVE  Dropped(d, i) \/ \E n \in Names : d[n] = i
  <2>1. CASE \E n \in Names : dir[n] = i
    <3>1. PICK n \in Names : dir[n] = i
      BY <2>1
    <3>2. n # 0
      BY <1>1, <3>1
    <3> QED BY <1>1, <1>2, <3>1, <3>2
  <2>2. CASE Dropped(dir, i)
    <3>1. \A n \in Names : d[n] # 0 => i < d[n]
      BY <1>1, <1>2, <2>2 DEF Dropped
    <3>2. MaxBackups >= 2 => d[MaxBackups] # 0
      BY <1>1, <1>2, <2>2 DEF Dropped
    <3>3. MaxBackups = 1 => d[0] # 0
      BY <1>2, <2>2 DEF Dropped
    <3> QED BY <3>1, <3>2, <3>3 DEF Dropped
  <2> QED BY <1>6, <2>1, <2>2 DEF Inv, OldestDropped, DirectoriesOrderly
<1> QED BY <1>3, <1>4, <1>5, <1>6 DEF Fits

\* The fresh file could not be made.
LEMMA CreateFreshFailsInv ==
    ASSUME Inv, CreateFreshFails
    PROVE  Inv'
<1> DEFINE d == [dir EXCEPT ![0] = dir[1], ![1] = 0]
<1>1. /\ pc = "fresh" /\ Latch(holder) /\ UNCHANGED <<files, acked>>
      /\ \/ UNCHANGED <<dir, dirImages>>
         \/ MaxBackups > 0 /\ dir' = d /\ dirImages' \in {{d}, dirImages \cup {d}}
  BY DEF CreateFreshFails
<1>2. holder \in Sinks /\ SameLines /\ dir[0] = 0
  BY <1>1, HolderActs, KeepFiles DEF Inv, RotationValid
<1>3. ASSUME MaxBackups > 0 PROVE Fits(d)
  BY <1>1, <1>2, <1>3, RestoreFits, FilesType DEF Inv
<1>4. dir' \in dirImages' /\ \A x \in dirImages' : x \in dirImages \/ Fits(x)
  BY <1>1, <1>3 DEF Inv, DirectoriesOrderly
<1> QED BY <1>1, <1>2, <1>4, LatchInv

\* The fresh file was made and cannot be used: it stays, or .1 replaces it.
LEMMA FreshUnusableInv ==
    ASSUME Inv, FreshUnusable
    PROVE  Inv'
<1> DEFINE c == [dir EXCEPT ![0] = Len(files) + 1]
           d == [dir EXCEPT ![0] = dir[1], ![1] = 0]
<1>1. /\ pc = "fresh" /\ Latch(holder) /\ files' = Append(files, EmptyFile) /\ acked' = acked
      /\ \/ dir' = c /\ dirImages' = dirImages \cup {c}
         \/ MaxBackups > 0 /\ dir' = d /\ dirImages' \in {{d}, dirImages \cup {c, d}}
  BY DEF FreshUnusable, SetDirectory
<1>2. /\ holder \in Sinks /\ SameLines /\ dir[0] = 0
      /\ Len(files) \in Nat /\ Len(files') = Len(files) + 1
  BY <1>1, AddFile, FilesType, HolderActs DEF Inv, RotationValid
<1>3. Fits(c)
  BY <1>2, JournalFits
<1>4. ASSUME MaxBackups > 0 PROVE Fits(d)
  BY <1>2, <1>4, RestoreFits
<1> HIDE DEF c, d
<1>5. dir' \in dirImages' /\ \A x \in dirImages' : x \in dirImages \/ Fits(x)
  BY <1>1, <1>3, <1>4
<1> QED BY <1>1, <1>2, <1>5, LatchInv

LEMMA ProcessExitInv ==
    ASSUME Inv, NEW s \in Sinks, ProcessExit(s)
    PROVE  Inv'
<1>1. /\ sink' = [sink EXCEPT ![s] = "closed"] /\ Forget(s)
      /\ IF holder = s THEN Unlock ELSE UNCHANGED <<holder, pc, shift, event>>
      /\ UNCHANGED <<files, dir, dirImages, acked>>
  BY DEF ProcessExit, callVars, diskVars
<1>2. SameLines
  BY <1>1, KeepFiles DEF Inv
<1>3. CASE holder = s
  <2>1. sink' \in [Sinks -> {"closed", "ready", "failed"}]
    BY <1>1 DEF Inv, TypeOK
  <2> QED BY <1>1, <1>2, <1>3, <2>1, ReleaseInv DEF Inv, DirectoriesOrderly
<1>4. CASE holder # s
  <2>1. /\ held' = [held EXCEPT ![s] = 0]
        /\ lastHash' = [lastHash EXCEPT ![s] = None] /\ size' = [size EXCEPT ![s] = 0]
        /\ UNCHANGED <<holder, pc, shift, event>>
    BY <1>1, <1>4 DEF Forget
  <2>2. TypeOK'
    BY <1>1, <2>1 DEF Inv, TypeOK
  <2>3. TailsRemembered'
    <3>1. ASSUME NEW r \in Sinks
          PROVE  held'[r] = 0 \/ (held'[r] = held[r] /\ size'[r] = size[r] /\ lastHash'[r] = lastHash[r])
      BY <2>1 DEF Inv, TypeOK
    <3> QED BY <1>2, <3>1, TailsSame DEF TailsRemembered
  <2>4. AppendValid'
    <3>1. pc # "unlocked" => held'[holder] = held[holder] /\ size'[holder] = size[holder]
      BY <1>4, <2>1, HolderActs DEF Inv, TypeOK
    <3> QED BY <1>1, <2>1, <3>1 DEF Inv, AppendValid, Active
  <2>5. FilesSound' /\ AckedSynced' /\ AckedKept' /\ AckedOrdered'
    BY <1>1, <1>2, SameLinesKeep
  <2>6. DirectoriesOrderly' /\ OldestDropped'
    BY <1>1, <1>2, DirectoriesKeep DEF Inv, DirectoriesOrderly
  <2>7. RotationValid' /\ LockValid'
    BY <1>1, <2>1 DEF Inv, RotationValid, LockValid, Recorded
  <2> QED BY <2>2, <2>3, <2>4, <2>5, <2>6, <2>7 DEF Inv
<1> QED BY <1>3, <1>4

-----------------------------------------------------------------------------
(* The rotation. *)

\* A file takes the name above its own.  Only the oldest backup is overwritten.
LEMMA MoveFits ==
    ASSUME Inv, files' = files, NEW p \in 1 .. MaxBackups, dir[p - 1] # 0,
           p < MaxBackups => dir[p] = 0,
           NEW d, d = [dir EXCEPT ![p] = dir[p - 1], ![p - 1] = 0]
    PROVE  Fits(d)
<1>1. /\ dir \in [Names -> Nat] /\ Len(files) \in Nat /\ DOMAIN files = 1 .. Len(files)
      /\ \A n \in Names : dir[n] \in 0 .. Len(files)
      /\ \A n, m \in Names : n < m /\ dir[n] # 0 /\ dir[m] # 0 => dir[m] < dir[n]
      /\ 0 \in Names /\ Names \subseteq Nat /\ MaxBackups \in Names /\ MaxBackups \in Nat
  BY DirectoryFacts
<1>2. p \in Names /\ p - 1 \in Names /\ p \in Nat /\ p - 1 # p
  BY <1>1 DEF Names
<1>3. d \in [Names -> Nat] /\ d[p] = dir[p - 1] /\ d[p - 1] = 0
      /\ \A n \in Names : n # p /\ n # p - 1 => d[n] = dir[n]
  BY <1>1, <1>2
<1>4. d \in Directory
  BY <1>3 DEF Directory, Names
<1>5. \A n \in Names : d[n] \in 0 .. Len(files')
  BY <1>1, <1>2, <1>3
<1>6. ASSUME NEW n \in Names, NEW m \in Names, n < m, d[n] # 0, d[m] # 0
      PROVE  d[m] < d[n]
  <2>1. n # p - 1 /\ m # p - 1 /\ n \in Nat /\ m \in Nat
    BY <1>1, <1>3, <1>6
  <2>2. CASE n = p
    <3>1. d[n] = dir[p - 1] /\ d[m] = dir[m] /\ p - 1 < m
      BY <1>2, <1>3, <1>6, <2>1, <2>2
    <3> QED BY <1>1, <1>2, <1>6, <3>1
  <2>3. CASE m = p
    <3>1. d[m] = dir[p - 1] /\ d[n] = dir[n] /\ n < p - 1
      BY <1>2, <1>3, <1>6, <2>1, <2>3
    <3> QED BY <1>1, <1>2, <1>6, <3>1
  <2>4. CASE n # p /\ m # p
    BY <1>1, <1>3, <1>6, <2>1, <2>4
  <2> QED BY <2>2, <2>3, <2>4
<1>7. ASSUME NEW i \in DOMAIN files, HoldsAcked(files[i])
      PROVE  Dropped(d, i) \/ \E n \in Names : d[n] = i
  <2>1. CASE \E n \in Names : dir[n] = i /\ n # p
    BY <1>2, <1>3, <2>1
  <2>2. CASE dir[p] = i
    <3>1. p = MaxBackups /\ i # 0
      BY <1>1, <1>2, <2>2
    <3>2. ASSUME NEW n \in Names, d[n] # 0 PROVE i < d[n]
      <4>1. n # p - 1
        BY <1>3, <3>2
      <4>2. CASE n = p
        <5>1. d[n] = dir[p - 1] /\ p - 1 < p
          BY <1>2, <1>3, <4>2
        <5> QED BY <1>1, <1>2, <2>2, <3>1, <5>1
      <4>3. CASE n # p
        <5>1. d[n] = dir[n] /\ n < p
          BY <1>1, <1>2, <1>3, <3>1, <4>1, <4>3 DEF Names
        <5> QED BY <1>1, <1>2, <2>2, <3>1, <3>2, <5>1
      <4> QED BY <4>2, <4>3
    <3>3. d[MaxBackups] # 0
      BY <1>3, <3>1
    <3> QED BY <3>2, <3>3 DEF Dropped
  <2>3. CASE Dropped(dir, i)
    <3>1. \A n \in Names : d[n] # 0 => i < d[n]
      BY <1>2, <1>3, <2>3 DEF Dropped
    <3>2. MaxBackups >= 2 => d[MaxBackups] # 0
      <4>1. CASE p = MaxBackups
        BY <1>3, <4>1
      <4>2. CASE p # MaxBackups
        <5>1. MaxBackups # p - 1 /\ d[MaxBackups] = dir[MaxBackups]
          BY <1>1, <1>2, <1>3, <4>2
        <5> QED BY <2>3, <5>1 DEF Dropped
      <4> QED BY <4>1, <4>2
    <3>3. MaxBackups = 1 => d[1] # 0
      <4>1. MaxBackups = 1 => p = 1
        BY <1>2
      <4> QED BY <1>3, <4>1
    <3> QED BY <3>1, <3>2, <3>3 DEF Dropped
  <2> QED BY <1>7, <2>1, <2>2, <2>3 DEF Inv, OldestDropped, DirectoriesOrderly
<1> QED BY <1>4, <1>5, <1>6, <1>7 DEF Fits

\* Nothing of the active file is left when no backups are kept.
LEMMA DiscardFits ==
    ASSUME Inv, files' = files, MaxBackups = 0, NEW d, d = [dir EXCEPT ![0] = 0]
    PROVE  Fits(d)
<1>1. dir \in [Names -> Nat] /\ Len(files) \in Nat /\ Names = {0}
  BY DirectoryFacts DEF Names
<1>2. d \in [Names -> Nat] /\ \A n \in Names : d[n] = 0
  BY <1>1
<1>3. d \in Directory
  BY <1>2 DEF Directory, Names
<1>4. \A i : Dropped(d, i)
  BY <1>2 DEF Dropped
<1>5. \A n \in Names : d[n] \in 0 .. Len(files')
  BY <1>1, <1>2
<1> QED BY <1>2, <1>3, <1>4, <1>5 DEF Fits

\* A step that moves names only.
LEMMA RenameInv ==
    ASSUME Inv, pc = "shift", UNCHANGED <<files, sink, held, lastHash, size, holder, event, acked>>,
           dir' \in dirImages', \A d \in dirImages' : d \in dirImages \/ Fits(d),
           pc' \in {"shift", "fresh"}, shift' \in 0 .. MaxBackups, RotationValid'
    PROVE  Inv'
<1>1. SameLines
  BY KeepFiles DEF Inv
<1>2. FilesSound' /\ AckedSynced' /\ AckedKept' /\ AckedOrdered'
  BY <1>1, SameLinesKeep
<1>3. DirectoriesOrderly' /\ OldestDropped' /\ dirImages' \subseteq Directory /\ dir' \in Directory
  BY <1>1, DirectoriesKeep
<1>4. TypeOK'
  BY <1>3 DEF Inv, TypeOK
<1>5. TailsRemembered'
  BY <1>1, TailsSame DEF TailsRemembered
<1>6. AppendValid'
  BY DEF AppendValid
<1>7. LockValid'
  BY DEF Inv, LockValid, Recorded
<1> QED BY <1>2, <1>3, <1>4, <1>5, <1>6, <1>7 DEF Inv

LEMMA ShiftBackupInv ==
    ASSUME Inv, ShiftBackup
    PROVE  Inv'
<1> DEFINE d == [dir EXCEPT ![shift] = dir[shift - 1], ![shift - 1] = 0]
<1>1. /\ pc = "shift" /\ shift > 1 /\ shift' = shift - 1 /\ pc' = pc
      /\ IF dir[shift - 1] = 0 THEN UNCHANGED <<dir, dirImages>>
         ELSE dir' = d /\ dirImages' = dirImages \cup {d}
      /\ UNCHANGED <<files, sink, held, lastHash, size, holder, event, acked>>
  BY DEF ShiftBackup, SetDirectory, sinkVars
<1>2. /\ shift \in 1 .. MaxBackups /\ shift' \in 1 .. MaxBackups /\ MaxBackups \in Nat
      /\ dir \in [0 .. MaxBackups -> Nat] /\ dir \in dirImages
      /\ dir[0] # 0 /\ (shift < MaxBackups => dir[shift] = 0)
  BY <1>1, Constants DEF Inv, TypeOK, Directory, DirectoriesOrderly, RotationValid
<1>3. CASE dir[shift - 1] = 0
  <2>1. RotationValid'
    BY <1>1, <1>2, <1>3 DEF RotationValid
  <2> QED BY <1>1, <1>2, <1>3, <2>1, RenameInv
<1>4. CASE dir[shift - 1] # 0
  <2>1. Fits(d)
    BY <1>1, <1>2, <1>4, MoveFits
  <2>2. d[0] = dir[0] /\ d[shift - 1] = 0
    BY <1>1, <1>2
  <2>3. dir' = d /\ dirImages' = dirImages \cup {d}
    BY <1>1, <1>4
  <2> HIDE DEF d
  <2>4. RotationValid'
    BY <1>1, <1>2, <2>2, <2>3 DEF RotationValid
  <2> QED BY <1>1, <1>2, <2>1, <2>3, <2>4, RenameInv
<1> QED BY <1>3, <1>4

LEMMA RetireActiveInv ==
    ASSUME Inv, RetireActive
    PROVE  Inv'
<1> DEFINE d == IF MaxBackups = 0 THEN [dir EXCEPT ![0] = 0] ELSE [dir EXCEPT ![1] = dir[0], ![0] = 0]
<1>1. /\ pc = "shift" /\ shift <= 1 /\ pc' = "fresh" /\ shift' = shift
      /\ dir' = d /\ dirImages' = dirImages \cup {d}
      /\ UNCHANGED <<files, sink, held, lastHash, size, holder, event, acked>>
  BY DEF RetireActive, SetDirectory, sinkVars
<1>2. /\ MaxBackups \in Nat /\ dir \in [0 .. MaxBackups -> Nat] /\ shift \in 0 .. MaxBackups
      /\ dir[0] # 0 /\ (shift = 0 <=> MaxBackups = 0) /\ (shift < MaxBackups => dir[shift] = 0)
  BY <1>1, Constants DEF Inv, TypeOK, Directory, RotationValid
<1>3. Fits(d) /\ d[0] = 0
  <2>1. CASE MaxBackups = 0
    BY <1>1, <1>2, <2>1, DiscardFits
  <2>2. CASE MaxBackups # 0
    <3>1. 1 \in 1 .. MaxBackups /\ 1 - 1 = 0 /\ shift = 1 /\ (1 < MaxBackups => dir[1] = 0)
      BY <1>1, <1>2, <2>2
    <3>2. d = [dir EXCEPT ![1] = dir[1 - 1], ![1 - 1] = 0] /\ d[0] = 0
      BY <1>2, <2>2, <3>1
    <3> HIDE DEF d
    <3>3. dir[1 - 1] # 0
      BY <1>2, <3>1
    <3> QED BY <1>1, <3>1, <3>2, <3>3, MoveFits
  <2> QED BY <2>1, <2>2
<1> HIDE DEF d
<1>4. RotationValid'
  BY <1>1, <1>3 DEF RotationValid
<1> QED BY <1>1, <1>2, <1>3, <1>4, RenameInv

LEMMA CreateFreshInv ==
    ASSUME Inv, CreateFresh
    PROVE  Inv'
<1> DEFINE d == [dir EXCEPT ![0] = Len(files) + 1]
<1>1. /\ pc = "fresh" /\ pc' = "dirsync" /\ files' = Append(files, EmptyFile)
      /\ dir' = d /\ dirImages' = dirImages \cup {d}
      /\ held' = [held EXCEPT ![holder] = Len(files) + 1]
      /\ lastHash' = [lastHash EXCEPT ![holder] = None] /\ size' = [size EXCEPT ![holder] = 0]
      /\ UNCHANGED <<sink, holder, shift, event, acked>>
  BY DEF CreateFresh, SetDirectory
<1>2. /\ SameLines /\ Len(files') = Len(files) + 1 /\ files'[Len(files) + 1] = EmptyFile
      /\ Len(files) + 1 \in DOMAIN files' /\ Len(files) \in Nat
      /\ holder \in Sinks /\ dir[0] = 0
  BY <1>1, AddFile, FilesType, HolderActs DEF Inv, RotationValid
<1>3. FilesSound' /\ AckedSynced' /\ AckedKept' /\ AckedOrdered'
      /\ \A e : Recorded(e)' => Recorded(e)
  BY <1>1, <1>2, SameLinesKeep
<1>4. /\ DirectoriesOrderly' /\ OldestDropped' /\ dirImages' \subseteq Directory /\ dir' \in Directory
      /\ dir'[0] = Len(files) + 1
  <2>1. Fits(d) /\ d[0] = Len(files) + 1
    BY <1>1, <1>2, JournalFits, DirectoryFacts
  <2> HIDE DEF d
  <2> QED BY <1>1, <1>2, <2>1, DirectoriesKeep
<1>5. held'[holder] = Len(files) + 1 /\ size'[holder] = 0 /\ lastHash'[holder] = None
  BY <1>1, <1>2 DEF Inv, TypeOK
<1>6. TypeOK'
  BY <1>1, <1>2, <1>4 DEF Inv, TypeOK, SameLines
<1>7. RotationValid'
  BY <1>1 DEF RotationValid
<1>8. AppendValid'
  BY <1>1, <1>2, <1>4, <1>5, EmptyFileSound DEF AppendValid, Active
<1>9. LockValid'
  BY <1>1, <1>3 DEF Inv, LockValid
<1>10. ASSUME NEW r \in Sinks PROVE Remembers(r)'
  <2>1. CASE r = holder
    <3>1. held'[r] \in DOMAIN files' /\ size'[r] <= Len(files'[held'[r]].lines)
      BY <1>2, <1>5, <2>1, EmptyFileSound
    <3> QED BY <1>5, <2>1, <3>1 DEF Remembers
  <2>2. CASE r # holder
    <3>1. held'[r] = held[r] /\ size'[r] = size[r] /\ lastHash'[r] = lastHash[r]
      BY <1>1, <2>2 DEF Inv, TypeOK
    <3> QED BY <1>2, <3>1, TailsSame
  <2> QED BY <2>1, <2>2
<1> QED BY <1>3, <1>4, <1>6, <1>7, <1>8, <1>9, <1>10 DEF Inv, TailsRemembered

LEMMA RotationSyncedInv ==
    ASSUME Inv, RotationSynced
    PROVE  Inv'
<1>1. /\ pc = "dirsync" /\ pc' = "write" /\ dirImages' = {dir}
      /\ UNCHANGED <<files, dir, sink, held, lastHash, size, holder, shift, event, acked>>
  BY DEF RotationSynced, sinkVars
<1>2. SameLines
  BY <1>1, KeepFiles DEF Inv
<1>3. FilesSound' /\ AckedSynced' /\ AckedKept' /\ AckedOrdered'
  BY <1>1, <1>2, SameLinesKeep
<1>4. DirectoriesOrderly' /\ OldestDropped' /\ dirImages' \subseteq Directory
  BY <1>1, <1>2, DirectoriesKeep DEF Inv, DirectoriesOrderly
<1>5. TypeOK'
  BY <1>1, <1>4 DEF Inv, TypeOK
<1>6. TailsRemembered'
  BY <1>1, <1>2, TailsSame DEF TailsRemembered
<1>7. RotationValid' /\ AppendValid' /\ LockValid'
  BY <1>1 DEF Inv, RotationValid, AppendValid, LockValid, Active, Recorded
<1> QED BY <1>3, <1>4, <1>5, <1>6, <1>7 DEF Inv

-----------------------------------------------------------------------------
(* The append. *)

LEMMA ActiveFacts ==
    ASSUME Inv, pc \in {"write", "sync"}
    PROVE  /\ holder \in Sinks /\ event \in Events /\ held[holder] = dir[0]
           /\ dir[0] \in DOMAIN files /\ Active \in File /\ Sound(Active) /\ ~ Active.torn
           /\ size[holder] \in Nat /\ Active.synced \in Nat
           /\ Len(Active.lines) \in Nat /\ DOMAIN Active.lines = 1 .. Len(Active.lines)
<1>1. /\ holder \in Sinks /\ event \in Events /\ held[holder] = dir[0] /\ ~ Active.torn
      /\ dir[0] # 0
  BY HolderActs DEF Inv, AppendValid
<1>2. dir[0] \in DOMAIN files
  BY <1>1, DirectoryFacts
<1>3. Active \in File /\ Sound(Active)
  BY <1>2, FilesType DEF Inv, FilesSound, Active
<1>4. size[holder] \in Nat
  BY <1>1 DEF Inv, TypeOK
<1> QED BY <1>1, <1>2, <1>3, <1>4, FileFields

\* The new line follows the last one, because the writer knows the end of the file.
LEMMA WriteLineInv ==
    ASSUME Inv, WriteLine
    PROVE  Inv'
<1> DEFINE g == [Active EXCEPT !.lines = Append(@, NewLine), !.torn = FALSE]
<1>1. /\ pc = "write" /\ pc' = "sync"
      /\ files' = [files EXCEPT ![held[holder]].lines = Append(@, NewLine),
                                ![held[holder]].torn = FALSE]
      /\ UNCHANGED <<dir, dirImages, sink, held, lastHash, size, holder, shift, event, acked>>
  BY DEF WriteLine, sinkVars
<1>2. /\ holder \in Sinks /\ event \in Events /\ held[holder] = dir[0]
      /\ dir[0] \in DOMAIN files /\ Active \in File /\ Sound(Active) /\ ~ Active.torn
      /\ Len(Active.lines) \in Nat /\ DOMAIN Active.lines = 1 .. Len(Active.lines)
      /\ Active.synced \in Nat
  BY <1>1, ActiveFacts
<1>3. size[holder] = Len(Active.lines) /\ dir[0] # 0 /\ ~ Recorded(event)
  BY <1>1 DEF Inv, AppendValid, LockValid
<1>4. NewLine \in Line /\ NewLine.prev = ChainHead(Active) /\ NewLine.ev = event
  <2>1. lastHash[holder] = ChainHead(Active)
    <3>1. Remembers(holder)
      BY <1>2 DEF Inv, TailsRemembered
    <3> QED BY <1>2, <1>3, <3>1, ChainHeadIs DEF Remembers, Active
  <2>2. NewLine = [ev |-> event, prev |-> lastHash[holder]]
    BY <1>2 DEF NewLine, Active
  <2>3. lastHash[holder] \in Events \cup {None}
    BY <1>2 DEF Inv, TypeOK
  <2> QED BY <1>2, <2>1, <2>2, <2>3 DEF Line
<1>5. /\ g \in File /\ Sound(g) /\ ~ g.torn /\ g.synced = Active.synced
      /\ Len(g.lines) = Len(Active.lines) + 1
      /\ g.lines[Len(Active.lines) + 1] = NewLine
      /\ \A k \in DOMAIN Active.lines : k \in DOMAIN g.lines /\ g.lines[k] = Active.lines[k]
  <2>1. Append(Active.lines, NewLine) \in Seq(Line)
    BY <1>2, <1>4, FileFields
  <2>2. /\ g \in File /\ g.lines = Append(Active.lines, NewLine)
        /\ g.synced = Active.synced /\ g.torn = FALSE
    BY <1>2, <2>1 DEF File
  <2> HIDE DEF g
  <2> QED BY <1>2, <1>4, <2>2, AppendSound
<1>6. files' = [files EXCEPT ![dir[0]] = g]
  BY <1>1, <1>2 DEF Active
<1> HIDE DEF g
<1>7. /\ files' \in Seq(File) /\ Len(files') = Len(files) /\ DOMAIN files' = DOMAIN files
      /\ files'[dir[0]] = g /\ \A j \in DOMAIN files : j # dir[0] => files'[j] = files[j]
  <2>1. files \in Seq(File) /\ DOMAIN files = 1 .. Len(files)
    BY FilesType DEF Inv, TypeOK
  <2>2. /\ files' \in Seq(File) /\ Len(files') = Len(files)
        /\ \A j \in 1 .. Len(files) : files'[j] = IF j = dir[0] THEN g ELSE files[j]
    BY <1>2, <1>5, <1>6, <2>1, ExceptSeq
  <2>3. DOMAIN files' = 1 .. Len(files')
    BY <2>2, LenProperties
  <2> QED BY <1>2, <2>1, <2>2, <2>3
<1>8. DOMAIN g.lines = 1 .. (Len(Active.lines) + 1)
  BY <1>5, FileFields
\* A line of the new files is a line of the old ones, or the new one.
<1>9. ASSUME NEW i \in DOMAIN files', NEW k \in DOMAIN files'[i].lines
      PROVE  \/ /\ k \in DOMAIN files[i].lines /\ files'[i].lines[k] = files[i].lines[k]
                /\ files'[i].synced = files[i].synced
             \/ i = dir[0] /\ k = Len(Active.lines) + 1 /\ files'[i].lines[k].ev = event
  <2>1. CASE i # dir[0]
    BY <1>7, <2>1
  <2>2. CASE i = dir[0] /\ k \in DOMAIN Active.lines
    BY <1>5, <1>7, <2>2 DEF Active
  <2>3. CASE i = dir[0] /\ k = Len(Active.lines) + 1
    BY <1>4, <1>5, <1>7, <2>3
  <2> QED BY <1>2, <1>7, <1>8, <1>9, <2>1, <2>2, <2>3
<1>10. ASSUME NEW i \in DOMAIN files, NEW k \in DOMAIN files[i].lines
       PROVE  /\ i \in DOMAIN files' /\ k \in DOMAIN files'[i].lines
              /\ files'[i].lines[k] = files[i].lines[k]
  BY <1>5, <1>7 DEF Active
<1>11. ASSUME NEW i \in DOMAIN files, NEW k \in DOMAIN files[i].lines
       PROVE  files[i].lines[k].ev # event
  BY <1>3 DEF Recorded
<1>12. ASSUME NEW a \in DOMAIN acked PROVE acked[a] # event
  BY <1>11 DEF Inv, AckedKept
<1>13. TypeOK'
  BY <1>1, <1>7 DEF Inv, TypeOK
<1>14. FilesSound'
  BY <1>5, <1>7 DEF Inv, FilesSound
<1>15. DirectoriesOrderly'
  BY <1>1, <1>7 DEF Inv, DirectoriesOrderly, Orderly
<1>16. TailsRemembered'
  <2>1. \A i \in DOMAIN files :
           /\ i \in DOMAIN files' /\ Len(files[i].lines) <= Len(files'[i].lines)
           /\ Len(files'[i].lines) \in Nat
           /\ \A k \in DOMAIN files[i].lines : files'[i].lines[k] = files[i].lines[k]
    <3>1. ASSUME NEW i \in DOMAIN files
          PROVE  Len(files[i].lines) <= Len(files'[i].lines) /\ Len(files'[i].lines) \in Nat
      <4>1. CASE i = dir[0]
        BY <1>2, <1>5, <1>7, <4>1 DEF Active
      <4>2. CASE i # dir[0]
        BY <1>7, <4>2, FilesType, FileFields DEF Inv
      <4> QED BY <4>1, <4>2
    <3> QED BY <1>10, <1>7, <3>1
  <2> QED BY <1>1, <2>1, TailsKeep DEF TailsRemembered
<1>17. RotationValid'
  BY <1>1 DEF RotationValid
<1>18. AppendValid'
  <2>1. g.synced < Len(g.lines)
    BY <1>2, <1>5 DEF Sound
  <2> QED BY <1>1, <1>2, <1>3, <1>4, <1>5, <1>7, <2>1 DEF AppendValid, Active
<1>19. LockValid'
  <2>1. ASSUME NEW i \in DOMAIN files', NEW k \in DOMAIN files'[i].lines,
               files'[i].lines[k].ev = event
        PROVE  i = dir[0] /\ k = Len(files'[i].lines)
    BY <1>5, <1>7, <1>9, <1>11, <2>1
  <2> QED BY <1>1, <2>1 DEF Inv, LockValid
<1>20. AckedSynced'
  BY <1>1, <1>7, <1>9, <1>12 DEF Inv, AckedSynced, IsAcked
<1>21. AckedKept'
  BY <1>1, <1>10 DEF Inv, AckedKept
<1>22. AckedOrdered'
  <2> SUFFICES ASSUME NEW i \in DOMAIN files', NEW j \in DOMAIN files',
                      NEW k \in DOMAIN files'[i].lines, NEW l \in DOMAIN files'[j].lines,
                      NEW a \in DOMAIN acked, NEW b \in DOMAIN acked,
                      files'[i].lines[k].ev = acked[a], files'[j].lines[l].ev = acked[b]
               PROVE  a < b <=> Before(i, k, j, l)
    <3>1. acked' = acked
      BY <1>1
    <3> QED BY <3>1, SMT DEF AckedOrdered, Before
  <2>1. k \in DOMAIN files[i].lines /\ files'[i].lines[k] = files[i].lines[k]
    BY <1>9, <1>12
  <2>2. l \in DOMAIN files[j].lines /\ files'[j].lines[l] = files[j].lines[l]
    BY <1>9, <1>12
  <2> QED BY <1>7, <2>1, <2>2 DEF Inv, AckedOrdered
<1>23. OldestDropped'
  <2>1. ASSUME NEW i \in DOMAIN files', HoldsAcked(files[i])' PROVE HoldsAcked(files[i])
    <3>1. CASE i # dir[0]
      <4>1. files'[i] = files[i]
        BY <1>7, <3>1
      <4>2. PICK k \in 1 .. files[i].synced : IsAcked(files[i].lines[k])'
        BY <2>1, <4>1 DEF HoldsAcked
      <4> QED BY <1>1, <4>1, <4>2 DEF HoldsAcked, IsAcked
    <3>2. CASE i = dir[0]
      <4>1. PICK k \in 1 .. Active.synced : IsAcked(files[i].lines[k])'
        BY <1>5, <1>7, <2>1, <3>2 DEF HoldsAcked
      <4>2. k \in DOMAIN Active.lines
        BY <1>2 DEF Sound
      <4>3. files'[i].lines[k] = Active.lines[k]
        BY <1>5, <1>7, <3>2, <4>2
      <4> QED BY <1>1, <3>2, <4>1, <4>3 DEF HoldsAcked, IsAcked, Active
    <3> QED BY <3>1, <3>2
  <2> QED BY <1>1, <1>7, <2>1 DEF Inv, OldestDropped
<1> QED BY <1>13, <1>14, <1>15, <1>16, <1>17, <1>18, <1>19, <1>20, <1>21, <1>22, <1>23 DEF Inv

\* No reported event is in a file newer than the journal.
LEMMA AckedNotNewer ==
    ASSUME Inv, dir[0] # 0, NEW i \in DOMAIN files, NEW k \in DOMAIN files[i].lines,
           IsAcked(files[i].lines[k])
    PROVE  i <= dir[0] /\ HoldsAcked(files[i])
<1>1. k <= files[i].synced /\ files[i] \in File
  BY FilesType DEF Inv, AckedSynced
<1>2. k \in 1 .. files[i].synced
  BY <1>1, FileFields
<1>3. HoldsAcked(files[i])
  BY <1>2 DEF HoldsAcked
<1>4. Dropped(dir, i) \/ \E n \in Names : dir[n] = i
  BY <1>3 DEF Inv, OldestDropped, DirectoriesOrderly
<1>5. i \in Nat /\ i # 0 /\ dir[0] \in Nat
  BY DirectoryFacts
<1>6. CASE Dropped(dir, i)
  <2>1. i < dir[0]
    BY <1>6, Constants DEF Dropped
  <2> QED BY <1>3, <1>5, <2>1
<1>7. ASSUME NEW n \in Names, dir[n] = i PROVE i <= dir[0]
  <2>1. n = 0 \/ 0 < n
    BY DirectoryFacts
  <2> QED BY <1>5, <1>7, <2>1, DirectoryFacts
<1> QED BY <1>3, <1>4, <1>5, <1>6, <1>7

LEMMA SyncLineInv ==
    ASSUME Inv, SyncLine
    PROVE  Inv'
<1> DEFINE g == [Active EXCEPT !.synced = Len(Active.lines)]
           last == Len(Active.lines)
<1>1. /\ pc = "sync"
      /\ files' = [files EXCEPT ![held[holder]].synced = Len(files[held[holder]].lines)]
      /\ dirImages' = {dir}
      /\ lastHash' = [lastHash EXCEPT ![holder] = event]
      /\ size' = [size EXCEPT ![holder] = @ + 1]
      /\ acked' = Append(acked, event)
      /\ holder' = Nothing /\ pc' = "unlocked" /\ shift' = 0 /\ event' = None
      /\ UNCHANGED <<dir, sink, held>>
  BY DEF SyncLine, Unlock
<1>2. /\ holder \in Sinks /\ event \in Events /\ held[holder] = dir[0]
      /\ dir[0] \in DOMAIN files /\ Active \in File /\ Sound(Active)
      /\ size[holder] \in Nat /\ Active.synced \in Nat
      /\ last \in Nat /\ DOMAIN Active.lines = 1 .. last
  BY <1>1, ActiveFacts
<1>3. /\ last = size[holder] + 1 /\ Active.lines[last].ev = event /\ Active.synced < last
      /\ dir[0] # 0 /\ dir[0] \in Nat
  BY <1>1, <1>2, DirectoryFacts DEF Inv, AppendValid
<1>4. ASSUME NEW i \in DOMAIN files, NEW k \in DOMAIN files[i].lines, files[i].lines[k].ev = event
      PROVE  i = dir[0] /\ k = last
  BY <1>1, <1>4 DEF Inv, LockValid, Active
<1>5. last \in DOMAIN Active.lines
  BY <1>2, <1>3
<1>6. \A a \in DOMAIN acked : acked[a] # event
  <2>1. ~ IsAcked(Active.lines[last])
    BY <1>2, <1>3, <1>5 DEF Inv, AckedSynced, Active
  <2> QED BY <1>3, <2>1 DEF IsAcked
<1>7. /\ g \in File /\ Sound(g) /\ g.lines = Active.lines /\ g.synced = last
      /\ Active.synced <= g.synced
  <2>1. g \in File /\ g.lines = Active.lines /\ g.synced = last
    BY <1>2 DEF File
  <2> QED BY <1>2, <1>3, <2>1 DEF Sound
<1>8. files' = [files EXCEPT ![dir[0]] = g]
  BY <1>1, <1>2 DEF Active
<1> HIDE DEF g
<1>9. /\ SameLines /\ DOMAIN files' = DOMAIN files /\ Len(files') = Len(files)
      /\ files'[dir[0]] = g /\ \A j \in DOMAIN files : j # dir[0] => files'[j] = files[j]
  BY <1>2, <1>7, <1>8, SetFile DEF Inv, Active
<1>10. \A i \in DOMAIN files : files'[i].lines = files[i].lines
  BY <1>9 DEF SameLines
<1>11. /\ acked \in Seq(Events) /\ acked' \in Seq(Events) /\ Len(acked) \in Nat
       /\ DOMAIN acked = 1 .. Len(acked) /\ DOMAIN acked' = 1 .. (Len(acked) + 1)
       /\ acked'[Len(acked) + 1] = event /\ \A a \in DOMAIN acked : acked'[a] = acked[a]
  <2>1. acked \in Seq(Events) /\ Len(acked) \in Nat /\ DOMAIN acked = 1 .. Len(acked)
    BY LenProperties DEF Inv, TypeOK
  <2>2. /\ acked' \in Seq(Events) /\ Len(acked') = Len(acked) + 1
        /\ acked'[Len(acked) + 1] = event /\ \A a \in 1 .. Len(acked) : acked'[a] = acked[a]
    BY <1>1, <1>2, <2>1
  <2> QED BY <2>1, <2>2, LenProperties
<1>12. \A a \in DOMAIN acked' : a \in DOMAIN acked \/ a = Len(acked) + 1
  BY <1>11
<1>13. TypeOK'
  <2>1. size' \in [Sinks -> Nat] /\ lastHash' \in [Sinks -> Events \cup {None}]
    BY <1>1, <1>2 DEF Inv, TypeOK
  <2>2. 0 \in 0 .. MaxBackups
    BY Constants
  <2>3. dirImages' \subseteq Directory
    BY <1>1 DEF Inv, TypeOK
  <2> QED BY <1>1, <1>9, <1>11, <2>1, <2>2, <2>3 DEF Inv, TypeOK, SameLines
<1>14. FilesSound'
  BY <1>9 DEF FilesSound, SameLines
<1>15. DirectoriesOrderly'
  BY <1>1, <1>9 DEF Inv, DirectoriesOrderly, Orderly
<1>16. ASSUME NEW r \in Sinks PROVE Remembers(r)'
  <2>1. CASE r = holder
    <3>1. size'[r] = last /\ lastHash'[r] = event /\ held'[r] = dir[0]
      BY <1>1, <1>2, <1>3, <2>1 DEF Inv, TypeOK
    <3> QED BY <1>2, <1>3, <1>7, <1>9, <3>1 DEF Remembers
  <2>2. CASE r # holder
    <3>1. held'[r] = held[r] /\ size'[r] = size[r] /\ lastHash'[r] = lastHash[r]
      BY <1>1, <2>2 DEF Inv, TypeOK
    <3> QED BY <1>9, <3>1, TailsSame
  <2> QED BY <2>1, <2>2
<1>17. RotationValid' /\ AppendValid' /\ LockValid'
  BY <1>1 DEF RotationValid, AppendValid, LockValid
<1>18. AckedSynced'
  <2> SUFFICES ASSUME NEW i \in DOMAIN files, NEW k \in DOMAIN files[i].lines,
                      NEW a \in DOMAIN acked', acked'[a] = files[i].lines[k].ev
               PROVE  k <= files'[i].synced
    BY <1>9, <1>10 DEF AckedSynced, IsAcked
  <2>1. CASE a \in DOMAIN acked
    <3>1. k <= files[i].synced
      BY <1>11, <2>1 DEF Inv, AckedSynced, IsAcked
    <3>2. /\ files[i].synced <= files'[i].synced /\ k \in Nat
          /\ files[i].synced \in Nat /\ files'[i].synced \in Nat
      BY <1>9, FilesType, FileFields, ElementOfSeq, LenProperties DEF SameLines, Inv
    <3> QED BY <3>1, <3>2
  <2>2. CASE a = Len(acked) + 1
    <3>1. i = dir[0] /\ k = last
      BY <1>4, <1>11, <2>2
    <3> QED BY <1>2, <1>7, <1>9, <3>1
  <2> QED BY <1>12, <2>1, <2>2
<1>19. AckedKept'
  <2> SUFFICES ASSUME NEW a \in DOMAIN acked'
               PROVE  \E i \in DOMAIN files : \E k \in DOMAIN files[i].lines :
                         files[i].lines[k].ev = acked'[a]
    BY <1>9, <1>10 DEF AckedKept
  <2>1. CASE a \in DOMAIN acked
    BY <1>11, <2>1 DEF Inv, AckedKept
  <2>2. CASE a = Len(acked) + 1
    BY <1>2, <1>3, <1>5, <1>11, <2>2 DEF Active
  <2> QED BY <1>12, <2>1, <2>2
<1>20. AckedOrdered'
  <2>1. ASSUME NEW i \in DOMAIN files, NEW j \in DOMAIN files,
               NEW k \in DOMAIN files[i].lines, NEW l \in DOMAIN files[j].lines,
               NEW a \in DOMAIN acked', NEW b \in DOMAIN acked',
               files[i].lines[k].ev = acked'[a], files[j].lines[l].ev = acked'[b]
        PROVE  a < b <=> Before(i, k, j, l)
    <3>1. CASE a \in DOMAIN acked /\ b \in DOMAIN acked
      BY <1>11, <2>1, <3>1 DEF Inv, AckedOrdered
    <3>2. CASE a \in DOMAIN acked /\ b = Len(acked) + 1
      <4>1. j = dir[0] /\ l = last /\ a < b
        BY <1>4, <1>11, <2>1, <3>2
      <4>2. IsAcked(files[i].lines[k]) /\ files[i].lines[k].ev # event
        BY <1>6, <1>11, <2>1, <3>2 DEF IsAcked
      <4>3. i <= dir[0] /\ i \in Nat
        BY <1>3, <4>2, AckedNotNewer, DirectoryFacts
      <4>4. i = dir[0] => k # last /\ k \in 1 .. last
        BY <1>2, <1>3, <4>2 DEF Active
      <4> QED BY <1>2, <1>3, <4>1, <4>3, <4>4 DEF Before
    <3>3. CASE a = Len(acked) + 1 /\ b \in DOMAIN acked
      <4>1. i = dir[0] /\ k = last /\ ~ (a < b)
        BY <1>4, <1>11, <2>1, <3>3
      <4>2. IsAcked(files[j].lines[l])
        BY <1>11, <2>1, <3>3 DEF IsAcked
      <4>3. j <= dir[0] /\ j \in Nat
        BY <1>3, <4>2, AckedNotNewer, DirectoryFacts
      <4>4. j = dir[0] => l \in 1 .. last
        BY <1>2 DEF Active
      <4> QED BY <1>2, <1>3, <4>1, <4>3, <4>4 DEF Before
    <3>4. CASE a = Len(acked) + 1 /\ b = Len(acked) + 1
      <4>1. i = dir[0] /\ k = last /\ j = dir[0] /\ l = last
        BY <1>4, <1>11, <2>1, <3>4
      <4> QED BY <1>2, <1>3, <1>11, <3>4, <4>1 DEF Before
    <3> QED BY <1>12, <3>1, <3>2, <3>3, <3>4
  <2> QED BY <1>9, <1>10, <2>1, SMT DEF AckedOrdered, Before
<1>21. OldestDropped'
  <2> SUFFICES ASSUME NEW i \in DOMAIN files, HoldsAcked(files[i])', i # dir[0]
               PROVE  Dropped(dir, i) \/ \E n \in Names : dir[n] = i
    BY <1>1, <1>9, Constants DEF OldestDropped, Dropped
  <2>1. files'[i] = files[i] /\ files[i] \in File /\ Sound(files[i])
    BY <1>9, FilesType DEF Inv, FilesSound
  <2>2. PICK k \in 1 .. files[i].synced : IsAcked(files[i].lines[k])'
    BY <2>1 DEF HoldsAcked
  <2>3. k \in DOMAIN files[i].lines
    BY <2>1, FileFields DEF Sound
  <2>4. PICK a \in DOMAIN acked' : acked'[a] = files[i].lines[k].ev
    BY <2>1, <2>2 DEF IsAcked
  <2>5. a \in DOMAIN acked
    BY <1>4, <1>11, <1>12, <2>3, <2>4
  <2>6. HoldsAcked(files[i])
    BY <1>11, <2>4, <2>5 DEF HoldsAcked, IsAcked
  <2> QED BY <2>6 DEF Inv, OldestDropped, DirectoriesOrderly
<1> QED BY <1>13, <1>14, <1>15, <1>16, <1>17, <1>18, <1>19, <1>20, <1>21 DEF Inv, TailsRemembered

-----------------------------------------------------------------------------
(* The host stops: what is left of the files are prefixes with the durable lines. *)

LEMMA HostCrashInv ==
    ASSUME Inv, HostCrash
    PROVE  Inv'
<1>1. PICK d \in dirImages :
        /\ dir' = d /\ dirImages' = {d}
        /\ IF d[0] = 0 THEN files' = [i \in DOMAIN files |-> Durable(files[i])]
           ELSE \E left \in CrashFiles(files[d[0]]) :
                  files' = [i \in DOMAIN files |-> IF i = d[0] THEN left ELSE Durable(files[i])]
  BY DEF HostCrash
<1>2. /\ sink' = [s \in Sinks |-> "closed"] /\ held' = [s \in Sinks |-> 0]
      /\ lastHash' = [s \in Sinks |-> None] /\ size' = [s \in Sinks |-> 0]
      /\ holder' = Nothing /\ pc' = "unlocked" /\ shift' = 0 /\ event' = None /\ acked' = acked
  BY DEF HostCrash, Unlock
<1>3. DOMAIN files' = DOMAIN files
      /\ \A i \in DOMAIN files : files'[i] \in CrashFiles(files[i]) \cup {Durable(files[i])}
  <2>1. CASE d[0] = 0
    BY <1>1, <2>1
  <2>2. CASE d[0] # 0
    <3>1. PICK left \in CrashFiles(files[d[0]]) :
            files' = [i \in DOMAIN files |-> IF i = d[0] THEN left ELSE Durable(files[i])]
      BY <1>1, <2>2
    <3> QED BY <3>1
  <2> QED BY <2>1, <2>2
<1>4. /\ Len(files) \in Nat /\ DOMAIN files = 1 .. Len(files)
      /\ \A i \in DOMAIN files : files[i] \in File /\ Sound(files[i])
  BY FilesType DEF Inv, FilesSound
<1>5. ASSUME NEW i \in DOMAIN files
      PROVE  /\ files'[i] \in File /\ Sound(files'[i])
             /\ files[i].synced <= files'[i].synced
             /\ DOMAIN files'[i].lines = 1 .. files'[i].synced
             /\ DOMAIN files'[i].lines \subseteq DOMAIN files[i].lines
             /\ \A k \in DOMAIN files'[i].lines : files'[i].lines[k] = files[i].lines[k]
             /\ files[i].synced \in Nat /\ files'[i].synced \in Nat
             /\ DOMAIN files[i].lines \subseteq Nat \ {0}
  <2>1. files[i] \in File /\ Sound(files[i]) /\ files'[i] \in CrashFiles(files[i]) \cup {Durable(files[i])}
    BY <1>3, <1>4
  <2>2. /\ files'[i] \in File /\ Sound(files'[i])
        /\ files[i].synced <= files'[i].synced
        /\ DOMAIN files'[i].lines = 1 .. files'[i].synced
        /\ DOMAIN files'[i].lines \subseteq DOMAIN files[i].lines
        /\ \A k \in DOMAIN files'[i].lines : files'[i].lines[k] = files[i].lines[k]
    BY <2>1, CrashSound
  <2>3. /\ files[i].synced \in Nat /\ files'[i].synced \in Nat
        /\ DOMAIN files[i].lines \subseteq Nat \ {0}
    BY <2>1, <2>2, FileFields
  <2> QED BY <2>2, <2>3
<1>6. files' \in Seq(File) /\ Len(files') = Len(files)
  <2>1. files' = [i \in 1 .. Len(files) |-> files'[i]]
    BY <1>1, <1>3, <1>4
  <2>2. files' \in [1 .. Len(files) -> File]
    BY <1>3, <1>4, <1>5, <2>1
  <2>3. files' \in Seq(File)
    BY <1>4, <2>2, SeqDef
  <2>4. Len(files') \in Nat /\ DOMAIN files' = 1 .. Len(files')
    BY <2>3, LenProperties
  <2> QED BY <1>3, <1>4, <2>3, <2>4
<1>7. d \in Directory /\ Orderly(d)
  BY DEF Inv, TypeOK, DirectoriesOrderly
<1>8. TypeOK'
  <2>1. 0 \in 0 .. MaxBackups
    BY Constants
  <2> QED BY <1>1, <1>2, <1>6, <1>7, <2>1 DEF Inv, TypeOK
<1>9. FilesSound'
  BY <1>3, <1>5 DEF FilesSound
<1>10. DirectoriesOrderly'
  BY <1>1, <1>6, <1>7 DEF DirectoriesOrderly, Orderly
<1>11. TailsRemembered'
  BY <1>2 DEF TailsRemembered, Remembers
<1>12. RotationValid' /\ AppendValid' /\ LockValid'
  BY <1>2 DEF RotationValid, AppendValid, LockValid
<1>13. AckedSynced'
  BY <1>3, <1>5 DEF AckedSynced
<1>14. AckedKept'
  <2> SUFFICES ASSUME NEW a \in DOMAIN acked
               PROVE  \E i \in DOMAIN files' : \E k \in DOMAIN files'[i].lines :
                         files'[i].lines[k].ev = acked[a]
    BY <1>2 DEF AckedKept
  <2>1. PICK i \in DOMAIN files : \E k \in DOMAIN files[i].lines : files[i].lines[k].ev = acked[a]
    BY DEF Inv, AckedKept
  <2>2. PICK k \in DOMAIN files[i].lines : files[i].lines[k].ev = acked[a]
    BY <2>1
  <2>3. k <= files[i].synced
    BY <2>2 DEF Inv, AckedSynced, IsAcked
  <2>4. k \in DOMAIN files'[i].lines
    BY <1>5, <2>3
  <2> QED BY <1>3, <1>5, <2>2, <2>4
<1>15. AckedOrdered'
  <2>1. \A i \in DOMAIN files' : \A k \in DOMAIN files'[i].lines :
          i \in DOMAIN files /\ k \in DOMAIN files[i].lines /\ files'[i].lines[k] = files[i].lines[k]
    BY <1>3, <1>5
  <2> QED BY <1>2, <2>1 DEF Inv, AckedOrdered, Before
<1>16. OldestDropped'
  <2>1. ASSUME NEW i \in DOMAIN files, HoldsAcked(files[i])' PROVE HoldsAcked(files[i])
    <3>1. PICK k \in 1 .. files'[i].synced : IsAcked(files[i].lines[k])'
      BY <2>1 DEF HoldsAcked
    <3>2. k \in DOMAIN files[i].lines /\ IsAcked(files[i].lines[k])
      BY <1>2, <1>5, <3>1 DEF IsAcked
    <3>3. k \in 1 .. files[i].synced
      BY <1>5, <3>2 DEF Inv, AckedSynced
    <3> QED BY <3>2, <3>3 DEF HoldsAcked
  <2> QED BY <1>1, <1>3, <2>1 DEF Inv, OldestDropped
<1> QED BY <1>8, <1>9, <1>10, <1>11, <1>12, <1>13, <1>14, <1>15, <1>16 DEF Inv

-----------------------------------------------------------------------------
(* The theorems. *)

LEMMA InitInv == Init => Inv
<1> SUFFICES ASSUME Init PROVE Inv
  OBVIOUS
<1>1. /\ files = << >> /\ acked = << >> /\ DOMAIN files = {} /\ DOMAIN acked = {}
      /\ files \in Seq(File) /\ acked \in Seq(Events) /\ Len(files) = 0
  BY EmptySeq DEF Init
<1>2. /\ dir = [i \in 0 .. MaxBackups |-> 0] /\ dirImages = {dir} /\ dir \in Directory
      /\ \A n \in Names : dir[n] = 0
  BY DEF Init, Directory, Names
<1>3. TypeOK
  <2>1. 0 \in 0 .. MaxBackups
    BY Constants
  <2> QED BY <1>1, <1>2, <2>1 DEF Init, TypeOK
<1>4. FilesSound /\ AckedSynced /\ AckedKept /\ AckedOrdered /\ OldestDropped
  BY <1>1 DEF FilesSound, AckedSynced, AckedKept, AckedOrdered, OldestDropped
<1>5. DirectoriesOrderly
  <2>1. 0 \in 0 .. Len(files)
    BY <1>1
  <2> QED BY <1>2, <2>1 DEF DirectoriesOrderly, Orderly
<1>6. TailsRemembered /\ RotationValid /\ AppendValid /\ LockValid
  BY DEF Init, TailsRemembered, Remembers, RotationValid, AppendValid, LockValid
<1> QED BY <1>3, <1>4, <1>5, <1>6 DEF Inv

LEMMA StutterInv == Inv /\ UNCHANGED vars => Inv'
<1> SUFFICES ASSUME Inv, UNCHANGED vars PROVE Inv'
  OBVIOUS
<1>1. UNCHANGED <<files, dir, dirImages, sink, held, lastHash, size, holder, pc, shift, event, acked>>
  BY DEF vars, diskVars, sinkVars, callVars
<1> QED BY <1>1 DEF Inv, TypeOK, FilesSound, DirectoriesOrderly, Orderly, TailsRemembered, Remembers,
                    RotationValid, AppendValid, Active, LockValid, Recorded, AckedSynced, IsAcked,
                    AckedKept, AckedOrdered, Before, OldestDropped, HoldsAcked, Dropped

\* The invariant, and with it the type invariant.
THEOREM InvHolds == Spec => []Inv
<1>1. ASSUME Inv, [Next]_vars PROVE Inv'
  <2>1. CASE \E s \in Sinks :
               \/ OpenExisting(s) \/ OpenNew(s) \/ BeginWriteFails(s) \/ ProcessExit(s)
               \/ \E e \in Events : BeginWrite(s, e)
    BY <1>1, <2>1, OpenExistingInv, OpenNewInv, FailuresInv, ProcessExitInv, BeginWriteInv
  <2>2. CASE Rotation
    BY <1>1, <2>2, ShiftBackupInv, RetireActiveInv, FailuresInv, CreateFreshInv,
       CreateFreshFailsInv, FreshUnusableInv, RotationSyncedInv DEF Rotation
  <2>3. CASE AppendSteps
    BY <1>1, <2>3, WriteLineInv, WriteLineFailsInv, SyncLineInv, FailuresInv DEF AppendSteps
  <2> QED BY <1>1, <2>1, <2>2, <2>3, HostCrashInv, StutterInv DEF Next
<1> QED BY <1>1, InitInv, PTL DEF Spec

\* The type invariant of AuditJournal, for any constants.
THEOREM TypeCorrect == Spec => []TypeOK
<1>1. Inv => TypeOK
  BY DEF Inv
<1> QED BY <1>1, InvHolds, PTL

\* audit verify never reports a break that the writers made: however many processes
\* append, rotate, fail and stop, every file is one chain from prev_hash = "".
THEOREM ChainsAlwaysVerify == Spec => []ChainsVerify
<1>1. Inv => ChainsVerify
  BY DEF Inv, FilesSound, Sound, ChainsVerify
<1> QED BY <1>1, InvHolds, PTL

LEMMA LastingLines ==
    ASSUME Inv, NEW d \in dirImages, NEW n \in Names, NEW k \in Lasting(d, n)
    PROVE  /\ d[n] \in DOMAIN files /\ d[n] # 0 /\ d[n] \in Nat /\ n \in Nat
           /\ k \in DOMAIN files[d[n]].lines /\ k \in Nat
           /\ k \in 1 .. files[d[n]].synced
<1>1. d[n] # 0 /\ k \in 1 .. files[d[n]].synced
  BY DEF Lasting
<1>2. d[n] \in DOMAIN files /\ d[n] \in Nat /\ n \in Nat
  BY <1>1, FilesType DEF Inv, DirectoriesOrderly, Orderly, Names
<1>3. files[d[n]] \in File /\ Sound(files[d[n]])
  BY <1>2, FilesType DEF Inv, FilesSound
<1>4. k \in DOMAIN files[d[n]].lines /\ k \in Nat
  BY <1>1, <1>3, FileFields DEF Sound
<1> QED BY <1>1, <1>2, <1>4

LEMMA InOrder == Inv => ShownInOrder
<1> SUFFICES ASSUME Inv, NEW d \in dirImages, NEW n \in Names, NEW m \in Names,
                    NEW k \in Lasting(d, n), NEW l \in Lasting(d, m),
                    NEW a \in DOMAIN acked, NEW b \in DOMAIN acked,
                    EventAt(d, n, k) = acked[a], EventAt(d, m, l) = acked[b]
             PROVE  a < b <=> Older(n, k, m, l)
  BY DEF ShownInOrder, Names
<1>1. /\ d[n] \in DOMAIN files /\ d[n] # 0 /\ d[n] \in Nat /\ n \in Nat
      /\ k \in DOMAIN files[d[n]].lines /\ k \in Nat
      /\ d[m] \in DOMAIN files /\ d[m] # 0 /\ d[m] \in Nat /\ m \in Nat
      /\ l \in DOMAIN files[d[m]].lines /\ l \in Nat
  BY LastingLines
<1>2. a < b <=> Before(d[n], k, d[m], l)
  BY <1>1 DEF Inv, AckedOrdered, EventAt
<1>3. (n < m => d[m] < d[n]) /\ (m < n => d[n] < d[m])
  BY <1>1 DEF Inv, DirectoriesOrderly, Orderly
<1> QED BY <1>1, <1>2, <1>3 DEF Before, Older

LEMMA NoneGone == Inv => NoneMissing
<1> SUFFICES ASSUME Inv, NEW d \in dirImages, NEW a \in DOMAIN acked, NEW b \in DOMAIN acked,
                    a < b, Shown(d, acked[a])
             PROVE  Shown(d, acked[b])
  BY DEF NoneMissing
<1>0. PICK n \in Names : \E k \in Lasting(d, n) : EventAt(d, n, k) = acked[a]
  BY DEF Shown, Names
<1>1. PICK k \in Lasting(d, n) : EventAt(d, n, k) = acked[a]
  BY <1>0
<1>2. d[n] \in DOMAIN files /\ d[n] # 0 /\ d[n] \in Nat /\ k \in DOMAIN files[d[n]].lines
  BY LastingLines
<1>3. PICK j \in DOMAIN files : \E l \in DOMAIN files[j].lines : files[j].lines[l].ev = acked[b]
  BY DEF Inv, AckedKept
<1>4. PICK l \in DOMAIN files[j].lines : files[j].lines[l].ev = acked[b]
  BY <1>3
<1>5. l \in 1 .. files[j].synced
  <2>1. files[j] \in File /\ l <= files[j].synced
    BY <1>4, FilesType DEF Inv, AckedSynced, IsAcked
  <2> QED BY <2>1, FileFields
<1>6. HoldsAcked(files[j])
  BY <1>4, <1>5 DEF HoldsAcked, IsAcked
<1>7. Before(d[n], k, j, l)
  BY <1>1, <1>2, <1>4 DEF Inv, AckedOrdered, EventAt
<1>8. j \in Nat /\ j # 0
  BY FilesType DEF Inv
<1>9. ~ Dropped(d, j)
  <2>1. Dropped(d, j) => j < d[n]
    BY <1>2 DEF Dropped
  <2> QED BY <1>2, <1>7, <1>8, <2>1 DEF Before
<1>10. PICK m \in Names : d[m] = j
  BY <1>6, <1>9 DEF Inv, OldestDropped
<1>11. l \in Lasting(d, m) /\ EventAt(d, m, l) = acked[b]
  BY <1>4, <1>5, <1>8, <1>10 DEF Lasting, EventAt
<1> QED BY <1>10, <1>11 DEF Shown, Names

\* A dropped file leaves every backup's name to a newer file or to a gap.
LEMMA RetentionKept == Inv => RetentionHonoured
<1> SUFFICES ASSUME Inv, NEW d \in dirImages, NEW i \in DOMAIN files, Dropped(d, i)
             PROVE  Cardinality({k \in 0 .. MaxBackups : d[k] > i}) + Cardinality(Gaps(d)) >= MaxBackups
  BY DEF RetentionHonoured, Inv, OldestDropped, Names
<1> DEFINE N == {k \in 0 .. MaxBackups : d[k] > i}
<1>1. /\ MaxBackups \in Nat /\ i \in Nat /\ \A n \in 0 .. MaxBackups : d[n] \in Nat
      /\ \A n \in 0 .. MaxBackups : d[n] # 0 => d[n] > i
  <2>1. i \in Nat /\ MaxBackups \in Nat
    BY FilesType, Constants DEF Inv
  <2>2. \A n \in Names : d[n] \in Nat
    BY FilesType DEF Inv, DirectoriesOrderly, Orderly
  <2> QED BY <2>1, <2>2 DEF Dropped, Names
<1>2. IsFiniteSet(0 .. MaxBackups) /\ IsFiniteSet(1 .. MaxBackups)
      /\ Cardinality(1 .. MaxBackups) = MaxBackups
  BY <1>1, FS_Interval
<1>3. /\ IsFiniteSet(N) /\ IsFiniteSet(Gaps(d)) /\ IsFiniteSet(N \cap Gaps(d))
      /\ IsFiniteSet(N \cup Gaps(d))
  <2>1. N \in SUBSET (0 .. MaxBackups) /\ Gaps(d) \in SUBSET (1 .. MaxBackups)
        /\ N \cap Gaps(d) \in SUBSET (0 .. MaxBackups)
    BY DEF Gaps
  <2>2. IsFiniteSet(N) /\ IsFiniteSet(Gaps(d)) /\ IsFiniteSet(N \cap Gaps(d))
    BY <1>2, <2>1, FS_Subset
  <2> QED BY <2>2, FS_Union
<1>4. /\ Cardinality(N) \in Nat /\ Cardinality(Gaps(d)) \in Nat
      /\ Cardinality(N \cap Gaps(d)) \in Nat
      /\ Cardinality(N \cup Gaps(d)) = Cardinality(N) + Cardinality(Gaps(d)) - Cardinality(N \cap Gaps(d))
      /\ Cardinality(N \cup Gaps(d)) \in Nat
  BY <1>3, FS_CardinalityType, FS_Union
<1>5. CASE MaxBackups = 0
  BY <1>4, <1>5
<1>6. CASE MaxBackups = 1
  <2>1. N # {}
    BY <1>1, <1>6 DEF Dropped
  <2>2. Cardinality(N) # 0
    BY <1>3, <2>1, FS_EmptySet
  <2> QED BY <1>4, <1>6, <2>2
<1>7. CASE MaxBackups >= 2
  <2>1. ASSUME NEW k \in 1 .. MaxBackups PROVE k \in N \cup Gaps(d)
    <3>1. CASE d[k] = 0
      <4>1. MaxBackups \in k .. MaxBackups /\ d[MaxBackups] # 0
        BY <1>1, <1>7 DEF Dropped
      <4> QED BY <3>1, <4>1 DEF Gaps
    <3>2. CASE d[k] # 0
      BY <1>1, <3>2
    <3> QED BY <3>1, <3>2
  <2>2. 1 .. MaxBackups \in SUBSET (N \cup Gaps(d))
    BY <2>1
  <2>3. MaxBackups <= Cardinality(N \cup Gaps(d))
    BY <1>2, <1>3, <2>2, FS_Subset
  <2> QED BY <1>1, <1>4, <2>3
<1> QED BY <1>1, <1>5, <1>6, <1>7

\* A reported event is lost to retention only, and never from the middle of the trail,
\* for any number of backups, processes, failures and crashes.
THEOREM AckedAlwaysLast == Spec => []AckedEventsLast
<1>1. Inv => AckedEventsLast
  BY InOrder, NoneGone, RetentionKept DEF AckedEventsLast
<1> QED BY <1>1, InvHolds, PTL
=============================================================================

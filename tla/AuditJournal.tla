---------------------------- MODULE AuditJournal ----------------------------
(***************************************************************************)
(* The hash-chained audit journal (runner/internal/audit/jsonl.go and its  *)
(* lock): the daemon and the command line tools append to one file, each   *)
(* with its own idea of the file's end, and any of them rotates it.        *)
(*                                                                         *)
(* A flock serialises openings and writes, so one of them is in progress   *)
(* at a time; each of its system calls is a step, because the process or   *)
(* the host may stop between any two.  A line is its event and the event   *)
(* of the line its prev_hash is the hash of.  A fsync also commits the     *)
(* directory operations before it, in order, as journaling filesystems do. *)
(***************************************************************************)
EXTENDS Integers, Sequences, FiniteSets, SequencesExt

CONSTANTS
    Sinks,      \* processes with the journal open
    MaxEvents,  \* bound: events, numbered in the order they are recorded
    Nothing,    \* no sink
    MaxLines,   \* JSONLOptions.MaxSizeBytes, in lines of the smallest size
    MaxBackups, \* JSONLOptions.MaxBackups
    MaxFiles    \* bound: files ever created

ASSUME AuditJournalAssumption ==
    /\ Nothing \notin Sinks
    /\ MaxEvents \in Nat
    /\ MaxLines \in Nat \ {0} /\ MaxBackups \in Nat /\ MaxFiles \in Nat

Events == 1 .. MaxEvents
None == 0               \* no event, and prev_hash = ""
Glued == MaxEvents + 1  \* prev_hash of a line that follows a partial one: unreadable

Line == [ev : Events, prev : Events \cup {None, Glued}]

\* lines: complete lines; synced: how many of them a host crash cannot take;
\* torn: bytes of a partial line follow.
File == [lines : Seq(Line), synced : Nat, torn : BOOLEAN]

EmptyFile == [lines |-> << >>, synced |-> 0, torn |-> FALSE]

\* Name 0 is the journal, name i is backup .i; inode 0 is no file.
Directory == [0 .. MaxBackups -> Nat]

\* lineHash of the last line.
ChainHead(file) == IF file.lines = << >> THEN None ELSE Last(file.lines).ev

\* VerifyReader, on the complete lines.
Verifies(lines) ==
    \A i \in DOMAIN lines : lines[i].prev = IF i = 1 THEN None ELSE lines[i - 1].ev

-----------------------------------------------------------------------------
VARIABLES
    files,     \* content per inode, as the running system sees it
    dir,       \* the directory as the running system sees it
    dirImages, \* directories a host crash may leave
    sink,      \* per process: "closed", "ready" or "failed" (latched)
    held,      \* per process, the inode of its open file
    lastHash, size,
    holder,    \* process that holds the flock
    pc,        \* next step of the write in progress
    shift,     \* maybeRotateLocked's loop variable
    event,     \* event being written
    acked      \* history: events whose Write returned nil, in that order

diskVars == <<files, dir, dirImages>>
sinkVars == <<sink, held, lastHash, size>>
callVars == <<holder, pc, shift, event>>
vars == <<diskVars, sinkVars, callVars, acked>>

TypeOK ==
    /\ files \in Seq(File)
    /\ dir \in Directory /\ dirImages \subseteq Directory
    /\ sink \in [Sinks -> {"closed", "ready", "failed"}]
    /\ held \in [Sinks -> Nat]
    /\ lastHash \in [Sinks -> Events \cup {None}] /\ size \in [Sinks -> Nat]
    /\ holder \in Sinks \cup {Nothing}
    /\ pc \in {"unlocked", "shift", "fresh", "dirsync", "write", "sync"}
    /\ shift \in 0 .. MaxBackups
    /\ event \in Events \cup {None}
    /\ acked \in Seq(Events)

Init ==
    /\ files = << >>
    /\ dir = [i \in 0 .. MaxBackups |-> 0] /\ dirImages = {dir}
    /\ sink = [s \in Sinks |-> "closed"] /\ held = [s \in Sinks |-> 0]
    /\ lastHash = [s \in Sinks |-> None] /\ size = [s \in Sinks |-> 0]
    /\ holder = Nothing /\ pc = "unlocked" /\ shift = 0 /\ event = None
    /\ acked = << >>

Active == files[dir[0]]

Recorded(e) ==
    \E i \in DOMAIN files : \E j \in DOMAIN files[i].lines : files[i].lines[j].ev = e

Unlock ==
    /\ holder' = Nothing /\ pc' = "unlocked" /\ shift' = 0 /\ event' = None

\* The sink of process s reads its fields no more.
Forget(s) ==
    /\ held' = [held EXCEPT ![s] = 0]
    /\ lastHash' = [lastHash EXCEPT ![s] = None] /\ size' = [size EXCEPT ![s] = 0]

\* Every error after the first changed byte closes the sink for good.
Latch(s) ==
    /\ sink' = [sink EXCEPT ![s] = "failed"]
    /\ Forget(s)
    /\ Unlock

SetDirectory(d) ==
    /\ dir' = d
    /\ dirImages' = dirImages \cup {d}

-----------------------------------------------------------------------------
(* OpenJSONL, and refreshLocked at the start of Write. *)

\* healAndSeed's repair: a partial last line is cut off and the file fsynced.
Healed(file) == IF file.torn THEN [file EXCEPT !.torn = FALSE, !.synced = Len(file.lines)]
                ELSE file

\* Process s follows the file at path: descriptor, chain head and size.
Follow(s) ==
    /\ held' = [held EXCEPT ![s] = dir[0]]
    /\ lastHash' = [lastHash EXCEPT ![s] = ChainHead(Active)]
    /\ size' = [size EXCEPT ![s] = Len(Active.lines)]

\* Opening and its repair are one step: nobody else may act before they end, and a crash
\* between them leaves the file as it was before or after the repair.
OpenExisting(s) ==
    /\ pc = "unlocked" /\ sink[s] = "closed" /\ dir[0] # 0
    /\ files' = [files EXCEPT ![dir[0]] = Healed(@)]
    /\ Follow(s)
    /\ sink' = [sink EXCEPT ![s] = "ready"]
    /\ UNCHANGED <<dir, dirImages, callVars, acked>>

\* O_CREATE; the directory is not synced.
OpenNew(s) ==
    /\ pc = "unlocked" /\ sink[s] = "closed" /\ dir[0] = 0
    /\ Len(files) < MaxFiles
    /\ files' = Append(files, EmptyFile)
    /\ SetDirectory([dir EXCEPT ![0] = Len(files) + 1])
    /\ held' = [held EXCEPT ![s] = Len(files) + 1]
    /\ lastHash' = [lastHash EXCEPT ![s] = None] /\ size' = [size EXCEPT ![s] = 0]
    /\ sink' = [sink EXCEPT ![s] = "ready"]
    /\ UNCHANGED <<callVars, acked>>

\* The journal holds what process s last saw in it: same inode, same size.
Current(s) == held[s] = dir[0] /\ ~ Active.torn /\ size[s] = Len(Active.lines)

\* Mutant of Refresh: only another inode makes the sink look again.
RefreshSameInode(s) ==
    IF held[s] = dir[0] THEN UNCHANGED <<files, held, lastHash, size>>
    ELSE files' = [files EXCEPT ![dir[0]] = Healed(@)] /\ Follow(s)

Refresh(s) ==
    IF Current(s) THEN UNCHANGED <<files, held, lastHash, size>>
    ELSE files' = [files EXCEPT ![dir[0]] = Healed(@)] /\ Follow(s)

\* maybeRotateLocked's test.  How much a line adds is abstracted: the next one
\* may cross the threshold once the file has a line, and must at MaxLines.
MayRotate == Len(Active.lines) > 0
MustRotate == Len(Active.lines) >= MaxLines

BeginWrite(s, e) ==
    /\ pc = "unlocked" /\ sink[s] = "ready" /\ dir[0] # 0
    /\ ~ Recorded(e) /\ \A x \in 1 .. (e - 1) : Recorded(x)
    /\ Refresh(s)
    /\ \/ MayRotate /\ pc' = "shift" /\ shift' = MaxBackups
       \/ ~ MustRotate /\ pc' = "write" /\ shift' = 0
    /\ holder' = s /\ event' = e
    /\ UNCHANGED <<dir, dirImages, sink, acked>>

\* The journal is gone or cannot be read.
BeginWriteFails(s) ==
    /\ pc = "unlocked" /\ sink[s] = "ready"
    /\ Latch(s)
    /\ UNCHANGED <<diskVars, acked>>

-----------------------------------------------------------------------------
(* maybeRotateLocked. *)

\* One iteration: backup .shift-1 becomes .shift.
ShiftBackup ==
    /\ pc = "shift" /\ shift > 1
    /\ IF dir[shift - 1] = 0 THEN UNCHANGED <<dir, dirImages>>
       ELSE SetDirectory([dir EXCEPT ![shift] = dir[shift - 1], ![shift - 1] = 0])
    /\ shift' = shift - 1
    /\ UNCHANGED <<files, sinkVars, holder, pc, event, acked>>

\* The active file becomes .1, or goes away when no backups are kept.
RetireActive ==
    /\ pc = "shift" /\ shift <= 1
    /\ SetDirectory(IF MaxBackups = 0 THEN [dir EXCEPT ![0] = 0]
                    ELSE [dir EXCEPT ![1] = dir[0], ![0] = 0])
    /\ pc' = "fresh"
    /\ UNCHANGED <<files, sinkVars, holder, shift, event, acked>>

\* A close or rename fails with the active file in place.
RotationFails ==
    /\ pc = "shift"
    /\ Latch(holder)
    /\ \/ UNCHANGED dirImages
       \/ dirImages' = {dir}     \* reopenAfterRotationFailure syncs the directory
    /\ UNCHANGED <<files, dir, acked>>

CreateFresh ==
    /\ pc = "fresh"
    /\ Len(files) < MaxFiles
    /\ files' = Append(files, EmptyFile)
    /\ SetDirectory([dir EXCEPT ![0] = Len(files) + 1])
    /\ held' = [held EXCEPT ![holder] = Len(files) + 1]
    /\ lastHash' = [lastHash EXCEPT ![holder] = None]
    /\ size' = [size EXCEPT ![holder] = 0]
    /\ pc' = "dirsync"
    /\ UNCHANGED <<sink, holder, shift, event, acked>>

\* No fresh file: .1 takes the journal's name back, if that works.
CreateFreshFails ==
    /\ pc = "fresh"
    /\ Latch(holder)
    /\ \/ UNCHANGED <<dir, dirImages>>
       \/ /\ MaxBackups > 0
          /\ dir' = [dir EXCEPT ![0] = dir[1], ![1] = 0]
          /\ dirImages' \in {{dir'}, dirImages \cup {dir'}}
    /\ UNCHANGED <<files, acked>>

\* openJournalFile made the file and could not give it its owner or mode: .1 takes the
\* name back, or the empty file keeps it.
FreshUnusable ==
    /\ pc = "fresh"
    /\ Len(files) < MaxFiles
    /\ files' = Append(files, EmptyFile)
    /\ LET created == [dir EXCEPT ![0] = Len(files) + 1] IN
       \/ SetDirectory(created)
       \/ /\ MaxBackups > 0
          /\ dir' = [dir EXCEPT ![0] = dir[1], ![1] = 0]
          /\ dirImages' \in {{dir'}, dirImages \cup {created, dir'}}
    /\ Latch(holder)
    /\ UNCHANGED acked

RotationSynced ==
    /\ pc = "dirsync"
    /\ dirImages' = {dir}
    /\ pc' = "write"
    /\ UNCHANGED <<files, dir, sinkVars, holder, shift, event, acked>>

RotationSyncFails ==
    /\ pc = "dirsync"
    /\ Latch(holder)
    /\ UNCHANGED <<diskVars, acked>>

-----------------------------------------------------------------------------
(* The append. *)

\* The line joins a partial one, if that was not cut off.
NewLine == [ev |-> event, prev |-> IF files[held[holder]].torn THEN Glued ELSE lastHash[holder]]

WriteLine ==
    /\ pc = "write"
    /\ files' = [files EXCEPT ![held[holder]].lines = Append(@, NewLine),
                              ![held[holder]].torn = FALSE]
    /\ pc' = "sync"
    /\ UNCHANGED <<dir, dirImages, sinkVars, holder, shift, event, acked>>

\* A failed write leaves none or part of the line.
WriteLineFails ==
    /\ pc = "write"
    /\ \/ UNCHANGED files
       \/ files' = [files EXCEPT ![held[holder]].torn = TRUE]
    /\ Latch(holder)
    /\ UNCHANGED <<dir, dirImages, acked>>

\* Mutant of SyncLine: Write returns before the line is durable.
SyncLineSkipped ==
    /\ pc = "sync"
    /\ lastHash' = [lastHash EXCEPT ![holder] = event]
    /\ size' = [size EXCEPT ![holder] = @ + 1]
    /\ acked' = Append(acked, event)
    /\ Unlock
    /\ UNCHANGED <<diskVars, sink, held>>

\* The line is durable: the chain advances and Write returns nil.
SyncLine ==
    /\ pc = "sync"
    /\ files' = [files EXCEPT ![held[holder]].synced = Len(files[held[holder]].lines)]
    /\ dirImages' = {dir}
    /\ lastHash' = [lastHash EXCEPT ![holder] = event]
    /\ size' = [size EXCEPT ![holder] = @ + 1]
    /\ acked' = Append(acked, event)
    /\ Unlock
    /\ UNCHANGED <<dir, sink, held>>

\* The line may or may not last, and the process does not know.
SyncLineFails ==
    /\ pc = "sync"
    /\ Latch(holder)
    /\ UNCHANGED <<diskVars, acked>>

-----------------------------------------------------------------------------
(* The environment. *)

\* Process s closes the journal or is killed, wherever it is.
ProcessExit(s) ==
    /\ sink[s] # "closed"
    /\ sink' = [sink EXCEPT ![s] = "closed"]
    /\ Forget(s)
    /\ IF holder = s THEN Unlock ELSE UNCHANGED callVars
    /\ UNCHANGED <<diskVars, acked>>

\* What a host crash may leave of a file: at least its synced lines, and bytes of
\* one more where an append was under way.
CrashFiles(file) ==
    {left \in {[lines |-> SubSeq(file.lines, 1, k), synced |-> k, torn |-> t] :
                   k \in file.synced .. Len(file.lines), t \in BOOLEAN} :
        left.torn => file.torn \/ left.synced < Len(file.lines)}

\* The least of them: so much is left of a backup, whose tail nobody reads again.
Durable(file) == [lines |-> SubSeq(file.lines, 1, file.synced), synced |-> file.synced, torn |-> FALSE]

\* All processes end.
HostCrash ==
    /\ \E d \in dirImages :
         /\ dir' = d /\ dirImages' = {d}
         /\ IF d[0] = 0 THEN files' = [i \in DOMAIN files |-> Durable(files[i])]
            ELSE \E left \in CrashFiles(files[d[0]]) :
                   files' = [i \in DOMAIN files |->
                                IF i = d[0] THEN left ELSE Durable(files[i])]
    /\ sink' = [s \in Sinks |-> "closed"] /\ held' = [s \in Sinks |-> 0]
    /\ lastHash' = [s \in Sinks |-> None] /\ size' = [s \in Sinks |-> 0]
    /\ Unlock
    /\ UNCHANGED acked

-----------------------------------------------------------------------------
Rotation ==
    \/ ShiftBackup \/ RetireActive \/ RotationFails
    \/ CreateFresh \/ CreateFreshFails \/ FreshUnusable \/ RotationSynced \/ RotationSyncFails

AppendSteps == WriteLine \/ WriteLineFails \/ SyncLine \/ SyncLineFails

Next ==
    \/ \E s \in Sinks :
        \/ OpenExisting(s) \/ OpenNew(s) \/ BeginWriteFails(s) \/ ProcessExit(s)
        \/ \E e \in Events : BeginWrite(s, e)
    \/ Rotation \/ AppendSteps \/ HostCrash

Spec == Init /\ [][Next]_vars

-----------------------------------------------------------------------------
(* Properties. *)

\* Every journal file, the active one and each backup, is one unbroken chain
\* from prev_hash = "", whoever wrote its lines: audit verify never reports a
\* break that the writers made themselves.
ChainsVerify == \A i \in DOMAIN files : Verifies(files[i].lines)

\* The lines of name n that survive in directory d if the host stops now.
Lasting(d, n) == IF d[n] = 0 THEN {} ELSE 1 .. files[d[n]].synced

EventAt(d, n, k) == files[d[n]].lines[k].ev

Shown(d, e) == \E n \in 0 .. MaxBackups : \E k \in Lasting(d, n) : EventAt(d, n, k) = e

\* Line k of name n comes before line l of name m: names count from the newest.
Older(n, k, m, l) == m < n \/ (n = m /\ k < l)

\* The files hold reported events in the order they were reported, each once.
ShownInOrder ==
    \A d \in dirImages : \A n, m \in 0 .. MaxBackups :
        \A k \in Lasting(d, n), l \in Lasting(d, m) : \A a, b \in DOMAIN acked :
            EventAt(d, n, k) = acked[a] /\ EventAt(d, m, l) = acked[b]
                => (a < b <=> Older(n, k, m, l))

\* The reported events that are gone are the first ones: none is missing between others.
NoneMissing ==
    \A d \in dirImages : \A a, b \in DOMAIN acked :
        a < b /\ Shown(d, acked[a]) => Shown(d, acked[b])

IsAcked(line) == \E j \in DOMAIN acked : acked[j] = line.ev

HoldsAcked(file) == \E k \in 1 .. file.synced : IsAcked(file.lines[k])

\* Names of backups that a rotation stopped in the middle of its renames left free.
Gaps(d) == {k \in 1 .. MaxBackups : d[k] = 0 /\ \E m \in k .. MaxBackups : d[m] # 0}

\* A file with a reported event is gone only when every name that retention gives to
\* a newer file has one, or is free because a rotation was stopped between two
\* renames: the next rotation overwrites the oldest backup although a name is free.
RetentionHonoured ==
    \A d \in dirImages : \A i \in DOMAIN files :
        \/ ~ HoldsAcked(files[i])
        \/ \E k \in 0 .. MaxBackups : d[k] = i
        \/ Cardinality({k \in 0 .. MaxBackups : d[k] > i}) + Cardinality(Gaps(d)) >= MaxBackups

\* Whatever fails or stops, and whenever, a reported event is lost to retention only,
\* and no event in the middle of the trail is.
AckedEventsLast == ShownInOrder /\ NoneMissing /\ RetentionHonoured
=============================================================================

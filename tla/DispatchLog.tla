---------------------------- MODULE DispatchLog ----------------------------
(***************************************************************************)
(* The runner's durable dispatch log (runner/internal/cloud/dedup.go and   *)
(* dedup_store.go): an in-memory ring of request records, one file that    *)
(* holds a snapshot of the ring followed by strict transitions, and the    *)
(* write path that keeps the two together across write errors, process     *)
(* exits and host crashes.                                                 *)
(*                                                                         *)
(* A file is modelled by what readDispatchStore makes of it: an image that *)
(* is absent, loads to a ring, is torn (ends in a partial line) or is      *)
(* invalid (holds a complete line the strict replay rejects).  Every       *)
(* system call of the write path is a step of its own, so that a crash may *)
(* fall between any two of them.  The ring's mutex serialises the callers: *)
(* one operation is in progress at a time.                                 *)
(***************************************************************************)
EXTENDS Naturals, Sequences, FiniteSets, SequencesExt

CONSTANTS
    Requests,       \* request ids the portal uses
    Digests,        \* digests of the execution facts of a dispatch
    Results,        \* terminal results a handler may produce
    Nothing,        \* no request, digest or result
    LegacyDigest,   \* legacyDispatchDigest: the sentinel of an adopted entry
    LegacyResult,   \* the normalised result of an adopted entry
    LegacyKeys,     \* ids in the log an older release left, oldest first
    LegacyRecords,  \* and what that log records of each id
    RingMax,        \* ring capacity (Options.DedupRingSize)
    CompactAfter,   \* transitions before the log is rewritten: max(64, 3*max)
    JournaledRename \* the filesystem's fsync of a file also makes the rename
                    \* that put it in place durable; POSIX does not promise it

ASSUME DispatchLogAssumption ==
    /\ Nothing \notin Requests \cup Digests \cup Results
    /\ LegacyDigest \notin Digests \cup {Nothing}
    /\ LegacyResult # Nothing
    /\ LegacyKeys \in Seq(Requests)
    /\ RingMax \in Nat \ {0}
    /\ CompactAfter \in Nat \ {0}
    /\ JournaledRename \in BOOLEAN

-----------------------------------------------------------------------------
(* Records, rings and transitions. *)

RecordState == {"none", "reserved", "completed", "acknowledged"}

\* dedupEntry; the request id is the index, state "none" is "no such key".
Entry == [state  : RecordState,
          digest : Digests \cup {LegacyDigest, Nothing},
          result : Results \cup {LegacyResult, Nothing}]

NoEntry == [state |-> "none", digest |-> Nothing, result |-> Nothing]

\* keys: insertion order, oldest first; recs: the records.
Ring == [keys : Seq(Requests), recs : [Requests -> Entry]]

EmptyRing == [keys |-> << >>, recs |-> [q \in Requests |-> NoEntry]]

\* decodeLegacyDedupEntry: every adopted entry is an acknowledged terminal
\* result under a digest no delivered dispatch can carry.
LegacyEntry == [state |-> "acknowledged", digest |-> LegacyDigest,
                result |-> LegacyResult]

\* validDedupEntry, of a record that an older release wrote with a state.
ValidLegacyRecord(e) ==
    \/ e.state = "reserved" /\ e.digest \in Digests /\ e.result = Nothing
    \/ e.state \in {"completed", "acknowledged"} /\ e.digest \in Digests /\ e.result \in Results

\* An older log names every record once.  v0.9 wrote results without a state; releases
\* up to v0.12, at the old path, and up to v0.23, with a field that is gone now, wrote
\* records in any state.
ASSUME LegacyAssumption ==
    /\ LegacyRecords \in [Requests -> Entry]
    /\ \A i, j \in DOMAIN LegacyKeys : LegacyKeys[i] = LegacyKeys[j] => i = j
    /\ \A q \in Requests :
          IF \E i \in DOMAIN LegacyKeys : LegacyKeys[i] = q
          THEN LegacyRecords[q] = LegacyEntry \/ ValidLegacyRecord(LegacyRecords[q])
          ELSE LegacyRecords[q] = NoEntry

LegacyRing == [keys |-> LegacyKeys, recs |-> LegacyRecords]

Unfinished(ring) == {q \in Requests : ring.recs[q].state \in {"reserved", "completed"}}

\* What evictToMax may not cut: an older log may hold more of it than the ring has room for.
Inherited == Unfinished(LegacyRing)

\* dispatchTransition: the new entry of id and the id it evicts, if any.
Transition == [id : Requests, entry : Entry, evict : Requests \cup {Nothing}]

NoOp == [id |-> Nothing, entry |-> NoEntry, evict |-> Nothing]

\* validateDispatchTransition
ValidTransition(ring, t) ==
    LET previous == ring.recs[t.id]
        sameFacts == previous.digest = t.entry.digest
    IN  /\ t.evict # Nothing =>
              /\ t.entry.state = "reserved"
              /\ t.evict # t.id
              /\ ring.recs[t.evict].state = "acknowledged"
        /\ \/ t.entry.state = "reserved" /\ previous.state = "none"
           \/ t.entry.state = "completed" /\ previous.state = "reserved" /\ sameFacts
           \/ /\ t.entry.state = "acknowledged"
              /\ previous.state = "completed"
              /\ sameFacts
              /\ previous.result = t.entry.result

\* Mutant of ApplyTransition: the evicted key stays in the insertion order.
ApplyKeepsEvictedKey(ring, t) ==
    [keys |-> IF t.entry.state = "reserved" THEN Append(ring.keys, t.id) ELSE ring.keys,
     recs |-> [q \in Requests |-> IF q = t.id THEN t.entry
                                  ELSE IF q = t.evict THEN NoEntry
                                  ELSE ring.recs[q]]]

\* applyDispatchTransition
ApplyTransition(ring, t) ==
    LET kept == IF t.evict = Nothing THEN ring.keys
                ELSE RemoveAt(ring.keys, CHOOSE i \in DOMAIN ring.keys : ring.keys[i] = t.evict)
    IN  [keys |-> IF t.entry.state = "reserved" THEN Append(kept, t.id) ELSE kept,
         recs |-> [q \in Requests |-> IF q = t.id THEN t.entry
                                      ELSE IF q = t.evict THEN NoEntry
                                      ELSE ring.recs[q]]]

\* oldestAcknowledgedLocked: position i holds the oldest evictable record.
OldestAcknowledged(ring, i) ==
    /\ i \in DOMAIN ring.keys
    /\ ring.recs[ring.keys[i]].state = "acknowledged"
    /\ \A j \in 1 .. (i - 1) : ring.recs[ring.keys[j]].state # "acknowledged"

\* evictOldestAcknowledgedLocked on the record at position i.
Evict(ring, i) ==
    [keys |-> RemoveAt(ring.keys, i),
     recs |-> [ring.recs EXCEPT ![ring.keys[i]] = NoEntry]]

-----------------------------------------------------------------------------
(* File images. *)

\* "ok" ends in a newline; "noeol" ends in a complete record without one;
\* "legacy" has lines of an older format; "torn" ends in part of a record; "invalid" has
\* a complete line that the strict replay rejects.  lines counts transitions.
Image == [kind  : {"absent", "ok", "noeol", "legacy", "torn", "invalid"},
          ring  : Ring,
          lines : Nat]

Loads(img) == img.kind \in {"ok", "noeol", "legacy"}

Absent  == [kind |-> "absent", ring |-> EmptyRing, lines |-> 0]
Torn    == [kind |-> "torn", ring |-> EmptyRing, lines |-> 0]
Invalid == [kind |-> "invalid", ring |-> EmptyRing, lines |-> 0]
Snapshot(ring) == [kind |-> "ok", ring |-> ring, lines |-> 0]
LegacyLog == [kind |-> "legacy", ring |-> LegacyRing, lines |-> 0]

\* What readDispatchStore makes of a file after one complete line is appended:
\* a record the line is glued to, or a transition out of sequence, is rejected.
AppendLine(img, t) ==
    IF img.kind \in {"ok", "legacy"} /\ ValidTransition(img.ring, t)
    THEN [img EXCEPT !.ring = ApplyTransition(@, t), !.lines = @ + 1]
    ELSE Invalid

\* ... and when the line's last byte, the newline, did not make it.
WithoutNewline(img) == IF img.kind = "ok" THEN [img EXCEPT !.kind = "noeol"] ELSE img

-----------------------------------------------------------------------------
(* State. *)

VARIABLES
    mem,         \* keys and records of the running process
    file,        \* image at storePath as the running system sees it
    inode,       \* images the current file may hold after a host crash
    staleDir,    \* images an undurable rename may bring back after a host crash
    legacyFile,  \* image at legacyPath
    phase,       \* where the process is: see Phase
    op,          \* transition being committed; NoOp while load rewrites the log
    secondPass,  \* in the second pass of prepareAppendLocked's loop
    oldEOF,      \* the log up to where the append in progress starts
    adopting,    \* load is migrating legacyFile
    needsSnapshot, transitionCount,
    stampOK,     \* d.backing is the stat of the file at storePath
    persistErr,  \* a rollback failed: unusable until restart
    grants,      \* history: executions permitted per id since its last ack, by an
                 \* older release too; 2 is many
    outcome,     \* history: result whose completion was reported, until its ack
    orphaned     \* history: a process ended with its rename not yet durable

diskVars == <<file, inode, staleDir, legacyFile>>
ringVars == <<mem, needsSnapshot, transitionCount, stampOK, persistErr>>
callVars == <<phase, op, secondPass, oldEOF, adopting>>
history  == <<grants, outcome, orphaned>>
vars == <<diskVars, ringVars, callVars, history>>

\* "refused" is a process that exited with startupRefusal.
Phase == {"down", "refused", "evict", "idle", "snapshot", "dirsync", "open", "write",
          "sync", "rollback"}

FlagsOK ==
    /\ secondPass \in BOOLEAN /\ adopting \in BOOLEAN
    /\ needsSnapshot \in BOOLEAN /\ stampOK \in BOOLEAN
    /\ persistErr \in BOOLEAN /\ orphaned \in BOOLEAN

TypeOK ==
    /\ FlagsOK
    /\ mem \in Ring
    /\ file \in Image /\ legacyFile \in Image /\ oldEOF \in Image
    /\ inode \subseteq Image /\ staleDir \subseteq Image
    /\ phase \in Phase
    /\ op \in Transition \cup {NoOp}
    /\ transitionCount \in Nat
    /\ grants \in [Requests -> 0 .. 2]
    /\ outcome \in [Requests -> Results \cup {Nothing}]

\* A fresh host, a host upgraded from a release that kept dedup.jsonl (readable
\* or not), or one whose current log still has lines of an older format.
Init ==
    /\ \/ file = Absent /\ legacyFile \in {Absent, LegacyLog, Torn}
       \/ file = LegacyLog /\ legacyFile = Absent
    /\ LET recs == IF file = Absent /\ legacyFile = Absent THEN EmptyRing.recs ELSE LegacyRecords
       IN  /\ grants = [q \in Requests |->
                          IF recs[q].state \in {"reserved", "completed"} THEN 1 ELSE 0]
           /\ outcome = [q \in Requests |->
                          IF recs[q].state = "completed" THEN recs[q].result ELSE Nothing]
    /\ inode = {file} /\ staleDir = {}
    /\ mem = EmptyRing
    /\ needsSnapshot = TRUE /\ transitionCount = 0
    /\ stampOK = FALSE /\ persistErr = FALSE
    /\ phase = "down" /\ op = NoOp /\ secondPass = FALSE
    /\ oldEOF = Absent /\ adopting = FALSE
    /\ orphaned = FALSE

CrashImages == inode \cup staleDir

-----------------------------------------------------------------------------
(* Boot: newDedupRing and load. *)

Stopped == phase \in {"down", "refused"}

\* No operation is in progress.
NoCall(next) ==
    /\ phase' = next
    /\ op' = NoOp /\ secondPass' = FALSE /\ oldEOF' = Absent

\* The process that loads the log: nothing in progress, nothing failed yet.
FreshProcess(next) ==
    /\ NoCall(next)
    /\ persistErr' = FALSE

\* readDispatchStore succeeds.  A log whose last record has no newline, and one
\* with legacy lines, must be rewritten before the next append.
LoadCurrent ==
    /\ Stopped /\ Loads(file)
    /\ mem' = file.ring
    /\ needsSnapshot' = (file.kind # "ok")
    /\ transitionCount' = file.lines
    /\ stampOK' = TRUE
    /\ adopting' = FALSE
    /\ FreshProcess("evict")
    /\ UNCHANGED <<diskVars, history>>

\* Mutant of LoadLegacy: a log that cannot be read counts as no log.
LoadLegacyFailsOpen ==
    /\ Stopped /\ ~ Loads(file)
    /\ mem' = legacyFile.ring
    /\ needsSnapshot' = TRUE /\ transitionCount' = 0
    /\ stampOK' = FALSE
    /\ adopting' = Loads(legacyFile)
    /\ FreshProcess("evict")
    /\ UNCHANGED <<diskVars, history>>

\* No current log: adoptLegacyStore reads the pre-v0.12 file, if there is one.
LoadLegacy ==
    /\ Stopped /\ file.kind = "absent"
    /\ legacyFile.kind = "absent" \/ Loads(legacyFile)
    /\ mem' = legacyFile.ring
    /\ needsSnapshot' = TRUE /\ transitionCount' = 0
    /\ stampOK' = FALSE
    /\ adopting' = Loads(legacyFile)
    /\ FreshProcess("evict")
    /\ UNCHANGED <<diskVars, history>>

\* One iteration of evictToMax's loop over a ring loaded above capacity ...
EvictToMax ==
    /\ phase = "evict" /\ Len(mem.keys) > RingMax
    /\ \E i \in DOMAIN mem.keys : OldestAcknowledged(mem, i) /\ mem' = Evict(mem, i)
    /\ needsSnapshot' = TRUE
    /\ UNCHANGED <<diskVars, transitionCount, stampOK, persistErr, callVars, history>>

\* ... which ends at the capacity, or above it when no record may go.  Adopted and
\* legacy records are persisted in the current format before connect goes on.
Loaded ==
    /\ phase = "evict"
    /\ \/ Len(mem.keys) <= RingMax
       \/ \A q \in Requests : mem.recs[q].state # "acknowledged"
    /\ phase' = IF adopting \/ file.kind = "legacy" THEN "snapshot" ELSE "idle"
    /\ UNCHANGED <<diskVars, ringVars, op, secondPass, oldEOF, adopting, history>>

\* A torn or invalid log, current or legacy, fails closed.
LoadRefused ==
    /\ Stopped
    /\ \/ file.kind \in {"torn", "invalid"}
       \/ file.kind = "absent" /\ legacyFile.kind \in {"torn", "invalid"}
    /\ phase' = "refused"
    /\ UNCHANGED <<diskVars, ringVars, op, secondPass, oldEOF, adopting, history>>

-----------------------------------------------------------------------------
(* Callers.  A call that changes nothing durable (a known id, a full ring, an  *)
(* unusable log) returns at once and is no step; the others start a commit.    *)

Usable == phase = "idle" /\ ~ persistErr

\* The test at the head of prepareAppendLocked's loop.  The byte threshold on
\* appended data is abstracted to "may trip once anything was appended".
Prepare ==
    \/ phase' = "snapshot" /\ (needsSnapshot \/ transitionCount > 0)
    \/ phase' = "open" /\ ~ needsSnapshot /\ transitionCount < CompactAfter

StartCommit(t) ==
    /\ ValidTransition(mem, t)
    /\ Prepare
    /\ op' = t /\ secondPass' = FALSE
    /\ UNCHANGED <<diskVars, ringVars, oldEOF, adopting>>

\* The record a full ring drops to make room for a new reservation.
Evicted(ring, key) ==
    IF Len(ring.keys) < RingMax THEN key = Nothing
    ELSE \E i \in DOMAIN ring.keys : OldestAcknowledged(ring, i) /\ key = ring.keys[i]

\* reserve on an id the ring does not know, with room or an evictable record.
Reserve(q, d) ==
    /\ Usable /\ mem.recs[q].state = "none"
    /\ \E key \in Requests \cup {Nothing} :
         /\ Evicted(mem, key)
         /\ StartCommit([id |-> q, evict |-> key,
                         entry |-> [state |-> "reserved", digest |-> d, result |-> Nothing]])
    /\ UNCHANGED history

\* complete on the exact reservation.
Complete(q, r) ==
    /\ Usable /\ mem.recs[q].state = "reserved"
    /\ StartCommit([id |-> q, evict |-> Nothing,
                    entry |-> [mem.recs[q] EXCEPT !.state = "completed", !.result = r]])
    /\ UNCHANGED history

\* acknowledge on a completed record.  From here on the portal holds the
\* result, whether or not this write succeeds.
Acknowledge(q) ==
    /\ Usable /\ mem.recs[q].state = "completed"
    /\ StartCommit([id |-> q, evict |-> Nothing,
                    entry |-> [mem.recs[q] EXCEPT !.state = "acknowledged"]])
    /\ grants' = [grants EXCEPT ![q] = 0]
    /\ outcome' = [outcome EXCEPT ![q] = Nothing]
    /\ UNCHANGED orphaned

-----------------------------------------------------------------------------
(* writeStore: replace the log by a snapshot of memory. *)

\* The caller gets an error.  During load that is failedWrite: connect refuses.
ReplyError ==
    /\ NoCall(IF op = NoOp THEN "refused" ELSE "idle")
    /\ mem' = IF op = NoOp THEN EmptyRing ELSE mem
    /\ adopting' = FALSE
    /\ orphaned' = IF op = NoOp /\ staleDir' # {} /\ ~ JournaledRename
                   THEN TRUE ELSE orphaned
    /\ UNCHANGED <<grants, outcome>>

\* A failure before the rename leaves the old log in place.
SnapshotFails ==
    /\ phase = "snapshot"
    /\ needsSnapshot' = TRUE
    /\ UNCHANGED <<diskVars, transitionCount, stampOK, persistErr>>
    /\ ReplyError

\* Mutant of SnapshotRename: the ring counts as persisted before the directory is.
SnapshotRenameMarksClean ==
    /\ phase = "snapshot"
    /\ file' = Snapshot(mem)
    /\ inode' = {file'}
    /\ staleDir' = staleDir \cup inode
    /\ needsSnapshot' = FALSE /\ stampOK' = TRUE
    /\ phase' = "dirsync"
    /\ UNCHANGED <<legacyFile, mem, transitionCount, persistErr, op, secondPass,
                   oldEOF, adopting, history>>

\* The snapshot, already fsynced under its temporary name, takes the log's name.
SnapshotRename ==
    /\ phase = "snapshot"
    /\ file' = Snapshot(mem)
    /\ inode' = {file'}
    /\ staleDir' = staleDir \cup inode
    /\ needsSnapshot' = TRUE /\ stampOK' = FALSE
    /\ phase' = "dirsync"
    /\ UNCHANGED <<legacyFile, mem, transitionCount, persistErr, op, secondPass,
                   oldEOF, adopting, history>>

\* The directory fsync, or the reopen and stat after it, fails.
DirSyncFails ==
    /\ phase = "dirsync"
    /\ staleDir' \in {staleDir, {}}
    /\ ReplyError
    /\ UNCHANGED <<file, inode, legacyFile, needsSnapshot, transitionCount,
                   stampOK, persistErr>>

\* The snapshot is durable.  At boot the adopted legacy file is renamed away,
\* if that works; at run time the append goes on.
DirSync ==
    /\ phase = "dirsync"
    /\ staleDir' = {}
    /\ needsSnapshot' = FALSE /\ transitionCount' = 0 /\ stampOK' = TRUE
    /\ phase' = IF op = NoOp THEN "idle" ELSE "open"
    /\ \/ UNCHANGED legacyFile
       \/ adopting /\ legacyFile' = Absent
    /\ adopting' = FALSE
    /\ UNCHANGED <<file, inode, mem, persistErr, op, secondPass, oldEOF, history>>

-----------------------------------------------------------------------------
(* The append. *)

\* The log opens and is the file memory was committed to.
OpenAppend ==
    /\ phase = "open" /\ stampOK
    /\ phase' = "write" /\ oldEOF' = file
    /\ UNCHANGED <<diskVars, ringVars, op, secondPass, adopting, history>>

\* Mutant of OpenDrifted: the retry after drift is not counted.
OpenDriftedUnbounded ==
    /\ phase = "open" /\ ~ stampOK
    /\ needsSnapshot' = TRUE
    /\ phase' = "snapshot"
    /\ UNCHANGED <<diskVars, mem, transitionCount, stampOK, persistErr, op, secondPass,
                   oldEOF, adopting, history>>

\* The log is gone or carries another stamp: snapshot once more ...
OpenDrifted ==
    /\ phase = "open" /\ ~ stampOK /\ ~ secondPass
    /\ needsSnapshot' = TRUE
    /\ phase' = "snapshot" /\ secondPass' = TRUE
    /\ UNCHANGED <<diskVars, mem, transitionCount, stampOK, persistErr, op, oldEOF,
                   adopting, history>>

\* ... and give up when that did not help.
OpenGivesUp ==
    /\ phase = "open" /\ ~ stampOK /\ secondPass
    /\ needsSnapshot' = TRUE
    /\ UNCHANGED <<diskVars, transitionCount, stampOK, persistErr>>
    /\ ReplyError

OpenFails ==
    /\ phase = "open"
    /\ UNCHANGED <<diskVars, needsSnapshot, transitionCount, stampOK, persistErr>>
    /\ ReplyError

\* What a host crash may leave of an unsynced append.
AppendImages(img, t) ==
    LET full == AppendLine(img, t) IN {full, WithoutNewline(full), Torn}

Write ==
    /\ phase = "write"
    /\ file' = AppendLine(file, op)
    /\ inode' = inode \cup AppendImages(file, op)
    /\ phase' = "sync"
    /\ UNCHANGED <<staleDir, legacyFile, ringVars, op, secondPass, oldEOF, adopting, history>>

\* A failed or short write leaves none, part or all but the newline of the line.
WriteFails ==
    /\ phase = "write"
    /\ file' \in {file, Torn, WithoutNewline(AppendLine(file, op))}
    /\ inode' = inode \cup AppendImages(file, op)
    /\ phase' = "rollback"
    /\ UNCHANGED <<staleDir, legacyFile, ringVars, op, secondPass, oldEOF, adopting, history>>

SyncFails ==
    /\ phase = "sync"
    /\ phase' = "rollback"
    /\ UNCHANGED <<diskVars, ringVars, op, secondPass, oldEOF, adopting, history>>

\* Mutant of FileSynced: the fsync is skipped.
FileSyncedSkipped ==
    /\ inode' = inode \cup {file'}
    /\ UNCHANGED staleDir

\* An fsync of the log makes its content durable, and on a journaling
\* filesystem the rename that created it.
FileSynced ==
    /\ inode' = {file'}
    /\ staleDir' = IF JournaledRename THEN {} ELSE staleDir

\* Mutant of Sync: a stat failure after the fsync fails the call, and memory
\* does not learn of the transition.
SyncStatErrorAborts ==
    /\ phase = "sync"
    /\ UNCHANGED <<file, legacyFile>>
    /\ FileSynced
    /\ transitionCount' = transitionCount + 1
    /\ \/ mem' = ApplyTransition(mem, op)
       \/ mem' = mem
    /\ NoCall("idle")
    /\ UNCHANGED <<needsSnapshot, stampOK, persistErr, adopting, history>>

\* The commit barrier: from here memory holds the transition too, even when the
\* stat that follows fails.  The caller is told of the success.
Sync ==
    /\ phase = "sync"
    /\ UNCHANGED <<file, legacyFile>>
    /\ FileSynced
    /\ \/ UNCHANGED <<needsSnapshot, stampOK>>
       \/ needsSnapshot' = TRUE /\ stampOK' = FALSE
    /\ transitionCount' = transitionCount + 1
    /\ mem' = ApplyTransition(mem, op)
    /\ grants' = IF op.entry.state = "reserved"
                 THEN [grants EXCEPT ![op.id] = IF @ = 0 THEN 1 ELSE 2] ELSE grants
    /\ outcome' = IF op.entry.state = "completed"
                  THEN [outcome EXCEPT ![op.id] = op.entry.result] ELSE outcome
    /\ NoCall("idle")
    /\ UNCHANGED <<persistErr, adopting, orphaned>>

\* rollbackAppendLocked: truncate to the old end, fsync, stat.
Rollback ==
    /\ phase = "rollback"
    /\ file' = oldEOF
    /\ FileSynced
    /\ \/ UNCHANGED <<needsSnapshot, stampOK>>
       \/ needsSnapshot' = TRUE /\ stampOK' = FALSE
    /\ UNCHANGED <<legacyFile, transitionCount, persistErr>>
    /\ ReplyError

\* The truncation or its fsync fails: nothing is known of the log's tail.
RollbackFails ==
    /\ phase = "rollback"
    /\ \/ UNCHANGED <<file, inode>>
       \/ /\ file' = oldEOF
          /\ inode' = inode \cup {file'}
    /\ persistErr' = TRUE
    /\ UNCHANGED <<staleDir, legacyFile, needsSnapshot, transitionCount, stampOK>>
    /\ ReplyError

-----------------------------------------------------------------------------
(* The environment: stamps drift, processes end, hosts lose power. *)

\* Something (a backup, a touch) changes the log's stamp and not its content.
Touch ==
    /\ phase \in {"idle", "open"} /\ stampOK
    /\ stampOK' = FALSE
    /\ UNCHANGED <<diskVars, mem, needsSnapshot, transitionCount, persistErr,
                   callVars, history>>

\* The process ends at any point; what it wrote stays visible to the next one.
ProcessExit ==
    /\ ~ Stopped
    /\ NoCall("down") /\ adopting' = FALSE
    /\ orphaned' = IF staleDir # {} /\ ~ JournaledRename THEN TRUE ELSE orphaned
    /\ UNCHANGED <<diskVars, ringVars, grants, outcome>>

\* The host goes down: only what was synced is certain.
HostCrash ==
    /\ file' \in CrashImages
    /\ inode' = {file'} /\ staleDir' = {}
    /\ NoCall("down") /\ adopting' = FALSE
    /\ UNCHANGED <<legacyFile, ringVars, history>>

-----------------------------------------------------------------------------
Boot == LoadCurrent \/ LoadLegacy \/ EvictToMax \/ Loaded \/ LoadRefused

Call ==
    \E q \in Requests :
        \/ \E d \in Digests : Reserve(q, d)
        \/ \E r \in Results : Complete(q, r)
        \/ Acknowledge(q)

IO ==
    \/ SnapshotFails \/ SnapshotRename \/ DirSyncFails \/ DirSync
    \/ OpenAppend \/ OpenDrifted \/ OpenGivesUp \/ OpenFails
    \/ Write \/ WriteFails \/ SyncFails \/ Sync \/ Rollback \/ RollbackFails

Environment == Touch \/ ProcessExit \/ HostCrash

Next == Boot \/ Call \/ IO \/ Environment

Spec == Init /\ [][Next]_vars

\* A system call returns; the process may end at any time.
FairSpec == Spec /\ WF_vars(IO)

-----------------------------------------------------------------------------
(* Properties. *)

Up == ~ Stopped

\* The images a start of the process may find at storePath.
Images == {file} \cup CrashImages

\* A request is granted an execution at most once until the control plane
\* acknowledges its result, whatever write, rollback or rename fails and wherever
\* the process or the host stops - as long as no process ended between the
\* rename of a snapshot and the directory fsync that makes it durable.
AtMostOnce == orphaned \/ \A q \in Requests : grants[q] <= 1

\* What load makes of an image at storePath: without a log, the older one is adopted.
Found(img) == IF img.kind = "absent" THEN legacyFile ELSE img

\* Once complete returned, in this release or the one before, a later start finds that
\* result in the log, or a log it refuses to start on, until the result is acknowledged.
ResultDurable ==
    \A q \in Requests : outcome[q] # Nothing =>
        \/ orphaned
        \/ \A img \in Images :
              \/ Found(img).kind = "torn"
              \/ /\ Loads(Found(img))
                 /\ Found(img).ring.recs[q].state = "completed"
                 /\ Found(img).ring.recs[q].result = outcome[q]

\* The strict replay never meets a complete line it rejects: no sequence of
\* failed appends, retries, rollbacks and restarts makes the runner write a
\* transition its own loader refuses.
ReplayAccepts == \A img \in Images : img.kind # "invalid"

\* The insertion order names every record once, in memory and in every log.
WellFormed(ring) ==
    /\ \A i, j \in DOMAIN ring.keys : ring.keys[i] = ring.keys[j] => i = j
    /\ \A q \in Requests :
          ring.recs[q].state # "none" <=> \E i \in DOMAIN ring.keys : ring.keys[i] = q
KeysMatchRecords ==
    /\ WellFormed(mem)
    /\ \A img \in Images : WellFormed(img.ring)

\* The most load leaves in the ring.
Capacity == IF Cardinality(Inherited) > RingMax THEN Cardinality(Inherited) ELSE RingMax

\* The ring does not grow past its capacity: a reservation on a full ring evicts, and
\* an older log is cut down when it is loaded, except for unfinished records, of which
\* no more than were found are ever kept.
RingBounded == Up /\ phase # "evict" => Len(mem.keys) <= Capacity

\* Both at once: the insertion order, the records and the capacity of the ring
\* agree, across evictions, replays, migrations and failed commits.
RingSound == KeysMatchRecords /\ RingBounded

-----------------------------------------------------------------------------
(* The inductive invariant behind the properties, part by part. *)

\* Within capacity, or an older log that load will cut down to its unfinished records.
Fits(ring) ==
    /\ WellFormed(ring)
    /\ Len(ring.keys) <= Capacity \/ Unfinished(ring) \subseteq Inherited

RingsFit ==
    /\ \A img \in Images \cup {legacyFile} : Fits(img.ring)
    /\ Fits(mem)
    /\ RingBounded

\* The operation in progress is a legal next transition of memory.
CallValid ==
    /\ Stopped \/ phase \in {"idle", "evict"} => op = NoOp
    /\ phase \in {"open", "write", "sync", "rollback"} => op # NoOp
    /\ op # NoOp =>
         /\ op \in Transition /\ ValidTransition(mem, op)
         /\ op.entry.state = "reserved" /\ op.evict = Nothing => Len(mem.keys) < RingMax
         /\ op.entry.state = "completed" => op.entry.result \in Results

\* The log is memory's image except while a snapshot is owed.
LogMatchesMemory ==
    /\ Up /\ phase # "idle" => ~ persistErr
    /\ phase \in {"open", "write", "sync", "rollback"} => ~ needsSnapshot
    /\ phase \in {"evict", "idle", "snapshot", "open"} /\ ~ needsSnapshot /\ ~ persistErr
          => file.kind = "ok" /\ file.ring = mem
    /\ phase = "dirsync" => needsSnapshot /\ file = Snapshot(mem) /\ inode = {file}
    /\ phase \in {"write", "sync", "rollback"} => oldEOF.kind = "ok" /\ oldEOF.ring = mem
    /\ phase = "write" => file = oldEOF
    /\ phase = "sync" => file = AppendLine(oldEOF, op)
    /\ ReplayAccepts

\* No append goes to a log whose rename is not durable.
RenameDurable ==
    Stopped \/ ~ needsSnapshot => staleDir = {} \/ JournaledRename \/ orphaned

\* A granted request is on record, unacknowledged, wherever a start may look.
GrantOnRecord ==
    \A q \in Requests : grants[q] > 0 =>
        \/ orphaned
        \/ /\ \A img \in Images :
                 \/ Found(img).kind = "torn"
                 \/ /\ Loads(Found(img))
                    /\ Found(img).ring.recs[q].state \in {"reserved", "completed"}
           /\ Up => mem.recs[q].state \in {"reserved", "completed"}
           /\ op # NoOp /\ op.id = q => op.entry.state = "completed"

\* A reported result is in memory, and no operation in progress changes it.
ResultInMemory ==
    \A q \in Requests : outcome[q] # Nothing =>
        \/ orphaned
        \/ /\ Up => mem.recs[q].state = "completed" /\ mem.recs[q].result = outcome[q]
           /\ op # NoOp => op.id # q

Inv ==
    /\ TypeOK /\ RingsFit /\ CallValid /\ LogMatchesMemory /\ RenameDurable
    /\ GrantOnRecord /\ ResultDurable /\ ResultInMemory /\ AtMostOnce

-----------------------------------------------------------------------------
\* Every call returns: the drift that sends the append back to a snapshot does
\* so once, however often the log is touched.
CallReturns == op # NoOp ~> op = NoOp

\* What the comment on dedupRing promises without reservation: "at-most-once
\* execution across process and host crashes".
AtMostOnceAcrossCrashes == \A q \in Requests : grants[q] <= 1

-----------------------------------------------------------------------------
(* What the callers of the log are promised. *)

Ledger == INSTANCE DispatchLedger WITH granted <- grants, reported <- outcome

\* The log implements the ledger: where a fsync of the log makes its rename
\* durable, no crash, failed write or rollback grants a request twice, or
\* replaces a result that was reported, before the request is acknowledged.
ImplementsLedger == Ledger!LedgerSpec

=============================================================================

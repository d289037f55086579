----------------------------- MODULE NonceStore -----------------------------
(***************************************************************************)
(* Replay protection of signed dispatches: the last two gates of           *)
(* Verifier.Check (runner/internal/signing/signing.go) and the durable     *)
(* nonce journal behind them (nonce_store.go), with the verifier           *)
(* replacements of a reload (runner/connect.go).                           *)
(*                                                                         *)
(* Check judges freshness against one reading of the clock and consumes    *)
(* the nonce against another, under the store's mutex; every system call   *)
(* of consume is a step.  An attestation is named by its nonce; the        *)
(* certificate, target and signature gates come before and hold no state.  *)
(* Time is in units of the shortest configured age and never steps back.   *)
(* The flock on the sidecar file keeps a second process out, so one        *)
(* process is modelled.  Signature enforcement is on.                      *)
(***************************************************************************)
EXTENDS Integers, FiniteSets

CONSTANTS
    Nonces,         \* nonces of the attestations in circulation
    Issued,         \* issued_at of each attestation
    Checks,         \* dispatch handlers that may be in Check at once
    Nothing,        \* no nonce, no handler
    Ages,           \* values of signing.max_attestation_age an operator may set
    MaxEntries,     \* defaultMaxNonces
    MaxRecords,     \* defaultMaxJournal, in records
    CompactAfter,   \* defaultCompactAfter
    Horizon,        \* bound: the clock stops here
    JournaledRename \* as in DispatchLog: fsync of a file makes its rename durable

ASSUME NonceStoreAssumption ==
    /\ IsFiniteSet(Nonces) /\ IsFiniteSet(Checks)
    /\ Nothing \notin Nonces \cup Checks
    /\ Issued \in [Nonces -> Nat]
    /\ Ages \subseteq Nat \ {0} /\ Ages # {}
    /\ MaxEntries \in Nat \ {0}
    /\ MaxRecords \in Nat /\ MaxEntries <= MaxRecords  \* a record has under 160 bytes
    /\ CompactAfter \in 1 .. MaxEntries
    /\ Horizon \in Nat
    /\ JournaledRename \in BOOLEAN

-----------------------------------------------------------------------------
(* Journal images: the header's retention, how many records follow it, of      *)
(* which nonces, and which of these are on record more than once.  "torn" ends *)
(* in part of a line.                                                         *)

Image == [kind : {"absent", "ok", "torn"}, retention : Nat, size : Nat,
          nonces : SUBSET Nonces, repeated : SUBSET Nonces]

Absent == [kind |-> "absent", retention |-> 0, size |-> 0, nonces |-> {}, repeated |-> {}]
Torn   == [Absent EXCEPT !.kind = "torn"]

\* rewriteLocked's data: the header and one record per nonce of s.
Journal(age, s) == [kind |-> "ok", retention |-> age, size |-> Cardinality(s),
                    nonces |-> s, repeated |-> {}]

AppendRecord(img, n) ==
    IF img.kind # "ok" THEN Torn
    ELSE [img EXCEPT !.size = @ + 1, !.nonces = @ \cup {n},
                     !.repeated = @ \cup ({n} \cap img.nonces)]

\* issued_at is not before now - retention.
Inside(n, age, now) == Issued[n] + age >= now

FreshIn(img, now) == {n \in img.nonces : Inside(n, img.retention, now)}

\* The tests of OpenNonceStore and loadJournal on a journal that is not torn.
Loadable(img, now) ==
    /\ img.size <= MaxRecords /\ img.size <= 2 * MaxEntries
    /\ FreshIn(img, now) \cap img.repeated = {}
    /\ Cardinality(FreshIn(img, now)) <= MaxEntries

-----------------------------------------------------------------------------
VARIABLES
    clock,
    file,      \* image at path as the running system sees it
    inode,     \* images the current file may hold after a host crash
    staleDir,  \* images an undurable rename may bring back after a host crash
    phase,     \* "idle": the process is up and the mutex is free
    holder,    \* the Check that holds the mutex; Nothing in OpenNonceStore
    retention, seen, obsolete, fileSize, failed,
    maxAge,    \* freshness window of the installed verifier
    pending,   \* per handler, the nonce whose freshness Check has accepted
    checkedAt, \* ... and the clock it read to do so
    accepts,   \* history: dispatches allowed per nonce; 2 is many
    late,      \* history: nonces that left the replay horizon between the two readings
    orphaned   \* history: a process ended with its rename not yet durable

diskVars  == <<file, inode, staleDir>>
storeVars == <<retention, seen, obsolete, fileSize, failed>>
callVars  == <<phase, holder>>
checkVars == <<pending, checkedAt>>
history   == <<accepts, late, orphaned>>
vars == <<clock, diskVars, storeVars, callVars, maxAge, checkVars, history>>

Phase == {"down", "refused", "idle", "admit", "rewrite", "dirsync", "append", "sync"}

TypeOK ==
    /\ clock \in 0 .. Horizon
    /\ file \in Image /\ inode \subseteq Image /\ staleDir \subseteq Image
    /\ phase \in Phase
    /\ holder \in Checks \cup {Nothing}
    /\ retention \in Nat /\ seen \subseteq Nonces
    /\ obsolete \in Nat /\ fileSize \in Nat /\ failed \in BOOLEAN
    /\ maxAge \in Ages \cup {0}
    /\ pending \in [Checks -> Nonces \cup {Nothing}] /\ checkedAt \in [Checks -> 0 .. Horizon]
    /\ accepts \in [Nonces -> 0 .. 2]
    /\ late \subseteq Nonces /\ orphaned \in BOOLEAN

Init ==
    /\ clock = 0
    /\ file = Absent /\ inode = {Absent} /\ staleDir = {}
    /\ phase = "down" /\ holder = Nothing
    /\ retention = 0 /\ seen = {} /\ obsolete = 0 /\ fileSize = 0 /\ failed = FALSE
    /\ maxAge = 0
    /\ pending = [c \in Checks |-> Nothing] /\ checkedAt = [c \in Checks |-> 0]
    /\ accepts = [n \in Nonces |-> 0]
    /\ late = {} /\ orphaned = FALSE

Stopped == phase \in {"down", "refused"}

\* OpenNonceStore returned, and connect serves dispatches.
Serving == phase = "idle" \/ holder # Nothing

-----------------------------------------------------------------------------
(* OpenNonceStore, on the window the operator configured. *)

\* No journal: an empty one is written with the configured window in its header.
OpenAbsent(age) ==
    /\ Stopped /\ file.kind = "absent"
    /\ retention' = age /\ maxAge' = age
    /\ seen' = {} /\ obsolete' = 0 /\ fileSize' = 0 /\ failed' = FALSE
    /\ phase' = "rewrite"
    /\ UNCHANGED <<clock, diskVars, holder, checkVars, history>>

\* Mutant of OpenJournal: the window may outgrow the header's retention.
OpenJournalWidened(age) ==
    /\ Stopped /\ file.kind = "ok" /\ Loadable(file, clock)
    /\ retention' = file.retention /\ maxAge' = age
    /\ seen' = FreshIn(file, clock)
    /\ obsolete' = file.size - Cardinality(seen')
    /\ fileSize' = file.size /\ failed' = FALSE
    /\ phase' = IF obsolete' > 0 THEN "rewrite" ELSE "idle"
    /\ UNCHANGED <<clock, diskVars, holder, checkVars, history>>

\* Mutant of OpenJournal: the expired records are counted the wrong way round.
OpenJournalMiscounts(age) ==
    /\ Stopped /\ file.kind = "ok" /\ Loadable(file, clock)
    /\ age <= file.retention
    /\ retention' = file.retention /\ maxAge' = age
    /\ seen' = FreshIn(file, clock)
    /\ obsolete' = Cardinality(seen') - file.size
    /\ fileSize' = file.size /\ failed' = FALSE
    /\ phase' = IF obsolete' > 0 THEN "rewrite" ELSE "idle"
    /\ UNCHANGED <<clock, diskVars, holder, checkVars, history>>

\* The header's retention stands; expired records are dropped, and rewritten away.
OpenJournal(age) ==
    /\ Stopped /\ file.kind = "ok" /\ Loadable(file, clock)
    /\ age <= file.retention
    /\ retention' = file.retention /\ maxAge' = age
    /\ seen' = FreshIn(file, clock)
    /\ obsolete' = file.size - Cardinality(seen')
    /\ fileSize' = file.size /\ failed' = FALSE
    /\ phase' = IF obsolete' > 0 THEN "rewrite" ELSE "idle"
    /\ UNCHANGED <<clock, diskVars, holder, checkVars, history>>

\* A torn or unacceptable journal, a window wider than its retention, or an I/O
\* error: connect does not start.
OpenRefused ==
    /\ phase = "down"
    /\ phase' = "refused"
    /\ UNCHANGED <<clock, diskVars, storeVars, holder, maxAge, checkVars, history>>

-----------------------------------------------------------------------------
(* Reload: buildVerifier and bindRetention. *)

\* Mutant of Reload: bindRetention accepts a wider window.
ReloadWidens(age) ==
    /\ phase = "idle"
    /\ maxAge' = age
    /\ UNCHANGED <<clock, diskVars, storeVars, callVars, checkVars, history>>

\* SIGHUP installs a verifier on the same store; a wider window is refused.
Reload(age) ==
    /\ phase = "idle" /\ age <= retention
    /\ maxAge' = age
    /\ UNCHANGED <<clock, diskVars, storeVars, callVars, checkVars, history>>

-----------------------------------------------------------------------------
(* Verifier.Check. *)

Fresh(n, now) == Inside(n, maxAge, now) /\ Issued[n] <= now + maxAge

\* Steps 1 to 7 pass.
PassesFreshness(c, n) ==
    /\ Serving /\ pending[c] = Nothing
    /\ Fresh(n, clock)
    /\ pending' = [pending EXCEPT ![c] = n]
    /\ checkedAt' = [checkedAt EXCEPT ![c] = clock]
    /\ UNCHANGED <<clock, diskVars, storeVars, callVars, maxAge, history>>

\* The call gives up the mutex and Check returns.
Return(c) ==
    /\ phase' = "idle" /\ holder' = Nothing
    /\ pending' = [pending EXCEPT ![c] = Nothing]
    /\ checkedAt' = [checkedAt EXCEPT ![c] = 0]

\* pruneLocked
Prune ==
    LET kept == {n \in seen : Inside(n, retention, clock)}
    IN  /\ seen' = kept
        /\ obsolete' = obsolete + Cardinality(seen) - Cardinality(kept)

\* consume takes the mutex on a store that failed before.
ConsumeFailed(c) ==
    /\ phase = "idle" /\ pending[c] # Nothing /\ failed
    /\ Return(c)
    /\ UNCHANGED <<clock, diskVars, storeVars, maxAge, history>>

\* ... on a nonce that is on record: "replayed".
ConsumeReplayed(c) ==
    /\ phase = "idle" /\ pending[c] # Nothing /\ ~ failed
    /\ Prune
    /\ pending[c] \in seen'
    /\ Return(c)
    /\ UNCHANGED <<clock, diskVars, retention, fileSize, failed, maxAge, history>>

\* shouldCompactLocked, after the prune.
ShouldCompact == obsolete' >= CompactAfter /\ obsolete' >= Cardinality(seen')

\* Mutant of Consume: the nonce was looked up before the mutex was taken.
ConsumeUnlocked(c) ==
    /\ phase = "idle" /\ pending[c] # Nothing /\ ~ failed
    /\ Prune
    /\ phase' = IF ShouldCompact THEN "rewrite" ELSE "admit"
    /\ holder' = c
    /\ UNCHANGED <<clock, diskVars, retention, fileSize, failed, maxAge,
                   checkVars, history>>

\* ... on a new one.
Consume(c) ==
    /\ phase = "idle" /\ pending[c] # Nothing /\ ~ failed
    /\ Prune
    /\ pending[c] \notin seen'
    /\ phase' = IF ShouldCompact THEN "rewrite" ELSE "admit"
    /\ holder' = c
    /\ late' = late \cup {n \in {pending[c]} : /\ Inside(n, retention, checkedAt[c])
                                              /\ ~ Inside(n, retention, clock)}
    /\ UNCHANGED <<clock, diskVars, retention, fileSize, failed, maxAge,
                   checkVars, accepts, orphaned>>

\* The entry limit.
AdmitRefused ==
    /\ phase = "admit"
    /\ Cardinality(seen) >= MaxEntries
    /\ Return(holder)
    /\ UNCHANGED <<clock, diskVars, storeVars, maxAge, history>>

\* The byte limit: a journal with no room is rewritten first, which makes room.
Admit ==
    /\ phase = "admit"
    /\ Cardinality(seen) < MaxEntries
    /\ \/ fileSize < MaxRecords /\ phase' = "append"
       \/ fileSize >= MaxRecords /\ phase' = "rewrite"
    /\ UNCHANGED <<clock, diskVars, storeVars, holder, maxAge, checkVars, history>>

-----------------------------------------------------------------------------
(* rewriteLocked and appendLocked, system call by system call. *)

Orphaned == orphaned \/ (staleDir' # {} /\ ~ JournaledRename)

\* At boot an I/O error is fatal; in consume it latches the store.
IOFails ==
    \/ /\ holder = Nothing /\ phase' = "refused"
       /\ orphaned' = Orphaned
       /\ UNCHANGED <<holder, checkVars, failed, accepts, late>>
    \/ /\ holder # Nothing /\ failed' = TRUE
       /\ Return(holder)
       /\ UNCHANGED history

\* ReplaceFile fails before its rename: the journal stands.
RewriteFails ==
    /\ phase = "rewrite"
    /\ UNCHANGED <<clock, diskVars, retention, seen, obsolete, fileSize, maxAge>>
    /\ IOFails

\* The compacted journal, already fsynced, takes the journal's name.
RewriteRename ==
    /\ phase = "rewrite"
    /\ file' = Journal(retention, seen)
    /\ inode' = {file'} /\ staleDir' = staleDir \cup inode
    /\ phase' = "dirsync"
    /\ UNCHANGED <<clock, storeVars, holder, maxAge, checkVars, history>>

DirSyncFails ==
    /\ phase = "dirsync"
    /\ staleDir' \in {staleDir, {}}
    /\ UNCHANGED <<clock, file, inode, retention, seen, obsolete, fileSize, maxAge>>
    /\ IOFails

DirSync ==
    /\ phase = "dirsync"
    /\ staleDir' = {}
    /\ fileSize' = Cardinality(seen) /\ obsolete' = 0
    /\ phase' = IF holder = Nothing THEN "idle" ELSE "admit"
    /\ UNCHANGED <<clock, file, inode, retention, seen, failed, holder, maxAge, checkVars, history>>

\* The record is written and not yet durable.
Write ==
    /\ phase = "append"
    /\ file' = AppendRecord(file, pending[holder])
    /\ inode' = inode \cup {file', Torn}
    /\ phase' = "sync"
    /\ UNCHANGED <<clock, staleDir, storeVars, holder, maxAge, checkVars, history>>

\* The journal does not open, or takes none or part of the record.
WriteFails ==
    /\ phase = "append"
    /\ file' \in {file, Torn}
    /\ inode' = inode \cup {file'}
    /\ UNCHANGED <<clock, staleDir, retention, seen, obsolete, fileSize, maxAge>>
    /\ IOFails

\* The fsync or the close fails: the record may or may not last.
SyncFails ==
    /\ phase = "sync"
    /\ UNCHANGED <<clock, diskVars, retention, seen, obsolete, fileSize, maxAge>>
    /\ IOFails

\* The record is durable: memory learns of it, and the dispatch is allowed.
Sync ==
    /\ phase = "sync"
    /\ inode' = {file} /\ staleDir' = IF JournaledRename THEN {} ELSE staleDir
    /\ seen' = seen \cup {pending[holder]} /\ fileSize' = fileSize + 1
    /\ accepts' = [accepts EXCEPT ![pending[holder]] = IF @ = 0 THEN 1 ELSE 2]
    /\ Return(holder)
    /\ UNCHANGED <<clock, file, retention, obsolete, failed, maxAge, late, orphaned>>

-----------------------------------------------------------------------------
(* The environment. *)

Tick ==
    /\ clock < Horizon
    /\ clock' = clock + 1
    /\ UNCHANGED <<diskVars, storeVars, callVars, maxAge, checkVars, history>>

NoProcess ==
    /\ phase' = "down" /\ holder' = Nothing
    /\ pending' = [c \in Checks |-> Nothing] /\ checkedAt' = [c \in Checks |-> 0]
    /\ retention' = 0 /\ seen' = {} /\ obsolete' = 0 /\ fileSize' = 0 /\ failed' = FALSE
    /\ maxAge' = 0

\* The process ends; what it wrote stays visible to the next one.
ProcessExit ==
    /\ phase # "down"
    /\ NoProcess
    /\ UNCHANGED <<clock, diskVars, accepts, late>>
    /\ orphaned' = Orphaned

\* The host goes down: only what was synced is certain.
HostCrash ==
    /\ file' \in inode \cup staleDir
    /\ inode' = {file'} /\ staleDir' = {}
    /\ NoProcess
    /\ UNCHANGED <<clock, history>>

-----------------------------------------------------------------------------
Open == OpenRefused \/ \E age \in Ages : OpenAbsent(age) \/ OpenJournal(age)

Check ==
    \E c \in Checks :
        \/ \E n \in Nonces : PassesFreshness(c, n)
        \/ ConsumeFailed(c) \/ ConsumeReplayed(c) \/ Consume(c)

IO ==
    \/ AdmitRefused \/ Admit
    \/ RewriteFails \/ RewriteRename \/ DirSyncFails \/ DirSync
    \/ Write \/ WriteFails \/ SyncFails \/ Sync

Next ==
    \/ Open \/ Check \/ IO
    \/ \E age \in Ages : Reload(age)
    \/ Tick \/ ProcessExit \/ HostCrash

Spec == Init /\ [][Next]_vars

-----------------------------------------------------------------------------
(* Properties. *)

Images == {file} \cup inode \cup staleDir

\* An attestation is allowed at most once, across restarts, reloads that change
\* the window, compactions, failed writes and crashes - provided no process
\* ended on an undurable rename, and no Check held a freshness verdict until the
\* attestation had left the replay horizon before it consumed the nonce.
AcceptedOnce == \A n \in Nonces : accepts[n] <= 1 \/ orphaned \/ n \in late

\* Memory covers the installed verifier's window: an attestation that was allowed
\* and that Check would still call fresh is remembered, whatever window was in
\* force when it was allowed.
FreshRemembered ==
    phase = "idle" => \A n \in Nonces :
        accepts[n] > 0 /\ Fresh(n, clock) => n \in seen \/ orphaned \/ n \in late

\* No journal the store writes is one its own loader refuses, except for a torn
\* last record: not for a nonce on record twice, and not for its size.
JournalReadable ==
    \A img \in Images : img.kind = "ok" => Loadable(img, clock)
=============================================================================

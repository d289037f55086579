------------------------- MODULE CredentialRotation -------------------------
(***************************************************************************)
(* Rotation of an API key by MCP bridges that share one credential file    *)
(* (mcp/rotate.go, forwardRequestContext in mcp/main.go), against the      *)
(* portal that installs the successor a bridge proposes and retires the    *)
(* replaced chain on the successor's first use (portal api_keys.ex).       *)
(*                                                                         *)
(* A transition of the file runs under the file lock and the process's     *)
(* stateMu, so it is one step; it may be refused the lock, and its persist *)
(* may fail before the rename or between the rename and the directory      *)
(* fsync.  A process that dies there leaves what the latter failure does.  *)
(* Keys are numbered in the order they are generated; 0 is the bootstrap   *)
(* key.  An expired key and a revoked one answer alike.                    *)
(***************************************************************************)
EXTENDS Integers, FiniteSets

CONSTANTS
    Bridges,   \* bridge processes of one user on one endpoint
    Requests,  \* requests that may be forwarded at once
    Owner,     \* the bridge of each request
    Stored,    \* the file was made by `emisar-mcp auth` (a CLI account)
    MaxKey,    \* bound: successors generated
    MaxFaults, \* bound: faults in a behaviour
    MaxLate    \* bound: requests given up on that may still reach the portal

ASSUME CredentialRotationAssumption ==
    /\ IsFiniteSet(Bridges) /\ IsFiniteSet(Requests)
    /\ Owner \in [Requests -> Bridges] /\ Stored \in BOOLEAN
    /\ MaxKey \in Nat /\ MaxFaults \in Nat /\ MaxLate \in Nat

Keys  == 0 .. MaxKey
NoKey == -1
OptKey == Keys \cup {NoKey}

\* credentialState; current = NoKey stands for no file.
Image == [current : OptKey, pending : OptKey]
Absent == [current |-> NoKey, pending |-> NoKey]
State(current, pending) == [current |-> current, pending |-> pending]

VARIABLES
    file, disk,        \* the state file; what a host crash may leave of it
    mode,              \* per bridge: "down", "rw", or "ro" (credentialReadOnly)
    apiKey, pendingKey, stamp,
    req,               \* per request: phase, attempt, bearer key, proposed successor
    late,              \* requests given up on, still on their way to the portal
    generated,         \* the last key generated
    successor,         \* portal: rotated_to of each installed key
    installed, used, revoked,
    faults,
    refused,           \* history: the portal has answered 401 to a usable key
    misled             \* history: the file was promoted to a key the portal does not know

fileVars   == <<file, disk>>
memVars    == <<mode, apiKey, pendingKey>>
portalVars == <<successor, installed, used, revoked>>
history    == <<refused, misled>>
vars == <<fileVars, memVars, stamp, req, late, generated, portalVars, faults, history>>

Phase == {"idle", "refreshed", "proposed", "sent", "authenticated", "rejected",
          "answered", "acked"}
Attempt == {"first", "retry", "recovery", "adopted"}
Idle == [phase |-> "idle", attempt |-> "first", key |-> NoKey, proposal |-> NoKey]
Message == [key : Keys, proposal : OptKey, authenticated : BOOLEAN]

TypeOK ==
    /\ file \in disk /\ disk \subseteq Image
    /\ mode \in [Bridges -> {"down", "rw", "ro"}]
    /\ apiKey \in [Bridges -> Keys] /\ pendingKey \in [Bridges -> OptKey]
    /\ stamp \in [Bridges -> {"none", "short", "long"}]
    /\ req \in [Requests -> [phase : Phase, attempt : Attempt, key : OptKey, proposal : OptKey]]
    /\ late \subseteq Message /\ Cardinality(late) <= MaxLate
    /\ generated \in Keys
    /\ successor \in [Keys -> OptKey]
    /\ installed \subseteq Keys /\ used \subseteq installed /\ revoked \subseteq installed
    /\ faults \in 0 .. MaxFaults
    /\ refused \in BOOLEAN /\ misled \in BOOLEAN
    \* validate: the pending key never matches the current one
    /\ \A i \in disk : i.pending # NoKey => i.current # NoKey /\ i.pending # i.current

Init ==
    /\ file = IF Stored THEN State(0, NoKey) ELSE Absent
    /\ disk = {file}
    /\ mode = [b \in Bridges |-> "down"]
    /\ apiKey = [b \in Bridges |-> 0] /\ pendingKey = [b \in Bridges |-> NoKey]
    /\ stamp = [b \in Bridges |-> "none"]
    /\ req = [r \in Requests |-> Idle]
    /\ late = {}
    /\ generated = 0
    /\ successor = [k \in Keys |-> NoKey]
    /\ installed = {0} /\ used = {} /\ revoked = {}
    /\ faults = 0
    /\ refused = FALSE /\ misled = FALSE

-----------------------------------------------------------------------------
(* The credential file. *)

Fault == faults < MaxFaults /\ faults' = faults + 1

load(fallback) == IF file = Absent THEN State(fallback, NoKey) ELSE file

\* The stamp is size and modification time; a pending key makes the file longer.
StampOf(img) == CASE img = Absent -> "none"
                  [] img.pending = NoKey -> "short"
                  [] OTHER -> "long"

Matches(b) == stamp[b] # "none" /\ stamp[b] = StampOf(file)

\* How a persist may end: whether the rename happened, and whether it is durable.
Outcome == {"done", "unwritten", "unsynced"}

\* A rename in a later timestamp quantum leaves every older stamp without a match.
RenamedStamps(res, quantum) ==
    IF res = "unwritten" \/ quantum = "same" THEN stamp ELSE [b \in Bridges |-> "none"]

\* persist(img) by bridge b, and withSyncedStore's stamp of the outcome.
persist(b, img, res, quantum) ==
    /\ file' = IF res = "unwritten" THEN file ELSE img
    /\ disk' = CASE res = "done" -> {img}
                 [] res = "unsynced" -> disk \cup {img}
                 [] OTHER -> disk
    /\ stamp' = [RenamedStamps(res, quantum) EXCEPT
                    ![b] = IF res = "done" THEN StampOf(img) ELSE "none"]
    /\ IF res = "done" THEN UNCHANGED faults ELSE Fault

\* The transition fails on what it read; the stamp no longer holds.
Distrust(b) ==
    /\ stamp' = [stamp EXCEPT ![b] = "none"]
    /\ UNCHANGED <<fileVars, faults>>

Memory(b, img) ==
    /\ apiKey' = [apiKey EXCEPT ![b] = img.current]
    /\ pendingKey' = [pendingKey EXCEPT ![b] = img.pending]

\* Adopt img, after a persist when it differs from what b has in memory: the
\* common part of refresh, recovery and start.  The memory before is `old`.
Confirm(b, old, img, res, quantum) ==
    IF img = old
    THEN /\ res = "done" /\ quantum = "same"
         /\ stamp' = [stamp EXCEPT ![b] = StampOf(file)]
         /\ UNCHANGED <<fileVars, faults>>
    ELSE persist(b, img, res, quantum)

Held(b) == State(apiKey[b], pendingKey[b])

Phased(r, phase) == req' = [req EXCEPT ![r].phase = phase]
Ended(r) == req' = [req EXCEPT ![r] = Idle]

-----------------------------------------------------------------------------
(* A request: refreshCredentialState, rotationProposal, transportState. *)

\* The stamp matches, or the bridge is read-only and only checks that it can read.
RefreshSkipped(r) ==
    LET b == Owner[r] IN
    /\ req[r].phase = "idle"
    /\ mode[b] = "ro" \/ (mode[b] = "rw" /\ Matches(b))
    /\ Phased(r, "refreshed")
    /\ UNCHANGED <<fileVars, memVars, stamp, late, generated, history, portalVars, faults>>

\* A peer holds the lock too long: the request goes on with the key in memory.
RefreshLocked(r) ==
    LET b == Owner[r] IN
    /\ req[r].phase = "idle" /\ mode[b] = "rw" /\ ~ Matches(b)
    /\ Fault
    /\ Phased(r, "refreshed")
    /\ UNCHANGED <<fileVars, memVars, stamp, late, generated, history, portalVars>>

Refresh(r) ==
    LET b == Owner[r]
        img == load(apiKey[b]) IN
    /\ req[r].phase = "idle" /\ mode[b] = "rw" /\ ~ Matches(b)
    /\ \E res \in Outcome, quantum \in {"same", "later"} :
        /\ Confirm(b, Held(b), img, res, quantum)
        /\ IF res = "done"
           THEN Memory(b, img) /\ Phased(r, "refreshed")
           ELSE UNCHANGED <<apiKey, pendingKey, req>>
    /\ UNCHANGED <<mode, late, generated, history, portalVars>>

\* A notification, a read-only bridge or a lock timeout: no proposal.
ProposalSkipped(r) ==
    /\ req[r].phase = "refreshed"
    /\ req' = [req EXCEPT ![r].phase = "proposed", ![r].proposal = NoKey]
    /\ UNCHANGED <<fileVars, memVars, stamp, late, generated, history, portalVars, faults>>

\* The successor prepared earlier is offered again without a look at the file.
ProposalRepeated(r) ==
    LET b == Owner[r] IN
    /\ req[r].phase = "refreshed" /\ mode[b] = "rw"
    /\ pendingKey[b] # NoKey /\ Matches(b)
    /\ req' = [req EXCEPT ![r].phase = "proposed", ![r].proposal = pendingKey[b]]
    /\ UNCHANGED <<fileVars, memVars, stamp, late, generated, history, portalVars, faults>>

\* The file has a peer's transition: adopt it; no proposal when it was a promotion.
ProposalAdopts(r) ==
    LET b == Owner[r]
        img == load(apiKey[b]) IN
    /\ req[r].phase = "refreshed" /\ mode[b] = "rw"
    /\ ~ (pendingKey[b] # NoKey /\ Matches(b))
    /\ \/ img.pending # NoKey
       \/ img.current # apiKey[b]
    /\ \E res \in Outcome, quantum \in {"same", "later"} :
        /\ Confirm(b, Held(b), img, res, quantum)
        /\ IF res = "done" THEN Memory(b, img) ELSE UNCHANGED <<apiKey, pendingKey>>
        /\ req' = [req EXCEPT ![r].phase = "proposed",
                              ![r].proposal = IF res = "done" THEN img.pending ELSE NoKey]
    /\ UNCHANGED <<mode, late, generated, history, portalVars>>

\* Mutant of ProposalGenerates: a pending key that is only in the file is overwritten.
ProposalGeneratesAnyway(r) ==
    LET b == Owner[r]
        img == load(apiKey[b]) IN
    /\ req[r].phase = "refreshed" /\ mode[b] = "rw"
    /\ ~ (pendingKey[b] # NoKey /\ Matches(b))
    /\ img.current = apiKey[b]
    /\ generated < MaxKey
    /\ generated' = generated + 1
    /\ \E res \in Outcome, quantum \in {"same", "later"} :
        /\ persist(b, [img EXCEPT !.pending = generated'], res, quantum)
        /\ Memory(b, [img EXCEPT !.pending = IF res = "done" THEN generated' ELSE NoKey])
        /\ req' = [req EXCEPT ![r].phase = "proposed",
                              ![r].proposal = IF res = "done" THEN generated' ELSE NoKey]
    /\ UNCHANGED <<mode, late, history, portalVars>>

\* A successor is generated and persisted before it is offered.
ProposalGenerates(r) ==
    LET b == Owner[r]
        img == load(apiKey[b]) IN
    /\ req[r].phase = "refreshed" /\ mode[b] = "rw"
    /\ ~ (pendingKey[b] # NoKey /\ Matches(b))
    /\ img = State(apiKey[b], NoKey)
    /\ generated < MaxKey
    /\ generated' = generated + 1
    /\ \E res \in Outcome, quantum \in {"same", "later"} :
        /\ persist(b, [img EXCEPT !.pending = generated'], res, quantum)
        /\ Memory(b, [img EXCEPT !.pending = IF res = "done" THEN generated' ELSE NoKey])
        /\ req' = [req EXCEPT ![r].phase = "proposed",
                              ![r].proposal = IF res = "done" THEN generated' ELSE NoKey]
    /\ UNCHANGED <<mode, late, history, portalVars>>

\* transportState: another request of the process may have changed the key since.
Send(r) ==
    /\ req[r].phase = "proposed"
    /\ req' = [req EXCEPT ![r].phase = "sent", ![r].key = apiKey[Owner[r]]]
    /\ UNCHANGED <<fileVars, memVars, stamp, late, generated, history, portalVars, faults>>

-----------------------------------------------------------------------------
(* The portal: one transaction authenticates, another installs the proposal. *)

Usable(k) == k \in installed \ revoked

\* Mutant of Ancestors: the chain starts at the key itself.
AncestorsAndSelf(k) == {a \in installed : a <= k}

\* The keys a first use of k retires: the chain of `replaces` above it.
Ancestors(k) == {a \in installed : a < k}

\* peek_api_key_by_secret of a usable key.
Authenticate(k) ==
    /\ Usable(k)
    /\ used' = used \cup {k}
    /\ revoked' = IF k \in used THEN revoked ELSE revoked \cup Ancestors(k)
    /\ UNCHANGED <<successor, installed>>

\* install_auto_rotation_successor: a usable source, and a proposal that is its
\* successor already or may become it.  A key's prefix is unique.
CanInstall(k, p) ==
    /\ p # NoKey /\ Usable(k)
    /\ successor[k] = p \/ (successor[k] = NoKey /\ p \notin installed)

Install(k, p) ==
    /\ CanInstall(k, p)
    /\ successor' = [successor EXCEPT ![k] = p]
    /\ installed' = installed \cup {p}
    /\ UNCHANGED <<used, revoked>>

PortalAuthenticates(r) ==
    /\ req[r].phase = "sent"
    /\ Authenticate(req[r].key)
    /\ Phased(r, "authenticated")
    /\ UNCHANGED <<fileVars, memVars, stamp, late, generated, history, faults>>

\* 401: the key is not usable, or a write of the transaction that authenticates it
\* failed and all of it is rolled back (the first time without a charge to MaxFaults).
\* After a recovery attempt the request has failed.
PortalRejects(r) ==
    /\ req[r].phase = "sent"
    /\ IF refused /\ Usable(req[r].key) THEN Fault ELSE UNCHANGED faults
    /\ refused' = (refused \/ Usable(req[r].key))
    /\ IF req[r].attempt = "recovery" THEN Ended(r) ELSE Phased(r, "rejected")
    /\ UNCHANGED <<fileVars, memVars, stamp, late, generated, portalVars, misled>>

\* 429, from the rate limits in front of the authentication: a well-formed answer to
\* the request, whatever its key is.
PortalLimits(r) ==
    /\ req[r].phase = "sent"
    /\ Fault
    /\ Phased(r, "answered")
    /\ UNCHANGED <<fileVars, memVars, stamp, late, generated, history, portalVars>>

PortalInstalls(r) ==
    /\ req[r].phase = "authenticated"
    /\ Install(req[r].key, req[r].proposal)
    /\ Phased(r, "acked")
    /\ UNCHANGED <<fileVars, memVars, stamp, late, generated, history, faults>>

\* No acknowledgement: no proposal, one that is refused, or a key outside its
\* rotation window; a key that was rotated already is always eligible.
PortalAnswers(r) ==
    /\ req[r].phase = "authenticated"
    /\ ~ (CanInstall(req[r].key, req[r].proposal) /\ successor[req[r].key] # NoKey)
    /\ Phased(r, "answered")
    /\ UNCHANGED <<fileVars, memVars, stamp, late, generated, history, portalVars, faults>>

\* A rotated key reaches its expiry.
Expire(k) ==
    /\ Usable(k) /\ successor[k] # NoKey
    /\ revoked' = revoked \cup {k}
    /\ UNCHANGED <<fileVars, memVars, stamp, req, late, generated, history, successor,
                   installed, used, faults>>

-----------------------------------------------------------------------------
(* The answer: 401 recovery, adoption, acknowledgement. *)

\* The alternate to a rejected key, or NoKey.
Alternate(img, rejected) ==
    IF img.current # rejected THEN img.current ELSE img.pending

Retried(r, k) ==
    IF k = NoKey THEN Ended(r)
    ELSE req' = [req EXCEPT ![r].phase = "sent", ![r].attempt = "recovery", ![r].key = k]

\* credentialRecoveryKey of a read-only bridge: a plain read.
RecoverReadOnly(r) ==
    /\ req[r].phase = "rejected" /\ mode[Owner[r]] = "ro"
    /\ Retried(r, Alternate(load(req[r].key), req[r].key))
    /\ UNCHANGED <<fileVars, memVars, stamp, late, generated, history, portalVars, faults>>

\* Mutant of credentialRecoveryKey: a matching stamp is taken for the whole story.
RecoveryTrustsStamp(r) ==
    LET b == Owner[r]
        img == IF Matches(b) THEN Held(b) ELSE load(req[r].key) IN
    /\ req[r].phase = "rejected" /\ mode[b] = "rw"
    /\ \E res \in Outcome, quantum \in {"same", "later"} :
        /\ Confirm(b, Held(b), img, res, quantum)
        /\ IF res = "done"
           THEN Memory(b, img) /\ Retried(r, Alternate(img, req[r].key))
           ELSE UNCHANGED <<apiKey, pendingKey>> /\ Ended(r)
    /\ UNCHANGED <<mode, late, generated, history, portalVars>>

\* credentialRecoveryKey of a writable bridge: a read under the lock, whatever the stamp.
credentialRecoveryKey(r) ==
    LET b == Owner[r]
        img == load(req[r].key) IN
    /\ req[r].phase = "rejected" /\ mode[b] = "rw"
    /\ \E res \in Outcome, quantum \in {"same", "later"} :
        /\ Confirm(b, Held(b), img, res, quantum)
        /\ IF res = "done"
           THEN Memory(b, img) /\ Retried(r, Alternate(img, req[r].key))
           ELSE UNCHANGED <<apiKey, pendingKey>> /\ Ended(r)
    /\ UNCHANGED <<mode, late, generated, history, portalVars>>

\* The lock is not to be had: the request fails.
RecoverLocked(r) ==
    /\ req[r].phase = "rejected" /\ mode[Owner[r]] = "rw"
    /\ Fault
    /\ Ended(r)
    /\ UNCHANGED <<fileVars, memVars, stamp, late, generated, history, portalVars>>

Recovered(r) == req[r].phase \in {"answered", "acked"} /\ req[r].attempt = "recovery"
Adopted(r) == req' = [req EXCEPT ![r].attempt = "adopted"]

\* Mutants of Promoted: the pending key stays; the file's pending key is not compared.
PromotedKeepsPending(img, k) ==
    IF img.pending = k \/ img = State(k, NoKey) THEN State(k, img.pending) ELSE Absent
PromotedBlindly(img, k) == State(k, NoKey)

\* The file as promoted to key k by a bridge that knows k is accepted, or Absent.
Promoted(img, k) ==
    IF img.pending = k \/ img = State(k, NoKey) THEN State(k, NoKey) ELSE Absent

\* Promote key k and use it, as adoptRecoveryKey and acknowledgeRotation do.
Promote(b, k) ==
    LET img == Promoted(load(apiKey[b]), k) IN
    IF img = Absent
    THEN Distrust(b) /\ UNCHANGED <<apiKey, pendingKey>>
    ELSE \E res \in Outcome, quantum \in {"same", "later"} :
            /\ persist(b, img, res, quantum)
            /\ IF res = "done" THEN Memory(b, img) ELSE UNCHANGED <<apiKey, pendingKey>>

\* Whatever answer the recovery attempt got, unless it was another 401.
adoptRecoveryKey(r) ==
    LET b == Owner[r] IN
    /\ Recovered(r) /\ Adopted(r)
    /\ IF mode[b] = "ro"
       THEN Memory(b, State(req[r].key, NoKey)) /\ UNCHANGED <<fileVars, stamp, faults>>
       ELSE Promote(b, req[r].key)
    /\ misled' = (misled \/ (file' # file /\ file'.current \notin installed))
    /\ UNCHANGED <<mode, late, generated, portalVars, refused>>

AdoptLocked(r) ==
    /\ Recovered(r) /\ mode[Owner[r]] = "rw"
    /\ Fault
    /\ Adopted(r)
    /\ UNCHANGED <<fileVars, memVars, stamp, late, generated, history, portalVars>>

\* The acknowledgement names the successor this process has pending.
Expected(r) ==
    /\ req[r].phase = "acked" /\ mode[Owner[r]] = "rw"
    /\ pendingKey[Owner[r]] = req[r].proposal

acknowledgeRotation(r) ==
    /\ Expected(r) /\ ~ Recovered(r)
    /\ Promote(Owner[r], req[r].proposal)
    /\ Ended(r)
    /\ UNCHANGED <<mode, late, generated, history, portalVars>>

\* Nothing to acknowledge, an acknowledgement of something else, or no lock.
Return(r) ==
    /\ req[r].phase \in {"answered", "acked"} /\ ~ Recovered(r)
    /\ IF Expected(r) THEN Fault ELSE UNCHANGED faults
    /\ Ended(r)
    /\ UNCHANGED <<fileVars, memVars, stamp, late, generated, history, portalVars>>

-----------------------------------------------------------------------------
(* Lost messages, deaths and restarts. *)

InFlight(r) == req[r].phase \in {"sent", "authenticated"}
MessageOf(r) == [key |-> req[r].key, proposal |-> req[r].proposal,
                 authenticated |-> req[r].phase = "authenticated"]

\* Whether the portal would still change anything on behalf of m.
Effective(m) ==
    /\ Usable(m.key)
    /\ \/ m.key \notin used
       \/ successor[m.key] = NoKey /\ CanInstall(m.key, m.proposal)

\* The attempts that end with nobody to hear the answer: lost, or late.
Abandoned(rs) ==
    LET ms == {m \in {MessageOf(r) : r \in {r \in rs : InFlight(r)}} : Effective(m)} IN
    {l \in {late} \cup {late \cup {m} : m \in ms} : Cardinality(l) <= MaxLate}

\* No answer reaches forwardAttempt.  A request with an operation id is sent again.
LoseAnswer(r) ==
    /\ req[r].phase \in {"sent", "authenticated", "rejected", "answered", "acked"}
    /\ req[r].attempt # "adopted"
    /\ Fault
    /\ late' \in Abandoned({r})
    /\ \/ req[r].attempt = "first"
          /\ req' = [req EXCEPT ![r].phase = "sent", ![r].attempt = "retry"]
       \/ Ended(r)
    /\ UNCHANGED <<fileVars, memVars, stamp, generated, history, portalVars>>

\* The portal works on a request nobody waits for.
LateAuthenticate(m) ==
    /\ ~ m.authenticated
    /\ Authenticate(m.key)
    /\ late' = (late \ {m}) \cup {[m EXCEPT !.authenticated = TRUE]}
    /\ UNCHANGED <<fileVars, memVars, stamp, req, generated, history, faults>>

LateInstall(m) ==
    /\ m.authenticated
    /\ Install(m.key, m.proposal)
    /\ late' = late \ {m}
    /\ UNCHANGED <<fileVars, memVars, stamp, req, generated, history, faults>>

LateEnd(m) ==
    /\ m.authenticated \/ ~ Usable(m.key)
    /\ ~ (m.authenticated /\ CanInstall(m.key, m.proposal))
    /\ late' = late \ {m}
    /\ UNCHANGED <<fileVars, memVars, stamp, req, generated, history, portalVars, faults>>

\* The key a process starts with: of the configuration, or of the stored account.
Configured == IF Stored THEN file.current ELSE 0

\* initializeCredentialState; a persist that fails ends the process.
Start(b) ==
    LET old == State(Configured, NoKey)
        img == load(Configured) IN
    /\ mode[b] = "down"
    /\ \E res \in Outcome, quantum \in {"same", "later"} :
        /\ Confirm(b, old, img, res, quantum)
        /\ IF res = "done"
           THEN mode' = [mode EXCEPT ![b] = "rw"] /\ Memory(b, img)
           ELSE UNCHANGED memVars
    /\ UNCHANGED <<req, late, generated, history, portalVars>>

\* The file cannot be locked or written: validated reads only.
StartReadOnly(b) ==
    /\ mode[b] = "down"
    /\ Fault
    /\ mode' = [mode EXCEPT ![b] = "ro"]
    /\ Memory(b, State(Configured, NoKey))
    /\ UNCHANGED <<fileVars, stamp, req, late, generated, history, portalVars>>

Down(bs) ==
    /\ mode' = [b \in Bridges |-> IF b \in bs THEN "down" ELSE mode[b]]
    /\ apiKey' = [b \in Bridges |-> IF b \in bs THEN 0 ELSE apiKey[b]]
    /\ pendingKey' = [b \in Bridges |-> IF b \in bs THEN NoKey ELSE pendingKey[b]]
    /\ stamp' = [b \in Bridges |-> IF b \in bs THEN "none" ELSE stamp[b]]
    /\ req' = [r \in Requests |-> IF Owner[r] \in bs THEN Idle ELSE req[r]]
    /\ late' \in Abandoned({r \in Requests : Owner[r] \in bs})

Kill(b) ==
    /\ mode[b] # "down" /\ Fault
    /\ Down({b})
    /\ UNCHANGED <<fileVars, generated, history, portalVars>>

\* A host crash that finds a rename not yet durable.  Any other is a Kill of every
\* process.
HostCrash ==
    /\ disk # {file}
    /\ Down(Bridges)
    /\ file' \in disk /\ disk' = {file'}
    /\ UNCHANGED <<generated, history, portalVars, faults>>

-----------------------------------------------------------------------------
RequestStep(r) ==
    \/ RefreshSkipped(r) \/ Refresh(r) \/ RefreshLocked(r)
    \/ ProposalSkipped(r) \/ ProposalRepeated(r) \/ ProposalAdopts(r) \/ ProposalGenerates(r)
    \/ Send(r)
    \/ PortalAuthenticates(r) \/ PortalRejects(r) \/ PortalLimits(r)
    \/ PortalInstalls(r) \/ PortalAnswers(r)
    \/ RecoverReadOnly(r) \/ credentialRecoveryKey(r) \/ RecoverLocked(r)
    \/ adoptRecoveryKey(r) \/ AdoptLocked(r) \/ acknowledgeRotation(r) \/ Return(r)

Next ==
    \/ \E r \in Requests : RequestStep(r) \/ LoseAnswer(r)
    \/ \E k \in Keys : Expire(k)
    \/ \E m \in late : LateAuthenticate(m) \/ LateInstall(m) \/ LateEnd(m)
    \/ \E b \in Bridges : Start(b) \/ StartReadOnly(b) \/ Kill(b)
    \/ HostCrash

Spec == Init /\ [][Next]_vars

\* Clients that keep calling, and a portal that answers; faults are bounded.
LiveSpec == Spec /\ \A r \in Requests : WF_vars(RequestStep(r))

-----------------------------------------------------------------------------
HeldBy(img) == IF img = Absent THEN {0} ELSE {img.current, img.pending} \ {NoKey}

\* The end of the chain on the portal: the key that outlives the others.
Tip == CHOOSE k \in installed : successor[k] = NoKey

\* The file as a host crash may leave it always holds the key the portal's chain ends
\* in, the only one that is sure to be accepted: nothing but a promotion to a key the
\* portal never installed takes it away.
WorkingKeySaved == ~ misled => \A img \in disk : Tip \in HeldBy(img)

\* Such a promotion needs a 401 for a usable key first.  Expired keys, lost and late
\* answers, crashes and an answer that is no acceptance (429) are not enough, though the
\* bridge takes every answer but a 401 for an acceptance.
MisledOnlyByRefusal == misled => refused

\* "It saves the new key before using it, so a restart cannot lose the working
\* credential" (mcp/README.md), without the exception.
RestartKeepsWorkingKey == \A img \in disk : Tip \in HeldBy(img)

\* A writable process never goes back to an older key, whatever its peers and its other
\* requests do meanwhile.  A read-only one may: see the README's observations.
KeysMoveForward ==
    [][\A b \in Bridges : mode[b] = "rw" /\ mode'[b] = "rw" => apiKey[b] <= apiKey'[b]]_vars

\* A 401 for a writable bridge is not for ever: the recovery path re-reads the file
\* and the portal authenticates a later request, once the faults stop, unless the file
\* was promoted to a key the portal does not know.
RefusedRecovers ==
    \A r \in Requests :
        (req[r].phase = "rejected" /\ mode[Owner[r]] = "rw")
            ~> (req[r].phase = "authenticated" \/ mode[Owner[r]] # "rw" \/ misled)

=============================================================================

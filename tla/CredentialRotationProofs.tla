----------------------- MODULE CredentialRotationProofs -----------------------
(***************************************************************************)
(* The safety properties of CredentialRotation for any bridges, requests,   *)
(* keys, faults and late requests, and both kinds of file, from             *)
(* CredentialRotationAssumption.                                            *)
(***************************************************************************)
EXTENDS CredentialRotation, FiniteSetTheorems, TLAPS

-----------------------------------------------------------------------------
(* What holds whatever the portal answers. *)

Req == [phase : Phase, attempt : Attempt, key : OptKey, proposal : OptKey]

\* The request carries a key.
Underway == {"sent", "authenticated", "rejected", "answered", "acked"}

\* A file a crash may leave: its pending key is younger than the current one, and no key
\* in it than the last one generated.
Shaped(i, g) ==
    /\ i \in Image /\ i.current <= g
    /\ i.pending # NoKey => i.current # NoKey /\ i.current < i.pending /\ i.pending <= g
    /\ Stored => i # Absent

\* A writable bridge is not ahead of the file f.
Behind(k, f) == IF f = Absent THEN k = 0 ELSE k <= f.current

ReqTyped(q, m, f, g) ==
    /\ q \in Req /\ q.key <= g
    /\ q.phase \in Underway => q.key # NoKey
    /\ q.phase = "acked" => q.proposal # NoKey
    /\ m = "down" => q = Idle
    /\ m = "rw" /\ f = Absent => q.key <= 0

PortalTyped ==
    /\ generated \in Keys /\ successor \in [Keys -> OptKey]
    /\ installed \subseteq Keys /\ used \subseteq installed /\ revoked \subseteq installed

FilesTyped == file \in disk /\ \A i \in disk : Shaped(i, generated)

MemoryTyped ==
    /\ mode \in [Bridges -> {"down", "rw", "ro"}]
    /\ apiKey \in [Bridges -> Keys] /\ pendingKey \in [Bridges -> OptKey]
    /\ \A b \in Bridges : /\ apiKey[b] <= generated
                          /\ mode[b] = "rw" => Behind(apiKey[b], file)

RequestsTyped ==
    /\ req \in [Requests -> Req]
    /\ \A r \in Requests : ReqTyped(req[r], mode[Owner[r]], file, generated)

LateTyped == late \subseteq Message /\ IsFiniteSet(late) /\ Cardinality(late) <= MaxLate

RestTyped ==
    /\ stamp \in [Bridges -> {"none", "short", "long"}]
    /\ faults \in 0 .. MaxFaults /\ refused \in BOOLEAN /\ misled \in BOOLEAN

Base == PortalTyped /\ FilesTyped /\ MemoryTyped /\ RequestsTyped /\ LateTyped /\ RestTyped

\* What KeysMoveForward says of a step.
Forward ==
    \A b \in Bridges : mode[b] = "rw" /\ mode'[b] = "rw" => apiKey[b] <= apiKey'[b]

-----------------------------------------------------------------------------
(* Keys and images. *)

LEMMA Constants ==
    /\ MaxKey \in Nat /\ MaxFaults \in Nat /\ MaxLate \in Nat /\ Stored \in BOOLEAN
    /\ Owner \in [Requests -> Bridges] /\ \A r \in Requests : Owner[r] \in Bridges
    /\ Keys = 0 .. MaxKey /\ Keys \subseteq Nat /\ 0 \in Keys
    /\ NoKey = -1 /\ NoKey \notin Keys /\ OptKey = Keys \cup {NoKey}
  BY CredentialRotationAssumption DEF Keys, NoKey, OptKey

LEMMA ImageFacts ==
    ASSUME NEW c \in OptKey, NEW p \in OptKey
    PROVE  /\ State(c, p) \in Image /\ State(c, p).current = c /\ State(c, p).pending = p
           /\ State(c, p) = Absent <=> (c = NoKey /\ p = NoKey)
  BY DEF State, Image, Absent

LEMMA ImageFields ==
    ASSUME NEW i \in Image
    PROVE  i.current \in OptKey /\ i.pending \in OptKey /\ i = State(i.current, i.pending)
  BY DEF Image, State

LEMMA LoadTyped ==
    ASSUME Base, NEW f \in Keys, f <= generated
    PROVE  /\ Shaped(load(f), generated) /\ load(f) # Absent
           /\ load(f).current \in Keys /\ load(f).current <= generated /\ load(f).pending \in OptKey
           /\ file # Absent => load(f) = file
           /\ file = Absent => load(f) = State(f, NoKey) /\ load(f).current = f /\ load(f).pending = NoKey
<1>1. CASE file = Absent
  <2>1. load(f) = State(f, NoKey) /\ f \in OptKey /\ NoKey \in OptKey /\ f # NoKey
    BY <1>1, Constants DEF load
  <2>2. /\ load(f) \in Image /\ load(f).current = f /\ load(f).pending = NoKey
        /\ load(f) # Absent
    BY <2>1, ImageFacts
  <2> QED BY <1>1, <2>1, <2>2, Constants DEF Shaped
<1>2. CASE file # Absent
  <2>1. load(f) = file /\ Shaped(file, generated)
    BY <1>2 DEF load, Base, FilesTyped
  <2>2. file.current \in OptKey /\ file.pending \in OptKey /\ file = State(file.current, file.pending)
    BY <2>1, ImageFields DEF Shaped
  <2>3. file.current # NoKey
    BY <1>2, <2>1, <2>2, ImageFacts DEF Shaped
  <2> QED BY <1>2, <2>1, <2>2, <2>3, Constants DEF Shaped
<1> QED BY <1>1, <1>2

LEMMA KeyTyped ==
    ASSUME Base, NEW b \in Bridges
    PROVE  /\ apiKey[b] \in Keys /\ apiKey[b] \in Nat /\ apiKey[b] <= generated
           /\ pendingKey[b] \in OptKey /\ mode[b] \in {"down", "rw", "ro"}
           /\ mode[b] = "rw" => Behind(apiKey[b], file)
           /\ generated \in Keys /\ generated \in Nat
  BY Constants DEF Base, MemoryTyped, PortalTyped

LEMMA ReqFacts ==
    ASSUME Base, NEW r \in Requests
    PROVE  /\ ReqTyped(req[r], mode[Owner[r]], file, generated) /\ req[r] \in Req
           /\ Owner[r] \in Bridges /\ mode[Owner[r]] \in {"down", "rw", "ro"}
           /\ req[r].phase \in Phase /\ req[r].attempt \in Attempt
           /\ req[r].key \in OptKey /\ req[r].proposal \in OptKey
           /\ req[r].phase \in Underway => req[r].key \in Keys /\ req[r].key <= generated
           /\ req[r].phase # "idle" => mode[Owner[r]] # "down"
<1>1. Owner[r] \in Bridges /\ ReqTyped(req[r], mode[Owner[r]], file, generated)
  BY Constants DEF Base, RequestsTyped
<1>2. mode[Owner[r]] \in {"down", "rw", "ro"}
  BY <1>1, KeyTyped
<1>3. req[r].phase # "idle" => mode[Owner[r]] # "down"
  BY <1>1 DEF ReqTyped, Idle
<1> QED BY <1>1, <1>2, <1>3, Constants DEF ReqTyped, Req

LEMMA IdleTyped ==
    ASSUME NEW g \in Nat
    PROVE  \A m, f : ReqTyped(Idle, m, f, g)
<1>1. Idle \in Req /\ Idle.phase = "idle" /\ Idle.key = NoKey
  BY Constants DEF Idle, Req, Phase, Attempt
<1> QED BY <1>1, Constants DEF ReqTyped, Underway

-----------------------------------------------------------------------------
(* Steps of a request that leave files and memory alone. *)

\* The steps of a request that change nothing else but the portal and the history.
LEMMA RequestTyped ==
    ASSUME Base, NEW r \in Requests, NEW q, req' = [req EXCEPT ![r] = q],
           ReqTyped(q, mode[Owner[r]], file, generated),
           UNCHANGED portalVars \/ PortalTyped',
           Fault \/ UNCHANGED faults,
           UNCHANGED history \/ (refused' \in BOOLEAN /\ misled' \in BOOLEAN),
           UNCHANGED <<fileVars, memVars, stamp, late, generated>>
    PROVE  Base' /\ Forward
<1>1. UNCHANGED <<file, disk, mode, apiKey, pendingKey>>
  BY DEF fileVars, memVars
<1>2. FilesTyped' /\ MemoryTyped' /\ LateTyped'
  BY <1>1 DEF Base, FilesTyped, MemoryTyped, LateTyped
<1>3. RequestsTyped'
  <2>1. q \in Req /\ req \in [Requests -> Req]
    BY DEF Base, RequestsTyped, ReqTyped
  <2>2. req' \in [Requests -> Req] /\ \A s \in Requests : req'[s] = IF s = r THEN q ELSE req[s]
    BY <2>1
  <2> QED BY <1>1, <2>2 DEF Base, RequestsTyped
<1>4. PortalTyped'
  BY DEF Base, PortalTyped, portalVars
<1>5. RestTyped'
  BY Constants DEF Base, RestTyped, Fault, history
<1>6. Forward
  BY <1>1, Constants DEF Forward, Base, MemoryTyped
<1> QED BY <1>2, <1>3, <1>4, <1>5, <1>6 DEF Base

\* A request of a living bridge goes on with the key it has.
LEMMA OnwardTyped ==
    ASSUME Base, NEW r \in Requests, mode[Owner[r]] # "down", NEW q \in Req,
           q.key = req[r].key \/ q.key = NoKey,
           q.phase \in Underway => req[r].phase \in Underway /\ q.key = req[r].key,
           q.phase # "acked" \/ q.proposal # NoKey
    PROVE  ReqTyped(q, mode[Owner[r]], file, generated)
  BY ReqFacts, KeyTyped, Constants DEF ReqTyped

LEMMA QuietTyped ==
    ASSUME Base, NEW r \in Requests,
           \/ RefreshSkipped(r) \/ RefreshLocked(r) \/ ProposalSkipped(r) \/ ProposalRepeated(r)
    PROVE  Base' /\ Forward
<1>1. Owner[r] \in Bridges /\ mode[Owner[r]] # "down"
  BY ReqFacts DEF RefreshSkipped, RefreshLocked, ProposalSkipped, ProposalRepeated
<1>2. \E p \in OptKey, ph \in {"refreshed", "proposed"} :
         req' = [req EXCEPT ![r] = [req[r] EXCEPT !.phase = ph, !.proposal = p]]
  <2>1. CASE RefreshSkipped(r) \/ RefreshLocked(r)
    <3>1. [req[r] EXCEPT !.phase = "refreshed"] = [req[r] EXCEPT !.phase = "refreshed", !.proposal = req[r].proposal]
      BY ReqFacts DEF Req
    <3> QED BY <2>1, <3>1, ReqFacts DEF RefreshSkipped, RefreshLocked, Phased
  <2>2. CASE ProposalSkipped(r)
    BY <2>2, Constants DEF ProposalSkipped
  <2>3. CASE ProposalRepeated(r)
    <3>1. PICK p : p = pendingKey[Owner[r]]
      OBVIOUS
    <3>2. p \in OptKey
      BY <1>1, <3>1, KeyTyped
    <3>3. req' = [req EXCEPT ![r] = [req[r] EXCEPT !.phase = "proposed", !.proposal = p]]
      BY <2>3, <3>1 DEF ProposalRepeated
    <3> QED BY <3>2, <3>3
  <2> QED BY <2>1, <2>2, <2>3
<1>3. PICK p \in OptKey, ph \in {"refreshed", "proposed"} :
         req' = [req EXCEPT ![r] = [req[r] EXCEPT !.phase = ph, !.proposal = p]]
  BY <1>2
<1>4. PICK q : q = [req[r] EXCEPT !.phase = ph, !.proposal = p]
  OBVIOUS
<1>5. q \in Req /\ q.key = req[r].key /\ q.phase = ph
  BY <1>4, ReqFacts DEF Req, Phase
<1>6. ReqTyped(q, mode[Owner[r]], file, generated)
  BY <1>1, <1>5, OnwardTyped DEF Underway
<1>7. /\ UNCHANGED <<fileVars, memVars, stamp, late, generated, history, portalVars>>
      /\ Fault \/ UNCHANGED faults
  BY DEF RefreshSkipped, RefreshLocked, ProposalSkipped, ProposalRepeated
<1> QED BY <1>3, <1>4, <1>6, <1>7, RequestTyped

LEMMA SendTyped == ASSUME Base, NEW r \in Requests, Send(r) PROVE Base' /\ Forward
<1>1. PICK b, q : b = Owner[r] /\ q = [req[r] EXCEPT !.phase = "sent", !.key = apiKey[b]]
  OBVIOUS
<1>2. req' = [req EXCEPT ![r] = q] /\ req[r].phase = "proposed"
  BY <1>1 DEF Send
<1>3. b \in Bridges /\ mode[b] # "down"
  BY <1>1, <1>2, ReqFacts
<1>4. apiKey[b] \in OptKey /\ apiKey[b] # NoKey
  BY <1>3, KeyTyped, Constants
<1>5. q \in Req /\ q.key = apiKey[b] /\ q.phase = "sent"
  BY <1>1, <1>4, ReqFacts DEF Req, Phase
<1>6. ReqTyped(q, mode[Owner[r]], file, generated)
  BY <1>1, <1>3, <1>4, <1>5, KeyTyped DEF ReqTyped, Behind
<1> QED BY <1>2, <1>6, RequestTyped DEF Send

LEMMA EndedTyped ==
    ASSUME Base, NEW r \in Requests, RecoverLocked(r) \/ Return(r) PROVE Base' /\ Forward
<1>1. req' = [req EXCEPT ![r] = Idle]
  BY DEF RecoverLocked, Return, Ended
<1>2. ReqTyped(Idle, mode[Owner[r]], file, generated)
  BY IdleTyped, ReqFacts, KeyTyped
<1> QED BY <1>1, <1>2, RequestTyped DEF RecoverLocked, Return

LEMMA AnsweredTyped ==
    ASSUME Base, NEW r \in Requests, PortalRejects(r) \/ PortalLimits(r) \/ PortalAnswers(r)
    PROVE  Base' /\ Forward
<1>1. /\ req[r].phase \in {"sent", "authenticated"}
      /\ UNCHANGED <<fileVars, memVars, stamp, late, generated, portalVars>>
      /\ Fault \/ UNCHANGED faults
      /\ UNCHANGED history \/ (refused' \in BOOLEAN /\ misled' \in BOOLEAN)
  BY DEF PortalRejects, PortalLimits, PortalAnswers, Base, RestTyped
<1>2. CASE Ended(r)
  <2>1. req' = [req EXCEPT ![r] = Idle] /\ ReqTyped(Idle, mode[Owner[r]], file, generated)
    BY <1>2, IdleTyped, ReqFacts, KeyTyped DEF Ended
  <2> QED BY <1>1, <2>1, RequestTyped
<1>3. CASE Phased(r, "rejected") \/ Phased(r, "answered")
  <2>1. PICK ph \in {"rejected", "answered"} : Phased(r, ph)
    BY <1>3
  <2>2. PICK q : q = [req[r] EXCEPT !.phase = ph]
    OBVIOUS
  <2>3. q \in Req /\ q.key = req[r].key /\ q.phase = ph /\ mode[Owner[r]] # "down"
    BY <1>1, <2>2, ReqFacts DEF Req, Phase
  <2>4. ReqTyped(q, mode[Owner[r]], file, generated)
    BY <1>1, <2>3, OnwardTyped DEF Underway
  <2>5. req' = [req EXCEPT ![r] = q]
    BY <2>1, <2>2 DEF Phased
  <2> QED BY <1>1, <2>4, <2>5, RequestTyped
<1> QED BY <1>2, <1>3 DEF PortalRejects, PortalLimits, PortalAnswers

\* The request goes on with the key k, or ends.
LEMMA RetriedTyped ==
    ASSUME Base, NEW r \in Requests, req[r].phase # "idle", NEW k \in OptKey, k <= generated,
           NEW f, mode[Owner[r]] = "rw" /\ f = Absent => k <= 0, Retried(r, k)
    PROVE  \E q : req' = [req EXCEPT ![r] = q] /\ ReqTyped(q, mode[Owner[r]], f, generated)
<1>1. CASE k = NoKey
  BY <1>1, IdleTyped, ReqFacts, KeyTyped DEF Retried, Ended
<1>2. CASE k # NoKey
  <2>1. PICK q : q = [req[r] EXCEPT !.phase = "sent", !.attempt = "recovery", !.key = k]
    OBVIOUS
  <2>2. req' = [req EXCEPT ![r] = q]
    BY <1>2, <2>1 DEF Retried
  <2>3. q \in Req /\ q.key = k /\ q.phase = "sent"
    BY <2>1, ReqFacts DEF Req, Phase, Attempt
  <2>4. ReqTyped(q, mode[Owner[r]], f, generated)
    BY <1>2, <2>3, ReqFacts DEF ReqTyped
  <2> QED BY <2>2, <2>4
<1> QED BY <1>1, <1>2

LEMMA AlternateTyped ==
    ASSUME Base, NEW f \in Keys, f <= generated
    PROVE  /\ Alternate(load(f), f) \in OptKey /\ Alternate(load(f), f) <= generated
           /\ file = Absent => Alternate(load(f), f) = NoKey
<1>1. PICK i : i = load(f)
  OBVIOUS
<1>2. /\ Shaped(i, generated) /\ i.current \in Keys /\ i.current <= generated /\ i.pending \in OptKey
      /\ file = Absent => i.current = f /\ i.pending = NoKey
  BY <1>1, LoadTyped
<1>3. i.pending <= generated
  BY <1>2, Constants DEF Shaped, Base, PortalTyped
<1> QED BY <1>1, <1>2, <1>3, Constants DEF Alternate

LEMMA RecoverReadOnlyTyped ==
    ASSUME Base, NEW r \in Requests, RecoverReadOnly(r) PROVE Base' /\ Forward
<1>1. PICK f, k : f = req[r].key /\ k = Alternate(load(f), f)
  OBVIOUS
<1>2. req[r].phase = "rejected" /\ Retried(r, k) /\ mode[Owner[r]] = "ro"
  BY <1>1 DEF RecoverReadOnly
<1>3. f \in Keys /\ f <= generated
  BY <1>1, <1>2, ReqFacts DEF Underway
<1>4. k \in OptKey /\ k <= generated
  BY <1>1, <1>3, AlternateTyped
<1>5. PICK q : req' = [req EXCEPT ![r] = q] /\ ReqTyped(q, mode[Owner[r]], file, generated)
  BY <1>2, <1>4, RetriedTyped
<1> QED BY <1>5, RequestTyped DEF RecoverReadOnly

LEMMA AdoptedTyped ==
    ASSUME Base, NEW r \in Requests, Recovered(r), Adopted(r)
    PROVE  /\ req[r].key \in Keys /\ req[r].key <= generated
           /\ \E q : /\ req' = [req EXCEPT ![r] = q]
                     /\ \A m, f : ReqTyped(req[r], m, f, generated) => ReqTyped(q, m, f, generated)
<1>1. PICK q : q = [req[r] EXCEPT !.attempt = "adopted"]
  OBVIOUS
<1>2. req[r].phase \in {"answered", "acked"} /\ req' = [req EXCEPT ![r] = q]
  BY <1>1 DEF Adopted, Recovered
<1>3. q \in Req /\ q.key = req[r].key /\ q.phase = req[r].phase /\ q.proposal = req[r].proposal
  BY <1>1, ReqFacts DEF Req, Attempt
<1>4. \A m, f : ReqTyped(req[r], m, f, generated) => ReqTyped(q, m, f, generated)
  BY <1>2, <1>3 DEF ReqTyped, Idle
<1> QED BY <1>2, <1>4, ReqFacts DEF Underway

LEMMA AdoptLockedTyped == ASSUME Base, NEW r \in Requests, AdoptLocked(r) PROVE Base' /\ Forward
<1>1. PICK q : /\ req' = [req EXCEPT ![r] = q]
               /\ \A m, f : ReqTyped(req[r], m, f, generated) => ReqTyped(q, m, f, generated)
  BY AdoptedTyped DEF AdoptLocked
<1>2. ReqTyped(q, mode[Owner[r]], file, generated)
  BY <1>1, ReqFacts
<1> QED BY <1>1, <1>2, RequestTyped DEF AdoptLocked

-----------------------------------------------------------------------------
(* Steps that write the file. *)

LEMMA StampTypes == \A img : StampOf(img) \in {"none", "short", "long"}
  BY DEF StampOf

LEMMA PersistTyped ==
    ASSUME Base, NEW b \in Bridges, NEW img, NEW res \in Outcome,
           NEW quantum, persist(b, img, res, quantum)
    PROVE  /\ file' \in disk' /\ file' \in {file, img} /\ disk' \subseteq disk \cup {img}
           /\ res = "done" => disk' = {img} /\ file' = img
           /\ stamp' \in [Bridges -> {"none", "short", "long"}] /\ faults' \in 0 .. MaxFaults
<1>1. file \in disk /\ stamp \in [Bridges -> {"none", "short", "long"}] /\ faults \in 0 .. MaxFaults
  BY DEF Base, FilesTyped, RestTyped
<1>2. faults' \in 0 .. MaxFaults
  BY <1>1, Constants DEF persist, Fault
<1>3. CASE res = "done"
  <2>1. file' = img /\ disk' = {img}
    BY <1>3 DEF persist
  <2> QED BY <1>1, <1>2, <1>3, <2>1, StampTypes DEF persist, RenamedStamps
<1>4. CASE res = "unwritten"
  <2>1. file' = file /\ disk' = disk
    BY <1>4 DEF persist
  <2> QED BY <1>1, <1>2, <1>4, <2>1 DEF persist, RenamedStamps
<1>5. CASE res = "unsynced"
  <2>1. file' = img /\ disk' = disk \cup {img}
    BY <1>5 DEF persist
  <2> QED BY <1>1, <1>2, <1>5, <2>1 DEF persist, RenamedStamps
<1> QED BY <1>3, <1>4, <1>5 DEF Outcome

\* Confirm of what is in the file, or of the key that stands for it.
LEMMA ConfirmTyped ==
    ASSUME Base, NEW b \in Bridges, NEW f \in Keys, f <= generated, NEW img, NEW old, img = load(f),
           NEW res \in Outcome, NEW quantum, Confirm(b, old, img, res, quantum)
    PROVE  /\ file' \in disk' /\ file' \in {file, img} /\ disk' \subseteq disk \cup {img}
           /\ res = "done" => /\ file' = img \/ file' = Absent
                              /\ img = old \/ disk' = {img}
           /\ stamp' \in [Bridges -> {"none", "short", "long"}] /\ faults' \in 0 .. MaxFaults
<1>1. file # Absent => img = file
  BY LoadTyped
<1>2. CASE img = old
  <2>1. UNCHANGED <<file, disk, faults>> /\ stamp' = [stamp EXCEPT ![b] = StampOf(file)]
    BY <1>2 DEF Confirm, fileVars
  <2> QED BY <1>1, <1>2, <2>1, StampTypes DEF Base, FilesTyped, RestTyped
<1>3. CASE img # old
  <2>1. persist(b, img, res, quantum)
    BY <1>3 DEF Confirm
  <2>2. /\ file' \in disk' /\ file' \in {file, img} /\ disk' \subseteq disk \cup {img}
        /\ res = "done" => disk' = {img} /\ file' = img
        /\ stamp' \in [Bridges -> {"none", "short", "long"}] /\ faults' \in 0 .. MaxFaults
    BY ONLY <2>1, PersistTyped, Base, b \in Bridges, res \in Outcome, ZenonT(60)
  <2> QED BY <2>2
<1> QED BY <1>2, <1>3

\* What a bridge does with its memory when the file moves to img, at the latest.
Taken(b, img) ==
    \/ UNCHANGED <<mode, apiKey, pendingKey>>
    \/ UNCHANGED <<mode, apiKey>> /\ pendingKey' = [pendingKey EXCEPT ![b] = NoKey]
    \/ /\ Memory(b, img)
       /\ file' = img \/ (file' = Absent /\ img.current = 0)
       /\ UNCHANGED mode \/ (mode[b] = "down" /\ mode' = [mode EXCEPT ![b] = "rw"])

\* The file moves to img at the latest, and a bridge may take img for its own.
LEMMA TransitionTyped ==
    ASSUME Base, UNCHANGED portalVars, generated' \in Keys, generated <= generated',
           NEW img, Shaped(img, generated'), img # Absent,
           file # Absent => file.current <= img.current,
           file' \in disk', file' \in {file, img}, disk' \subseteq disk \cup {img},
           NEW b \in Bridges,
           \A c \in Bridges : mode[c] = "rw" => apiKey[c] <= img.current,
           Taken(b, img)
    PROVE  PortalTyped' /\ FilesTyped' /\ MemoryTyped' /\ Forward
<1>1. UNCHANGED <<successor, installed, used, revoked>>
  BY DEF portalVars
<1>2. generated \in Nat /\ generated' \in Nat
  BY Constants DEF Base, PortalTyped
<1>3. PortalTyped'
  BY <1>1 DEF Base, PortalTyped
<1>4. FilesTyped'
  <2>1. ASSUME NEW i \in disk PROVE Shaped(i, generated')
    <3>1. Shaped(i, generated) /\ i.current \in OptKey /\ i.pending \in OptKey
      BY <2>1, ImageFields DEF Base, FilesTyped, Shaped
    <3>2. i.current \in Int /\ i.pending \in Int
      BY <3>1, Constants
    <3> QED BY <1>2, <3>1, <3>2 DEF Shaped
  <2> QED BY <2>1 DEF FilesTyped
<1>5. img.current \in Keys /\ img.current \in Nat /\ img.current <= generated' /\ img.pending \in OptKey
  <2>1. img.current \in OptKey /\ img.pending \in OptKey /\ img = State(img.current, img.pending)
    BY ImageFields DEF Shaped
  <2>2. img.current # NoKey
    BY <2>1, ImageFacts DEF Shaped
  <2> QED BY <2>1, <2>2, Constants DEF Shaped
<1>6. \A c \in Bridges : /\ apiKey[c] \in Nat /\ apiKey[c] <= generated'
                         /\ mode[c] = "rw" => Behind(apiKey[c], file')
  <2> SUFFICES ASSUME NEW c \in Bridges
               PROVE  /\ apiKey[c] \in Nat /\ apiKey[c] <= generated'
                      /\ mode[c] = "rw" => Behind(apiKey[c], file')
    OBVIOUS
  <2>1. apiKey[c] \in Nat /\ apiKey[c] <= generated /\ (mode[c] = "rw" => Behind(apiKey[c], file))
    BY KeyTyped
  <2> QED BY <1>2, <2>1 DEF Behind
<1>7. CASE UNCHANGED <<mode, apiKey, pendingKey>>
  <2>1. MemoryTyped'
    BY <1>6, <1>7 DEF Base, MemoryTyped
  <2> QED BY <1>3, <1>4, <1>6, <1>7, <2>1 DEF Forward
<1>8. CASE UNCHANGED <<mode, apiKey>> /\ pendingKey' = [pendingKey EXCEPT ![b] = NoKey]
  <2>1. MemoryTyped'
    BY <1>6, <1>8, Constants DEF Base, MemoryTyped
  <2> QED BY <1>3, <1>4, <1>6, <1>8, <2>1 DEF Forward
<1>9. CASE /\ Memory(b, img)
           /\ file' = img \/ (file' = Absent /\ img.current = 0)
           /\ UNCHANGED mode \/ (mode[b] = "down" /\ mode' = [mode EXCEPT ![b] = "rw"])
  <2>1. PICK c, p : c = img.current /\ p = img.pending
    OBVIOUS
  <2>2. apiKey' = [apiKey EXCEPT ![b] = c] /\ pendingKey' = [pendingKey EXCEPT ![b] = p]
    BY <1>9, <2>1 DEF Memory
  <2>3. apiKey \in [Bridges -> Keys] /\ pendingKey \in [Bridges -> OptKey] /\ c \in Keys /\ p \in OptKey
    BY <1>5, <2>1 DEF Base, MemoryTyped
  <2>4. /\ apiKey' \in [Bridges -> Keys] /\ pendingKey' \in [Bridges -> OptKey]
        /\ \A d \in Bridges : apiKey'[d] = IF d = b THEN c ELSE apiKey[d]
    BY <2>2, <2>3
  <2>5. /\ mode' \in [Bridges -> {"down", "rw", "ro"}]
        /\ \A d \in Bridges : d # b => mode'[d] = mode[d]
    BY <1>9 DEF Base, MemoryTyped
  <2>6. Behind(c, file')
    BY <1>5, <1>9, <2>1 DEF Behind
  <2>7. MemoryTyped'
    BY <1>5, <1>6, <2>1, <2>4, <2>5, <2>6 DEF MemoryTyped
  <2>8. Forward
    BY <1>6, <2>1, <2>4, <2>5 DEF Forward
  <2> QED BY <1>3, <1>4, <2>7, <2>8
<1> QED BY <1>7, <1>8, <1>9 DEF Taken

\* A file that holds what it held, or a younger current key, is ahead of every bridge.
LEMMA AheadTyped ==
    ASSUME Base, NEW img, img.current \in Keys, file # Absent => file.current <= img.current,
           file # Absent => file.current \in Keys,
           NEW b \in Bridges, mode[b] = "rw"
    PROVE  apiKey[b] <= img.current
<1>1. img.current \in Nat /\ apiKey[b] \in Nat /\ Behind(apiKey[b], file)
  BY KeyTyped, Constants
<1> QED BY <1>1, Constants DEF Behind

\* A bridge confirms the file; `f` stands for a file that is not there.
LEMMA ConfirmedTyped ==
    ASSUME Base, NEW b \in Bridges, NEW f \in Keys, f <= generated, NEW img, img = load(f),
           file = Absent => f = 0,
           NEW old, NEW res \in Outcome, NEW quantum, Confirm(b, old, img, res, quantum),
           \/ UNCHANGED memVars
           \/ /\ res = "done" /\ Memory(b, img)
              /\ UNCHANGED mode \/ (mode[b] = "down" /\ mode' = [mode EXCEPT ![b] = "rw"]),
           UNCHANGED <<generated, portalVars>>
    PROVE  /\ PortalTyped' /\ FilesTyped' /\ MemoryTyped' /\ Forward
           /\ stamp' \in [Bridges -> {"none", "short", "long"}] /\ faults' \in 0 .. MaxFaults
           /\ file' = Absent => file = Absent
<1>1. /\ file' \in disk' /\ file' \in {file, img} /\ disk' \subseteq disk \cup {img}
      /\ res = "done" => (file' = img \/ file' = Absent)
      /\ stamp' \in [Bridges -> {"none", "short", "long"}] /\ faults' \in 0 .. MaxFaults
  BY ConfirmTyped, SMTT(60)
<1>2. /\ Shaped(img, generated) /\ img # Absent /\ img.current \in Keys
      /\ file # Absent => img = file
      /\ file = Absent => img.current = f
  BY LoadTyped
<1>3. img.current \in Nat /\ generated \in Keys /\ generated \in Nat
  BY <1>2, Constants DEF Base, PortalTyped
<1>4. \A c \in Bridges : mode[c] = "rw" => apiKey[c] <= img.current
  BY <1>2, <1>3, AheadTyped
<1>5. file' = Absent => file = Absent
  BY <1>1, <1>2
<1>6. Taken(b, img)
  BY <1>1, <1>2, <1>5 DEF Taken, memVars
<1>7. /\ Shaped(img, generated') /\ generated' \in Keys /\ generated <= generated'
      /\ file # Absent => file.current <= img.current
  BY <1>2, <1>3
<1>8. UNCHANGED portalVars
  OBVIOUS
<1>9. PortalTyped' /\ FilesTyped' /\ MemoryTyped' /\ Forward
  BY <1>1, <1>2, <1>4, <1>6, <1>7, <1>8, TransitionTyped
<1> QED BY <1>1, <1>5, <1>9

\* The requests that a step of the file leaves alone.
LEMMA RequestsMoved ==
    ASSUME Base, NEW r \in Requests, generated <= generated', generated' \in Nat,
           file' = Absent => file = Absent,
           mode'[Owner[r]] = mode[Owner[r]] \/ mode[Owner[r]] = "down"
    PROVE  ReqTyped(req[r], mode'[Owner[r]], file', generated')
<1>1. ReqTyped(req[r], mode[Owner[r]], file, generated) /\ req[r].key \in OptKey
  BY ReqFacts
<1>2. CASE mode[Owner[r]] = "down"
  <2>1. req[r] = Idle
    BY <1>1, <1>2 DEF ReqTyped
  <2> QED BY <2>1, IdleTyped
<1>3. CASE mode'[Owner[r]] = mode[Owner[r]]
  <2>1. req[r].key \in Int /\ generated \in Nat
    BY <1>1, Constants DEF Base, PortalTyped
  <2> QED BY <1>1, <1>3, <2>1 DEF ReqTyped
<1> QED BY <1>2, <1>3

LEMMA RequestsUpdated ==
    ASSUME Base, generated <= generated', generated' \in Nat, file' = Absent => file = Absent,
           UNCHANGED mode, NEW r \in Requests, NEW q, req' = [req EXCEPT ![r] = q],
           ReqTyped(q, mode[Owner[r]], file', generated')
    PROVE  RequestsTyped'
<1>1. q \in Req /\ req \in [Requests -> Req]
  BY DEF Base, RequestsTyped, ReqTyped
<1>2. req' \in [Requests -> Req] /\ \A s \in Requests : req'[s] = IF s = r THEN q ELSE req[s]
  BY <1>1
<1>3. \A s \in Requests : ReqTyped(req[s], mode'[Owner[s]], file', generated')
  BY RequestsMoved
<1> QED BY <1>2, <1>3 DEF RequestsTyped

LEMMA RequestsSame ==
    ASSUME Base, generated <= generated', generated' \in Nat, file' = Absent => file = Absent,
           UNCHANGED <<mode, req>>
    PROVE  RequestsTyped'
<1>1. \A s \in Requests : ReqTyped(req[s], mode'[Owner[s]], file', generated')
  BY RequestsMoved
<1> QED BY <1>1 DEF Base, RequestsTyped

LEMMA RestKept ==
    ASSUME Base, UNCHANGED late, UNCHANGED history \/ (refused' \in BOOLEAN /\ misled' \in BOOLEAN),
           stamp' \in [Bridges -> {"none", "short", "long"}], faults' \in 0 .. MaxFaults
    PROVE  LateTyped' /\ RestTyped'
  BY DEF Base, LateTyped, RestTyped, history

LEMMA RefreshTyped == ASSUME Base, NEW r \in Requests, Refresh(r) PROVE Base' /\ Forward
<1>1. PICK b, f, img, old : b = Owner[r] /\ f = apiKey[b] /\ img = load(f) /\ old = Held(b)
  OBVIOUS
<1>2. PICK res \in Outcome, quantum \in {"same", "later"} :
         /\ Confirm(b, old, img, res, quantum)
         /\ IF res = "done" THEN Memory(b, img) /\ Phased(r, "refreshed")
            ELSE UNCHANGED <<apiKey, pendingKey, req>>
  BY <1>1 DEF Refresh
<1>3. /\ req[r].phase = "idle" /\ mode[b] = "rw"
      /\ UNCHANGED <<mode, late, generated, history, portalVars>>
  BY <1>1 DEF Refresh
<1>4. b \in Bridges /\ f \in Keys /\ f <= generated /\ (file = Absent => f = 0) /\ generated \in Nat
  BY <1>1, <1>3, ReqFacts, KeyTyped DEF Behind
<1>5. UNCHANGED memVars \/ (res = "done" /\ Memory(b, img) /\ UNCHANGED mode)
  BY <1>2, <1>3 DEF memVars
<1>6. /\ PortalTyped' /\ FilesTyped' /\ MemoryTyped' /\ Forward
      /\ stamp' \in [Bridges -> {"none", "short", "long"}] /\ faults' \in 0 .. MaxFaults
      /\ file' = Absent => file = Absent
  BY <1>1, <1>2, <1>3, <1>4, <1>5, ConfirmedTyped, SMTT(60)
<1>7. RequestsTyped'
  <2>1. CASE Phased(r, "refreshed")
    <3>1. PICK q : q = [req[r] EXCEPT !.phase = "refreshed"]
      OBVIOUS
    <3>2. req' = [req EXCEPT ![r] = q]
      BY <2>1, <3>1 DEF Phased
    <3>3. q \in Req /\ q.key = req[r].key /\ q.phase = "refreshed"
      BY <3>1, ReqFacts DEF Req, Phase
    <3>4. ReqTyped(q, mode[Owner[r]], file', generated')
      BY <1>1, <1>3, <1>6, <3>3, ReqFacts DEF ReqTyped, Underway
    <3>5. UNCHANGED mode /\ generated <= generated' /\ generated' \in Nat
      BY <1>3, <1>4
    <3> QED BY <1>6, <3>2, <3>4, <3>5, RequestsUpdated
  <2>2. CASE UNCHANGED req
    BY <1>3, <1>4, <1>6, <2>2, RequestsSame
  <2> QED BY <1>2, <2>1, <2>2
<1> QED BY <1>3, <1>6, <1>7, RestKept DEF Base

LEMMA ProposedTyped ==
    ASSUME Base, NEW r \in Requests, req[r].phase = "refreshed", NEW p \in OptKey, UNCHANGED mode,
           generated <= generated', generated' \in Nat, file' = Absent => file = Absent,
           req' = [req EXCEPT ![r].phase = "proposed", ![r].proposal = p]
    PROVE  RequestsTyped'
<1>1. PICK q : q = [req[r] EXCEPT !.phase = "proposed", !.proposal = p]
  OBVIOUS
<1>2. req' = [req EXCEPT ![r] = q]
  BY <1>1
<1>3. q \in Req /\ q.key = req[r].key /\ q.phase = "proposed" /\ mode[Owner[r]] # "down"
  BY <1>1, ReqFacts DEF Req, Phase
<1>4. generated \in Nat /\ q.key \in Int
  BY <1>3, ReqFacts, Constants DEF Base, PortalTyped
<1>5. ReqTyped(q, mode[Owner[r]], file', generated')
  BY <1>3, <1>4, ReqFacts DEF ReqTyped, Underway
<1> QED BY <1>2, <1>5, RequestsUpdated

LEMMA ProposalAdoptsTyped ==
    ASSUME Base, NEW r \in Requests, ProposalAdopts(r) PROVE Base' /\ Forward
<1>1. PICK b, f, img, old : b = Owner[r] /\ f = apiKey[b] /\ img = load(f) /\ old = Held(b)
  OBVIOUS
<1>2. PICK res \in Outcome, quantum \in {"same", "later"} :
         /\ Confirm(b, old, img, res, quantum)
         /\ IF res = "done" THEN Memory(b, img) ELSE UNCHANGED <<apiKey, pendingKey>>
         /\ req' = [req EXCEPT ![r].phase = "proposed",
                               ![r].proposal = IF res = "done" THEN img.pending ELSE NoKey]
  BY <1>1 DEF ProposalAdopts
<1>3. /\ req[r].phase = "refreshed" /\ mode[b] = "rw"
      /\ UNCHANGED <<mode, late, generated, history, portalVars>>
  BY <1>1 DEF ProposalAdopts
<1>4. b \in Bridges /\ f \in Keys /\ f <= generated /\ (file = Absent => f = 0) /\ generated \in Nat
  BY <1>1, <1>3, ReqFacts, KeyTyped DEF Behind
<1>5. UNCHANGED memVars \/ (res = "done" /\ Memory(b, img) /\ UNCHANGED mode)
  BY <1>2, <1>3 DEF memVars
<1>6. /\ PortalTyped' /\ FilesTyped' /\ MemoryTyped' /\ Forward
      /\ stamp' \in [Bridges -> {"none", "short", "long"}] /\ faults' \in 0 .. MaxFaults
      /\ file' = Absent => file = Absent
  BY <1>1, <1>2, <1>3, <1>4, <1>5, ConfirmedTyped, SMTT(60)
<1>7. PICK p : p = IF res = "done" THEN img.pending ELSE NoKey
  OBVIOUS
<1>8. p \in OptKey
  BY <1>1, <1>4, <1>7, LoadTyped, Constants
<1>9. req' = [req EXCEPT ![r].phase = "proposed", ![r].proposal = p]
  BY <1>2, <1>7
<1>10. RequestsTyped'
  <2>1. UNCHANGED mode /\ generated <= generated' /\ generated' \in Nat
    BY <1>3, <1>4
  <2> QED BY <1>3, <1>6, <1>8, <1>9, <2>1, ProposedTyped
<1> QED BY <1>3, <1>6, <1>10, RestKept DEF Base

\* The successor is younger than every key.
LEMMA ProposalGeneratesTyped ==
    ASSUME Base, NEW r \in Requests, ProposalGenerates(r) PROVE Base' /\ Forward
<1>1. PICK b, c, g, img : b = Owner[r] /\ c = apiKey[b] /\ g = generated' /\ img = State(c, g)
  OBVIOUS
<1>2. /\ req[r].phase = "refreshed" /\ load(c) = State(c, NoKey) /\ mode[b] = "rw"
      /\ generated < MaxKey /\ g = generated + 1
      /\ UNCHANGED <<mode, late, history, portalVars>>
  BY <1>1 DEF ProposalGenerates
<1>3. PICK res \in Outcome, quantum \in {"same", "later"} :
         /\ persist(b, img, res, quantum)
         /\ Memory(b, State(c, IF res = "done" THEN g ELSE NoKey))
         /\ req' = [req EXCEPT ![r].phase = "proposed",
                               ![r].proposal = IF res = "done" THEN g ELSE NoKey]
  <2>1. \A p : [State(c, NoKey) EXCEPT !.pending = p] = State(c, p)
    BY DEF State
  <2>2. PICK i : i = load(apiKey[b])
    OBVIOUS
  <2>3. PICK res \in Outcome, quantum \in {"same", "later"} :
           /\ persist(b, [i EXCEPT !.pending = g], res, quantum)
           /\ Memory(b, [i EXCEPT !.pending = IF res = "done" THEN g ELSE NoKey])
           /\ req' = [req EXCEPT ![r].phase = "proposed",
                                 ![r].proposal = IF res = "done" THEN g ELSE NoKey]
    BY <1>1, <2>2 DEF ProposalGenerates
  <2>4. i = State(c, NoKey)
    BY <1>1, <1>2, <2>2
  <2> QED BY <1>1, <2>1, <2>3, <2>4
<1>4. b \in Bridges /\ c \in Keys /\ c \in Nat /\ c <= generated /\ generated \in Nat
  BY <1>1, ReqFacts, KeyTyped
<1>5. g \in Keys /\ g \in Nat /\ generated <= g /\ c < g
  BY <1>2, <1>4, Constants
<1>6. c \in OptKey /\ g \in OptKey /\ NoKey \in OptKey /\ c # NoKey /\ g # NoKey
  BY <1>4, <1>5, Constants
<1>7. img \in Image /\ img.current = c /\ img.pending = g /\ img # Absent
  BY <1>1, <1>6, ImageFacts
<1>8. Shaped(img, g)
  BY <1>4, <1>5, <1>6, <1>7 DEF Shaped
<1>9. file # Absent => file.current = c
  <2>1. file # Absent => file = State(c, NoKey)
    BY <1>2, <1>4, LoadTyped
  <2> QED BY <1>6, <2>1, ImageFacts
<1>10. \A d \in Bridges : mode[d] = "rw" => apiKey[d] <= img.current
  BY <1>4, <1>7, <1>9, AheadTyped
<1>11. /\ file' \in disk' /\ file' \in {file, img} /\ disk' \subseteq disk \cup {img}
       /\ res = "done" => disk' = {img} /\ file' = img
       /\ stamp' \in [Bridges -> {"none", "short", "long"}] /\ faults' \in 0 .. MaxFaults
  BY <1>3, <1>4, PersistTyped
<1>12. Taken(b, img)
  <2>1. CASE res = "done"
    BY <1>1, <1>2, <1>3, <1>11, <2>1 DEF Taken
  <2>2. CASE res # "done"
    <3>1. Memory(b, State(c, NoKey))
      BY <1>3, <2>2
    <3>2. apiKey' = [apiKey EXCEPT ![b] = c] /\ pendingKey' = [pendingKey EXCEPT ![b] = NoKey]
      BY <1>6, <3>1, ImageFacts DEF Memory
    <3>3. UNCHANGED <<mode, apiKey>>
      BY <1>1, <1>2, <1>4, <3>2 DEF Base, MemoryTyped
    <3> QED BY <3>2, <3>3 DEF Taken
  <2> QED BY <2>1, <2>2
<1>13. file # Absent => file.current <= img.current
  BY <1>4, <1>7, <1>9
<1>14. PortalTyped' /\ FilesTyped' /\ MemoryTyped' /\ Forward
  BY <1>1, <1>2, <1>4, <1>5, <1>7, <1>8, <1>10, <1>11, <1>12, <1>13, TransitionTyped
<1>15. PICK p : p = IF res = "done" THEN g ELSE NoKey
  OBVIOUS
<1>16. req' = [req EXCEPT ![r].phase = "proposed", ![r].proposal = p] /\ p \in OptKey
  BY <1>3, <1>6, <1>15
<1>17. RequestsTyped'
  BY <1>1, <1>2, <1>5, <1>7, <1>11, <1>16, ProposedTyped
<1> QED BY <1>2, <1>11, <1>14, <1>17, RestKept DEF Base

LEMMA CredentialRecoveryKeyTyped ==
    ASSUME Base, NEW r \in Requests, credentialRecoveryKey(r) PROVE Base' /\ Forward
<1>1. PICK b, f, img, old, k :
         b = Owner[r] /\ f = req[r].key /\ img = load(f) /\ old = Held(b) /\ k = Alternate(load(f), f)
  OBVIOUS
<1>2. PICK res \in Outcome, quantum \in {"same", "later"} :
         /\ Confirm(b, old, img, res, quantum)
         /\ IF res = "done" THEN Memory(b, img) /\ Retried(r, k)
            ELSE UNCHANGED <<apiKey, pendingKey>> /\ Ended(r)
  BY <1>1 DEF credentialRecoveryKey
<1>3. /\ req[r].phase = "rejected" /\ mode[b] = "rw"
      /\ UNCHANGED <<mode, late, generated, history, portalVars>>
  BY <1>1 DEF credentialRecoveryKey
<1>4. /\ b \in Bridges /\ f \in Keys /\ f <= generated /\ generated \in Nat
      /\ file = Absent => f = 0
  <2>1. b \in Bridges /\ f \in Keys /\ f <= generated /\ generated \in Nat
    BY <1>1, <1>3, ReqFacts, KeyTyped DEF Underway
  <2>2. file = Absent => f <= 0
    BY <1>1, <1>3, ReqFacts DEF ReqTyped
  <2> QED BY <2>1, <2>2, Constants
<1>5. UNCHANGED memVars \/ (res = "done" /\ Memory(b, img) /\ UNCHANGED mode)
  BY <1>2, <1>3 DEF memVars
<1>6. /\ PortalTyped' /\ FilesTyped' /\ MemoryTyped' /\ Forward
      /\ stamp' \in [Bridges -> {"none", "short", "long"}] /\ faults' \in 0 .. MaxFaults
      /\ file' = Absent => file = Absent
  BY <1>1, <1>2, <1>3, <1>4, <1>5, ConfirmedTyped, SMTT(60)
<1>7. RequestsTyped'
  <2>1. PICK q : req' = [req EXCEPT ![r] = q] /\ ReqTyped(q, mode[Owner[r]], file', generated)
    <3>1. CASE Retried(r, k)
      <4>1. k \in OptKey /\ k <= generated /\ (file = Absent => k <= 0)
        BY <1>1, <1>4, AlternateTyped, Constants
      <4>2. mode[Owner[r]] = "rw" /\ file' = Absent => k <= 0
        BY <1>6, <4>1
      <4> QED BY <1>3, <3>1, <4>1, <4>2, RetriedTyped
    <3>2. CASE Ended(r)
      BY <1>4, <3>2, IdleTyped DEF Ended
    <3> QED BY <1>2, <3>1, <3>2
  <2>2. UNCHANGED <<mode, generated>> /\ generated <= generated'
    BY <1>3, <1>4
  <2> QED BY <1>4, <1>6, <2>1, <2>2, RequestsUpdated
<1> QED BY <1>3, <1>6, <1>7, RestKept DEF Base

\* A bridge that knows key k promotes the file to it, or finds the file moved on.
LEMMA PromoteTyped ==
    ASSUME Base, NEW b \in Bridges, mode[b] = "rw", NEW k \in Keys, Promote(b, k),
           UNCHANGED <<mode, generated, portalVars>>
    PROVE  /\ PortalTyped' /\ FilesTyped' /\ MemoryTyped' /\ Forward
           /\ stamp' \in [Bridges -> {"none", "short", "long"}] /\ faults' \in 0 .. MaxFaults
           /\ file' = Absent => file = Absent
<1>1. PICK f, i, img : f = apiKey[b] /\ i = load(f) /\ img = Promoted(i, k)
  OBVIOUS
<1>2. /\ f \in Keys /\ f <= generated /\ generated \in Nat /\ generated \in Keys
      /\ k # NoKey /\ k \in Nat /\ k \in OptKey /\ NoKey \in OptKey
      /\ file = Absent => f = 0
  BY <1>1, KeyTyped, Constants DEF Behind
<1>3. /\ Shaped(i, generated) /\ i # Absent /\ i.current \in Keys /\ i.current \in Nat
      /\ i.pending \in OptKey
      /\ file # Absent => i = file
      /\ file = Absent => i = State(f, NoKey)
  BY <1>1, <1>2, LoadTyped, Constants
<1>4. CASE img = Absent
  <2>1. Distrust(b) /\ UNCHANGED <<apiKey, pendingKey>>
    BY <1>1, <1>4 DEF Promote
  <2>2. /\ UNCHANGED <<file, disk, faults, mode, apiKey, pendingKey, generated, successor, installed, used, revoked>>
        /\ stamp' = [stamp EXCEPT ![b] = "none"]
    BY <2>1 DEF Distrust, fileVars, portalVars
  <2> QED BY <2>2, Constants
          DEF Base, PortalTyped, FilesTyped, MemoryTyped, RestTyped, Forward
<1>5. CASE img # Absent
  <2>1. img = State(k, NoKey) /\ (i.pending = k \/ i = State(k, NoKey))
    BY <1>1, <1>5 DEF Promoted
  <2>2. img \in Image /\ img.current = k /\ img.pending = NoKey
    BY <1>2, <2>1, ImageFacts
  <2>3. PICK res \in Outcome, quantum \in {"same", "later"} :
           /\ persist(b, img, res, quantum)
           /\ IF res = "done" THEN Memory(b, img) ELSE UNCHANGED <<apiKey, pendingKey>>
    BY <1>1, <1>5 DEF Promote
  <2>4. i.current <= k /\ k <= generated
    <3>1. CASE i.pending = k
      BY <1>2, <1>3, <3>1 DEF Shaped
    <3>2. CASE i = State(k, NoKey)
      BY <2>1, <2>2, <1>3, <3>2 DEF Shaped
    <3> QED BY <2>1, <3>1, <3>2
  <2>5. Shaped(img, generated)
    BY <1>5, <2>2, <2>4 DEF Shaped
  <2>6. /\ file' \in disk' /\ file' \in {file, img} /\ disk' \subseteq disk \cup {img}
        /\ res = "done" => disk' = {img} /\ file' = img
        /\ stamp' \in [Bridges -> {"none", "short", "long"}] /\ faults' \in 0 .. MaxFaults
    BY <2>3, PersistTyped
  <2>7. file # Absent => file.current <= img.current /\ file.current \in Keys
    BY <1>3, <2>2, <2>4
  <2>8. \A d \in Bridges : mode[d] = "rw" => apiKey[d] <= img.current
    BY <2>2, <2>7, AheadTyped
  <2>9. Taken(b, img)
    BY <2>3, <2>6 DEF Taken
  <2>10. generated' \in Keys /\ generated <= generated' /\ Shaped(img, generated') /\ UNCHANGED portalVars
    BY <1>2, <2>5
  <2>11. PortalTyped' /\ FilesTyped' /\ MemoryTyped' /\ Forward
    BY <1>5, <2>6, <2>7, <2>8, <2>9, <2>10, TransitionTyped
  <2> QED BY <1>5, <2>6, <2>11
<1> QED BY <1>4, <1>5

\* A read-only bridge takes a key for its own; it never was, or is, writable.
LEMMA ReadOnlyTyped ==
    ASSUME Base, NEW b \in Bridges, mode[b] # "rw", NEW k \in Keys, k <= generated, Memory(b, State(k, NoKey)),
           mode' = [mode EXCEPT ![b] = "ro"], UNCHANGED <<fileVars, generated, portalVars>>
    PROVE  PortalTyped' /\ FilesTyped' /\ MemoryTyped' /\ Forward
<1>1. k \in OptKey /\ NoKey \in OptKey
  BY Constants
<1>2. apiKey' = [apiKey EXCEPT ![b] = k] /\ pendingKey' = [pendingKey EXCEPT ![b] = NoKey]
  BY <1>1, ImageFacts DEF Memory
<1>3. /\ apiKey' \in [Bridges -> Keys] /\ pendingKey' \in [Bridges -> OptKey]
      /\ mode' \in [Bridges -> {"down", "rw", "ro"}]
      /\ \A d \in Bridges : /\ apiKey'[d] = IF d = b THEN k ELSE apiKey[d]
                            /\ mode'[d] = IF d = b THEN "ro" ELSE mode[d]
  BY <1>1, <1>2 DEF Base, MemoryTyped
<1>4. UNCHANGED <<file, disk, successor, installed, used, revoked>>
  BY DEF fileVars, portalVars
<1>5. MemoryTyped'
  BY <1>3, <1>4 DEF Base, MemoryTyped
<1>6. PortalTyped' /\ FilesTyped'
  BY <1>4 DEF Base, PortalTyped, FilesTyped
<1>7. Forward
  BY <1>3, KeyTyped DEF Forward
<1> QED BY <1>5, <1>6, <1>7

LEMMA AdoptRecoveryKeyTyped ==
    ASSUME Base, NEW r \in Requests, adoptRecoveryKey(r) PROVE Base' /\ Forward
<1>1. PICK b, k : b = Owner[r] /\ k = req[r].key
  OBVIOUS
<1>2. /\ Recovered(r) /\ Adopted(r) /\ UNCHANGED <<mode, late, generated, portalVars>>
      /\ refused' \in BOOLEAN /\ misled' \in BOOLEAN
  BY DEF adoptRecoveryKey, Base, RestTyped
<1>3. b \in Bridges /\ k \in Keys /\ k <= generated /\ mode[b] \in {"rw", "ro"} /\ generated \in Nat
  BY <1>1, <1>2, AdoptedTyped, ReqFacts, KeyTyped DEF Recovered
<1>4. /\ PortalTyped' /\ FilesTyped' /\ MemoryTyped' /\ Forward
      /\ stamp' \in [Bridges -> {"none", "short", "long"}] /\ faults' \in 0 .. MaxFaults
      /\ file' = Absent => file = Absent
  <2>1. CASE mode[b] = "ro"
    <3>1. Memory(b, State(k, NoKey)) /\ UNCHANGED <<fileVars, file, stamp, faults>>
      BY <1>1, <2>1 DEF adoptRecoveryKey, fileVars
    <3>2. mode' = [mode EXCEPT ![b] = "ro"]
      BY <1>2, <1>3, <2>1 DEF Base, MemoryTyped
    <3>3. UNCHANGED <<fileVars, generated, portalVars>>
      BY <1>2, <3>1
    <3>4. PortalTyped' /\ FilesTyped' /\ MemoryTyped' /\ Forward
      BY <1>3, <2>1, <3>1, <3>2, <3>3, ReadOnlyTyped
    <3> QED BY <3>1, <3>4 DEF Base, RestTyped
  <2>2. CASE mode[b] # "ro"
    <3>1. Promote(b, k)
      BY <1>1, <2>2 DEF adoptRecoveryKey
    <3> QED BY <1>2, <1>3, <2>2, <3>1, PromoteTyped
  <2> QED BY <2>1, <2>2
<1>5. PICK q : /\ req' = [req EXCEPT ![r] = q]
               /\ \A m, f : ReqTyped(req[r], m, f, generated) => ReqTyped(q, m, f, generated)
  BY <1>2, AdoptedTyped
<1>6. UNCHANGED mode /\ generated <= generated' /\ generated' \in Nat /\ generated' = generated
  BY <1>2, <1>3
<1>7. ReqTyped(q, mode[Owner[r]], file', generated')
  <2>1. ReqTyped(req[r], mode'[Owner[r]], file', generated')
    BY <1>4, <1>6, RequestsMoved
  <2> QED BY <1>5, <1>6, <2>1
<1>8. RequestsTyped'
  BY <1>4, <1>5, <1>6, <1>7, RequestsUpdated
<1> QED BY <1>2, <1>4, <1>8, RestKept DEF Base

LEMMA AcknowledgeRotationTyped ==
    ASSUME Base, NEW r \in Requests, acknowledgeRotation(r) PROVE Base' /\ Forward
<1>1. PICK b, k : b = Owner[r] /\ k = req[r].proposal
  OBVIOUS
<1>2. /\ Promote(b, k) /\ req' = [req EXCEPT ![r] = Idle]
      /\ UNCHANGED <<mode, late, generated, history, portalVars>>
      /\ req[r].phase = "acked" /\ mode[b] = "rw"
  BY <1>1 DEF acknowledgeRotation, Ended, Expected
<1>3. k \in Keys /\ b \in Bridges /\ generated \in Nat
  BY <1>1, <1>2, ReqFacts, KeyTyped, Constants DEF ReqTyped
<1>4. /\ PortalTyped' /\ FilesTyped' /\ MemoryTyped' /\ Forward
      /\ stamp' \in [Bridges -> {"none", "short", "long"}] /\ faults' \in 0 .. MaxFaults
      /\ file' = Absent => file = Absent
  BY <1>2, <1>3, PromoteTyped
<1>5. UNCHANGED mode /\ generated <= generated' /\ generated' \in Nat
  BY <1>2, <1>3
<1>6. RequestsTyped'
  BY <1>2, <1>4, <1>5, IdleTyped, RequestsUpdated
<1> QED BY <1>2, <1>4, <1>6, RestKept DEF Base

-----------------------------------------------------------------------------
(* The portal, late requests, starts and deaths. *)

LEMMA MarkedTyped ==
    ASSUME Base, NEW k, Authenticate(k), UNCHANGED generated
    PROVE  PortalTyped' /\ k \in installed
  BY DEF Authenticate, Usable, Ancestors, Base, PortalTyped

LEMMA InstallTyped ==
    ASSUME Base, NEW k, NEW p \in OptKey, Install(k, p), UNCHANGED generated
    PROVE  PortalTyped' /\ p # NoKey
<1>1. /\ p \in Keys /\ p # NoKey /\ successor' = [successor EXCEPT ![k] = p]
      /\ installed' = installed \cup {p} /\ used' = used /\ revoked' = revoked
  BY Constants DEF Install, CanInstall
<1> QED BY <1>1 DEF Base, PortalTyped, OptKey

LEMMA PortalTakesTyped ==
    ASSUME Base, NEW r \in Requests, PortalAuthenticates(r) \/ PortalInstalls(r)
    PROVE  Base' /\ Forward
<1>1. /\ UNCHANGED <<fileVars, memVars, stamp, late, generated, history, faults>>
      /\ req[r].phase \in {"sent", "authenticated"}
  BY DEF PortalAuthenticates, PortalInstalls
<1>2. PortalTyped' /\ (PortalInstalls(r) => req[r].proposal # NoKey)
  <2>1. PICK k, p : k = req[r].key /\ p = req[r].proposal
    OBVIOUS
  <2>2. p \in OptKey
    BY <2>1, ReqFacts
  <2>3. CASE PortalAuthenticates(r)
    <3>1. Authenticate(k) /\ ~ PortalInstalls(r)
      BY <2>1, <2>3 DEF PortalAuthenticates, PortalInstalls
    <3> QED BY <1>1, <3>1, MarkedTyped
  <2>4. CASE PortalInstalls(r)
    <3>1. Install(k, p)
      BY <2>1, <2>4 DEF PortalInstalls
    <3> QED BY <1>1, <2>1, <2>2, <3>1, InstallTyped
  <2> QED BY <2>3, <2>4
<1>3. \E ph \in {"authenticated", "acked"} : Phased(r, ph) /\ (ph = "acked" => req[r].proposal # NoKey)
  BY <1>2 DEF PortalAuthenticates, PortalInstalls
<1>4. PICK ph \in {"authenticated", "acked"} : Phased(r, ph) /\ (ph = "acked" => req[r].proposal # NoKey)
  BY <1>3
<1>5. PICK q : q = [req[r] EXCEPT !.phase = ph]
  OBVIOUS
<1>6. /\ q \in Req /\ q.key = req[r].key /\ q.proposal = req[r].proposal /\ q.phase = ph
      /\ mode[Owner[r]] # "down"
  BY <1>1, <1>5, ReqFacts DEF Req, Phase
<1>7. ReqTyped(q, mode[Owner[r]], file, generated)
  BY <1>1, <1>4, <1>6, OnwardTyped DEF Underway
<1>8. req' = [req EXCEPT ![r] = q]
  BY <1>4, <1>5 DEF Phased
<1> QED BY <1>1, <1>2, <1>7, <1>8, RequestTyped

LEMMA StillTyped ==
    ASSUME Base, UNCHANGED <<fileVars, memVars, stamp, req, generated, history, faults>>,
           PortalTyped', LateTyped'
    PROVE  Base' /\ Forward
<1>1. UNCHANGED <<file, disk, mode, apiKey, pendingKey, stamp, req, generated, refused, misled, faults>>
  BY DEF fileVars, memVars, history
<1> QED BY <1>1, Constants DEF Base, FilesTyped, MemoryTyped, RequestsTyped, RestTyped, Forward

LEMMA ExpireTyped == ASSUME Base, NEW k \in Keys, Expire(k) PROVE Base' /\ Forward
<1>1. PortalTyped' /\ LateTyped'
  BY DEF Expire, Usable, Base, PortalTyped, LateTyped
<1> QED BY <1>1, StillTyped DEF Expire

LEMMA LateFacts ==
    ASSUME Base, NEW m \in late
    PROVE  /\ m \in Message /\ m.key \in Keys /\ m.proposal \in OptKey
           /\ IsFiniteSet(late \ {m}) /\ Cardinality(late \ {m}) + 1 <= MaxLate
           /\ Cardinality(late \ {m}) \in Nat
<1>1. m \in Message /\ IsFiniteSet(late) /\ Cardinality(late) <= MaxLate
  BY DEF Base, LateTyped
<1>2. /\ IsFiniteSet(late \ {m}) /\ Cardinality(late \ {m}) = Cardinality(late) - 1
      /\ Cardinality(late) \in Nat /\ Cardinality(late \ {m}) \in Nat
  BY <1>1, FS_RemoveElement, FS_CardinalityType
<1> QED BY <1>1, <1>2, Constants DEF Message

LEMMA LateDropped ==
    ASSUME Base, NEW m \in late, late' = late \ {m} PROVE LateTyped'
<1>1. PICK L : L = late \ {m}
  OBVIOUS
<1>2. IsFiniteSet(L) /\ Cardinality(L) \in Nat /\ Cardinality(L) + 1 <= MaxLate
  BY <1>1, LateFacts
<1>3. IsFiniteSet(L) /\ Cardinality(L) <= MaxLate
  BY <1>2, Constants
<1>4. late' = L /\ L \subseteq Message
  BY <1>1 DEF Base, LateTyped
<1> QED BY <1>3, <1>4 DEF LateTyped

LEMMA LateStepTyped ==
    ASSUME Base, NEW m \in late, LateAuthenticate(m) \/ LateInstall(m) \/ LateEnd(m)
    PROVE  Base' /\ Forward
<1>1. PICK k, p : k = m.key /\ p = m.proposal
  OBVIOUS
<1>2. UNCHANGED <<fileVars, memVars, stamp, req, generated, history, faults>>
  BY DEF LateAuthenticate, LateInstall, LateEnd
<1>3. CASE LateAuthenticate(m)
  <2>1. PICK n, L : n = [m EXCEPT !.authenticated = TRUE] /\ L = late \ {m}
    OBVIOUS
  <2>2. n \in Message
    BY <2>1, LateFacts DEF Message
  <2>3. IsFiniteSet(L) /\ Cardinality(L) \in Nat /\ Cardinality(L) + 1 <= MaxLate
    BY <2>1, LateFacts
  <2>4. IsFiniteSet(L \cup {n}) /\ Cardinality(L \cup {n}) <= MaxLate
    <3>1. /\ IsFiniteSet(L \cup {n})
          /\ Cardinality(L \cup {n}) = Cardinality(L) \/ Cardinality(L \cup {n}) = Cardinality(L) + 1
      BY <2>3, FS_AddElement
    <3> QED BY <2>3, <3>1, Constants
  <2>5. late' = L \cup {n} /\ Authenticate(k)
    BY <1>1, <1>3, <2>1 DEF LateAuthenticate
  <2>6. LateTyped'
    BY <2>1, <2>2, <2>4, <2>5 DEF Base, LateTyped
  <2>7. PortalTyped'
    BY <1>2, <2>5, MarkedTyped
  <2> QED BY <1>2, <2>6, <2>7, StillTyped
<1>4. CASE LateInstall(m)
  <2>1. Install(k, p) /\ p \in OptKey /\ late' = late \ {m}
    BY <1>1, <1>4, LateFacts DEF LateInstall
  <2> QED BY <1>2, <2>1, InstallTyped, LateDropped, StillTyped
<1>5. CASE LateEnd(m)
  <2>1. UNCHANGED portalVars /\ late' = late \ {m}
    BY <1>5 DEF LateEnd
  <2>2. PortalTyped'
    BY <1>2, <2>1 DEF Base, PortalTyped, portalVars
  <2> QED BY <1>2, <2>1, <2>2, LateDropped, StillTyped
<1> QED BY <1>3, <1>4, <1>5

LEMMA AbandonedTyped ==
    ASSUME Base, NEW rs, rs \subseteq Requests, late' \in Abandoned(rs) PROVE LateTyped'
<1>1. /\ Cardinality(late') <= MaxLate
      /\ \/ late' = late
         \/ \E r \in rs : InFlight(r) /\ late' = late \cup {MessageOf(r)}
  BY DEF Abandoned
<1>2. CASE late' = late
  BY <1>1, <1>2 DEF Base, LateTyped
<1>3. CASE \E r \in rs : InFlight(r) /\ late' = late \cup {MessageOf(r)}
  <2>1. PICK r \in rs : InFlight(r) /\ late' = late \cup {MessageOf(r)}
    BY <1>3
  <2>2. PICK m : m = MessageOf(r)
    OBVIOUS
  <2>3. req[r].key \in Keys /\ req[r].proposal \in OptKey
    BY <2>1, ReqFacts DEF InFlight, Underway
  <2>4. m \in Message
    BY <2>2, <2>3 DEF MessageOf, Message
  <2>5. late' = late \cup {m} /\ IsFiniteSet(late')
    BY <2>1, <2>2, FS_AddElement DEF Base, LateTyped
  <2> QED BY <1>1, <2>4, <2>5 DEF Base, LateTyped
<1> QED BY <1>1, <1>2, <1>3

LEMMA LoseAnswerTyped == ASSUME Base, NEW r \in Requests, LoseAnswer(r) PROVE Base' /\ Forward
<1>1. /\ Fault /\ late' \in Abandoned({r}) /\ req[r].phase \in Underway
      /\ UNCHANGED <<fileVars, memVars, stamp, generated, history, portalVars>>
  BY DEF LoseAnswer, Underway
<1>2. UNCHANGED <<file, disk, mode, apiKey, pendingKey, successor, installed, used, revoked, refused, misled>>
  BY <1>1 DEF fileVars, memVars, portalVars, history
<1>3. PICK q : req' = [req EXCEPT ![r] = q] /\ ReqTyped(q, mode[Owner[r]], file, generated)
  <2>1. CASE Ended(r)
    BY <2>1, IdleTyped, ReqFacts, KeyTyped DEF Ended
  <2>2. CASE req' = [req EXCEPT ![r].phase = "sent", ![r].attempt = "retry"]
    <3>1. PICK q : q = [req[r] EXCEPT !.phase = "sent", !.attempt = "retry"]
      OBVIOUS
    <3>2. req' = [req EXCEPT ![r] = q]
      BY <2>2, <3>1
    <3>3. q \in Req /\ q.key = req[r].key /\ q.phase = "sent" /\ mode[Owner[r]] # "down"
      BY <1>1, <3>1, ReqFacts DEF Req, Phase, Attempt, Underway
    <3>4. ReqTyped(q, mode[Owner[r]], file, generated)
      BY <1>1, <3>3, OnwardTyped DEF Underway
    <3> QED BY <3>2, <3>4
  <2> QED BY <2>1, <2>2 DEF LoseAnswer
<1>4. RequestsTyped'
  <2>1. generated \in Nat /\ UNCHANGED <<generated, file, mode>>
    BY <1>1, <1>2, Constants DEF Base, PortalTyped
  <2>2. generated <= generated' /\ generated' \in Nat /\ ReqTyped(q, mode[Owner[r]], file', generated')
    BY <1>3, <2>1
  <2> QED BY <1>3, <2>1, <2>2, RequestsUpdated
<1>5. LateTyped'
  BY <1>1, AbandonedTyped
<1>6. PortalTyped' /\ FilesTyped' /\ MemoryTyped' /\ RestTyped' /\ Forward
  BY <1>1, <1>2, Constants
  DEF Base, PortalTyped, FilesTyped, MemoryTyped, RestTyped, Fault, Forward
<1> QED BY <1>4, <1>5, <1>6 DEF Base

LEMMA ConfiguredTyped ==
    ASSUME Base
    PROVE  /\ Configured \in Keys /\ Configured <= generated
           /\ file = Absent => Configured = 0
<1>1. generated \in Nat
  BY Constants DEF Base, PortalTyped
<1>2. CASE Stored
  <2>1. Shaped(file, generated) /\ file # Absent
    BY <1>2 DEF Base, FilesTyped, Shaped
  <2>2. file.current \in OptKey /\ file.pending \in OptKey /\ file = State(file.current, file.pending)
    BY <2>1, ImageFields DEF Shaped
  <2>3. file.current # NoKey
    BY <2>1, <2>2, ImageFacts DEF Shaped
  <2> QED BY <1>2, <2>1, <2>2, <2>3, Constants DEF Configured, Shaped
<1>3. CASE ~ Stored
  BY <1>1, <1>3, Constants DEF Configured
<1> QED BY <1>2, <1>3

LEMMA StartTyped == ASSUME Base, NEW b \in Bridges, Start(b) PROVE Base' /\ Forward
<1>1. PICK f, old, img : f = Configured /\ old = State(f, NoKey) /\ img = load(f)
  OBVIOUS
<1>2. mode[b] = "down" /\ UNCHANGED <<req, late, generated, history, portalVars>>
  BY DEF Start
<1>3. PICK res \in Outcome, quantum \in {"same", "later"} :
         /\ Confirm(b, old, img, res, quantum)
         /\ IF res = "done" THEN mode' = [mode EXCEPT ![b] = "rw"] /\ Memory(b, img)
            ELSE UNCHANGED memVars
  BY <1>1 DEF Start
<1>4. f \in Keys /\ f <= generated /\ (file = Absent => f = 0) /\ generated \in Nat
  BY <1>1, ConfiguredTyped, Constants DEF Base, PortalTyped
<1>5. \/ UNCHANGED memVars
      \/ /\ res = "done" /\ Memory(b, img)
         /\ mode[b] = "down" /\ mode' = [mode EXCEPT ![b] = "rw"]
  BY <1>2, <1>3
<1>6. /\ PortalTyped' /\ FilesTyped' /\ MemoryTyped' /\ Forward
      /\ stamp' \in [Bridges -> {"none", "short", "long"}] /\ faults' \in 0 .. MaxFaults
      /\ file' = Absent => file = Absent
  BY <1>1, <1>2, <1>3, <1>4, <1>5, ConfirmedTyped, SMTT(60)
<1>7. RequestsTyped'
  <2>1. \A r \in Requests : mode'[Owner[r]] = mode[Owner[r]] \/ mode[Owner[r]] = "down"
    BY <1>2, <1>5, Constants DEF memVars, Base, MemoryTyped
  <2>2. \A r \in Requests : ReqTyped(req[r], mode'[Owner[r]], file', generated')
    BY <1>2, <1>4, <1>6, <2>1, RequestsMoved
  <2> QED BY <1>2, <2>2 DEF Base, RequestsTyped
<1> QED BY <1>2, <1>6, <1>7, RestKept DEF Base

LEMMA StartReadOnlyTyped == ASSUME Base, NEW b \in Bridges, StartReadOnly(b) PROVE Base' /\ Forward
<1>1. PICK f : f = Configured
  OBVIOUS
<1>2. /\ mode[b] = "down" /\ Fault /\ mode' = [mode EXCEPT ![b] = "ro"]
      /\ Memory(b, State(f, NoKey))
      /\ UNCHANGED <<fileVars, file, stamp, req, late, generated, history, portalVars>>
  BY <1>1 DEF StartReadOnly, fileVars
<1>3. f \in Keys /\ f <= generated /\ generated \in Nat
  BY <1>1, ConfiguredTyped, Constants DEF Base, PortalTyped
<1>4. PortalTyped' /\ FilesTyped' /\ MemoryTyped' /\ Forward
  BY <1>2, <1>3, ReadOnlyTyped
<1>5. RequestsTyped'
  <2>1. \A r \in Requests : mode'[Owner[r]] = mode[Owner[r]] \/ mode[Owner[r]] = "down"
    BY <1>2, Constants DEF Base, MemoryTyped
  <2>2. \A r \in Requests : ReqTyped(req[r], mode'[Owner[r]], file', generated')
    BY <1>2, <1>3, <2>1, RequestsMoved
  <2> QED BY <1>2, <2>2 DEF Base, RequestsTyped
<1>6. LateTyped' /\ RestTyped'
  BY <1>2, Constants DEF Base, LateTyped, RestTyped, Fault, history
<1> QED BY <1>4, <1>5, <1>6 DEF Base

\* The bridges of bs go down; the file is what it was, or everyone is down.
LEMMA DownTyped ==
    ASSUME Base, NEW bs, bs \subseteq Bridges, Down(bs), UNCHANGED <<generated, history, portalVars>>,
           file' \in disk', disk' \subseteq disk, file' = file \/ bs = Bridges,
           Fault \/ UNCHANGED faults
    PROVE  Base' /\ Forward
<1>1. generated \in Nat /\ 0 \in Keys /\ NoKey \in OptKey
  BY Constants DEF Base, PortalTyped
<1>2. PortalTyped' /\ FilesTyped'
  BY DEF Base, PortalTyped, FilesTyped, portalVars
<1>3. /\ mode' \in [Bridges -> {"down", "rw", "ro"}]
      /\ \A b \in Bridges : /\ mode'[b] = IF b \in bs THEN "down" ELSE mode[b]
                            /\ apiKey'[b] = IF b \in bs THEN 0 ELSE apiKey[b]
      /\ apiKey' \in [Bridges -> Keys] /\ pendingKey' \in [Bridges -> OptKey]
  BY <1>1 DEF Down, Base, MemoryTyped
<1>4. \A b \in Bridges : /\ apiKey'[b] <= generated'
                         /\ mode'[b] = "rw" => Behind(apiKey'[b], file')
  BY <1>1, <1>3, KeyTyped
<1>5. MemoryTyped' /\ Forward
  BY <1>3, <1>4, KeyTyped, Constants DEF MemoryTyped, Forward
<1>6. RequestsTyped'
  <2>1. \A r \in Requests : req'[r] = IF Owner[r] \in bs THEN Idle ELSE req[r]
    BY DEF Down
  <2>2. ASSUME NEW r \in Requests PROVE ReqTyped(req'[r], mode'[Owner[r]], file', generated')
    <3>1. CASE Owner[r] \in bs
      BY <1>1, <2>1, <3>1, IdleTyped
    <3>2. CASE Owner[r] \notin bs
      BY <1>3, <2>1, <3>2, ReqFacts
    <3> QED BY <3>1, <3>2
  <2>3. \A r \in Requests : req'[r] \in Req
    BY <2>2 DEF ReqTyped
  <2>4. req' \in [Requests -> Req]
    BY <2>3 DEF Down
  <2> QED BY <2>2, <2>4 DEF RequestsTyped
<1>7. LateTyped'
  <2>1. PICK rs : rs = {r \in Requests : Owner[r] \in bs}
    OBVIOUS
  <2>2. late' \in Abandoned(rs) /\ rs \subseteq Requests
    BY <2>1 DEF Down
  <2> QED BY <2>2, AbandonedTyped
<1>8. RestTyped'
  BY Constants DEF Down, Base, RestTyped, Fault, history
<1> QED BY <1>2, <1>5, <1>6, <1>7, <1>8 DEF Base

LEMMA KillTyped == ASSUME Base, NEW b \in Bridges, Kill(b) PROVE Base' /\ Forward
<1>1. Fault /\ Down({b}) /\ UNCHANGED <<file, disk, generated, history, portalVars>>
  BY DEF Kill, fileVars
<1>2. file \in disk
  BY DEF Base, FilesTyped
<1> QED BY <1>1, <1>2, DownTyped

LEMMA HostCrashTyped == ASSUME Base, HostCrash PROVE Base' /\ Forward
<1>1. /\ Down(Bridges) /\ file' \in disk /\ disk' = {file'}
      /\ UNCHANGED <<generated, history, portalVars, faults>>
  BY DEF HostCrash
<1>2. file' \in disk' /\ disk' \subseteq disk
  BY <1>1
<1> QED BY <1>1, <1>2, DownTyped

LEMMA InitTyped == ASSUME Init PROVE Base
<1>1. PICK i : i = IF Stored THEN State(0, NoKey) ELSE Absent
  OBVIOUS
<1>2. /\ file = i /\ disk = {i} /\ generated = 0 /\ installed = {0} /\ used = {} /\ revoked = {}
      /\ mode = [b \in Bridges |-> "down"] /\ apiKey = [b \in Bridges |-> 0]
      /\ pendingKey = [b \in Bridges |-> NoKey] /\ stamp = [b \in Bridges |-> "none"]
      /\ req = [r \in Requests |-> Idle] /\ late = {} /\ faults = 0
      /\ successor = [k \in Keys |-> NoKey] /\ refused = FALSE /\ misled = FALSE
  BY <1>1 DEF Init
<1>3. PortalTyped
  BY <1>2, Constants DEF PortalTyped
<1>4. Shaped(i, 0)
  <2>1. 0 \in OptKey /\ NoKey \in OptKey /\ 0 # NoKey
    BY Constants
  <2>2. /\ State(0, NoKey) \in Image /\ State(0, NoKey).current = 0 /\ State(0, NoKey).pending = NoKey
        /\ State(0, NoKey) # Absent
        /\ Absent \in Image /\ Absent.current = NoKey /\ Absent.pending = NoKey
    BY <2>1, ImageFacts DEF Absent, Image
  <2> QED BY <1>1, <2>2, Constants DEF Shaped
<1>5. FilesTyped
  BY <1>2, <1>4 DEF FilesTyped
<1>6. MemoryTyped
  BY <1>2, Constants DEF MemoryTyped
<1>7. RequestsTyped
  <2>1. \A r \in Requests : ReqTyped(Idle, mode[Owner[r]], file, 0)
    BY IdleTyped
  <2>2. Idle \in Req
    BY Constants DEF Idle, Req, Phase, Attempt
  <2> QED BY <1>2, <2>1, <2>2 DEF RequestsTyped
<1>8. LateTyped /\ RestTyped
  <2>1. IsFiniteSet(late) /\ Cardinality(late) = 0
    BY <1>2, FS_EmptySet
  <2>2. LateTyped
    BY <1>2, <2>1, Constants DEF LateTyped
  <2>3. RestTyped
    <3>1. stamp \in [Bridges -> {"none", "short", "long"}] /\ faults \in 0 .. MaxFaults
      BY <1>2, Constants
    <3>2. refused \in BOOLEAN /\ misled \in BOOLEAN
      BY <1>2
    <3> QED BY <3>1, <3>2 DEF RestTyped
  <2> QED BY <2>2, <2>3
<1> QED BY <1>3, <1>5, <1>6, <1>7, <1>8 DEF Base

LEMMA NextTyped == ASSUME Base, [Next]_vars PROVE Base' /\ Forward
<1>1. ASSUME NEW r \in Requests, RequestStep(r) PROVE Base' /\ Forward
  BY <1>1, QuietTyped, RefreshTyped, ProposalAdoptsTyped, ProposalGeneratesTyped, SendTyped,
     PortalTakesTyped, AnsweredTyped, RecoverReadOnlyTyped, CredentialRecoveryKeyTyped,
     EndedTyped, AdoptRecoveryKeyTyped, AdoptLockedTyped, AcknowledgeRotationTyped
  DEF RequestStep
<1>2. ASSUME NEW r \in Requests, LoseAnswer(r) PROVE Base' /\ Forward
  BY <1>2, LoseAnswerTyped
<1>3. ASSUME NEW k \in Keys, Expire(k) PROVE Base' /\ Forward
  BY <1>3, ExpireTyped
<1>4. ASSUME NEW m \in late, LateAuthenticate(m) \/ LateInstall(m) \/ LateEnd(m) PROVE Base' /\ Forward
  BY <1>4, LateStepTyped
<1>5. ASSUME NEW b \in Bridges, Start(b) \/ StartReadOnly(b) \/ Kill(b) PROVE Base' /\ Forward
  BY <1>5, StartTyped, StartReadOnlyTyped, KillTyped
<1>6. CASE HostCrash
  BY <1>6, HostCrashTyped
<1>7. CASE UNCHANGED vars
  <2>1. UNCHANGED <<fileVars, memVars, stamp, req, late, generated, portalVars, faults, history>>
    BY <1>7 DEF vars
  <2>2. PortalTyped' /\ LateTyped'
    BY <2>1 DEF Base, PortalTyped, LateTyped, portalVars
  <2> QED BY <2>1, <2>2, StillTyped
<1> QED BY <1>1, <1>2, <1>3, <1>4, <1>5, <1>6, <1>7 DEF Next

LEMMA BaseHolds == Spec => []Base
  BY InitTyped, NextTyped, PTL DEF Spec

-----------------------------------------------------------------------------
(* The inductive invariant, while the file was not promoted to a key the portal does   *)
(* not know. The portal's chain is given by its successors s, its installed keys S and *)
(* its end t; g is the last key generated, R the revoked keys, D the disk.             *)

\* Every installed key but the last has a successor, and the last is the youngest.
Chain(s, S, t) ==
    /\ t \in S /\ s[t] = NoKey
    /\ \A k \in S : k <= t /\ s[k] \in S \cup {NoKey} /\ (s[k] = NoKey => k = t)

\* A file a crash may leave: its current key is installed, its pending key is younger and,
\* once installed, the end of the chain; and it holds the end of the chain.
Sound(i, S, t, g) ==
    /\ i \in Image
    /\ i.current # NoKey => i.current \in S
    /\ i.pending # NoKey => i.current # NoKey /\ i.current < i.pending /\ i.pending <= g
    /\ i.pending \in S => i.pending = t
    /\ t \in HeldBy(i)
    /\ Stored => i # Absent

\* A successor offered to the portal is installed, or pending whatever a crash leaves.
Conforms(p, S, D) == p # NoKey /\ p \notin S => \A i \in D : i.pending = p

ReqOK(q, S, D) ==
    /\ q \in Req /\ Conforms(q.proposal, S, D)
    /\ q.phase \in {"idle", "refreshed", "proposed"} => q.attempt = "first"
    /\ q.phase = "sent" => q.attempt # "adopted"
    /\ q.phase = "rejected" => q.attempt \in {"first", "retry"}
    /\ q.phase = "acked" => q.proposal \in S

\* The key of a writable bridge's request is installed; while no usable key was refused,
\* the key it recovers with is installed too, and a refused key is revoked.
KeyOK(q, S, R, f) ==
    /\ q.phase \in Underway /\ q.attempt \in {"first", "retry"} => q.key \in S
    /\ ~ f => /\ q.phase \in Underway /\ q.attempt = "recovery" => q.key \in S
              /\ q.phase = "rejected" => q.key \in R

PortalOK ==
    /\ generated \in Keys /\ installed \subseteq 0 .. generated /\ 0 \in installed
    /\ successor \in [Keys -> OptKey]
    /\ \A k \in Keys : k \notin installed => successor[k] = NoKey
    /\ Chain(successor, installed, Tip)
    /\ used \subseteq installed /\ revoked \subseteq installed \ {Tip}

FilesOK == file \in disk /\ \A i \in disk : Sound(i, installed, Tip, generated)

MemoryOK ==
    /\ mode \in [Bridges -> {"down", "rw", "ro"}]
    /\ apiKey \in [Bridges -> Keys] /\ pendingKey \in [Bridges -> OptKey]
    /\ \A b \in Bridges : /\ mode[b] = "rw" => apiKey[b] \in installed
                          /\ Conforms(pendingKey[b], installed, disk)

RequestsOK ==
    /\ req \in [Requests -> Req]
    /\ \A r \in Requests : ReqOK(req[r], installed, disk)

KeysOK ==
    \A r \in Requests :
        mode[Owner[r]] = "rw" => KeyOK(req[r], installed, revoked, refused)

LateOK == \A m \in late : Conforms(m.proposal, installed, disk)

Inv == PortalOK /\ FilesOK /\ MemoryOK /\ RequestsOK /\ KeysOK /\ LateOK

-----------------------------------------------------------------------------
(* The chain. *)

LEMMA InstalledFacts ==
    ASSUME PortalOK
    PROVE  installed \subseteq Keys /\ generated \in Nat /\ Tip \in installed /\ NoKey \notin installed
<1>1. generated \in 0 .. MaxKey /\ installed \subseteq 0 .. generated
  BY Constants DEF PortalOK
<1>2. installed \subseteq Keys /\ generated \in Nat
  BY <1>1, Constants
<1> QED BY <1>2, Constants DEF PortalOK, Chain

LEMMA SoundFacts ==
    ASSUME NEW i, NEW S, NEW t, NEW g, Sound(i, S, t, g), i # Absent
    PROVE  /\ i \in Image /\ i.current \in S /\ i.current # NoKey /\ i.pending \in OptKey
           /\ t = i.current \/ t = i.pending
<1>1. i \in Image /\ i.pending \in OptKey /\ i = State(i.current, i.pending) /\ i.current \in OptKey
  BY ImageFields DEF Sound
<1>2. i.current # NoKey
  BY <1>1, ImageFacts DEF Sound
<1> QED BY <1>1, <1>2 DEF Sound, HeldBy

\* A file that is not there yet: nothing was ever installed.
LEMMA AbsentFacts ==
    ASSUME PortalOK, Sound(Absent, installed, Tip, generated)
    PROVE  installed = {0} /\ Tip = 0 /\ ~ Stored
<1>1. Tip = 0 /\ ~ Stored
  BY DEF Sound, HeldBy
<1>2. \A k \in installed : k <= 0 /\ k \in Nat
  BY <1>1, InstalledFacts, Constants DEF PortalOK, Chain
<1>3. \A k \in installed : k = 0
  BY <1>2
<1>4. 0 \in installed
  BY DEF PortalOK
<1>5. installed = {0}
  BY <1>3, <1>4
<1> QED BY <1>1, <1>5

LEMMA LoadFacts ==
    ASSUME PortalOK, FilesOK, NEW f \in installed
    PROVE  /\ Sound(load(f), installed, Tip, generated)
           /\ load(f) \in Image /\ load(f).current \in installed /\ load(f).pending \in OptKey
           /\ load(f) # Absent
           /\ file # Absent => load(f) = file
           /\ file = Absent => load(f) = State(0, NoKey) /\ f = 0 /\ installed = {0}
           /\ load(f).pending # NoKey => load(f) = file
<1>1. CASE file = Absent
  <2>1. Sound(Absent, installed, Tip, generated)
    BY <1>1 DEF FilesOK
  <2>2. installed = {0} /\ Tip = 0 /\ ~ Stored /\ f = 0
    BY <2>1, AbsentFacts
  <2>3. load(f) = State(0, NoKey)
    BY <1>1, <2>2 DEF load
  <2>4. /\ State(0, NoKey) \in Image /\ State(0, NoKey).current = 0 /\ State(0, NoKey).pending = NoKey
        /\ State(0, NoKey) # Absent
    BY Constants, ImageFacts
  <2>5. Sound(State(0, NoKey), installed, Tip, generated)
    BY <2>2, <2>4, Constants DEF Sound, HeldBy
  <2> QED BY <1>1, <2>2, <2>3, <2>4, <2>5, Constants
<1>2. CASE file # Absent
  <2>1. load(f) = file /\ Sound(file, installed, Tip, generated)
    BY <1>2 DEF load, FilesOK
  <2> QED BY <1>2, <2>1, SoundFacts
<1> QED BY <1>1, <1>2

LEMMA TipIs ==
    ASSUME NEW S, NEW s, NEW t \in S, s[t] = NoKey, \A k \in S : s[k] = NoKey => k = t
    PROVE  (CHOOSE k \in S : s[k] = NoKey) = t
  OBVIOUS

-----------------------------------------------------------------------------
(* What a step leaves. *)

LEMMA ConformsSub ==
    ASSUME NEW p, NEW S, NEW D, NEW T, NEW E, Conforms(p, S, D), S \subseteq T, E \subseteq D
    PROVE  Conforms(p, T, E)
  BY DEF Conforms

\* Nothing is on offer while a file without a pending key, or with one that is installed
\* already, is possible.
LEMMA ConformsFree ==
    ASSUME NEW p, NEW S, NEW D, NEW i \in D, i.pending = NoKey \/ i.pending \in S, Conforms(p, S, D),
           NEW E
    PROVE  Conforms(p, S, E)
  BY DEF Conforms

LEMMA ConformsOnly ==
    ASSUME NEW S, NEW i
    PROVE  Conforms(i.pending, S, {i}) /\ \A D : Conforms(NoKey, S, D)
  BY DEF Conforms

LEMMA ReqOKSub ==
    ASSUME NEW q, NEW S, NEW D, NEW T, NEW E, ReqOK(q, S, D), S \subseteq T,
           Conforms(q.proposal, S, D) => Conforms(q.proposal, T, E)
    PROVE  ReqOK(q, T, E)
  BY DEF ReqOK

LEMMA IdleOK ==
    /\ \A S, D : ReqOK(Idle, S, D)
    /\ \A S, R, f : KeyOK(Idle, S, R, f)
<1>1. Idle \in Req /\ Idle.phase = "idle" /\ Idle.attempt = "first" /\ Idle.proposal = NoKey
  BY Constants DEF Idle, Req, Phase, Attempt
<1> QED BY <1>1, ConformsOnly DEF ReqOK, KeyOK, Underway

LEMMA RequestsKept ==
    ASSUME RequestsOK, req' = req, installed \subseteq installed',
           \A p : Conforms(p, installed, disk) => Conforms(p, installed', disk')
    PROVE  RequestsOK'
<1>1. \A r \in Requests : ReqOK(req[r], installed', disk')
  BY ReqOKSub DEF RequestsOK
<1> QED BY <1>1 DEF RequestsOK

LEMMA Updated ==
    ASSUME RequestsOK, NEW r \in Requests, NEW q, req' = [req EXCEPT ![r] = q],
           ReqOK(q, installed', disk'), installed \subseteq installed',
           \A p : Conforms(p, installed, disk) => Conforms(p, installed', disk')
    PROVE  RequestsOK'
<1>1. \A s \in Requests : ReqOK(req[s], installed', disk')
  BY ReqOKSub DEF RequestsOK
<1>2. q \in Req /\ req \in [Requests -> Req]
  BY DEF ReqOK, RequestsOK
<1>3. req' \in [Requests -> Req] /\ \A s \in Requests : req'[s] = IF s = r THEN q ELSE req[s]
  BY <1>2
<1> QED BY <1>1, <1>3 DEF RequestsOK

LEMMA LateKept ==
    ASSUME LateOK, late' = late,
           \A p : Conforms(p, installed, disk) => Conforms(p, installed', disk')
    PROVE  LateOK'
  BY DEF LateOK

LEMMA KeysUpdated ==
    ASSUME Base, KeysOK, NEW r \in Requests, NEW q, req' = [req EXCEPT ![r] = q], UNCHANGED mode,
           installed \subseteq installed', revoked \subseteq revoked', refused => refused',
           mode[Owner[r]] = "rw" => KeyOK(q, installed', revoked', refused')
    PROVE  KeysOK'
<1>1. \A s \in Requests : req'[s] = IF s = r THEN q ELSE req[s]
  BY DEF Base, RequestsTyped
<1>2. \A s \in Requests :
         mode[Owner[s]] = "rw" => KeyOK(req[s], installed', revoked', refused')
  BY DEF KeysOK, KeyOK
<1> QED BY <1>1, <1>2 DEF KeysOK

LEMMA KeysKept ==
    ASSUME KeysOK, UNCHANGED <<mode, req, refused>>, installed \subseteq installed', revoked \subseteq revoked'
    PROVE  KeysOK'
  BY DEF KeysOK, KeyOK

LEMMA PortalKept ==
    ASSUME PortalOK, UNCHANGED <<generated, portalVars>>
    PROVE  PortalOK' /\ Tip' = Tip /\ installed' = installed
<1>1. UNCHANGED <<generated, successor, installed, used, revoked>>
  BY DEF portalVars
<1>2. Tip' = Tip
  BY <1>1 DEF Tip
<1> QED BY <1>1, <1>2 DEF PortalOK

LEMMA FilesKept ==
    ASSUME FilesOK, UNCHANGED fileVars, Tip' = Tip, UNCHANGED <<installed, generated>>
    PROVE  FilesOK'
  BY DEF FilesOK, fileVars

LEMMA MemoryKept ==
    ASSUME MemoryOK, UNCHANGED <<fileVars, memVars, installed>>
    PROVE  MemoryOK'
  BY DEF MemoryOK, fileVars, memVars

LEMMA Unfold == ASSUME UNCHANGED portalVars PROVE UNCHANGED <<successor, installed, used, revoked>>
  BY DEF portalVars

\* A step of a request that changes nothing else but the history.
LEMMA RequestOnly ==
    ASSUME Base, Inv, NEW r \in Requests, NEW q, req' = [req EXCEPT ![r] = q],
           ReqOK(q, installed, disk), refused => refused',
           mode[Owner[r]] = "rw" => KeyOK(q, installed, revoked, refused'),
           UNCHANGED <<fileVars, memVars, late, generated, portalVars>>
    PROVE  Inv'
<1>1. PortalOK' /\ Tip' = Tip /\ UNCHANGED <<installed, revoked>>
  BY PortalKept, Unfold DEF Inv
<1>2. UNCHANGED <<disk, mode>>
  BY DEF fileVars, memVars
<1>3. FilesOK' /\ MemoryOK'
  BY <1>1, FilesKept, MemoryKept DEF Inv
<1>4. RequestsOK' /\ LateOK'
  BY <1>1, <1>2, Updated, LateKept DEF Inv
<1>5. KeysOK'
  BY <1>1, <1>2, KeysUpdated DEF Inv
<1> QED BY <1>1, <1>3, <1>4, <1>5 DEF Inv

LEMMA RequestFacts ==
    ASSUME Inv, NEW r \in Requests
    PROVE  /\ ReqOK(req[r], installed, disk)
           /\ mode[Owner[r]] = "rw" => KeyOK(req[r], installed, revoked, refused)
  BY DEF Inv, RequestsOK, KeysOK

LEMMA MemoryFacts ==
    ASSUME Inv, NEW b \in Bridges
    PROVE  /\ mode[b] = "rw" => apiKey[b] \in installed
           /\ apiKey[b] \in Keys /\ pendingKey[b] \in OptKey
           /\ Conforms(pendingKey[b], installed, disk)
           /\ mode[b] \in {"down", "rw", "ro"}
  BY DEF Inv, MemoryOK

-----------------------------------------------------------------------------
(* Steps of a request that change nothing else. *)

LEMMA PreparingInv ==
    ASSUME Base, Inv, NEW r \in Requests,
           \/ RefreshSkipped(r) \/ RefreshLocked(r) \/ ProposalSkipped(r) \/ ProposalRepeated(r)
    PROVE  Inv'
<1>1. PICK p : p = pendingKey[Owner[r]]
  OBVIOUS
<1>2. p \in OptKey /\ Conforms(p, installed, disk) /\ NoKey \in OptKey /\ Conforms(NoKey, installed, disk)
  BY <1>1, ReqFacts, MemoryFacts, ConformsOnly, Constants
<1>3. PICK q0, q1, q2 : /\ q0 = [req[r] EXCEPT !.phase = "refreshed"]
                        /\ q1 = [req[r] EXCEPT !.phase = "proposed", !.proposal = NoKey]
                        /\ q2 = [req[r] EXCEPT !.phase = "proposed", !.proposal = p]
  OBVIOUS
<1>4. PICK q \in {q0, q1, q2} : req' = [req EXCEPT ![r] = q]
  BY <1>1, <1>3 DEF RefreshSkipped, RefreshLocked, ProposalSkipped, ProposalRepeated, Phased
<1>5. req[r].phase \in {"idle", "refreshed"}
  BY DEF RefreshSkipped, RefreshLocked, ProposalSkipped, ProposalRepeated
<1>6. ReqOK(q, installed, disk)
  BY <1>2, <1>3, <1>5, ReqFacts, RequestFacts DEF ReqOK, Req, Phase
<1>7. KeyOK(q, installed, revoked, refused)
  BY <1>3, ReqFacts DEF KeyOK, Req, Underway
<1>8. UNCHANGED <<fileVars, memVars, late, generated, portalVars, refused>>
  BY DEF RefreshSkipped, RefreshLocked, ProposalSkipped, ProposalRepeated, history
<1> QED BY <1>4, <1>6, <1>7, <1>8, RequestOnly

LEMMA SendInv == ASSUME Base, Inv, NEW r \in Requests, Send(r) PROVE Inv'
<1>1. PICK k, q : k = apiKey[Owner[r]] /\ q = [req[r] EXCEPT !.phase = "sent", !.key = k]
  OBVIOUS
<1>2. req[r].phase = "proposed" /\ req' = [req EXCEPT ![r] = q]
  BY <1>1 DEF Send
<1>3. k \in OptKey /\ (mode[Owner[r]] = "rw" => k \in installed)
  BY <1>1, ReqFacts, MemoryFacts, Constants
<1>4. q \in Req /\ q.attempt = req[r].attempt /\ q.proposal = req[r].proposal /\ q.phase = "sent" /\ q.key = k
  BY <1>1, <1>3, ReqFacts DEF Req, Phase
<1>5. ReqOK(q, installed, disk) /\ (mode[Owner[r]] = "rw" => KeyOK(q, installed, revoked, refused))
  BY <1>2, <1>3, <1>4, RequestFacts DEF ReqOK, KeyOK
<1>6. UNCHANGED <<fileVars, memVars, late, generated, portalVars, refused>>
  BY DEF Send, history
<1> QED BY <1>2, <1>5, <1>6, RequestOnly

LEMMA PortalRejectsInv == ASSUME Base, Inv, NEW r \in Requests, PortalRejects(r) PROVE Inv'
<1>1. PICK q : q = IF req[r].attempt = "recovery" THEN Idle ELSE [req[r] EXCEPT !.phase = "rejected"]
  OBVIOUS
<1>2. /\ req[r].phase = "sent" /\ req' = [req EXCEPT ![r] = q]
      /\ UNCHANGED <<fileVars, memVars, late, generated, portalVars>>
      /\ refused => refused'
      /\ ~ refused' => req[r].key \notin installed \ revoked
  BY <1>1 DEF PortalRejects, Ended, Phased, Usable, Base, RestTyped
<1>3. CASE req[r].attempt = "recovery"
  <2>1. ReqOK(q, installed, disk) /\ KeyOK(q, installed, revoked, refused')
    BY <1>1, <1>3, IdleOK
  <2> QED BY <1>2, <2>1, RequestOnly
<1>4. CASE req[r].attempt # "recovery"
  <2>1. /\ q \in Req /\ q.attempt = req[r].attempt /\ q.proposal = req[r].proposal
        /\ q.phase = "rejected" /\ q.key = req[r].key
    BY <1>1, <1>4, ReqFacts DEF Req, Phase
  <2>2. q.attempt \in {"first", "retry"}
    BY <1>2, <1>4, <2>1, ReqFacts, RequestFacts DEF ReqOK, Attempt
  <2>3. ReqOK(q, installed, disk)
    BY <2>1, <2>2, RequestFacts DEF ReqOK
  <2>4. mode[Owner[r]] = "rw" => KeyOK(q, installed, revoked, refused')
    BY <1>2, <2>1, <2>2, RequestFacts DEF KeyOK, Underway
  <2> QED BY <1>2, <2>3, <2>4, RequestOnly
<1> QED BY <1>3, <1>4

LEMMA AnsweredInv ==
    ASSUME Base, Inv, NEW r \in Requests, PortalLimits(r) \/ PortalAnswers(r) PROVE Inv'
<1>1. PICK q : q = [req[r] EXCEPT !.phase = "answered"]
  OBVIOUS
<1>2. /\ req[r].phase \in {"sent", "authenticated"} /\ req' = [req EXCEPT ![r] = q]
      /\ UNCHANGED <<fileVars, memVars, late, generated, portalVars, refused>>
  BY <1>1 DEF PortalLimits, PortalAnswers, Phased, history
<1>3. /\ q \in Req /\ q.attempt = req[r].attempt /\ q.proposal = req[r].proposal
      /\ q.phase = "answered" /\ q.key = req[r].key
  BY <1>1, ReqFacts DEF Req, Phase
<1>4. ReqOK(q, installed, disk) /\ (mode[Owner[r]] = "rw" => KeyOK(q, installed, revoked, refused))
  BY <1>2, <1>3, RequestFacts DEF ReqOK, KeyOK, Underway
<1> QED BY <1>2, <1>4, RequestOnly

\* The request goes on with a key of the file, or ends.
LEMMA RetriedFacts ==
    ASSUME Base, NEW r \in Requests, NEW S, NEW D, NEW R, NEW f, ReqOK(req[r], S, D), NEW k \in OptKey,
           ~ f /\ mode[Owner[r]] = "rw" /\ k # NoKey => k \in S, Retried(r, k)
    PROVE  \E q : /\ req' = [req EXCEPT ![r] = q] /\ ReqOK(q, S, D)
                  /\ mode[Owner[r]] = "rw" => KeyOK(q, S, R, f)
<1>1. CASE k = NoKey
  BY <1>1, IdleOK DEF Retried, Ended
<1>2. CASE k # NoKey
  <2>1. PICK q : q = [req[r] EXCEPT !.phase = "sent", !.attempt = "recovery", !.key = k]
    OBVIOUS
  <2>2. req' = [req EXCEPT ![r] = q]
    BY <1>2, <2>1 DEF Retried
  <2>3. /\ q \in Req /\ q.phase = "sent" /\ q.attempt = "recovery" /\ q.key = k
        /\ q.proposal = req[r].proposal
    BY <2>1, ReqFacts DEF Req, Phase, Attempt
  <2>4. ReqOK(q, S, D) /\ (mode[Owner[r]] = "rw" => KeyOK(q, S, R, f))
    BY <1>2, <2>3 DEF ReqOK, KeyOK
  <2> QED BY <2>2, <2>4
<1> QED BY <1>1, <1>2

\* A revoked key is not the end of the chain, which the file holds: the alternate is.
LEMMA AlternateFacts ==
    ASSUME Base, Inv, NEW f \in installed, NEW img, img = load(f)
    PROVE  /\ Alternate(img, f) \in OptKey
           /\ f \in revoked => Alternate(img, f) \in installed
<1>1. /\ Sound(img, installed, Tip, generated) /\ img # Absent
      /\ img.current \in installed /\ img.pending \in OptKey /\ Tip \in installed
  BY LoadFacts, InstalledFacts DEF Inv
<1>2. Tip = img.current \/ Tip = img.pending
  BY <1>1, SoundFacts
<1>3. Tip \notin revoked
  BY DEF Inv, PortalOK
<1>4. img.current \in OptKey
  BY <1>1, InstalledFacts, Constants DEF Inv
<1> QED BY <1>1, <1>2, <1>3, <1>4 DEF Alternate

LEMMA RecoverReadOnlyInv == ASSUME Base, Inv, NEW r \in Requests, RecoverReadOnly(r) PROVE Inv'
<1>1. PICK f, k : f = req[r].key /\ k = Alternate(load(f), f)
  OBVIOUS
<1>2. req[r].phase = "rejected" /\ Retried(r, k) /\ mode[Owner[r]] = "ro"
  BY <1>1 DEF RecoverReadOnly
<1>3. k \in OptKey
  BY <1>1, <1>2, ReqFacts, AlternateTyped DEF Underway
<1>4. PICK q : req' = [req EXCEPT ![r] = q] /\ ReqOK(q, installed, disk)
  BY <1>2, <1>3, RequestFacts, RetriedFacts
<1>5. UNCHANGED <<fileVars, memVars, late, generated, portalVars, refused>>
  BY DEF RecoverReadOnly, history
<1> QED BY <1>2, <1>4, <1>5, RequestOnly

LEMMA EndedInv == ASSUME Base, Inv, NEW r \in Requests, RecoverLocked(r) \/ Return(r) PROVE Inv'
<1>1. /\ req' = [req EXCEPT ![r] = Idle]
      /\ UNCHANGED <<fileVars, memVars, late, generated, portalVars, refused>>
  BY DEF RecoverLocked, Return, Ended, history
<1>2. ReqOK(Idle, installed, disk) /\ KeyOK(Idle, installed, revoked, refused)
  BY IdleOK
<1> QED BY <1>1, <1>2, RequestOnly

LEMMA AdoptedFacts ==
    ASSUME Base, Inv, NEW r \in Requests, Recovered(r), Adopted(r)
    PROVE  /\ ~ refused /\ mode[Owner[r]] = "rw" => req[r].key \in installed
           /\ \E q : /\ req' = [req EXCEPT ![r] = q]
                     /\ \A S, D : ReqOK(req[r], S, D) => ReqOK(q, S, D)
                     /\ \A S, R, f : KeyOK(q, S, R, f)
<1>1. PICK q : q = [req[r] EXCEPT !.attempt = "adopted"]
  OBVIOUS
<1>2. /\ req[r].phase \in {"answered", "acked"} /\ req' = [req EXCEPT ![r] = q]
      /\ req[r].attempt = "recovery"
  BY <1>1 DEF Adopted, Recovered
<1>3. /\ q \in Req /\ q.attempt = "adopted" /\ q.phase = req[r].phase /\ q.proposal = req[r].proposal
  BY <1>1, ReqFacts DEF Req, Attempt
<1>4. /\ \A S, D : ReqOK(req[r], S, D) => ReqOK(q, S, D)
      /\ \A S, R, f : KeyOK(q, S, R, f)
  BY <1>2, <1>3 DEF ReqOK, KeyOK
<1>5. ~ refused /\ mode[Owner[r]] = "rw" => req[r].key \in installed
  BY <1>2, RequestFacts DEF KeyOK, Underway
<1> QED BY <1>2, <1>4, <1>5

LEMMA AdoptLockedInv == ASSUME Base, Inv, NEW r \in Requests, AdoptLocked(r) PROVE Inv'
<1>1. PICK q : /\ req' = [req EXCEPT ![r] = q]
               /\ \A S, D : ReqOK(req[r], S, D) => ReqOK(q, S, D)
               /\ \A S, R, f : KeyOK(q, S, R, f)
  BY AdoptedFacts DEF AdoptLocked
<1>2. ReqOK(q, installed, disk) /\ KeyOK(q, installed, revoked, refused)
  BY <1>1, RequestFacts
<1>3. UNCHANGED <<fileVars, memVars, late, generated, portalVars, refused>>
  BY DEF AdoptLocked, history
<1> QED BY <1>1, <1>2, <1>3, RequestOnly


-----------------------------------------------------------------------------
(* Transitions of the file. *)

\* What is left of the file by a transition to img, and what a bridge that takes img for its
\* own then holds.
LEMMA Transition ==
    ASSUME Inv, UNCHANGED portalVars, generated' \in Keys, generated <= generated',
           NEW img, Sound(img, installed, Tip, generated'), img # Absent,
           file' \in disk', disk' \subseteq disk \cup {img},
           \A p : Conforms(p, installed, disk) => Conforms(p, installed, disk'),
           NEW b \in Bridges,
           \/ UNCHANGED <<mode, apiKey, pendingKey>>
           \/ UNCHANGED <<mode, apiKey>> /\ pendingKey' = [pendingKey EXCEPT ![b] = NoKey]
           \/ /\ Memory(b, img) /\ Conforms(img.pending, installed, disk')
              /\ UNCHANGED mode \/ mode' = [mode EXCEPT ![b] = "rw"]
    PROVE  PortalOK' /\ FilesOK' /\ MemoryOK' /\ UNCHANGED <<installed, revoked>>
<1>1. UNCHANGED <<successor, installed, used, revoked>>
  BY DEF portalVars
<1>2. Tip' = Tip
  BY <1>1 DEF Tip
<1>3. installed \subseteq 0 .. generated'
  <2>1. installed \subseteq 0 .. generated /\ generated \in Nat /\ generated' \in Nat
    BY InstalledFacts, Constants DEF Inv, PortalOK
  <2> QED BY <2>1
<1>4. PortalOK'
  BY <1>1, <1>2, <1>3 DEF Inv, PortalOK
<1>5. FilesOK'
  <2>1. ASSUME NEW i \in disk PROVE Sound(i, installed, Tip, generated')
    <3>1. Sound(i, installed, Tip, generated) /\ i.pending \in OptKey
      BY <2>1, ImageFields DEF Inv, FilesOK, Sound
    <3>2. i.pending # NoKey => i.pending <= generated'
      <4>1. generated \in Nat /\ generated' \in Nat
        BY InstalledFacts, Constants DEF Inv
      <4>2. i.pending # NoKey => i.pending \in Nat /\ i.pending <= generated
        BY <3>1, Constants DEF Sound
      <4> QED BY <4>1, <4>2
    <3> QED BY <3>1, <3>2 DEF Sound
  <2> QED BY <1>1, <1>2, <2>1 DEF FilesOK
<1>6. img.current \in installed /\ img.current \in Keys /\ img.pending \in OptKey
  BY SoundFacts, InstalledFacts DEF Inv
<1>7. CASE UNCHANGED <<mode, apiKey, pendingKey>>
  BY <1>1, <1>4, <1>5, <1>7 DEF Inv, MemoryOK
<1>8. CASE UNCHANGED <<mode, apiKey>> /\ pendingKey' = [pendingKey EXCEPT ![b] = NoKey]
  <2>1. /\ pendingKey' \in [Bridges -> OptKey]
        /\ \A d \in Bridges : pendingKey'[d] = IF d = b THEN NoKey ELSE pendingKey[d]
    BY <1>8, Constants DEF Inv, MemoryOK
  <2>2. \A d \in Bridges : Conforms(pendingKey'[d], installed, disk')
    BY <2>1, ConformsOnly, MemoryFacts
  <2>3. MemoryOK'
    BY <1>1, <1>8, <2>1, <2>2 DEF Inv, MemoryOK
  <2> QED BY <1>1, <1>4, <1>5, <2>3
<1>9. CASE /\ Memory(b, img) /\ Conforms(img.pending, installed, disk')
           /\ UNCHANGED mode \/ mode' = [mode EXCEPT ![b] = "rw"]
  <2>1. PICK c, p : c = img.current /\ p = img.pending
    OBVIOUS
  <2>2. /\ apiKey' = [apiKey EXCEPT ![b] = c] /\ pendingKey' = [pendingKey EXCEPT ![b] = p]
        /\ c \in installed /\ c \in Keys /\ p \in OptKey /\ Conforms(p, installed, disk')
    BY <1>6, <1>9, <2>1 DEF Memory
  <2>3. apiKey \in [Bridges -> Keys] /\ pendingKey \in [Bridges -> OptKey]
    BY DEF Inv, MemoryOK
  <2>4. /\ apiKey' \in [Bridges -> Keys] /\ pendingKey' \in [Bridges -> OptKey]
        /\ \A d \in Bridges : /\ apiKey'[d] = IF d = b THEN c ELSE apiKey[d]
                              /\ pendingKey'[d] = IF d = b THEN p ELSE pendingKey[d]
    BY <2>2, <2>3
  <2>5. /\ mode' \in [Bridges -> {"down", "rw", "ro"}]
        /\ \A d \in Bridges : d # b => mode'[d] = mode[d]
    BY <1>9 DEF Inv, MemoryOK
  <2>6. \A d \in Bridges : /\ mode'[d] = "rw" => apiKey'[d] \in installed
                           /\ Conforms(pendingKey'[d], installed, disk')
    BY <2>2, <2>4, <2>5, MemoryFacts
  <2>7. MemoryOK'
    BY <1>1, <2>4, <2>5, <2>6 DEF MemoryOK
  <2> QED BY <1>1, <1>4, <1>5, <2>7
<1> QED BY <1>7, <1>8, <1>9

\* Confirm of what is in the file, or of the key that stands for it.
LEMMA ConfirmFacts ==
    ASSUME Base, Inv, NEW b \in Bridges, NEW f \in installed, f <= generated, NEW img, NEW old, img = load(f),
           NEW res \in Outcome, NEW quantum, Confirm(b, old, img, res, quantum)
    PROVE  /\ file' \in disk' /\ disk' \subseteq disk \cup {img}
           /\ res = "done" => img = old \/ disk' = {img}
           /\ \A p : Conforms(p, installed, disk) => Conforms(p, installed, disk')
<1>1. /\ file # Absent => img = file
      /\ file = Absent => img.pending = NoKey
      /\ file \in disk /\ f \in Keys
  BY LoadFacts, InstalledFacts, Constants, ImageFacts DEF Inv, FilesOK
<1>2. /\ file' \in disk' /\ disk' \subseteq disk \cup {img}
      /\ res = "done" => img = old \/ disk' = {img}
  BY <1>1, ConfirmTyped
<1>3. ASSUME NEW p, Conforms(p, installed, disk) PROVE Conforms(p, installed, disk')
  <2>1. CASE file = Absent
    <3>1. file.pending = NoKey
      BY <2>1 DEF Absent
    <3> QED BY <1>1, <1>3, <3>1, ConformsFree
  <2>2. CASE file # Absent
    <3>1. disk' \subseteq disk
      BY <1>1, <1>2, <2>2
    <3> QED BY <1>3, <3>1, ConformsSub
  <2> QED BY <2>1, <2>2
<1> QED BY <1>2, <1>3

\* A bridge confirms the file, and takes it for its own if it could.
LEMMA Confirmed ==
    ASSUME Base, Inv, NEW b \in Bridges, NEW f \in installed, NEW img, img = load(f),
           NEW old, Conforms(old.pending, installed, disk),
           NEW res \in Outcome, NEW quantum, Confirm(b, old, img, res, quantum),
           \/ UNCHANGED <<mode, apiKey, pendingKey>>
           \/ /\ res = "done" /\ Memory(b, img)
              /\ UNCHANGED mode \/ mode' = [mode EXCEPT ![b] = "rw"],
           UNCHANGED <<generated, portalVars>>
    PROVE  /\ PortalOK' /\ FilesOK' /\ MemoryOK' /\ UNCHANGED <<installed, revoked>>
           /\ \A p : Conforms(p, installed, disk) => Conforms(p, installed, disk')
           /\ res = "done" => Conforms(img.pending, installed, disk')
           /\ img.pending \in OptKey
<1>1. f <= generated /\ generated \in Keys /\ generated <= generated
  BY Constants DEF Inv, PortalOK
<1>2. /\ file' \in disk' /\ disk' \subseteq disk \cup {img}
      /\ res = "done" => img = old \/ disk' = {img}
      /\ \A p : Conforms(p, installed, disk) => Conforms(p, installed, disk')
  BY <1>1, ConfirmFacts, SMTT(60)
<1>3. Sound(img, installed, Tip, generated) /\ img # Absent /\ img.pending \in OptKey
  BY LoadFacts DEF Inv
<1>4. res = "done" => Conforms(img.pending, installed, disk')
  <2>1. CASE img = old
    BY <1>2, <2>1
  <2>2. CASE disk' = {img}
    BY <2>2, ConformsOnly
  <2> QED BY <1>2, <2>1, <2>2
<1>5. generated' \in Keys /\ generated <= generated' /\ Sound(img, installed, Tip, generated')
  BY <1>1, <1>3
<1>6. \/ UNCHANGED <<mode, apiKey, pendingKey>>
      \/ /\ Memory(b, img) /\ Conforms(img.pending, installed, disk')
         /\ UNCHANGED mode \/ mode' = [mode EXCEPT ![b] = "rw"]
  BY <1>4
<1>7. UNCHANGED portalVars
  OBVIOUS
<1>8. PortalOK' /\ FilesOK' /\ MemoryOK' /\ UNCHANGED <<installed, revoked>>
  BY <1>2, <1>3, <1>5, <1>6, <1>7, Transition
<1> QED BY <1>2, <1>3, <1>4, <1>8

LEMMA HeldFacts ==
    ASSUME Inv, NEW b \in Bridges PROVE Conforms(Held(b).pending, installed, disk)
<1>1. Held(b).pending = pendingKey[b]
  BY DEF Held, State
<1> QED BY <1>1, MemoryFacts

\* The rest of a step of a request that changes the file and the memory.
LEMMA StepInv ==
    ASSUME Base, Inv, NEW r \in Requests, NEW q, req' = [req EXCEPT ![r] = q],
           ReqOK(q, installed, disk'), mode[Owner[r]] = "rw" => KeyOK(q, installed, revoked, refused),
           PortalOK', FilesOK', MemoryOK', UNCHANGED <<installed, revoked>>,
           \A p : Conforms(p, installed, disk) => Conforms(p, installed, disk'),
           UNCHANGED <<mode, late, refused>>
    PROVE  Inv'
<1>1. RequestsOK' /\ LateOK'
  BY Updated, LateKept DEF Inv
<1>2. KeysOK'
  BY KeysUpdated DEF Inv
<1> QED BY <1>1, <1>2 DEF Inv

LEMMA RefreshInv == ASSUME Base, Inv, NEW r \in Requests, Refresh(r) PROVE Inv'
<1>1. PICK b, f, old, img : b = Owner[r] /\ f = apiKey[b] /\ old = Held(b) /\ img = load(f)
  OBVIOUS
<1>2. /\ req[r].phase = "idle" /\ mode[b] = "rw" /\ b \in Bridges
      /\ UNCHANGED <<mode, late, generated, portalVars, refused>>
  BY <1>1, ReqFacts DEF Refresh, history
<1>3. PICK res \in Outcome, quantum \in {"same", "later"} :
         /\ Confirm(b, old, img, res, quantum)
         /\ IF res = "done" THEN Memory(b, img) /\ Phased(r, "refreshed")
            ELSE UNCHANGED <<apiKey, pendingKey, req>>
  BY <1>1 DEF Refresh
<1>4. f \in installed /\ Conforms(old.pending, installed, disk)
  BY <1>1, <1>2, MemoryFacts, HeldFacts
<1>5. /\ PortalOK' /\ FilesOK' /\ MemoryOK' /\ UNCHANGED <<installed, revoked>>
      /\ \A p : Conforms(p, installed, disk) => Conforms(p, installed, disk')
  BY <1>1, <1>2, <1>3, <1>4, Confirmed, SMTT(60)
<1>6. PICK q : q = IF res = "done" THEN [req[r] EXCEPT !.phase = "refreshed"] ELSE req[r]
  OBVIOUS
<1>7. req' = [req EXCEPT ![r] = q]
  BY <1>3, <1>6 DEF Phased, Base, RequestsTyped
<1>8. ReqOK(q, installed, disk')
  BY <1>2, <1>5, <1>6, ReqFacts, RequestFacts DEF ReqOK, Req, Phase
<1>9. KeyOK(q, installed, revoked, refused)
  BY <1>2, <1>6, ReqFacts DEF KeyOK, Req, Underway
<1> QED BY <1>2, <1>5, <1>7, <1>8, <1>9, StepInv

\* A request that goes on to offer p, or nothing.
LEMMA ProposedFacts ==
    ASSUME Base, Inv, NEW r \in Requests, req[r].phase = "refreshed", NEW p \in OptKey, NEW D,
           Conforms(p, installed, D),
           req' = [req EXCEPT ![r].phase = "proposed", ![r].proposal = p]
    PROVE  \E q : /\ req' = [req EXCEPT ![r] = q] /\ ReqOK(q, installed, D)
                  /\ KeyOK(q, installed, revoked, refused)
<1>1. PICK q : q = [req[r] EXCEPT !.phase = "proposed", !.proposal = p]
  OBVIOUS
<1>2. req' = [req EXCEPT ![r] = q]
  BY <1>1
<1>3. ReqOK(q, installed, D)
  BY <1>1, ReqFacts, RequestFacts DEF ReqOK, Req, Phase
<1>4. KeyOK(q, installed, revoked, refused)
  BY <1>1, ReqFacts DEF KeyOK, Req, Underway
<1> QED BY <1>2, <1>3, <1>4

LEMMA ProposalAdoptsInv == ASSUME Base, Inv, NEW r \in Requests, ProposalAdopts(r) PROVE Inv'
<1>1. PICK b, f, old, img : b = Owner[r] /\ f = apiKey[b] /\ old = Held(b) /\ img = load(f)
  OBVIOUS
<1>2. /\ req[r].phase = "refreshed" /\ mode[b] = "rw" /\ b \in Bridges
      /\ UNCHANGED <<mode, late, generated, portalVars, refused>>
  BY <1>1, ReqFacts DEF ProposalAdopts, history
<1>3. PICK res \in Outcome, quantum \in {"same", "later"} :
         /\ Confirm(b, old, img, res, quantum)
         /\ IF res = "done" THEN Memory(b, img) ELSE UNCHANGED <<apiKey, pendingKey>>
         /\ req' = [req EXCEPT ![r].phase = "proposed",
                               ![r].proposal = IF res = "done" THEN img.pending ELSE NoKey]
  BY <1>1 DEF ProposalAdopts
<1>4. f \in installed /\ Conforms(old.pending, installed, disk)
  BY <1>1, <1>2, MemoryFacts, HeldFacts
<1>5. /\ PortalOK' /\ FilesOK' /\ MemoryOK' /\ UNCHANGED <<installed, revoked>>
      /\ \A p : Conforms(p, installed, disk) => Conforms(p, installed, disk')
      /\ res = "done" => Conforms(img.pending, installed, disk')
      /\ img.pending \in OptKey
  BY <1>1, <1>2, <1>3, <1>4, Confirmed, SMTT(60)
<1>6. PICK p, D : p = (IF res = "done" THEN img.pending ELSE NoKey) /\ D = disk'
  OBVIOUS
<1>7. p \in OptKey /\ Conforms(p, installed, D)
  BY <1>5, <1>6, ConformsOnly, Constants
<1>8. req' = [req EXCEPT ![r].phase = "proposed", ![r].proposal = p]
  BY <1>3, <1>6
<1>9. PICK q : /\ req' = [req EXCEPT ![r] = q] /\ ReqOK(q, installed, D)
               /\ KeyOK(q, installed, revoked, refused)
  BY <1>2, <1>7, <1>8, ProposedFacts
<1> QED BY <1>2, <1>5, <1>6, <1>9, StepInv

\* The successor is younger than every key, so nobody has offered or installed it.
LEMMA ProposalGeneratesInv == ASSUME Base, Inv, NEW r \in Requests, ProposalGenerates(r) PROVE Inv'
<1>1. PICK b, c, g, img : b = Owner[r] /\ c = apiKey[b] /\ g = generated' /\ img = State(c, g)
  OBVIOUS
<1>2. /\ req[r].phase = "refreshed" /\ load(c) = State(c, NoKey) /\ mode[b] = "rw"
      /\ generated < MaxKey /\ g = generated + 1
      /\ UNCHANGED <<mode, late, portalVars, refused>>
  BY <1>1 DEF ProposalGenerates, history
<1>3. PICK res \in Outcome, quantum \in {"same", "later"} :
         /\ persist(b, img, res, quantum)
         /\ Memory(b, State(c, IF res = "done" THEN g ELSE NoKey))
         /\ req' = [req EXCEPT ![r].phase = "proposed",
                               ![r].proposal = IF res = "done" THEN g ELSE NoKey]
  <2>1. \A p : [State(c, NoKey) EXCEPT !.pending = p] = State(c, p)
    BY DEF State
  <2>2. PICK i : i = load(apiKey[b])
    OBVIOUS
  <2>3. PICK res \in Outcome, quantum \in {"same", "later"} :
           /\ persist(b, [i EXCEPT !.pending = g], res, quantum)
           /\ Memory(b, [i EXCEPT !.pending = IF res = "done" THEN g ELSE NoKey])
           /\ req' = [req EXCEPT ![r].phase = "proposed",
                                 ![r].proposal = IF res = "done" THEN g ELSE NoKey]
    BY <1>1, <2>2 DEF ProposalGenerates
  <2>4. i = State(c, NoKey)
    BY <1>1, <1>2, <2>2
  <2> QED BY <1>1, <2>1, <2>3, <2>4
<1>4. b \in Bridges /\ c \in installed /\ c \in Keys
  BY <1>1, <1>2, ReqFacts, MemoryFacts
<1>5. /\ g \in Keys /\ generated <= g /\ c < g /\ g \notin installed
      /\ c \in Nat /\ g \in Nat
  <2>1. generated \in Nat /\ installed \subseteq 0 .. generated
    BY InstalledFacts DEF Inv, PortalOK
  <2> QED BY <1>2, <1>4, <2>1, Constants
<1>6. c \in OptKey /\ g \in OptKey /\ NoKey \in OptKey /\ c # NoKey /\ g # NoKey
  BY <1>4, <1>5, Constants
<1>7. img \in Image /\ img.current = c /\ img.pending = g /\ img # Absent
  BY <1>1, <1>6, ImageFacts
<1>8. file.pending = NoKey /\ Tip = c
  <2>1. /\ State(c, NoKey).current = c /\ State(c, NoKey).pending = NoKey /\ State(c, NoKey) # Absent
    BY <1>6, ImageFacts
  <2>2. /\ Sound(State(c, NoKey), installed, Tip, generated)
        /\ file # Absent => file = State(c, NoKey)
    BY <1>2, <1>4, LoadFacts DEF Inv
  <2>3. Tip # NoKey
    BY InstalledFacts DEF Inv
  <2> QED BY <2>1, <2>2, <2>3, SoundFacts DEF Absent
<1>9. Sound(img, installed, Tip, g)
  BY <1>4, <1>5, <1>6, <1>7, <1>8 DEF Sound, HeldBy
<1>10. /\ file' \in disk' /\ disk' \subseteq disk \cup {img}
       /\ res = "done" => disk' = {img}
  BY <1>3, <1>4, PersistTyped
<1>11. \A p : Conforms(p, installed, disk) => Conforms(p, installed, disk')
  BY <1>8, ConformsFree DEF Inv, FilesOK
<1>12. res = "done" => Conforms(g, installed, disk')
  BY <1>7, <1>10, ConformsOnly
<1>13. PortalOK' /\ FilesOK' /\ MemoryOK' /\ UNCHANGED <<installed, revoked>>
  <2>1. CASE res = "done"
    <3>1. Memory(b, img) /\ Conforms(img.pending, installed, disk') /\ UNCHANGED mode
      BY <1>1, <1>2, <1>3, <1>7, <1>12, <2>1
    <3> QED BY <1>1, <1>2, <1>4, <1>5, <1>7, <1>9, <1>10, <1>11, <3>1, Transition
  <2>2. CASE res # "done"
    <3>1. Memory(b, State(c, NoKey))
      BY <1>3, <2>2
    <3>2. apiKey' = [apiKey EXCEPT ![b] = c] /\ pendingKey' = [pendingKey EXCEPT ![b] = NoKey]
      BY <1>6, <3>1, ImageFacts DEF Memory
    <3>3. UNCHANGED <<mode, apiKey>>
      BY <1>1, <1>2, <1>4, <3>2 DEF Inv, MemoryOK
    <3> QED BY <1>1, <1>2, <1>4, <1>5, <1>7, <1>9, <1>10, <1>11, <3>2, <3>3, Transition
  <2> QED BY <2>1, <2>2
<1>14. PICK p, D : p = (IF res = "done" THEN g ELSE NoKey) /\ D = disk'
  OBVIOUS
<1>15. p \in OptKey /\ Conforms(p, installed, D)
  BY <1>6, <1>12, <1>14, ConformsOnly
<1>16. req' = [req EXCEPT ![r].phase = "proposed", ![r].proposal = p]
  BY <1>3, <1>14
<1>17. PICK q : /\ req' = [req EXCEPT ![r] = q] /\ ReqOK(q, installed, D)
                /\ KeyOK(q, installed, revoked, refused)
  BY <1>2, <1>15, <1>16, ProposedFacts
<1> QED BY <1>2, <1>11, <1>13, <1>14, <1>17, StepInv

LEMMA CredentialRecoveryKeyInv ==
    ASSUME Base, Inv, NEW r \in Requests, credentialRecoveryKey(r) PROVE Inv'
<1>1. PICK b, f, old, img, k :
         /\ b = Owner[r] /\ f = req[r].key /\ old = Held(b) /\ img = load(f) /\ k = Alternate(img, f)
  OBVIOUS
<1>2. /\ req[r].phase = "rejected" /\ mode[b] = "rw" /\ b \in Bridges
      /\ UNCHANGED <<mode, late, generated, portalVars, refused>>
  BY <1>1, ReqFacts DEF credentialRecoveryKey, history
<1>3. PICK res \in Outcome, quantum \in {"same", "later"} :
         /\ Confirm(b, old, img, res, quantum)
         /\ IF res = "done" THEN Memory(b, img) /\ Retried(r, k)
            ELSE UNCHANGED <<apiKey, pendingKey>> /\ Ended(r)
  BY <1>1 DEF credentialRecoveryKey
<1>4. f \in installed /\ (~ refused => f \in revoked) /\ Conforms(old.pending, installed, disk)
  BY <1>1, <1>2, RequestFacts, HeldFacts DEF ReqOK, KeyOK, Underway
<1>5. k \in OptKey /\ (f \in revoked => k \in installed)
  BY <1>1, <1>4, AlternateFacts
<1>6. /\ PortalOK' /\ FilesOK' /\ MemoryOK' /\ UNCHANGED <<installed, revoked>>
      /\ \A p : Conforms(p, installed, disk) => Conforms(p, installed, disk')
  BY <1>1, <1>2, <1>3, <1>4, Confirmed, SMTT(60)
<1>7. PICK S, D, R, g : S = installed /\ D = disk' /\ R = revoked /\ g = refused
  OBVIOUS
<1>8. g \in BOOLEAN
  BY <1>7 DEF Base, RestTyped
<1>9. \E q : /\ req' = [req EXCEPT ![r] = q] /\ ReqOK(q, S, D)
             /\ mode[Owner[r]] = "rw" => KeyOK(q, S, R, g)
  <2>1. CASE res = "done"
    <3>1. ReqOK(req[r], S, D)
      <4>1. ReqOK(req[r], installed, disk)
        BY RequestFacts
      <4> QED BY <1>6, <1>7, <4>1, ReqOKSub
    <3>2. Retried(r, k)
      BY <1>3, <2>1
    <3>3. ~ g /\ mode[Owner[r]] = "rw" /\ k # NoKey => k \in S
      BY <1>4, <1>5, <1>7
    <3> QED BY <1>5, <3>1, <3>2, <3>3, RetriedFacts
  <2>2. CASE res # "done"
    BY <1>3, <2>2, IdleOK DEF Ended
  <2> QED BY <2>1, <2>2
<1>10. PICK q : /\ req' = [req EXCEPT ![r] = q] /\ ReqOK(q, S, D)
                /\ mode[Owner[r]] = "rw" => KeyOK(q, S, R, g)
  BY <1>9
<1> QED BY <1>2, <1>6, <1>7, <1>10, StepInv

\* The file is promoted to an installed key, or is what it was.
LEMMA PromoteFacts ==
    ASSUME Base, Inv, NEW b \in Bridges, mode[b] = "rw", NEW k \in Keys, Promote(b, k),
           k \in installed \/ file' = file \/ file'.current \in installed,
           UNCHANGED <<mode, generated, portalVars>>
    PROVE  /\ PortalOK' /\ FilesOK' /\ MemoryOK' /\ UNCHANGED <<installed, revoked>>
           /\ \A p : Conforms(p, installed, disk) => Conforms(p, installed, disk')
<1>1. PICK f, i, img : f = apiKey[b] /\ i = load(f) /\ img = Promoted(i, k)
  OBVIOUS
<1>2. f \in installed /\ k # NoKey /\ k \in OptKey /\ NoKey \in OptKey /\ Tip # NoKey
  BY <1>1, MemoryFacts, InstalledFacts, Constants DEF Inv
<1>3. /\ Sound(i, installed, Tip, generated) /\ i # Absent /\ i \in Image
      /\ i.current \in installed /\ i.pending \in OptKey
      /\ file # Absent => i = file
  BY <1>1, <1>2, LoadFacts DEF Inv
<1>4. ASSUME UNCHANGED <<file, disk, apiKey, pendingKey>>
      PROVE  /\ PortalOK' /\ FilesOK' /\ MemoryOK' /\ UNCHANGED <<installed, revoked>>
             /\ \A p : Conforms(p, installed, disk) => Conforms(p, installed, disk')
  <2>1. UNCHANGED <<fileVars, memVars>>
    BY <1>4 DEF fileVars, memVars
  <2>2. PortalOK' /\ Tip' = Tip /\ UNCHANGED <<installed, revoked>>
    BY PortalKept, Unfold DEF Inv
  <2>3. FilesOK' /\ MemoryOK'
    BY <2>1, <2>2, FilesKept, MemoryKept DEF Inv
  <2> QED BY <1>4, <2>2, <2>3
<1>5. CASE img = Absent
  <2>1. Distrust(b) /\ UNCHANGED <<apiKey, pendingKey>>
    BY <1>1, <1>5 DEF Promote
  <2> QED BY <1>4, <2>1 DEF Distrust, fileVars
<1>6. CASE img # Absent
  <2>1. img = State(k, NoKey) /\ (i.pending = k \/ i = State(k, NoKey))
    BY <1>1, <1>6 DEF Promoted
  <2>2. img \in Image /\ img.current = k /\ img.pending = NoKey
    BY <1>2, <2>1, ImageFacts
  <2>3. PICK res \in Outcome, quantum \in {"same", "later"} :
           /\ persist(b, img, res, quantum)
           /\ IF res = "done" THEN Memory(b, img) ELSE UNCHANGED <<apiKey, pendingKey>>
    BY <1>1, <1>6 DEF Promote
  <2>4. CASE k \notin installed
    <3>1. img # file
      <4>1. CASE file = Absent
        BY <1>6, <4>1
      <4>2. CASE file # Absent
        BY <1>3, <2>2, <2>4, <4>2
      <4> QED BY <4>1, <4>2
    <3>2. res = "unwritten"
      BY <2>2, <2>3, <2>4, <3>1 DEF persist
    <3>3. UNCHANGED <<file, disk, apiKey, pendingKey>>
      BY <2>3, <3>2 DEF persist
    <3> QED BY <1>4, <3>3
  <2>5. CASE k \in installed
    <3>1. Tip = k
      BY <1>2, <1>3, <2>1, <2>5, SoundFacts, ImageFacts DEF Sound
    <3>2. Sound(img, installed, Tip, generated)
      BY <1>2, <1>6, <2>2, <2>5, <3>1, InstalledFacts DEF Inv, Sound, HeldBy
    <3>3. file.pending = NoKey \/ file.pending \in installed
      <4>1. CASE file = Absent
        BY <4>1 DEF Absent
      <4>2. CASE file # Absent
        BY <1>2, <1>3, <2>1, <2>5, <4>2, ImageFacts
      <4> QED BY <4>1, <4>2
    <3>4. \A p : Conforms(p, installed, disk) => Conforms(p, installed, disk')
      BY <3>3, ConformsFree DEF Inv, FilesOK
    <3>5. file' \in disk' /\ disk' \subseteq disk \cup {img} /\ (res = "done" => disk' = {img})
      BY <2>3, PersistTyped
    <3>6. generated' \in Keys /\ generated <= generated' /\ Sound(img, installed, Tip, generated')
      BY <3>2, InstalledFacts DEF Inv, PortalOK
    <3>7. Conforms(img.pending, installed, disk')
      BY <2>2, ConformsOnly
    <3>8. \/ UNCHANGED <<mode, apiKey, pendingKey>>
          \/ Memory(b, img) /\ Conforms(img.pending, installed, disk') /\ UNCHANGED mode
      BY <2>3, <3>7
    <3>9. UNCHANGED portalVars
      OBVIOUS
    <3>10. PortalOK' /\ FilesOK' /\ MemoryOK' /\ UNCHANGED <<installed, revoked>>
      BY <1>6, <3>4, <3>5, <3>6, <3>8, <3>9, Transition
    <3> QED BY <3>4, <3>10
  <2> QED BY <2>4, <2>5
<1> QED BY <1>5, <1>6

\* A read-only bridge takes any key for its own; it never was, or is, writable.
LEMMA ReadOnlyFacts ==
    ASSUME Inv, NEW b \in Bridges, NEW k \in Keys, Memory(b, State(k, NoKey)),
           mode' = [mode EXCEPT ![b] = "ro"], UNCHANGED <<fileVars, generated, portalVars>>
    PROVE  PortalOK' /\ FilesOK' /\ MemoryOK' /\ UNCHANGED <<installed, revoked, disk>>
<1>1. k \in Keys /\ k \in OptKey /\ NoKey \in OptKey
  BY Constants
<1>2. apiKey' = [apiKey EXCEPT ![b] = k] /\ pendingKey' = [pendingKey EXCEPT ![b] = NoKey]
  BY <1>1, ImageFacts DEF Memory
<1>3. /\ apiKey' \in [Bridges -> Keys] /\ pendingKey' \in [Bridges -> OptKey]
      /\ mode' \in [Bridges -> {"down", "rw", "ro"}]
      /\ \A d \in Bridges : /\ apiKey'[d] = IF d = b THEN k ELSE apiKey[d]
                            /\ pendingKey'[d] = IF d = b THEN NoKey ELSE pendingKey[d]
                            /\ mode'[d] = IF d = b THEN "ro" ELSE mode[d]
  BY <1>1, <1>2 DEF Inv, MemoryOK
<1>4. PortalOK' /\ Tip' = Tip /\ UNCHANGED <<installed, revoked, disk>>
  BY PortalKept, Unfold DEF Inv, fileVars
<1>5. \A d \in Bridges : Conforms(pendingKey'[d], installed, disk)
  <2>1. Conforms(NoKey, installed, disk) /\ \A d \in Bridges : Conforms(pendingKey[d], installed, disk)
    BY MemoryFacts, ConformsOnly
  <2> QED BY <1>3, <2>1
<1>6. \A d \in Bridges : mode'[d] = "rw" => apiKey'[d] \in installed
  BY <1>3, MemoryFacts
<1>7. MemoryOK'
  BY <1>3, <1>4, <1>5, <1>6 DEF MemoryOK
<1>8. FilesOK'
  BY <1>4, FilesKept DEF Inv
<1> QED BY <1>4, <1>7, <1>8

LEMMA AdoptRecoveryKeyInv ==
    ASSUME Base, Inv, NEW r \in Requests, adoptRecoveryKey(r), ~ misled' PROVE Inv'
<1>1. PICK b, k : b = Owner[r] /\ k = req[r].key
  OBVIOUS
<1>2. /\ b \in Bridges /\ k \in Keys /\ Recovered(r) /\ Adopted(r)
      /\ UNCHANGED <<mode, late, generated, portalVars, refused>>
      /\ file' = file \/ file'.current \in installed
  BY <1>1, AdoptedTyped, ReqFacts DEF adoptRecoveryKey
<1>3. PICK q : /\ req' = [req EXCEPT ![r] = q]
               /\ \A S, D : ReqOK(req[r], S, D) => ReqOK(q, S, D)
               /\ \A S, R, f : KeyOK(q, S, R, f)
  BY <1>2, AdoptedFacts
<1>4. mode[b] \in {"ro", "rw"}
  BY <1>1, <1>2, ReqFacts DEF Recovered
<1>5. /\ PortalOK' /\ FilesOK' /\ MemoryOK' /\ UNCHANGED <<installed, revoked>>
      /\ \A p : Conforms(p, installed, disk) => Conforms(p, installed, disk')
  <2>1. CASE mode[b] = "ro"
    <3>1. Memory(b, State(k, NoKey)) /\ UNCHANGED fileVars
      BY <1>1, <2>1 DEF adoptRecoveryKey
    <3>2. mode' = [mode EXCEPT ![b] = "ro"]
      BY <1>2, <2>1 DEF Inv, MemoryOK
    <3>3. UNCHANGED <<fileVars, generated, portalVars>>
      BY <1>2, <3>1
    <3> QED BY <1>2, <3>1, <3>2, <3>3, ReadOnlyFacts
  <2>2. CASE mode[b] = "rw"
    <3>1. Promote(b, k)
      BY <1>1, <2>2 DEF adoptRecoveryKey
    <3>2. UNCHANGED <<mode, generated, portalVars>>
      BY <1>2
    <3> QED BY <1>2, <2>2, <3>1, <3>2, PromoteFacts
  <2> QED BY <1>4, <2>1, <2>2
<1>6. ReqOK(q, installed, disk')
  <2>1. ReqOK(req[r], installed, disk)
    BY RequestFacts
  <2>2. ReqOK(req[r], installed, disk')
    BY <1>5, <2>1, ReqOKSub
  <2> QED BY <1>3, <2>2
<1>7. KeyOK(q, installed, revoked, refused)
  BY <1>3
<1> QED BY <1>2, <1>3, <1>5, <1>6, <1>7, StepInv

\* While no usable key was refused, a writable bridge recovers with installed keys only.
LEMMA NotMisled ==
    ASSUME Base, Inv, NEW r \in Requests, adoptRecoveryKey(r), ~ misled, ~ refused PROVE ~ misled'
<1>1. PICK b, k : b = Owner[r] /\ k = req[r].key
  OBVIOUS
<1>2. Recovered(r) /\ Adopted(r) /\ b \in Bridges
  BY <1>1, ReqFacts DEF adoptRecoveryKey
<1>3. mode[b] \in {"ro", "rw"}
  BY <1>1, <1>2, ReqFacts DEF Recovered
<1>4. CASE mode[b] = "ro"
  <2>1. file' = file
    BY <1>1, <1>4 DEF adoptRecoveryKey, fileVars
  <2> QED BY <2>1 DEF adoptRecoveryKey
<1>5. CASE mode[b] = "rw"
  <2>1. k \in installed /\ k \in OptKey /\ NoKey \in OptKey
    BY <1>1, <1>2, <1>5, AdoptedFacts, ReqFacts, Constants
  <2>2. Promote(b, k)
    BY <1>1, <1>5 DEF adoptRecoveryKey
  <2>3. file' = file \/ file' = State(k, NoKey)
    <3>1. PICK i, img : i = load(apiKey[b]) /\ img = Promoted(i, k)
      OBVIOUS
    <3>2. CASE img = Absent
      BY <2>2, <3>1, <3>2 DEF Promote, Distrust, fileVars
    <3>3. CASE img # Absent
      <4>1. img = State(k, NoKey)
        BY <3>1, <3>3 DEF Promoted
      <4>2. PICK res \in Outcome, quantum \in {"same", "later"} : persist(b, img, res, quantum)
        BY <2>2, <3>1, <3>3 DEF Promote
      <4> QED BY <4>1, <4>2 DEF persist
    <3> QED BY <3>2, <3>3
  <2>4. file' # file => file'.current \in installed
    BY <2>1, <2>3, ImageFacts
  <2> QED BY <2>4 DEF adoptRecoveryKey
<1> QED BY <1>3, <1>4, <1>5

LEMMA AcknowledgeRotationInv ==
    ASSUME Base, Inv, NEW r \in Requests, acknowledgeRotation(r) PROVE Inv'
<1>1. PICK b, k : b = Owner[r] /\ k = req[r].proposal
  OBVIOUS
<1>2. /\ Promote(b, k) /\ req' = [req EXCEPT ![r] = Idle] /\ mode[b] = "rw"
      /\ UNCHANGED <<mode, late, generated, portalVars, refused>>
  BY <1>1 DEF acknowledgeRotation, Ended, Expected, history
<1>3. k \in installed /\ k \in Keys /\ b \in Bridges
  <2>1. k \in installed
    BY <1>1, RequestFacts DEF acknowledgeRotation, Expected, ReqOK
  <2> QED BY <1>1, <2>1, ReqFacts, InstalledFacts DEF Inv
<1>4. UNCHANGED <<mode, generated, portalVars>>
  BY <1>2
<1>5. /\ PortalOK' /\ FilesOK' /\ MemoryOK' /\ UNCHANGED <<installed, revoked>>
      /\ \A p : Conforms(p, installed, disk) => Conforms(p, installed, disk')
  BY <1>2, <1>3, <1>4, PromoteFacts
<1>6. ReqOK(Idle, installed, disk') /\ KeyOK(Idle, installed, revoked, refused)
  BY IdleOK
<1> QED BY <1>2, <1>5, <1>6, StepInv

-----------------------------------------------------------------------------
(* The portal. *)

\* Keys are used or retired, never the last of the chain; the chain is what it was.
LEMMA PortalMarked ==
    ASSUME PortalOK, UNCHANGED <<generated, successor, installed>>,
           used' \subseteq installed, revoked' \subseteq installed \ {Tip}
    PROVE  PortalOK' /\ Tip' = Tip
<1>1. Tip' = Tip
  BY DEF Tip
<1> QED BY <1>1 DEF PortalOK

LEMMA AuthenticateFacts ==
    ASSUME PortalOK, NEW k, Authenticate(k), UNCHANGED generated
    PROVE  /\ PortalOK' /\ Tip' = Tip /\ UNCHANGED installed /\ k \in installed
           /\ revoked \subseteq revoked'
<1>1. k \in installed /\ UNCHANGED <<successor, installed>>
  BY DEF Authenticate, Usable
<1>2. used' \subseteq installed /\ revoked \subseteq revoked' /\ revoked' \subseteq revoked \cup Ancestors(k)
  BY <1>1 DEF Authenticate, PortalOK
<1>3. Tip \notin Ancestors(k)
  <2>1. k <= Tip /\ k \in Nat /\ Tip \in Nat
    BY <1>1, InstalledFacts, Constants DEF PortalOK, Chain
  <2> QED BY <2>1 DEF Ancestors
<1>4. revoked' \subseteq installed \ {Tip}
  BY <1>2, <1>3 DEF Ancestors, PortalOK
<1> QED BY <1>1, <1>2, <1>4, PortalMarked

\* The chain grows by a successor that every possible file has pending.
LEMMA InstallFacts ==
    ASSUME Inv, NEW k, NEW p \in OptKey, Conforms(p, installed, disk), Install(k, p),
           UNCHANGED <<fileVars, memVars, generated>>
    PROVE  /\ PortalOK' /\ FilesOK' /\ MemoryOK'
           /\ p \in installed' /\ installed \subseteq installed' /\ UNCHANGED <<disk, mode, revoked>>
           /\ \A o : Conforms(o, installed, disk) => Conforms(o, installed', disk')
<1>1. UNCHANGED <<file, disk, mode, apiKey, pendingKey, generated, used, revoked>>
  BY DEF fileVars, memVars, Install
<1>2. /\ p # NoKey /\ k \in installed /\ k \in Keys /\ p \in Keys
      /\ successor' = [successor EXCEPT ![k] = p] /\ installed' = installed \cup {p}
      /\ successor[k] = p \/ (successor[k] = NoKey /\ p \notin installed)
  BY InstalledFacts, Constants DEF Inv, Install, CanInstall, Usable
<1>3. successor \in [Keys -> OptKey] /\ Chain(successor, installed, Tip) /\ Tip \in installed
  BY InstalledFacts DEF Inv, PortalOK
<1>4. \A o : Conforms(o, installed, disk) => Conforms(o, installed', disk')
  BY <1>1, <1>2, ConformsSub
<1>5. MemoryOK'
  BY <1>1, <1>2, <1>4 DEF Inv, MemoryOK
<1>6. PortalOK' /\ FilesOK'
  <2>1. CASE successor[k] = p
    <3>1. p \in installed
      BY <1>2, <1>3, <2>1 DEF Chain
    <3>2. installed' = installed /\ successor' = successor
      BY <1>2, <1>3, <2>1, <3>1
    <3>3. PortalOK' /\ Tip' = Tip
      BY <1>1, <3>2, PortalMarked DEF Inv, PortalOK
    <3> QED BY <1>1, <3>2, <3>3, FilesKept DEF Inv
  <2>2. CASE successor[k] = NoKey /\ p \notin installed
    <3>1. k = Tip
      BY <1>2, <1>3, <2>2 DEF Chain
    <3>2. \A i \in disk : /\ i \in Image /\ i.pending = p /\ i.current = k
                          /\ i.current < p /\ p <= generated
      <4> SUFFICES ASSUME NEW i \in disk
                   PROVE  /\ i \in Image /\ i.pending = p /\ i.current = k
                          /\ i.current < p /\ p <= generated
        OBVIOUS
      <4>1. i.pending = p /\ Sound(i, installed, Tip, generated)
        BY <1>2, <2>2 DEF Conforms, Inv, FilesOK
      <4>2. i # Absent
        BY <1>2, <4>1 DEF Absent
      <4>3. Tip = i.current
        BY <1>3, <2>2, <4>1, <4>2, SoundFacts
      <4> QED BY <1>2, <3>1, <4>1, <4>3 DEF Sound
    <3>3. k < p /\ p <= generated /\ k \in Nat /\ p \in Nat /\ generated \in Nat
      BY <1>2, <3>2, InstalledFacts, Constants DEF Inv, FilesOK
    <3>4. /\ successor' \in [Keys -> OptKey]
          /\ \A j \in Keys : successor'[j] = IF j = k THEN p ELSE successor[j]
      BY <1>2, <1>3
    <3>5. \A j \in installed : j \in Keys /\ j \in Nat /\ j < p
      BY <1>3, <3>1, <3>3, InstalledFacts, Constants DEF Inv, Chain
    <3>6. p \in installed' /\ successor'[p] = NoKey /\ \A j \in Keys : j \notin installed' => successor'[j] = NoKey
      BY <1>2, <2>2, <3>4 DEF Inv, PortalOK
    <3>7. \A j \in installed' : /\ j <= p
                                /\ successor'[j] \in installed' \cup {NoKey}
                                /\ successor'[j] = NoKey => j = p
      <4> SUFFICES ASSUME NEW j \in installed'
                   PROVE  /\ j <= p
                          /\ successor'[j] \in installed' \cup {NoKey}
                          /\ successor'[j] = NoKey => j = p
        OBVIOUS
      <4>1. CASE j = p
        BY <3>3, <3>6, <4>1
      <4>2. CASE j # p
        BY <1>2, <1>3, <3>1, <3>3, <3>4, <3>5, <4>2 DEF Chain
      <4> QED BY <4>1, <4>2
    <3>8. PICK S, s : S = installed' /\ s = successor'
      OBVIOUS
    <3>9. (CHOOSE j \in S : s[j] = NoKey) = p
      BY <3>6, <3>7, <3>8, TipIs
    <3>10. Tip' = p
      BY <3>8, <3>9 DEF Tip
    <3>11. Chain(successor', installed', p)
      BY <3>6, <3>7 DEF Chain
    <3>12. installed' \subseteq 0 .. generated'
      BY <1>1, <1>2, <3>3 DEF Inv, PortalOK
    <3>13. PortalOK'
      BY <1>1, <1>2, <2>2, <3>4, <3>6, <3>10, <3>11, <3>12 DEF Inv, PortalOK
    <3>14. \A i \in disk : Sound(i, installed', p, generated)
      BY <1>2, <3>2 DEF Inv, FilesOK, Sound, HeldBy, Absent
    <3>15. FilesOK'
      BY <1>1, <3>10, <3>14 DEF Inv, FilesOK
    <3> QED BY <3>13, <3>15
  <2> QED BY <1>2, <2>1, <2>2
<1> QED BY <1>1, <1>2, <1>4, <1>5, <1>6

LEMMA PortalAuthenticatesInv ==
    ASSUME Base, Inv, NEW r \in Requests, PortalAuthenticates(r) PROVE Inv'
<1>1. PICK k, q : k = req[r].key /\ q = [req[r] EXCEPT !.phase = "authenticated"]
  OBVIOUS
<1>2. /\ req[r].phase = "sent" /\ Authenticate(k) /\ req' = [req EXCEPT ![r] = q]
      /\ UNCHANGED <<fileVars, memVars, late, generated, refused, disk, mode>>
  BY <1>1 DEF PortalAuthenticates, Phased, history, fileVars, memVars
<1>3. PortalOK' /\ Tip' = Tip /\ UNCHANGED installed /\ k \in installed /\ revoked \subseteq revoked'
  BY <1>2, AuthenticateFacts DEF Inv
<1>4. ReqOK(q, installed, disk)
  BY <1>1, <1>2, ReqFacts, RequestFacts DEF ReqOK, Req, Phase
<1>5. \A R, f : KeyOK(q, installed, R, f)
  BY <1>1, <1>3, ReqFacts DEF KeyOK, Req
<1>6. RequestsOK' /\ LateOK' /\ KeysOK'
  BY <1>2, <1>3, <1>4, <1>5, Updated, LateKept, KeysUpdated DEF Inv
<1>7. FilesOK' /\ MemoryOK'
  BY <1>2, <1>3, FilesKept, MemoryKept DEF Inv
<1> QED BY <1>3, <1>6, <1>7 DEF Inv

LEMMA PortalInstallsInv == ASSUME Base, Inv, NEW r \in Requests, PortalInstalls(r) PROVE Inv'
<1>1. PICK k, p, q : k = req[r].key /\ p = req[r].proposal /\ q = [req[r] EXCEPT !.phase = "acked"]
  OBVIOUS
<1>2. /\ req[r].phase = "authenticated" /\ Install(k, p) /\ req' = [req EXCEPT ![r] = q]
      /\ UNCHANGED <<fileVars, memVars, late, generated, refused>>
  BY <1>1 DEF PortalInstalls, Phased, history
<1>3. p \in OptKey /\ Conforms(p, installed, disk) /\ k \in installed
  BY <1>1, <1>2, ReqFacts, RequestFacts DEF ReqOK, Install, CanInstall, Usable
<1>4. /\ PortalOK' /\ FilesOK' /\ MemoryOK'
      /\ p \in installed' /\ installed \subseteq installed' /\ UNCHANGED <<disk, mode, revoked>>
      /\ \A o : Conforms(o, installed, disk) => Conforms(o, installed', disk')
  BY <1>2, <1>3, InstallFacts
<1>5. ReqOK(q, installed', disk')
  BY <1>1, <1>2, <1>3, <1>4, ReqFacts, RequestFacts DEF ReqOK, Req, Phase
<1>6. KeyOK(q, installed', revoked', refused')
  BY <1>1, <1>3, <1>4, ReqFacts DEF KeyOK, Req
<1>7. RequestsOK' /\ LateOK' /\ KeysOK'
  BY <1>2, <1>4, <1>5, <1>6, Updated, LateKept, KeysUpdated DEF Inv
<1> QED BY <1>4, <1>7 DEF Inv

\* A key expires once it is rotated, so it is not the end of the chain.
LEMMA ExpireInv == ASSUME Base, Inv, NEW k \in Keys, Expire(k) PROVE Inv'
<1>1. /\ UNCHANGED <<fileVars, memVars, req, late, generated, successor, installed, used, refused, disk, mode>>
      /\ revoked' = revoked \cup {k} /\ k \in installed /\ successor[k] # NoKey
  BY DEF Expire, Usable, history, fileVars, memVars
<1>2. k # Tip
  BY <1>1 DEF Inv, PortalOK, Chain
<1>3. PortalOK' /\ Tip' = Tip
  BY <1>1, <1>2, PortalMarked DEF Inv, PortalOK
<1>4. FilesOK' /\ MemoryOK'
  BY <1>1, <1>3, FilesKept, MemoryKept DEF Inv
<1>5. RequestsOK' /\ LateOK' /\ KeysOK'
  BY <1>1, RequestsKept, LateKept, KeysKept DEF Inv
<1> QED BY <1>3, <1>4, <1>5 DEF Inv

-----------------------------------------------------------------------------
(* Requests nobody waits for. *)

LEMMA AbandonedOK ==
    ASSUME Inv, NEW rs, rs \subseteq Requests, late' \in Abandoned(rs),
           installed' = installed, disk' \subseteq disk
    PROVE  LateOK'
<1>1. \A p : Conforms(p, installed, disk) => Conforms(p, installed', disk')
  BY ConformsSub
<1>2. \A m \in late : Conforms(m.proposal, installed, disk)
  BY DEF Inv, LateOK
<1>3. late' = late \/ \E r \in rs : late' = late \cup {MessageOf(r)}
  BY DEF Abandoned
<1>4. CASE late' = late
  BY <1>1, <1>2, <1>4 DEF LateOK
<1>5. CASE \E r \in rs : late' = late \cup {MessageOf(r)}
  <2>0. PICK r \in rs : late' = late \cup {MessageOf(r)}
    BY <1>5
  <2> DEFINE m == MessageOf(r)
  <2>1. m = MessageOf(r) /\ late' = late \cup {m}
    BY <2>0
  <2> HIDE DEF m
  <2>2. m.proposal = req[r].proposal
    BY <2>1 DEF MessageOf
  <2>3. Conforms(m.proposal, installed, disk)
    BY <2>2, RequestFacts DEF ReqOK
  <2> QED BY <1>1, <1>2, <2>1, <2>3 DEF LateOK
<1> QED BY <1>3, <1>4, <1>5

LEMMA LoseAnswerInv == ASSUME Base, Inv, NEW r \in Requests, LoseAnswer(r) PROVE Inv'
<1>1. /\ late' \in Abandoned({r}) /\ req[r].phase \in Underway
      /\ UNCHANGED <<fileVars, memVars, generated, portalVars, disk, mode, refused>>
  BY DEF LoseAnswer, Underway, fileVars, memVars, history
<1>2. PortalOK' /\ Tip' = Tip /\ UNCHANGED <<installed, revoked>>
  BY <1>1, PortalKept, Unfold DEF Inv
<1>3. FilesOK' /\ MemoryOK'
  BY <1>1, <1>2, FilesKept, MemoryKept DEF Inv
<1>4. LateOK'
  BY <1>1, <1>2, AbandonedOK
<1>5. \E q : /\ req' = [req EXCEPT ![r] = q] /\ ReqOK(q, installed, disk)
             /\ mode[Owner[r]] = "rw" => KeyOK(q, installed, revoked, refused)
  <2>1. CASE Ended(r)
    BY <2>1, IdleOK DEF Ended
  <2>2. CASE /\ req[r].attempt = "first"
             /\ req' = [req EXCEPT ![r].phase = "sent", ![r].attempt = "retry"]
    <3>1. PICK q : q = [req[r] EXCEPT !.phase = "sent", !.attempt = "retry"]
      OBVIOUS
    <3>2. req' = [req EXCEPT ![r] = q]
      BY <2>2, <3>1
    <3>3. /\ q \in Req /\ q.key = req[r].key /\ q.phase = "sent" /\ q.attempt = "retry"
          /\ q.proposal = req[r].proposal
      BY <3>1, ReqFacts DEF Req, Phase, Attempt
    <3>4. ReqOK(q, installed, disk) /\ (mode[Owner[r]] = "rw" => KeyOK(q, installed, revoked, refused))
      BY <1>1, <2>2, <3>3, RequestFacts DEF ReqOK, KeyOK, Underway
    <3> QED BY <3>2, <3>4
  <2> QED BY <2>1, <2>2 DEF LoseAnswer
<1>6. PICK q : /\ req' = [req EXCEPT ![r] = q] /\ ReqOK(q, installed, disk)
               /\ mode[Owner[r]] = "rw" => KeyOK(q, installed, revoked, refused)
  BY <1>5
<1>7. RequestsOK' /\ KeysOK'
  BY <1>1, <1>2, <1>6, Updated, KeysUpdated DEF Inv
<1> QED BY <1>2, <1>3, <1>4, <1>7 DEF Inv

LEMMA LateAuthenticateInv == ASSUME Base, Inv, NEW m \in late, LateAuthenticate(m) PROVE Inv'
<1>1. PICK n : n = [m EXCEPT !.authenticated = TRUE]
  OBVIOUS
<1>2. /\ Authenticate(m.key) /\ late' \subseteq late \cup {n}
      /\ UNCHANGED <<fileVars, memVars, req, generated, refused, disk, mode>>
  BY <1>1 DEF LateAuthenticate, fileVars, memVars, history
<1>3. PortalOK' /\ Tip' = Tip /\ UNCHANGED installed /\ revoked \subseteq revoked'
  BY <1>2, AuthenticateFacts DEF Inv
<1>4. FilesOK' /\ MemoryOK'
  BY <1>2, <1>3, FilesKept, MemoryKept DEF Inv
<1>5. RequestsOK' /\ KeysOK'
  BY <1>2, <1>3, RequestsKept, KeysKept DEF Inv
<1>6. LateOK'
  <2>1. n.proposal = m.proposal
    BY <1>1, LateFacts DEF Message
  <2> QED BY <1>2, <1>3, <2>1 DEF Inv, LateOK
<1> QED BY <1>3, <1>4, <1>5, <1>6 DEF Inv

LEMMA LateInstallInv == ASSUME Base, Inv, NEW m \in late, LateInstall(m) PROVE Inv'
<1>1. /\ Install(m.key, m.proposal) /\ late' \subseteq late
      /\ UNCHANGED <<fileVars, memVars, req, generated, refused>>
  BY DEF LateInstall, history
<1>2. m.proposal \in OptKey /\ Conforms(m.proposal, installed, disk)
  BY LateFacts DEF Inv, LateOK
<1>3. /\ PortalOK' /\ FilesOK' /\ MemoryOK'
      /\ installed \subseteq installed' /\ UNCHANGED <<disk, mode, revoked>>
      /\ \A o : Conforms(o, installed, disk) => Conforms(o, installed', disk')
  BY <1>1, <1>2, InstallFacts
<1>4. RequestsOK' /\ KeysOK'
  BY <1>1, <1>3, RequestsKept, KeysKept DEF Inv
<1>5. LateOK'
  BY <1>1, <1>3 DEF Inv, LateOK
<1> QED BY <1>3, <1>4, <1>5 DEF Inv

\* A step that only drops a late request, or nothing at all.
LEMMA StillInv ==
    ASSUME Inv, late' \subseteq late,
           UNCHANGED <<fileVars, memVars, req, generated, portalVars, refused>>
    PROVE  Inv'
<1>1. PortalOK' /\ Tip' = Tip /\ UNCHANGED <<installed, revoked, disk, mode>>
  BY PortalKept, Unfold DEF Inv, fileVars, memVars
<1>2. FilesOK' /\ MemoryOK'
  BY <1>1, FilesKept, MemoryKept DEF Inv
<1>3. RequestsOK' /\ KeysOK'
  BY <1>1, RequestsKept, KeysKept DEF Inv
<1>4. LateOK'
  BY <1>1 DEF Inv, LateOK
<1> QED BY <1>1, <1>2, <1>3, <1>4 DEF Inv

LEMMA LateStepInv ==
    ASSUME Base, Inv, NEW m \in late, LateAuthenticate(m) \/ LateInstall(m) \/ LateEnd(m) PROVE Inv'
  BY LateAuthenticateInv, LateInstallInv, StillInv DEF LateEnd, history

-----------------------------------------------------------------------------
(* Starts and deaths. *)

LEMMA ConfiguredFacts == ASSUME Inv PROVE Configured \in installed
<1>1. CASE Stored
  <2>1. file # Absent /\ Sound(file, installed, Tip, generated)
    BY <1>1 DEF Inv, FilesOK, Sound
  <2> QED BY <1>1, <2>1, SoundFacts DEF Configured
<1>2. CASE ~ Stored
  BY <1>2 DEF Configured, Inv, PortalOK
<1> QED BY <1>1, <1>2

\* A bridge that starts has no request.
LEMMA KeysOfStart ==
    ASSUME Base, Inv, NEW b \in Bridges, mode[b] = "down", NEW x, mode' = [mode EXCEPT ![b] = x],
           UNCHANGED <<req, installed, revoked, refused>>
    PROVE  KeysOK'
<1>1. ASSUME NEW r \in Requests, mode'[Owner[r]] = "rw"
      PROVE  KeyOK(req[r], installed, revoked, refused)
  <2>1. CASE Owner[r] = b
    <3>1. req[r] = Idle
      BY <2>1, ReqFacts DEF ReqTyped
    <3> QED BY <3>1, IdleOK
  <2>2. CASE Owner[r] # b
    <3>1. mode[Owner[r]] = "rw"
      BY <1>1, <2>2, ReqFacts DEF Base, MemoryTyped
    <3> QED BY <3>1, RequestFacts
  <2> QED BY <2>1, <2>2
<1> QED BY <1>1 DEF KeysOK

LEMMA StartInv == ASSUME Base, Inv, NEW b \in Bridges, Start(b) PROVE Inv'
<1>1. PICK f, old, img : f = Configured /\ old = State(f, NoKey) /\ img = load(f)
  OBVIOUS
<1>2. mode[b] = "down" /\ UNCHANGED <<req, late, generated, portalVars, refused>>
  BY DEF Start, history
<1>3. PICK res \in Outcome, quantum \in {"same", "later"} :
         /\ Confirm(b, old, img, res, quantum)
         /\ IF res = "done" THEN mode' = [mode EXCEPT ![b] = "rw"] /\ Memory(b, img)
            ELSE UNCHANGED memVars
  BY <1>1 DEF Start
<1>4. f \in installed /\ Conforms(old.pending, installed, disk)
  <2>1. old.pending = NoKey
    BY <1>1 DEF State
  <2> QED BY <1>1, <2>1, ConfiguredFacts, ConformsOnly
<1>5. \/ UNCHANGED <<mode, apiKey, pendingKey>>
      \/ res = "done" /\ Memory(b, img) /\ mode' = [mode EXCEPT ![b] = "rw"]
  BY <1>3 DEF memVars
<1>6. /\ PortalOK' /\ FilesOK' /\ MemoryOK' /\ UNCHANGED <<installed, revoked>>
      /\ \A p : Conforms(p, installed, disk) => Conforms(p, installed, disk')
  BY <1>1, <1>2, <1>3, <1>4, <1>5, Confirmed, SMTT(60)
<1>7. RequestsOK' /\ LateOK'
  BY <1>2, <1>6, RequestsKept, LateKept DEF Inv
<1>8. KeysOK'
  BY <1>2, <1>5, <1>6, KeysKept, KeysOfStart DEF Inv
<1> QED BY <1>6, <1>7, <1>8 DEF Inv

LEMMA StartReadOnlyInv == ASSUME Base, Inv, NEW b \in Bridges, StartReadOnly(b) PROVE Inv'
<1>1. PICK f : f = Configured
  OBVIOUS
<1>2. /\ mode[b] = "down" /\ mode' = [mode EXCEPT ![b] = "ro"]
      /\ Memory(b, State(f, NoKey))
      /\ UNCHANGED <<fileVars, req, late, generated, portalVars, refused>>
  BY <1>1 DEF StartReadOnly, history
<1>3. f \in Keys
  BY <1>1, ConfiguredTyped
<1>4. PortalOK' /\ FilesOK' /\ MemoryOK' /\ UNCHANGED <<installed, revoked, disk>>
  BY <1>2, <1>3, ReadOnlyFacts
<1>5. RequestsOK' /\ LateOK' /\ KeysOK'
  BY <1>2, <1>4, RequestsKept, LateKept, KeysOfStart DEF Inv
<1> QED BY <1>4, <1>5 DEF Inv

\* The bridges of bs go down.
LEMMA DownInv ==
    ASSUME Base, Inv, NEW bs, bs \subseteq Bridges, Down(bs),
           UNCHANGED <<generated, refused, portalVars>>, file' \in disk', disk' \subseteq disk
    PROVE  Inv'
<1>1. PortalOK' /\ Tip' = Tip /\ UNCHANGED <<installed, revoked>>
  BY PortalKept, Unfold DEF Inv
<1>2. FilesOK'
  BY <1>1 DEF Inv, FilesOK
<1>3. \A p : Conforms(p, installed, disk) => Conforms(p, installed, disk')
  BY ConformsSub
<1>4. LateOK'
  <2>1. PICK rs : rs = {r \in Requests : Owner[r] \in bs}
    OBVIOUS
  <2>2. late' \in Abandoned(rs) /\ rs \subseteq Requests
    BY <2>1 DEF Down
  <2> QED BY <1>1, <2>2, AbandonedOK
<1>5. /\ mode' \in [Bridges -> {"down", "rw", "ro"}]
      /\ \A b \in Bridges : /\ mode'[b] = IF b \in bs THEN "down" ELSE mode[b]
                            /\ apiKey'[b] = IF b \in bs THEN 0 ELSE apiKey[b]
                            /\ pendingKey'[b] = IF b \in bs THEN NoKey ELSE pendingKey[b]
      /\ apiKey' \in [Bridges -> Keys] /\ pendingKey' \in [Bridges -> OptKey]
  BY Constants DEF Down, Inv, MemoryOK
<1>6. ASSUME NEW r \in Requests
      PROVE  /\ ReqOK(req'[r], installed, disk')
             /\ mode'[Owner[r]] = "rw" => KeyOK(req'[r], installed, revoked, refused)
  <2>1. req'[r] = IF Owner[r] \in bs THEN Idle ELSE req[r]
    BY DEF Down
  <2>2. CASE Owner[r] \in bs
    BY <2>1, <2>2, IdleOK
  <2>3. CASE Owner[r] \notin bs
    <3>1. req'[r] = req[r] /\ mode'[Owner[r]] = mode[Owner[r]]
      BY <1>5, <2>1, <2>3, Constants
    <3>2. ReqOK(req[r], installed, disk) /\ (mode[Owner[r]] = "rw" => KeyOK(req[r], installed, revoked, refused))
      BY RequestFacts
    <3>3. ReqOK(req[r], installed, disk')
      BY <1>3, <3>2, ReqOKSub
    <3> QED BY <3>1, <3>2, <3>3
  <2> QED BY <2>2, <2>3
<1>7. RequestsOK' /\ KeysOK'
  <2>1. \A r \in Requests : req'[r] \in Req
    BY <1>6 DEF ReqOK
  <2>2. req' \in [Requests -> Req]
    BY <2>1 DEF Down
  <2> QED BY <1>1, <1>6, <2>2 DEF RequestsOK, KeysOK
<1>8. ASSUME NEW b \in Bridges
      PROVE  /\ mode'[b] = "rw" => apiKey'[b] \in installed
             /\ Conforms(pendingKey'[b], installed, disk')
  <2>1. CASE b \in bs
    <3>1. mode'[b] = "down" /\ pendingKey'[b] = NoKey
      BY <1>5, <2>1
    <3> QED BY <3>1 DEF Conforms
  <2>2. CASE b \notin bs
    <3>1. mode'[b] = mode[b] /\ apiKey'[b] = apiKey[b] /\ pendingKey'[b] = pendingKey[b]
      BY <1>5, <2>2
    <3> QED BY <1>3, <3>1, MemoryFacts
  <2> QED BY <2>1, <2>2
<1>9. MemoryOK'
  BY <1>1, <1>5, <1>8 DEF MemoryOK
<1> QED BY <1>1, <1>2, <1>4, <1>7, <1>9 DEF Inv

LEMMA KillInv == ASSUME Base, Inv, NEW b \in Bridges, Kill(b) PROVE Inv'
<1>1. Down({b}) /\ UNCHANGED <<file, disk, generated, refused, portalVars>>
  BY DEF Kill, fileVars, history
<1>2. file \in disk
  BY DEF Inv, FilesOK
<1> QED BY <1>1, <1>2, DownInv

LEMMA HostCrashInv == ASSUME Base, Inv, HostCrash PROVE Inv'
<1>1. /\ Down(Bridges) /\ file' \in disk /\ disk' = {file'}
      /\ UNCHANGED <<generated, refused, portalVars>>
  BY DEF HostCrash, history
<1>2. file' \in disk' /\ disk' \subseteq disk
  BY <1>1
<1> QED BY <1>1, <1>2, DownInv

-----------------------------------------------------------------------------
(* The theorems. *)

LEMMA InitInv == ASSUME Init PROVE Inv
<1>1. PICK i : i = IF Stored THEN State(0, NoKey) ELSE Absent
  OBVIOUS
<1>2. /\ file = i /\ disk = {i} /\ generated = 0 /\ installed = {0} /\ used = {} /\ revoked = {}
      /\ mode = [b \in Bridges |-> "down"] /\ apiKey = [b \in Bridges |-> 0]
      /\ pendingKey = [b \in Bridges |-> NoKey]
      /\ req = [r \in Requests |-> Idle] /\ late = {}
      /\ successor = [k \in Keys |-> NoKey]
  BY <1>1 DEF Init
<1>3. Tip = 0
  <2>1. successor[0] = NoKey
    BY <1>2, Constants
  <2> QED BY <1>2, <2>1, TipIs DEF Tip
<1>4. PortalOK
  BY <1>2, <1>3, Constants DEF PortalOK, Chain
<1>5. Sound(i, installed, Tip, generated)
  <2>1. 0 \in OptKey /\ NoKey \in OptKey /\ 0 # NoKey /\ NoKey # 0
    BY Constants
  <2>2. /\ State(0, NoKey) \in Image /\ State(0, NoKey).current = 0 /\ State(0, NoKey).pending = NoKey
        /\ State(0, NoKey) # Absent
        /\ Absent \in Image /\ Absent.current = NoKey /\ Absent.pending = NoKey
    BY <2>1, ImageFacts DEF Absent, Image
  <2> QED BY <1>1, <1>2, <1>3, <2>1, <2>2 DEF Sound, HeldBy
<1>6. FilesOK
  BY <1>2, <1>5 DEF FilesOK
<1>7. MemoryOK
  <2>1. mode \in [Bridges -> {"down", "rw", "ro"}] /\ apiKey \in [Bridges -> Keys] /\ pendingKey \in [Bridges -> OptKey]
    BY <1>2, Constants
  <2> QED BY <1>2, <2>1 DEF MemoryOK, Conforms
<1>8. RequestsOK /\ KeysOK
  <2>1. \A r \in Requests : req[r] = Idle /\ ReqOK(req[r], installed, disk) /\ KeyOK(req[r], installed, revoked, refused)
    BY <1>2, IdleOK
  <2>2. Idle \in Req
    BY IdleOK DEF ReqOK
  <2> QED BY <1>2, <2>1, <2>2 DEF RequestsOK, KeysOK
<1>9. LateOK
  BY <1>2 DEF LateOK
<1> QED BY <1>4, <1>6, <1>7, <1>8, <1>9 DEF Inv

\* A step that adopts no recovery key leaves the invariant, and what it is subject to.
LEMMA RequestStepInv ==
    ASSUME Base, Inv, NEW r \in Requests, RequestStep(r) PROVE adoptRecoveryKey(r) \/ Inv'
  BY PreparingInv, RefreshInv, ProposalAdoptsInv, ProposalGeneratesInv, SendInv,
     PortalAuthenticatesInv, PortalRejectsInv, AnsweredInv,
     PortalInstallsInv, RecoverReadOnlyInv, CredentialRecoveryKeyInv,
     EndedInv, AdoptLockedInv, AcknowledgeRotationInv
  DEF RequestStep

LEMMA NextInv ==
    ASSUME Base, Inv, [Next]_vars, ~ misled' PROVE Inv'
<1>1. ASSUME NEW r \in Requests, RequestStep(r) \/ LoseAnswer(r) PROVE Inv'
  BY <1>1, RequestStepInv, AdoptRecoveryKeyInv, LoseAnswerInv
<1>2. ASSUME NEW k \in Keys, Expire(k) PROVE Inv'
  BY <1>2, ExpireInv
<1>3. ASSUME NEW m \in late, LateAuthenticate(m) \/ LateInstall(m) \/ LateEnd(m) PROVE Inv'
  BY <1>3, LateStepInv
<1>4. ASSUME NEW b \in Bridges, Start(b) \/ StartReadOnly(b) \/ Kill(b) PROVE Inv'
  BY <1>4, StartInv, StartReadOnlyInv, KillInv
<1>5. CASE HostCrash
  BY <1>5, HostCrashInv
<1>6. CASE UNCHANGED vars
  <2>1. UNCHANGED <<fileVars, memVars, req, late, generated, portalVars, refused>>
    BY <1>6 DEF vars, history
  <2> QED BY <2>1, StillInv
<1> QED BY <1>1, <1>2, <1>3, <1>4, <1>5, <1>6 DEF Next

\* What only two steps do to the history.
LEMMA HistoryMoves ==
    ASSUME Base, [Next]_vars
    PROVE  /\ misled => misled'
           /\ refused => refused'
           /\ misled' # misled => \E r \in Requests : adoptRecoveryKey(r)
<1>1. misled \in BOOLEAN /\ refused \in BOOLEAN
  BY DEF Base, RestTyped
<1>2. ASSUME NEW r \in Requests, RequestStep(r)
      PROVE  (misled => misled') /\ (refused => refused') /\ (misled' # misled => adoptRecoveryKey(r))
  BY <1>1, <1>2
  DEF RequestStep, history, RefreshSkipped, Refresh, RefreshLocked, ProposalSkipped, ProposalRepeated,
      ProposalAdopts, ProposalGenerates, Send, PortalAuthenticates, PortalRejects, PortalLimits,
      PortalInstalls, PortalAnswers, RecoverReadOnly, credentialRecoveryKey, RecoverLocked,
      adoptRecoveryKey, AdoptLocked, acknowledgeRotation, Return
<1>3. (\E r \in Requests : RequestStep(r)) \/ UNCHANGED <<refused, misled>>
  BY DEF Next, vars, history, LoseAnswer, Expire, LateAuthenticate, LateInstall, LateEnd,
         Start, StartReadOnly, Kill, HostCrash
<1> QED BY <1>2, <1>3

\* The file is misled only after a usable key was refused; until it is, the invariant holds.
Honest == (misled => refused) /\ (~ misled => Inv)

LEMMA HonestHolds == Spec => []Honest
<1>1. ASSUME Init PROVE Honest
  BY <1>1, InitInv DEF Init, Honest
<1>2. ASSUME Base, Honest, [Next]_vars PROVE Honest'
  <2>1. /\ misled => misled'
        /\ refused => refused'
        /\ misled' # misled => \E r \in Requests : adoptRecoveryKey(r)
    BY <1>2, HistoryMoves
  <2>2. misled \in BOOLEAN /\ misled' \in BOOLEAN /\ refused' \in BOOLEAN /\ refused \in BOOLEAN
    <3>1. Base'
      BY <1>2, NextTyped
    <3> QED BY <1>2, <3>1 DEF Base, RestTyped
  <2>3. CASE misled
    BY <1>2, <2>1, <2>3 DEF Honest
  <2>4. CASE ~ misled /\ ~ misled'
    <3>1. Inv
      BY <1>2, <2>4 DEF Honest
    <3>2. Inv'
      BY <1>2, <2>4, <3>1, NextInv
    <3> QED BY <2>4, <3>2 DEF Honest
  <2>5. CASE ~ misled /\ misled'
    <3>1. PICK r \in Requests : adoptRecoveryKey(r)
      BY <2>1, <2>5
    <3>2. Inv
      BY <1>2, <2>5 DEF Honest
    <3>3. refused
      BY <1>2, <2>5, <3>1, <3>2, NotMisled
    <3> QED BY <2>1, <2>5, <3>3 DEF Honest
  <2> QED BY <2>2, <2>3, <2>4, <2>5
<1> QED BY <1>1, <1>2, BaseHolds, PTL DEF Spec

\* While the file was not promoted to a key the portal does not know, the file, the bridges
\* and the portal's chain agree: in particular a successor on its way to the portal is
\* installed, or pending in every file a host crash may leave (rotate.go, api_keys.ex).
THEOREM InvHolds == Spec => [](~ misled => Inv)
<1>1. ASSUME Honest PROVE ~ misled => Inv
  BY <1>1 DEF Honest
<1> QED BY <1>1, HonestHolds, PTL

\* rotate.go's validate and api_keys.ex: the file is well formed, a pending key is never the
\* current one, and the portal uses and revokes only keys it installed.
THEOREM TypeCorrect == Spec => []TypeOK
<1>1. ASSUME Base PROVE TypeOK
  <2>1. \A i \in disk : i \in Image /\ (i.pending # NoKey => i.current # NoKey /\ i.pending # i.current)
    <3> SUFFICES ASSUME NEW i \in disk
                 PROVE  i \in Image /\ (i.pending # NoKey => i.current # NoKey /\ i.pending # i.current)
      OBVIOUS
    <3>1. Shaped(i, generated)
      BY <1>1 DEF Base, FilesTyped
    <3>2. i \in Image /\ i.current \in OptKey /\ i.pending \in OptKey
      BY <3>1, ImageFields DEF Shaped
    <3>3. i.pending # NoKey => i.current # NoKey /\ i.current < i.pending
      BY <3>1 DEF Shaped
    <3> QED BY <3>2, <3>3, Constants
  <2>2. refused \in BOOLEAN /\ misled \in BOOLEAN
    BY <1>1 DEF Base, RestTyped
  <2> QED BY <1>1, <2>1, <2>2
        DEF TypeOK, Base, PortalTyped, FilesTyped, MemoryTyped, RequestsTyped, Req, LateTyped, RestTyped
<1> QED BY <1>1, BaseHolds, PTL

\* Whatever file a host crash leaves, the key the portal's chain ends in is in it, through
\* false refusals, expiries, rate limits and lost answers alike, unless the file was promoted
\* to a key the portal does not know (rotate.go's persist before use).
THEOREM WorkingKeyAlwaysSaved == Spec => []WorkingKeySaved
<1>1. ASSUME Honest PROVE WorkingKeySaved
  BY <1>1 DEF Honest, Inv, FilesOK, Sound, WorkingKeySaved
<1> QED BY <1>1, HonestHolds, PTL

\* Nothing but a 401 for a usable key leads to such a promotion: an answer that is no
\* acceptance (429), an expired key or a lost answer is not enough (main.go, api_keys.ex).
THEOREM MisledAlwaysByRefusal == Spec => []MisledOnlyByRefusal
<1>1. ASSUME Honest PROVE MisledOnlyByRefusal
  BY <1>1 DEF Honest, MisledOnlyByRefusal
<1> QED BY <1>1, HonestHolds, PTL

\* A writable bridge never returns to an older key, however refreshes, recoveries,
\* acknowledgements and peers' transitions interleave, and whatever the portal answers
\* (rotate.go).
THEOREM KeysAlwaysMoveForward == Spec => KeysMoveForward
<1>1. ASSUME Base, [Next]_vars
      PROVE  [\A b \in Bridges : mode[b] = "rw" /\ mode'[b] = "rw" => apiKey[b] <= apiKey'[b]]_vars
  BY <1>1, NextTyped DEF Forward
<1> QED BY <1>1, BaseHolds, PTL DEF Spec, KeysMoveForward
=============================================================================

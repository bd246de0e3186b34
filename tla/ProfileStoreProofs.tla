------------------------- MODULE ProfileStoreProofs -------------------------
(***************************************************************************)
(* Proofs about ProfileStore, for any number of concurrent operations,      *)
(* hosts, groups, settings, passwords and retries of a detection.           *)
(***************************************************************************)
EXTENDS ProfileStore, TLAPS

-----------------------------------------------------------------------------
(* Types of the pure operators.                                             *)

Values == Passwords \cup {None, Lost}
Profiles == ProfileRec \cup {Gone}

\* A saved profile is not the absence of one.
LEMMA GoneIsNoProfile ==
    /\ \A p \in ProfileRec : p # Gone
    /\ \A p \in Profiles : p # Gone => p \in ProfileRec
<1>1. \A p \in ProfileRec : p.auth # "gone"
  BY DEF ProfileRec
<1>2. Gone.auth = "gone"
  BY DEF Gone
<1> QED BY <1>1, <1>2 DEF Profiles

\* The backend a profile refers to, if any.
LEMMA SshStoreType ==
    ASSUME NEW p \in Profiles
    PROVE  /\ SshStore(p) \in Storages \cup {None}
           /\ SshAuto(p) \in BOOLEAN
           /\ SshStore(p) # None => p \in ProfileRec
  BY GoneIsNoProfile DEF SshStore, SshAuto, ProfileRec

\* What each kind of request asks to change has the type of a change.
LEMMA ChangeTypes ==
    ASSUME NEW p \in Profiles
    PROVE  /\ NoChange \in Changes
           /\ DeleteChange(p) \in Changes
           /\ \A storage \in Storages, gen \in BOOLEAN, w \in Passwords :
                  StoreChange(p, storage, gen, w) \in Changes
<1>0. ASSUME NEW D \in SUBSET Slots, NEW f \in [D -> Values] PROVE f \in Changes
  BY <1>0 DEF Changes, Values
<1>1. NoChange \in Changes
  <2>1. NoChange \in [{} -> Values]
    BY DEF NoChange
  <2> QED BY <1>0, <2>1
<1>2. DeleteChange(p) \in Changes
  <2> DEFINE D == IF SshStore(p) = None THEN {}
                  ELSE {SshStore(p)} \cup (IF SshAuto(p) THEN {"unlock"} ELSE {})
  <2>1. D \in SUBSET Slots
    BY SshStoreType DEF Slots
  <2>2. DeleteChange(p) \in [D -> Values]
    BY DEF DeleteChange, Values
  <2> QED BY <1>0, <2>1, <2>2
<1>3. ASSUME NEW storage \in Storages, NEW gen \in BOOLEAN, NEW w \in Passwords
      PROVE  StoreChange(p, storage, gen, w) \in Changes
  <2> DEFINE D == {storage} \cup (IF SshStore(p) # None THEN {SshStore(p)} ELSE {})
                    \cup (IF (storage = "vault" /\ gen) \/ SshAuto(p) THEN {"unlock"} ELSE {})
  <2>1. D \in SUBSET Slots
    BY SshStoreType DEF Slots
  <2>2. StoreChange(p, storage, gen, w) \in [D -> Values]
    BY DEF StoreChange, Values
  <2> QED BY <1>0, <2>1, <2>2
<1> QED BY <1>1, <1>2, <1>3

\* A change, or a backup, applied to the secrets; a failing call that leaves
\* some slots old and some new; and the backup it takes.
LEMMA SecretTypes ==
    ASSUME NEW c \in Changes, NEW g \in [Slots -> Values]
    PROVE  /\ Overlay(c, g) \in [Slots -> Values]
           /\ \A f \in Halfway(g, Overlay(c, g)) : f \in [Slots -> Values]
           /\ [s \in DOMAIN c |-> g[s]] \in Changes
           /\ DOMAIN c \subseteq Slots
<1>1. PICK D \in SUBSET Slots : c \in [D -> Values]
  BY DEF Changes, Values
<1>2. Overlay(c, g) \in [Slots -> Values]
  BY <1>1 DEF Overlay
<1>3. ASSUME NEW f \in Halfway(g, Overlay(c, g)) PROVE f \in [Slots -> Values]
  BY <1>2, <1>3 DEF Halfway
<1>4. [s \in DOMAIN c |-> g[s]] \in [D -> Values]
  BY <1>1
<1>5. [s \in DOMAIN c |-> g[s]] \in Changes
  BY <1>4 DEF Changes, Values
<1> QED BY <1>1, <1>2, <1>3, <1>5

\* profile_from_editor_with_password yields a profile.
LEMMA EditorTypes ==
    ASSUME NEW p \in Profiles, NEW in \in Inputs, NEW w \in Passwords
    PROVE  EditorProfile(p, in) \in ProfileRec /\ EditorChange(p, in, w) \in Changes
<1>1. /\ in.host \in Hosts /\ in.auth \in Auths /\ in.store \in Backends \cup {None}
      /\ in.gen \in BOOLEAN /\ in.group \in Groups /\ in.reset \in BOOLEAN
  BY DEF Inputs
<1>2. in.auth \in {"password", "key", "direct"} /\ in.store \in Storages \cup {None}
  BY <1>1, KindsAssumption DEF Storages
<1>3. PasswordStorage(in) \in Storages \cup {None}
  BY <1>2 DEF PasswordStorage
<1>4. EditorChange(p, in, w) \in Changes
  BY <1>1, <1>2, <1>3, ChangeTypes DEF EditorChange, PasswordStorage
<1> DEFINE ps == PasswordStorage(in)
           st == IF in.auth # "password" THEN None ELSE IF ps # None THEN ps ELSE SshStore(p)
           au == CASE in.auth = "direct" -> FALSE
                   [] ps = "vault" -> in.gen
                   [] ps = "keyring" -> FALSE
                   [] OTHER -> SshAuto(p)
           pn == in.auth # "direct" /\ p # Gone /\ p.auth # "direct" /\ p.host = in.host /\ p.pin
           base == [host |-> in.host, auth |-> in.auth, store |-> st, auto |-> au, pin |-> pn,
                    det |-> None, group |-> in.group]
<1>5. st \in Storages \cup {None}
  BY <1>2, <1>3, SshStoreType
<1>6. au \in BOOLEAN
  BY <1>1, <1>2, <1>3, SshStoreType DEF Storages
<1>7. pn \in BOOLEAN
  BY DEF ProfileRec
<1>8. base \in ProfileRec
  <2> HIDE DEF ps, st, au, pn
  <2> QED BY <1>1, <1>2, <1>5, <1>6, <1>7, Zenon DEF ProfileRec
<1>9. \/ EditorProfile(p, in) = base
      \/ p # Gone /\ EditorProfile(p, in) = [base EXCEPT !.det = p.det]
  <2>1. CASE p # Gone /\ ~in.reset /\ Matches(p.det, p) /\ Matches(p.det, base)
    BY <2>1 DEF EditorProfile
  <2>2. CASE ~(p # Gone /\ ~in.reset /\ Matches(p.det, p) /\ Matches(p.det, base))
    BY <2>2 DEF EditorProfile
  <2> QED BY <2>1, <2>2
<1>10. p # Gone => [base EXCEPT !.det = p.det] \in ProfileRec
  <2> HIDE DEF base
  <2> SUFFICES ASSUME p # Gone PROVE [base EXCEPT !.det = p.det] \in ProfileRec
    OBVIOUS
  <2>1. p.det \in Detections \cup {None}
    BY GoneIsNoProfile DEF ProfileRec
  <2> QED BY <1>8, <2>1, Zenon DEF ProfileRec
<1> HIDE DEF base
<1> QED BY <1>4, <1>8, <1>9, <1>10

-----------------------------------------------------------------------------
(* The table of operations.                                                 *)

OpTypes ==
    /\ op \in [Ops -> OpRec \cup {Idle}]
    /\ gate \in Ops \cup {None} /\ pending \in Ops \cup {None}

\* An operation that is in progress has all its fields.
LEMMA InProgress ==
    ASSUME OpTypes, NEW i \in Ops, op[i].pc # "idle"
    PROVE  op[i] \in OpRec /\ op[i] # Idle
  BY DEF OpTypes, Idle

\* End removes one operation, and what it holds of the gate and the token.
LEMMA EndTypes ==
    ASSUME OpTypes, NEW i \in Ops, End(i)
    PROVE  /\ OpTypes'
           /\ op'[i] = Idle /\ op'[i].pc = "idle"
           /\ \A j \in Ops : j # i => op'[j] = op[j]
           /\ gate' = IF gate = i THEN None ELSE gate
           /\ pending' = IF pending = i THEN None ELSE pending
<1>1. op' = [op EXCEPT ![i] = Idle]
  BY DEF End
<1>2. Idle.pc = "idle"
  BY DEF Idle
<1> QED BY <1>1, <1>2 DEF OpTypes, End, ReleaseToken

\* The operation i becomes r, the others stay.
Becomes(i, r) ==
    /\ op' \in [Ops -> OpRec \cup {Idle}]
    /\ op'[i] = r
    /\ \A j \in Ops : j # i => op'[j] = op[j]

\* Go and the updates that go with it change the place of one operation, and
\* the candidate or the backup it works with.
LEMMA MoveTypes ==
    ASSUME OpTypes, NEW i \in Ops, op[i] \in OpRec, NEW pc \in Pcs \ {"idle"}
    PROVE  /\ Go(i, pc) => Becomes(i, [op[i] EXCEPT !.pc = pc])
           /\ \A b \in Changes : op' = [op EXCEPT ![i].pc = pc, ![i].bak = b]
                  => Becomes(i, [op[i] EXCEPT !.pc = pc, !.bak = b])
           /\ \A c \in StoreRec : op' = [op EXCEPT ![i].pc = pc, ![i].cand = c]
                  => Becomes(i, [op[i] EXCEPT !.pc = pc, !.cand = c])
           /\ \A n \in 0 .. DetectTries - 1 : op' = [op EXCEPT ![i].pc = pc, ![i].tries = n]
                  => Becomes(i, [op[i] EXCEPT !.pc = pc, !.tries = n])
<1>1. ASSUME Go(i, pc) PROVE Becomes(i, [op[i] EXCEPT !.pc = pc])
  <2>1. [op[i] EXCEPT !.pc = pc] \in OpRec
    BY Zenon DEF OpRec
  <2> QED BY <1>1, <2>1 DEF Go, Becomes, OpTypes
<1>2. ASSUME NEW b \in Changes, op' = [op EXCEPT ![i].pc = pc, ![i].bak = b]
      PROVE  Becomes(i, [op[i] EXCEPT !.pc = pc, !.bak = b])
  <2>1. [op[i] EXCEPT !.pc = pc, !.bak = b] \in OpRec
    BY Zenon DEF OpRec
  <2> QED BY <1>2, <2>1 DEF Becomes, OpTypes
<1>3. ASSUME NEW c \in StoreRec, op' = [op EXCEPT ![i].pc = pc, ![i].cand = c]
      PROVE  Becomes(i, [op[i] EXCEPT !.pc = pc, !.cand = c])
  <2>1. [op[i] EXCEPT !.pc = pc, !.cand = c] \in OpRec
    BY Zenon DEF OpRec
  <2> QED BY <1>3, <2>1 DEF Becomes, OpTypes
<1>4. ASSUME NEW n \in 0 .. DetectTries - 1, op' = [op EXCEPT ![i].pc = pc, ![i].tries = n]
      PROVE  Becomes(i, [op[i] EXCEPT !.pc = pc, !.tries = n])
  <2>1. [op[i] EXCEPT !.pc = pc, !.tries = n] \in OpRec
    BY Zenon DEF OpRec
  <2> QED BY <1>4, <2>1 DEF Becomes, OpTypes
<1> QED BY <1>1, <1>2, <1>3, <1>4

\* A new operation.
LEMMA OperationType ==
    ASSUME NEW kind \in Kinds, NEW exp \in Profiles, NEW new \in Profiles, NEW chg \in Changes
    PROVE  /\ Operation(kind, exp, new, chg) \in OpRec
           /\ Operation(kind, exp, new, chg).pc = "wait"
           /\ Operation(kind, exp, new, chg).kind = kind
           /\ Operation(kind, exp, new, chg).exp = exp
           /\ Operation(kind, exp, new, chg).new = new
           /\ Operation(kind, exp, new, chg).chg = chg
           /\ Operation(kind, exp, new, chg).bak = NoChange
<1>1. "wait" \in Pcs \ {"idle"}
  BY DEF Pcs
<1>2. 0 \in 0 .. DetectTries - 1
  BY KindsAssumption
<1>3. NoChange \in Changes
  BY ChangeTypes DEF Profiles
<1> QED BY <1>1, <1>2, <1>3, Zenon DEF Operation, OpRec, Profiles

-----------------------------------------------------------------------------
(* The gate and the token.                                                  *)

\* A mutation token is held from the reservation to the commit.
Reserved(i) == op[i].pc \in Checked \cup {"wait"} /\ op[i].kind \in TokenKinds

\* The gate is held by the one operation that is past its wait, the token by
\* the one reserved operation, and a checked operation is still current.
GateInv ==
    /\ OpTypes
    /\ \A i \in Ops : gate = i <=> op[i].pc \notin {"idle", "wait"}
    /\ \A i \in Ops : Reserved(i) => pending = i
    /\ TokenHasOwner
    /\ ExpectedStaysCurrent

\* The owner of a free gate is no operation.
LEMMA NoneIsNoOp == None \notin Ops
  BY ValuesAssumption

\* An operation returns, and may have published its profile as the holder of the gate.
LEMMA ReturnWay ==
    ASSUME GateInv, NEW i \in Ops, op[i].pc # "idle", End(i),
           gate = i \/ mem'.prof = mem.prof
    PROVE  GateInv'
<1> USE NoneIsNoOp
<1>1. /\ OpTypes' /\ op'[i].pc = "idle"
      /\ \A j \in Ops : j # i => op'[j] = op[j]
      /\ gate' = IF gate = i THEN None ELSE gate
      /\ pending' = IF pending = i THEN None ELSE pending
  BY EndTypes DEF GateInv
<1>2. \A j \in Ops : gate' = j <=> op'[j].pc \notin {"idle", "wait"}
  BY <1>1 DEF GateInv
<1>3. \A j \in Ops : Reserved(j)' => pending' = j
  BY <1>1 DEF GateInv, Reserved, Checked
<1>4. TokenHasOwner'
  BY <1>1 DEF GateInv, TokenHasOwner, OpTypes, Checked
<1>5. ExpectedStaysCurrent'
  <2> SUFFICES ASSUME NEW j \in Ops, op'[j].pc \in Checked, op'[j].kind \in TokenKinds
               PROVE  pending' = j /\ mem'.prof = op'[j].exp
    BY DEF ExpectedStaysCurrent, MutationCurrent
  <2>1. j # i
    BY <1>1 DEF Checked
  <2>2. gate = j
    BY <1>1, <2>1 DEF GateInv, Checked
  <2> QED BY <1>1, <2>1, <2>2 DEF GateInv, ExpectedStaysCurrent, MutationCurrent
<1> QED BY <1>1, <1>2, <1>3, <1>4, <1>5 DEF GateInv

\* The holder of the gate goes on to its next checked step.
LEMMA MoveWay ==
    ASSUME GateInv, NEW i \in Ops, gate = i, op[i].pc \in Checked,
           NEW r \in OpRec, Becomes(i, r), r.pc \in Checked,
           r.kind = op[i].kind, r.exp = op[i].exp,
           gate' = gate, pending' = pending, mem'.prof = mem.prof
    PROVE  GateInv'
<1> USE NoneIsNoOp DEF Becomes
<1>1. \A j \in Ops : gate' = j <=> op'[j].pc \notin {"idle", "wait"}
  BY DEF GateInv, Checked
<1>2. \A j \in Ops : Reserved(j)' => pending' = j
  BY DEF GateInv, Reserved
<1>3. TokenHasOwner'
  BY DEF GateInv, TokenHasOwner, OpTypes
<1>4. ExpectedStaysCurrent'
  BY DEF GateInv, ExpectedStaysCurrent, MutationCurrent
<1> QED BY <1>1, <1>2, <1>3, <1>4 DEF GateInv, OpTypes

\* The holder of the gate has committed or failed: it gives the token back and
\* finishes (rollback, removal of the revoked record) with the gate held.
LEMMA ReleaseWay ==
    ASSUME GateInv, NEW i \in Ops, gate = i,
           NEW r \in OpRec, Becomes(i, r), r.pc \in {"undo", "forget"},
           gate' = gate, ReleaseToken(i)
    PROVE  GateInv'
<1> USE NoneIsNoOp DEF Becomes
<1>0. pending' = IF pending = i THEN None ELSE pending
  BY DEF ReleaseToken
<1>1. \A j \in Ops : gate' = j <=> op'[j].pc \notin {"idle", "wait"}
  BY DEF GateInv
<1>2. \A j \in Ops : Reserved(j)' => pending' = j
  BY <1>0 DEF GateInv, Reserved, Checked
<1>3. TokenHasOwner'
  BY <1>0 DEF GateInv, TokenHasOwner, OpTypes
<1>4. ExpectedStaysCurrent'
  <2> SUFFICES ASSUME NEW j \in Ops, op'[j].pc \in Checked PROVE FALSE
    BY DEF ExpectedStaysCurrent
  <2> QED BY DEF GateInv, Checked
<1> QED BY <1>0, <1>1, <1>2, <1>3, <1>4 DEF GateInv, OpTypes

\* A detection lets others pass the gate and queues again.
LEMMA WaitWay ==
    ASSUME GateInv, NEW i \in Ops, gate = i, op[i].kind \notin TokenKinds,
           NEW r \in OpRec, Becomes(i, r), r.pc = "wait", r.kind = op[i].kind,
           gate' = None, pending' = pending, mem'.prof = mem.prof
    PROVE  GateInv'
<1> USE NoneIsNoOp DEF Becomes
<1>1. \A j \in Ops : gate' = j <=> op'[j].pc \notin {"idle", "wait"}
  BY DEF GateInv
<1>2. \A j \in Ops : Reserved(j)' => pending' = j
  BY DEF GateInv, Reserved
<1>3. TokenHasOwner'
  BY DEF GateInv, TokenHasOwner, OpTypes
<1>4. ExpectedStaysCurrent'
  <2> SUFFICES ASSUME NEW j \in Ops, op'[j].pc \in Checked PROVE FALSE
    BY DEF ExpectedStaysCurrent
  <2> QED BY <1>1 DEF Checked
<1> QED BY <1>1, <1>2, <1>3, <1>4 DEF GateInv, OpTypes

\* A new operation queues for the gate, with the token if it reserved the profile.
LEMMA QueueWay ==
    ASSUME GateInv, NEW i \in Ops, op[i] = Idle,
           NEW r \in OpRec, Becomes(i, r), r.pc = "wait",
           \/ r.kind \notin TokenKinds /\ pending' = pending
           \/ r.kind \in TokenKinds /\ pending = None /\ pending' = i,
           gate' = gate, mem'.prof = mem.prof
    PROVE  GateInv'
<1> USE NoneIsNoOp DEF Becomes
<1>0. op[i].pc = "idle"
  BY DEF Idle
<1>1. \A j \in Ops : gate' = j <=> op'[j].pc \notin {"idle", "wait"}
  BY <1>0 DEF GateInv
<1>2. \A j \in Ops : Reserved(j)' => pending' = j
  BY DEF GateInv, Reserved, Checked
<1>3. TokenHasOwner'
  BY <1>0 DEF GateInv, TokenHasOwner, OpTypes, Checked
<1>4. ExpectedStaysCurrent'
  <2> SUFFICES ASSUME NEW j \in Ops, op'[j].pc \in Checked, op'[j].kind \in TokenKinds
               PROVE  pending' = j /\ mem'.prof = op'[j].exp
    BY DEF ExpectedStaysCurrent, MutationCurrent
  <2>1. j # i
    BY DEF Checked
  <2> QED BY <2>1 DEF GateInv, ExpectedStaysCurrent, MutationCurrent
<1> QED BY <1>1, <1>2, <1>3, <1>4 DEF GateInv, OpTypes

\* An operation enters the gate, a reserved one because it is still current.
LEMMA EnterWay ==
    ASSUME GateInv, NEW i \in Ops, gate = None, op[i].pc = "wait",
           NEW r \in OpRec, Becomes(i, r), r.pc \in Checked,
           r.kind = op[i].kind, r.exp = op[i].exp,
           op[i].kind \in TokenKinds => MutationCurrent(i),
           gate' = i, pending' = pending, mem'.prof = mem.prof
    PROVE  GateInv'
<1> USE NoneIsNoOp DEF Becomes
<1>1. \A j \in Ops : gate' = j <=> op'[j].pc \notin {"idle", "wait"}
  BY DEF GateInv, Checked
<1>2. \A j \in Ops : Reserved(j)' => pending' = j
  BY DEF GateInv, Reserved
<1>3. TokenHasOwner'
  BY DEF GateInv, TokenHasOwner, OpTypes
<1>4. ExpectedStaysCurrent'
  BY DEF GateInv, ExpectedStaysCurrent, MutationCurrent
<1> QED BY <1>1, <1>2, <1>3, <1>4 DEF GateInv, OpTypes

\* What happens without the gate leaves the published profile alone.
LEMMA OutsideWay ==
    ASSUME GateInv, UNCHANGED <<op, gate, pending>>, mem'.prof = mem.prof
    PROVE  GateInv'
  BY DEF GateInv, OpTypes, Reserved, TokenHasOwner, ExpectedStaysCurrent, MutationCurrent

\* A restart of the program leaves no operation, no gate holder and no token.
LEMMA RestartWay ==
    ASSUME Restart PROVE GateInv'
<1>1. Idle.pc = "idle"
  BY DEF Idle
<1>2. op' = [i \in Ops |-> Idle] /\ gate' = None /\ pending' = None
  BY DEF Restart
<1>3. \A i \in Ops : op'[i].pc = "idle"
  BY <1>1, <1>2
<1> QED BY <1>2, <1>3, NoneIsNoOp DEF GateInv, OpTypes, Reserved, TokenHasOwner,
           ExpectedStaysCurrent, Checked

-----------------------------------------------------------------------------
(* The stores: memory, disk and known_hosts.                                *)

StoreTypes ==
    /\ mem \in StoreRec /\ disk \in StoreRec
    /\ secret \in [Slots -> Values]
    /\ known \in [Hosts -> {"none", "trusted", "revoked"}]
    /\ faults \subseteq {"crash", "restore", "sync"}

\* What a request fixes for good: an operation that needs a profile has one, and
\* only a trust decision pins a key that was not pinned before.
RequestFacts(r) ==
    /\ r.kind \in {"remember", "clear", "trust", "revoke", "detect", "reject", "missing"}
           => r.exp \in ProfileRec
    /\ \A h \in Hosts : Pins(r.new, h) =>
           Pins(r.exp, h) \/ (r.kind = "trust" /\ h = r.exp.host)
    /\ r.kind = "revoke" => \A h \in Hosts : ~Pins(r.new, h)

CredentialKinds == {"save", "remember", "clear", "delete", "reject", "missing"}
SnapshotKinds == {"trust", "revoke", "groups", "recents"}

\* What an operation knows of the stores at the place where it is.  Nobody but
\* the holder of the gate is at a place where the stores matter.
PlaceFacts(i) ==
    LET o == op[i] IN
    /\ o.pc = "known" => o.kind = "trust"
    /\ o.pc = "cred" => o.kind \in CredentialKinds
    /\ (o.pc \notin {"commit", "undo"} \/ o.kind \notin CredentialKinds) => DOMAIN o.bak = {}
    /\ o.pc \in {"snap", "write", "publish"} =>
           /\ o.kind \in SnapshotKinds
           /\ o.kind = "trust" => known[o.exp.host] # "none"
    /\ o.pc \in {"write", "publish"} =>
           /\ o.cand \in StoreRec
           /\ \A h \in Hosts : Pins(o.cand.prof, h) => known[h] # "none" /\ o.kind # "revoke"
           /\ (o.kind # "recents" /\ "sync" \notin faults) => o.cand.rest = mem.rest
           /\ (o.kind = "recents" /\ "sync" \notin faults) =>
                  /\ o.cand.prof = mem.prof
                  /\ \A x \in {"lang", "audio"} : o.cand.rest[x] = mem.rest[x]
    /\ (o.pc = "write" /\ o.kind \in {"groups", "recents"}) => o.cand.set = disk.set
    /\ o.pc = "publish" => disk = o.cand
    /\ o.pc = "forget" => \A h \in Hosts : ~Pins(mem.prof, h) /\ ~Pins(disk.prof, h)

\* Memory and disk agree on the profile and on what other operations own, unless
\* a snapshot was saved and is about to be published.
Agree ==
    ("sync" \notin faults /\ \A i \in Ops : op[i].pc # "publish")
        => mem.prof = disk.prof /\ mem.rest = disk.rest

\* A pinned key is recorded.
PinsAreKnown ==
    \A h \in Hosts : Pins(mem.prof, h) \/ Pins(disk.prof, h) => known[h] # "none"

CoreInv ==
    /\ StoreTypes
    /\ GateInv
    /\ \A i \in Ops : op[i] # Idle => RequestFacts(op[i]) /\ PlaceFacts(i)
    /\ Agree
    /\ PinsAreKnown

\* The places of everybody but the holder of the gate.
LEMMA OthersWait ==
    ASSUME GateInv, NEW i \in Ops, gate \in {i, None}, NEW j \in Ops, j # i
    PROVE  op[j].pc \in {"idle", "wait"}
  BY NoneIsNoOp DEF GateInv

\* An operation that waits knows nothing of the stores yet.
LEMMA WaitingFacts ==
    ASSUME NEW i \in Ops, op'[i].pc = "wait"
    PROVE  PlaceFacts(i)' <=> DOMAIN op'[i].bak = {}
  BY DEF PlaceFacts

\* A step of one operation, which holds the gate or finds it free.
LEMMA CoreStep ==
    ASSUME CoreInv, NEW i \in Ops, gate \in {i, None},
           StoreTypes', GateInv', Agree', PinsAreKnown',
           \A j \in Ops : j # i => op'[j] = op[j],
           op'[i] # Idle => RequestFacts(op'[i]) /\ PlaceFacts(i)'
    PROVE  CoreInv'
<1>1. ASSUME NEW j \in Ops, op'[j] # Idle PROVE RequestFacts(op'[j]) /\ PlaceFacts(j)'
  <2>1. CASE j = i
    BY <1>1, <2>1
  <2>2. CASE j # i
    <3>1. op'[j] = op[j] /\ op[j] # Idle /\ RequestFacts(op[j]) /\ PlaceFacts(j)
      BY <1>1, <2>2 DEF CoreInv
    <3>2. op[j].pc \in {"idle", "wait"} /\ op[j].pc # "idle"
      <4>1. op[j] \in OpRec
        BY <3>1 DEF CoreInv, GateInv, OpTypes
      <4>2. op[j].pc # "idle"
        BY <4>1 DEF OpRec
      <4> QED BY <2>2, <4>2, OthersWait DEF CoreInv
    <3>3. DOMAIN op[j].bak = {}
      BY <3>1, <3>2 DEF PlaceFacts
    <3> QED BY <3>1, <3>2, <3>3, WaitingFacts
  <2> QED BY <2>1, <2>2
<1> QED BY <1>1 DEF CoreInv

\* An operation returns.
LEMMA CoreReturn ==
    ASSUME CoreInv, NEW i \in Ops, op[i].pc # "idle", gate \in {i, None}, End(i),
           gate = i \/ mem'.prof = mem.prof,
           StoreTypes', PinsAreKnown',
           "sync" \notin faults' => mem'.prof = disk'.prof /\ mem'.rest = disk'.rest
    PROVE  CoreInv'
<1>1. GateInv'
  BY ReturnWay DEF CoreInv
<1>2. op'[i] = Idle /\ \A j \in Ops : j # i => op'[j] = op[j]
  BY EndTypes DEF CoreInv, GateInv
<1>3. Agree'
  BY DEF Agree
<1> QED BY <1>1, <1>2, <1>3, CoreStep

\* The stores are as they were, and the holder was not about to publish.
LEMMA AgreeNow ==
    ASSUME CoreInv, NEW i \in Ops, gate \in {i, None}, op[i].pc # "publish", "sync" \notin faults
    PROVE  mem.prof = disk.prof /\ mem.rest = disk.rest
<1>1. \A j \in Ops : op[j].pc # "publish"
  BY OthersWait DEF CoreInv
<1> QED BY <1>1 DEF CoreInv, Agree

\* ConfigStore::save that fails leaves the file alone, or replaces it and reports
\* the failed directory sync.
LEMMA SaveFailsFacts ==
    ASSUME NEW c, SaveFails(c), StoreTypes
    PROVE  /\ disk' \in {disk, c}
           /\ faults' \subseteq {"crash", "restore", "sync"}
           /\ "sync" \notin faults' => disk' = disk /\ faults' = faults
  BY DEF SaveFails, StoreTypes

\* The saved fields that the operations replace.
LEMMA StoreUpdates ==
    ASSUME NEW st \in StoreRec
    PROVE  /\ st.prof \in Profiles /\ st.set \in Settings
           /\ st.rest \in [{"recents", "lang", "audio"} -> BOOLEAN]
           /\ \A p \in Profiles : /\ [st EXCEPT !.prof = p] \in StoreRec
                                  /\ [st EXCEPT !.prof = p].prof = p
                                  /\ [st EXCEPT !.prof = p].set = st.set
                                  /\ [st EXCEPT !.prof = p].rest = st.rest
           /\ \A v \in Settings : /\ [st EXCEPT !.set = v] \in StoreRec
                                  /\ [st EXCEPT !.set = v].prof = st.prof
                                  /\ [st EXCEPT !.set = v].rest = st.rest
           /\ \A x \in {"recents", "lang", "audio"}, v \in BOOLEAN :
                  /\ [st EXCEPT !.rest[x] = v] \in StoreRec
                  /\ [st EXCEPT !.rest[x] = v].prof = st.prof
                  /\ [st EXCEPT !.rest[x] = v].set = st.set
                  /\ [st EXCEPT !.rest[x] = v].rest = [st.rest EXCEPT ![x] = v]
<1>1. /\ st.prof \in Profiles /\ st.set \in Settings
      /\ st.rest \in [{"recents", "lang", "audio"} -> BOOLEAN]
  BY DEF StoreRec, Profiles
<1>2. ASSUME NEW p \in Profiles PROVE [st EXCEPT !.prof = p] \in StoreRec
  BY Zenon DEF StoreRec, Profiles
<1>3. ASSUME NEW v \in Settings PROVE [st EXCEPT !.set = v] \in StoreRec
  BY Zenon DEF StoreRec
<1>4. ASSUME NEW x \in {"recents", "lang", "audio"}, NEW v \in BOOLEAN
      PROVE  [st EXCEPT !.rest[x] = v] \in StoreRec
  <2>1. [st.rest EXCEPT ![x] = v] \in [{"recents", "lang", "audio"} -> BOOLEAN]
    BY <1>1
  <2> QED BY <2>1, Zenon DEF StoreRec
<1>5. \A p : [st EXCEPT !.prof = p].prof = p /\ [st EXCEPT !.prof = p].set = st.set
             /\ [st EXCEPT !.prof = p].rest = st.rest
  BY DEF StoreRec
<1>6. \A v : [st EXCEPT !.set = v].prof = st.prof /\ [st EXCEPT !.set = v].rest = st.rest
  BY DEF StoreRec
<1>7. \A x, v : [st EXCEPT !.rest[x] = v].prof = st.prof /\ [st EXCEPT !.rest[x] = v].set = st.set
                /\ [st EXCEPT !.rest[x] = v].rest = [st.rest EXCEPT ![x] = v]
  BY DEF StoreRec
<1> QED BY <1>1, <1>2, <1>3, <1>4, <1>5, <1>6, <1>7

\* The fields of a profile that the operations replace, and what they pin.
LEMMA ProfileUpdates ==
    ASSUME NEW p \in ProfileRec
    PROVE  /\ \A b \in Storages \cup {None}, a \in BOOLEAN :
                  /\ [p EXCEPT !.store = b, !.auto = a] \in ProfileRec
                  /\ \A h \in Hosts : Pins([p EXCEPT !.store = b, !.auto = a], h) <=> Pins(p, h)
           /\ \A b \in BOOLEAN :
                  /\ [p EXCEPT !.pin = b] \in ProfileRec
                  /\ \A h \in Hosts : Pins([p EXCEPT !.pin = b], h) => b /\ h = p.host
           /\ \A d \in Detections :
                  /\ [p EXCEPT !.det = d] \in ProfileRec
                  /\ \A h \in Hosts : Pins([p EXCEPT !.det = d], h) <=> Pins(p, h)
           /\ \A g \in Groups :
                  /\ [p EXCEPT !.group = g] \in ProfileRec
                  /\ \A h \in Hosts : Pins([p EXCEPT !.group = g], h) <=> Pins(p, h)
<1> USE GoneIsNoProfile
<1>1. ASSUME NEW b \in Storages \cup {None}, NEW a \in BOOLEAN
      PROVE  /\ [p EXCEPT !.store = b, !.auto = a] \in ProfileRec
             /\ \A h \in Hosts : Pins([p EXCEPT !.store = b, !.auto = a], h) <=> Pins(p, h)
  <2>1. [p EXCEPT !.store = b, !.auto = a] \in ProfileRec
    BY Zenon DEF ProfileRec
  <2>2. LET q == [p EXCEPT !.store = b, !.auto = a] IN
        q.host = p.host /\ q.auth = p.auth /\ q.pin = p.pin
    BY DEF ProfileRec
  <2> QED BY <2>1, <2>2 DEF Pins
<1>2. ASSUME NEW b \in BOOLEAN
      PROVE  /\ [p EXCEPT !.pin = b] \in ProfileRec
             /\ \A h \in Hosts : Pins([p EXCEPT !.pin = b], h) => b /\ h = p.host
  <2>1. [p EXCEPT !.pin = b] \in ProfileRec
    BY Zenon DEF ProfileRec
  <2>2. [p EXCEPT !.pin = b].host = p.host /\ [p EXCEPT !.pin = b].pin = b
    BY DEF ProfileRec
  <2> QED BY <2>1, <2>2 DEF Pins
<1>3. ASSUME NEW d \in Detections
      PROVE  /\ [p EXCEPT !.det = d] \in ProfileRec
             /\ \A h \in Hosts : Pins([p EXCEPT !.det = d], h) <=> Pins(p, h)
  <2>1. [p EXCEPT !.det = d] \in ProfileRec
    BY Zenon DEF ProfileRec
  <2>2. LET q == [p EXCEPT !.det = d] IN q.host = p.host /\ q.auth = p.auth /\ q.pin = p.pin
    BY DEF ProfileRec
  <2> QED BY <2>1, <2>2 DEF Pins
<1>4. ASSUME NEW g \in Groups
      PROVE  /\ [p EXCEPT !.group = g] \in ProfileRec
             /\ \A h \in Hosts : Pins([p EXCEPT !.group = g], h) <=> Pins(p, h)
  <2>1. [p EXCEPT !.group = g] \in ProfileRec
    BY Zenon DEF ProfileRec
  <2>2. LET q == [p EXCEPT !.group = g] IN q.host = p.host /\ q.auth = p.auth /\ q.pin = p.pin
    BY DEF ProfileRec
  <2> QED BY <2>1, <2>2 DEF Pins
<1> QED BY <1>1, <1>2, <1>3, <1>4

\* The editor keeps the pin of an unchanged endpoint only.
LEMMA EditorPins ==
    ASSUME NEW p \in Profiles, NEW in \in Inputs, NEW h \in Hosts,
           Pins(EditorProfile(p, in), h)
    PROVE  Pins(p, h)
<1> DEFINE ps == PasswordStorage(in)
           base == [host |-> in.host, auth |-> in.auth,
                    store |-> IF in.auth # "password" THEN None
                              ELSE IF ps # None THEN ps ELSE SshStore(p),
                    auto |-> CASE in.auth = "direct" -> FALSE
                               [] ps = "vault" -> in.gen
                               [] ps = "keyring" -> FALSE
                               [] OTHER -> SshAuto(p),
                    pin |-> in.auth # "direct" /\ p # Gone /\ p.auth # "direct"
                            /\ p.host = in.host /\ p.pin,
                    det |-> None, group |-> in.group]
<1>1. \/ EditorProfile(p, in) = base
      \/ EditorProfile(p, in) = [base EXCEPT !.det = p.det]
  <2>1. CASE p # Gone /\ ~in.reset /\ Matches(p.det, p) /\ Matches(p.det, base)
    BY <2>1 DEF EditorProfile
  <2>2. CASE ~(p # Gone /\ ~in.reset /\ Matches(p.det, p) /\ Matches(p.det, base))
    BY <2>2 DEF EditorProfile
  <2> QED BY <2>1, <2>2
<1>2. /\ [base EXCEPT !.det = p.det].pin = base.pin
      /\ [base EXCEPT !.det = p.det].host = base.host
  OBVIOUS
<1>3. base.pin /\ base.host = h
  BY <1>1, <1>2 DEF Pins
<1> QED BY <1>3 DEF Pins

-----------------------------------------------------------------------------
(* CoreInv, action by action.                                               *)

\* What every request does: an idle identity queues as an operation on the
\* published profile, with the token if it reserves it; a new profile also
\* starts without secrets.
RequestShape(i, kind, new, chg) ==
    /\ op[i] = Idle
    /\ op' = [op EXCEPT ![i] = Operation(kind, mem.prof, new, chg)]
    /\ \/ kind \notin TokenKinds /\ pending' = pending
       \/ kind \in TokenKinds /\ pending = None /\ pending' = i
    /\ UNCHANGED <<mem, disk, known, gate, faults>>
    /\ \/ UNCHANGED secret
       \/ /\ mem.prof = Gone /\ kind = "save"
          /\ \A j \in Ops : op[j] = Idle
          /\ secret' = [s \in Slots |-> None]

\* Every request starts one operation of one shape, and the operation it starts
\* satisfies the facts of a request.
LEMMA RequestShapes ==
    ASSUME CoreInv, NEW i \in Ops, Request(i)
    PROVE  \E kind \in Kinds, new \in Profiles, chg \in Changes :
               /\ RequestShape(i, kind, new, chg)
               /\ RequestFacts(Operation(kind, mem.prof, new, chg))
<1> DEFINE Goal == \E kind \in Kinds, new \in Profiles, chg \in Changes :
                       /\ RequestShape(i, kind, new, chg)
                       /\ RequestFacts(Operation(kind, mem.prof, new, chg))
<1> SUFFICES Goal
  OBVIOUS
<1>0. mem.prof \in Profiles
  BY StoreUpdates DEF CoreInv, StoreTypes
<1>1. ASSUME NEW kind \in Kinds, NEW new \in Profiles, NEW chg \in Changes,
             RequestShape(i, kind, new, chg),
             kind \in {"remember", "clear", "trust", "revoke", "detect", "reject", "missing"}
                 => mem.prof \in ProfileRec,
             \A h \in Hosts : Pins(new, h) =>
                 Pins(mem.prof, h) \/ (kind = "trust" /\ h = mem.prof.host),
             kind = "revoke" => \A h \in Hosts : ~Pins(new, h)
      PROVE  Goal
  <2>1. LET r == Operation(kind, mem.prof, new, chg) IN
        r.kind = kind /\ r.exp = mem.prof /\ r.new = new
    BY <1>0, OperationType
  <2> QED BY <1>1, <2>1 DEF RequestFacts
<1>2. \A h \in Hosts : ~Pins(Gone, h)
  BY DEF Pins
<1>3. \A kind : kind \in {"reject", "missing"} \cup UpdateKinds => kind \notin TokenKinds
  BY DEF TokenKinds, UpdateKinds
<1>4. Gone \in Profiles /\ NoChange \in Changes /\ DeleteChange(mem.prof) \in Changes
  BY <1>0, ChangeTypes DEF Profiles
<1>5. mem.prof # Gone => mem.prof \in ProfileRec
  BY <1>0, GoneIsNoProfile
<1>6. SshStore(mem.prof) # None => mem.prof \in ProfileRec /\ mem.prof # Gone
  BY <1>0, SshStoreType, GoneIsNoProfile
<1> HIDE DEF Goal
<1>7. CASE SaveSession(i)
  <2>1. PICK in \in Inputs, w \in Passwords : SaveInput(i, in, w)
    BY <1>7 DEF SaveSession
  <2>2. EditorProfile(mem.prof, in) \in Profiles /\ EditorChange(mem.prof, in, w) \in Changes
    BY <1>0, EditorTypes DEF Profiles
  <2>3. RequestShape(i, "save", EditorProfile(mem.prof, in), EditorChange(mem.prof, in, w))
    BY <2>1 DEF SaveInput, MayReserve, Reserve, RequestShape, TokenKinds
  <2>4. "save" \in Kinds
    BY <2>1 DEF SaveInput, MayReserve
  <2>5. \A h \in Hosts : Pins(EditorProfile(mem.prof, in), h) => Pins(mem.prof, h)
    BY <1>0, EditorPins
  <2> QED BY <1>1, <2>2, <2>3, <2>4, <2>5
<1>8. CASE RememberPassword(i)
  <2>1. PICK storage \in Backends, gen \in BOOLEAN, w \in Passwords :
            /\ mem.prof # Gone
            /\ Reserve(i, "remember", [mem.prof EXCEPT !.store = storage, !.auto = gen],
                       StoreChange(mem.prof, storage, gen, w))
            /\ UNCHANGED secret
    BY <1>8 DEF RememberPassword
  <2>2. storage \in Storages
    BY KindsAssumption DEF Storages
  <2>3. /\ [mem.prof EXCEPT !.store = storage, !.auto = gen] \in ProfileRec
        /\ \A h \in Hosts : Pins([mem.prof EXCEPT !.store = storage, !.auto = gen], h)
                                <=> Pins(mem.prof, h)
    BY <1>5, <2>1, <2>2, ProfileUpdates
  <2>4. StoreChange(mem.prof, storage, gen, w) \in Changes
    BY <1>0, <2>2, ChangeTypes
  <2>5. RequestShape(i, "remember", [mem.prof EXCEPT !.store = storage, !.auto = gen],
                     StoreChange(mem.prof, storage, gen, w)) /\ "remember" \in Kinds
    BY <1>8, <2>1 DEF RememberPassword, MayReserve, Reserve, RequestShape, TokenKinds
  <2> QED BY <1>1, <1>5, <2>1, <2>3, <2>4, <2>5 DEF Profiles
<1>9. CASE ClearSavedPassword(i)
  <2>1. RequestShape(i, "clear", [mem.prof EXCEPT !.store = None, !.auto = FALSE],
                     DeleteChange(mem.prof)) /\ "clear" \in Kinds /\ mem.prof \in ProfileRec
    BY <1>6, <1>9 DEF ClearSavedPassword, MayReserve, Reserve, RequestShape, TokenKinds
  <2>2. /\ [mem.prof EXCEPT !.store = None, !.auto = FALSE] \in ProfileRec
        /\ \A h \in Hosts : Pins([mem.prof EXCEPT !.store = None, !.auto = FALSE], h)
                                <=> Pins(mem.prof, h)
    BY <2>1, ProfileUpdates
  <2> QED BY <1>1, <1>4, <2>1, <2>2 DEF Profiles
<1>10. CASE DeleteSession(i)
  <2>1. RequestShape(i, "delete", Gone, DeleteChange(mem.prof)) /\ "delete" \in Kinds
    BY <1>10 DEF DeleteSession, MayReserve, Reserve, RequestShape, TokenKinds
  <2> QED BY <1>1, <1>2, <1>4, <2>1
<1>11. CASE TrustHostKey(i)
  <2>1. RequestShape(i, "trust", [mem.prof EXCEPT !.pin = TRUE], NoChange)
        /\ "trust" \in Kinds /\ mem.prof \in ProfileRec
    BY <1>5, <1>11 DEF TrustHostKey, MayReserve, Reserve, RequestShape, TokenKinds
  <2>2. /\ [mem.prof EXCEPT !.pin = TRUE] \in ProfileRec
        /\ \A h \in Hosts : Pins([mem.prof EXCEPT !.pin = TRUE], h) => h = mem.prof.host
    BY <2>1, ProfileUpdates
  <2> QED BY <1>1, <1>4, <2>1, <2>2 DEF Profiles
<1>12. CASE RemoveRevokedKey(i)
  <2>1. RequestShape(i, "revoke", [mem.prof EXCEPT !.pin = FALSE], NoChange)
        /\ "revoke" \in Kinds /\ mem.prof \in ProfileRec
    BY <1>5, <1>12 DEF RemoveRevokedKey, MayReserve, Reserve, RequestShape, TokenKinds
  <2>2. /\ [mem.prof EXCEPT !.pin = FALSE] \in ProfileRec
        /\ \A h \in Hosts : ~Pins([mem.prof EXCEPT !.pin = FALSE], h)
    BY <2>1, ProfileUpdates
  <2> QED BY <1>1, <1>4, <2>1, <2>2 DEF Profiles
<1>13. CASE RejectedPassword(i)
  <2>1. RequestShape(i, "reject", Gone, DeleteChange(mem.prof))
        /\ "reject" \in Kinds /\ mem.prof \in ProfileRec
    BY <1>3, <1>6, <1>13 DEF RejectedPassword, Queue, RequestShape
  <2> QED BY <1>1, <1>2, <1>4, <2>1
<1>14. CASE MissingPassword(i)
  <2>1. PICK chg \in Changes : RequestShape(i, "missing", Gone, chg)
    <3>1. (IF SshAuto(mem.prof) THEN DeleteChange(mem.prof) ELSE NoChange) \in Changes
      BY <1>4
    <3> QED BY <1>3, <1>14, <3>1 DEF MissingPassword, Queue, RequestShape
  <2>2. "missing" \in Kinds /\ mem.prof \in ProfileRec
    BY <1>6, <1>14 DEF MissingPassword, Queue
  <2> QED BY <1>1, <1>2, <1>4, <2>1, <2>2
<1>15. CASE RequestUpdate(i)
  <2>1. PICK kind \in UpdateKinds : /\ kind = "detect" => mem.prof # Gone
                                    /\ Queue(i, kind, NoChange)
    BY <1>15 DEF RequestUpdate
  <2>2. RequestShape(i, kind, Gone, NoChange) /\ kind \in Kinds
    BY <1>3, <2>1 DEF Queue, RequestShape
  <2> QED BY <1>1, <1>2, <1>4, <1>5, <2>1, <2>2 DEF UpdateKinds
<1> QED BY <1>7, <1>8, <1>9, <1>10, <1>11, <1>12, <1>13, <1>14, <1>15 DEF Request

\* A request leaves the stores alone.
LEMMA RequestPreserves ==
    ASSUME CoreInv, NEW i \in Ops, Request(i)
    PROVE  CoreInv'
<1>1. PICK kind \in Kinds, new \in Profiles, chg \in Changes :
          /\ RequestShape(i, kind, new, chg)
          /\ RequestFacts(Operation(kind, mem.prof, new, chg))
  BY RequestShapes
<1> DEFINE r == Operation(kind, mem.prof, new, chg)
<1>2. mem.prof \in Profiles
  BY StoreUpdates DEF CoreInv, StoreTypes
<1>3. r \in OpRec /\ r.pc = "wait" /\ r.kind = kind /\ r.bak = NoChange
  BY <1>2, OperationType
<1> HIDE DEF r
<1>4. op[i] = Idle /\ op' = [op EXCEPT ![i] = r]
  BY <1>1 DEF RequestShape, r
<1>5. UNCHANGED <<mem, disk, known, gate, faults>>
  BY <1>1 DEF RequestShape
<1>6. Becomes(i, r)
  BY <1>3, <1>4 DEF Becomes, CoreInv, GateInv, OpTypes
<1>7. GateInv'
  BY <1>1, <1>3, <1>4, <1>5, <1>6, QueueWay DEF CoreInv, RequestShape
<1>8. StoreTypes'
  <2>1. secret' \in [Slots -> Values]
    BY <1>1 DEF RequestShape, CoreInv, StoreTypes, Values
  <2> QED BY <1>5, <2>1 DEF CoreInv, StoreTypes
<1>9. Agree'
  BY <1>3, <1>4, <1>5, <1>6 DEF Agree, CoreInv, Becomes, Idle
<1>10. PinsAreKnown'
  BY <1>5 DEF PinsAreKnown, CoreInv
<1>11. ASSUME NEW j \in Ops, op'[j] # Idle PROVE RequestFacts(op'[j]) /\ PlaceFacts(j)'
  <2>1. CASE j = i
    <3>1. op'[j] = r /\ RequestFacts(r)
      BY <1>1, <1>6, <2>1 DEF Becomes, r
    <3>2. DOMAIN op'[j].bak = {} /\ op'[j].pc = "wait"
      BY <1>3, <3>1 DEF NoChange
    <3> QED BY <3>1, <3>2, WaitingFacts
  <2>2. CASE j # i
    BY <1>5, <1>6, <1>11, <2>2 DEF Becomes, CoreInv, PlaceFacts
  <2> QED BY <2>1, <2>2
<1> QED BY <1>7, <1>8, <1>9, <1>10, <1>11 DEF CoreInv

\* An operation enters the gate, or returns because it is no longer current.
LEMMA AcquirePreserves ==
    ASSUME CoreInv, NEW i \in Ops, Acquire(i)
    PROVE  CoreInv'
<1>0. /\ op[i].pc = "wait" /\ gate = None
      /\ UNCHANGED <<mem, disk, secret, known, faults>>
  BY DEF Acquire
<1>1. StoreTypes' /\ PinsAreKnown'
  BY <1>0 DEF CoreInv, StoreTypes, PinsAreKnown
<1>2. "sync" \notin faults' => mem'.prof = disk'.prof /\ mem'.rest = disk'.rest
  BY <1>0, AgreeNow
<1>3. CASE End(i)
  BY <1>0, <1>1, <1>2, <1>3, CoreReturn
<1>4. CASE /\ op[i].kind \in TokenKinds => MutationCurrent(i)
           /\ gate' = i /\ Go(i, FirstStep(i)) /\ UNCHANGED pending
  <2> DEFINE r == [op[i] EXCEPT !.pc = FirstStep(i)]
  <2>1. op[i] \in OpRec /\ op[i] # Idle
    BY <1>0, InProgress DEF CoreInv, GateInv
  <2>2. /\ op[i].kind \in TokenKinds \cup CleanupKinds \cup UpdateKinds
        /\ op[i].kind \in Kinds
    BY <2>1, KindsAssumption DEF OpRec
  <2>3. /\ FirstStep(i) \in {"cred", "commit", "known", "snap"}
        /\ FirstStep(i) = "known" => op[i].kind = "trust"
        /\ FirstStep(i) = "cred" => op[i].kind \in CredentialKinds
        /\ FirstStep(i) = "snap" => op[i].kind \in {"revoke", "groups", "recents"}
    <3>1. CASE op[i].kind \in {"save", "remember", "clear", "delete", "reject"}
      BY <3>1 DEF FirstStep, CredentialKinds
    <3>2. CASE op[i].kind = "missing"
      BY <3>2 DEF FirstStep, CredentialKinds
    <3>3. CASE op[i].kind \in {"trust", "revoke", "groups", "recents"}
      BY <3>3 DEF FirstStep
    <3>4. CASE op[i].kind \in {"settings", "audio", "lang", "detect"}
      BY <3>4 DEF FirstStep
    <3> QED BY <2>2, <3>1, <3>2, <3>3, <3>4 DEF TokenKinds, CleanupKinds, UpdateKinds
  <2>4. FirstStep(i) \in Pcs \ {"idle"} /\ FirstStep(i) \in Checked
    BY <2>3 DEF Pcs, Checked
  <2>5. Becomes(i, r)
    BY <1>4, <2>1, <2>4, MoveTypes DEF CoreInv, GateInv
  <2>6. /\ r \in OpRec /\ r.pc = FirstStep(i) /\ r.kind = op[i].kind /\ r.exp = op[i].exp
        /\ r.new = op[i].new /\ r.bak = op[i].bak
    BY <2>1, <2>4, Zenon DEF OpRec
  <2> HIDE DEF r
  <2>7. GateInv'
    BY <1>0, <1>4, <2>4, <2>5, <2>6, EnterWay DEF CoreInv
  <2>8. Agree'
    BY <1>2 DEF Agree
  <2>9. DOMAIN op[i].bak = {} /\ RequestFacts(op[i])
    BY <1>0, <2>1 DEF CoreInv, PlaceFacts
  <2>10. RequestFacts(op'[i]) /\ PlaceFacts(i)'
    <3>1. RequestFacts(op'[i])
      BY <2>5, <2>6, <2>9 DEF RequestFacts, Becomes
    <3>2. /\ op'[i].pc \in {"cred", "commit", "known", "snap"}
          /\ op'[i].pc = "known" => op'[i].kind = "trust"
          /\ op'[i].pc = "cred" => op'[i].kind \in CredentialKinds
          /\ op'[i].pc = "snap" => op'[i].kind \in {"revoke", "groups", "recents"}
          /\ DOMAIN op'[i].bak = {}
      BY <2>3, <2>5, <2>6, <2>9 DEF Becomes
    <3> QED BY <3>1, <3>2 DEF PlaceFacts, SnapshotKinds
  <2> QED BY <1>0, <1>1, <2>5, <2>7, <2>8, <2>10, CoreStep DEF Becomes
<1> QED BY <1>3, <1>4 DEF Acquire

\* The holder of the gate, at the place where it is.
LEMMA AtPlace ==
    ASSUME CoreInv, NEW i \in Ops, op[i].pc \notin {"idle", "wait"}
    PROVE  /\ gate = i
           /\ op[i] \in OpRec /\ op[i] # Idle /\ op[i].pc # "idle"
           /\ RequestFacts(op[i]) /\ PlaceFacts(i)
           /\ op[i].exp \in Profiles /\ op[i].new \in Profiles
           /\ op[i].chg \in Changes /\ op[i].bak \in Changes
           /\ op[i].kind \in Kinds
           /\ op[i].kind \in TokenKinds \cup CleanupKinds \cup UpdateKinds
<1>1. op[i] \in OpRec /\ op[i] # Idle
  BY InProgress DEF CoreInv, GateInv
<1> QED BY <1>1, KindsAssumption DEF CoreInv, GateInv, OpRec, Profiles

\* A step that leaves the stores alone, and then returns.
LEMMA QuietReturn ==
    ASSUME CoreInv, NEW i \in Ops, op[i].pc \notin {"idle", "publish"}, gate \in {i, None}, End(i),
           UNCHANGED <<mem, disk, known>>, secret' \in [Slots -> Values],
           faults' \subseteq {"crash", "restore", "sync"}, faults \subseteq faults'
    PROVE  CoreInv'
<1>1. StoreTypes' /\ PinsAreKnown'
  BY DEF CoreInv, StoreTypes, PinsAreKnown
<1>2. "sync" \notin faults' => mem'.prof = disk'.prof /\ mem'.rest = disk'.rest
  BY AgreeNow
<1> QED BY <1>1, <1>2, CoreReturn

\* The secrets change before the profile does.
LEMMA ApplyCredentialPreserves ==
    ASSUME CoreInv, NEW i \in Ops, ApplyCredential(i)
    PROVE  CoreInv'
<1> DEFINE new == Overlay(op[i].chg, secret)
           bak == [s \in DOMAIN op[i].chg |-> secret[s]]
           r == [op[i] EXCEPT !.pc = "commit", !.bak = bak]
<1>0. op[i].pc = "cred" /\ UNCHANGED <<mem, disk, known>>
  BY DEF ApplyCredential
<1>1. /\ gate = i /\ op[i] \in OpRec /\ op[i] # Idle /\ op[i].pc # "idle"
      /\ RequestFacts(op[i]) /\ PlaceFacts(i) /\ op[i].chg \in Changes
  BY <1>0, AtPlace
<1>2. secret \in [Slots -> Values] /\ faults \subseteq {"crash", "restore", "sync"}
  BY DEF CoreInv, StoreTypes
<1>3. /\ new \in [Slots -> Values] /\ bak \in Changes
      /\ \A f \in Halfway(secret, new) : f \in [Slots -> Values]
  BY <1>1, <1>2, SecretTypes
<1> HIDE DEF new, bak
<1>4. CASE /\ secret' = new
           /\ op' = [op EXCEPT ![i].pc = "commit", ![i].bak = bak]
           /\ UNCHANGED <<gate, pending, faults>>
  <2>1. "commit" \in Pcs \ {"idle"} /\ "commit" \in Checked /\ "cred" \in Checked
    BY DEF Pcs, Checked
  <2>2. Becomes(i, r)
    BY <1>1, <1>3, <1>4, <2>1, MoveTypes DEF CoreInv, GateInv
  <2>3. /\ r \in OpRec /\ r.pc = "commit" /\ r.kind = op[i].kind /\ r.exp = op[i].exp
        /\ r.new = op[i].new
    BY <1>1, <1>3, <2>1, Zenon DEF OpRec
  <2> HIDE DEF r
  <2>4. GateInv'
    BY <1>0, <1>1, <1>4, <2>1, <2>2, <2>3, MoveWay DEF CoreInv
  <2>5. StoreTypes' /\ PinsAreKnown'
    BY <1>0, <1>3, <1>4 DEF CoreInv, StoreTypes, PinsAreKnown
  <2>6. Agree'
    BY <1>0, <1>1, <1>4, AgreeNow DEF Agree
  <2>7. RequestFacts(op'[i]) /\ PlaceFacts(i)'
    <3>1. RequestFacts(op'[i])
      BY <1>1, <2>2, <2>3 DEF RequestFacts, Becomes
    <3>2. op'[i].pc = "commit" /\ op'[i].kind \in CredentialKinds
      BY <1>0, <1>1, <2>2, <2>3 DEF Becomes, PlaceFacts
    <3> QED BY <3>1, <3>2 DEF PlaceFacts
  <2> QED BY <1>1, <2>2, <2>4, <2>5, <2>6, <2>7, CoreStep DEF Becomes
<1>5. CASE /\ \/ UNCHANGED <<secret, faults>>
              \/ /\ secret' \in Halfway(secret, new)
                 /\ faults' = faults \cup {"restore"}
           /\ End(i)
  <2>1. secret' \in [Slots -> Values] /\ faults' \subseteq {"crash", "restore", "sync"}
        /\ faults \subseteq faults'
    BY <1>2, <1>3, <1>5
  <2> QED BY <1>0, <1>1, <1>5, <2>1, QuietReturn
<1> QED BY <1>4, <1>5 DEF ApplyCredential, new, bak

\* A save that fails: memory stays, and disk unless the directory sync failed.
FailedSave ==
    /\ UNCHANGED <<mem, secret, known>>
    /\ disk' \in StoreRec
    /\ \A h \in Hosts : Pins(disk'.prof, h) => known[h] # "none"
    /\ faults' \subseteq {"crash", "restore", "sync"}
    /\ "sync" \notin faults' => disk' = disk /\ faults' = faults

\* The stores after a failed save.
LEMMA FailedSaveFacts ==
    ASSUME CoreInv, NEW i \in Ops, gate \in {i, None}, op[i].pc # "publish", FailedSave
    PROVE  /\ StoreTypes' /\ PinsAreKnown'
           /\ "sync" \notin faults' => mem'.prof = disk'.prof /\ mem'.rest = disk'.rest
<1>1. StoreTypes'
  BY DEF FailedSave, CoreInv, StoreTypes
<1>2. PinsAreKnown'
  BY DEF FailedSave, CoreInv, PinsAreKnown
<1> QED BY <1>1, <1>2, AgreeNow DEF FailedSave

\* A candidate whose pins are recorded, saved without success.
LEMMA SaveFailsIsFailedSave ==
    ASSUME CoreInv, UNCHANGED <<mem, secret, known>>,
           \/ UNCHANGED <<disk, faults>>
           \/ \E c \in StoreRec : /\ SaveFails(c)
                                  /\ \A h \in Hosts : Pins(c.prof, h) => known[h] # "none"
    PROVE  FailedSave
<1>1. CASE UNCHANGED <<disk, faults>>
  BY <1>1 DEF FailedSave, CoreInv, StoreTypes, PinsAreKnown
<1>2. ASSUME NEW c \in StoreRec, SaveFails(c), \A h \in Hosts : Pins(c.prof, h) => known[h] # "none"
      PROVE  FailedSave
  <2>1. /\ disk' \in {disk, c}
        /\ faults' \subseteq {"crash", "restore", "sync"}
        /\ "sync" \notin faults' => disk' = disk /\ faults' = faults
    BY <1>2, SaveFailsFacts DEF CoreInv
  <2>2. disk \in StoreRec /\ \A h \in Hosts : Pins(disk.prof, h) => known[h] # "none"
    BY DEF CoreInv, StoreTypes, PinsAreKnown
  <2> QED BY <1>2, <2>1, <2>2 DEF FailedSave
<1> QED BY <1>1, <1>2

\* A failed commit returns, or goes on to restore the secrets.
LEMMA RestoresPreserves ==
    ASSUME CoreInv, NEW i \in Ops, op[i].pc = "commit", Restores(i), FailedSave
    PROVE  CoreInv'
<1>1. /\ gate = i /\ op[i] \in OpRec /\ op[i] # Idle /\ op[i].pc # "idle"
      /\ RequestFacts(op[i]) /\ PlaceFacts(i)
  BY AtPlace
<1>2. /\ StoreTypes' /\ PinsAreKnown'
      /\ "sync" \notin faults' => mem'.prof = disk'.prof /\ mem'.rest = disk'.rest
  BY <1>1, FailedSaveFacts
<1>3. CASE End(i)
  BY <1>1, <1>2, <1>3, CoreReturn
<1>4. CASE /\ DOMAIN op[i].bak # {}
           /\ Go(i, "undo") /\ ReleaseToken(i) /\ UNCHANGED gate
  <2> DEFINE r == [op[i] EXCEPT !.pc = "undo"]
  <2>1. "undo" \in Pcs \ {"idle"}
    BY DEF Pcs
  <2>2. Becomes(i, r)
    BY <1>1, <1>4, <2>1, MoveTypes DEF CoreInv, GateInv
  <2>3. /\ r \in OpRec /\ r.pc = "undo" /\ r.kind = op[i].kind /\ r.exp = op[i].exp
        /\ r.new = op[i].new /\ r.bak = op[i].bak
    BY <1>1, <2>1, Zenon DEF OpRec
  <2> HIDE DEF r
  <2>4. GateInv'
    BY <1>1, <1>4, <2>2, <2>3, ReleaseWay DEF CoreInv
  <2>5. Agree'
    BY <1>2 DEF Agree
  <2>6. op[i].kind \in CredentialKinds
    BY <1>1, <1>4 DEF PlaceFacts
  <2>7. RequestFacts(op'[i])
    BY <1>1, <2>2, <2>3 DEF RequestFacts, Becomes
  <2>8. PlaceFacts(i)'
    BY <2>2, <2>3, <2>6 DEF PlaceFacts, Becomes
  <2> QED BY <1>1, <1>2, <2>2, <2>4, <2>5, <2>7, <2>8, CoreStep DEF Becomes
<1> QED BY <1>3, <1>4 DEF Restores

\* The profile is saved and then published.
LEMMA CommitProfilePreserves ==
    ASSUME CoreInv, NEW i \in Ops, CommitProfile(i)
    PROVE  CoreInv'
<1> DEFINE base == IF op[i].kind = "clear" THEN disk ELSE mem
           cand == [base EXCEPT !.prof = op[i].new]
           keep == op[i].kind = "remember" /\ op[i].new = op[i].exp
<1>0. /\ op[i].pc = "commit" /\ op[i].kind \in {"save", "remember", "clear", "delete"}
      /\ UNCHANGED <<secret, known>>
  BY DEF CommitProfile
<1>1. /\ gate = i /\ op[i] \in OpRec /\ op[i].pc # "idle"
      /\ RequestFacts(op[i]) /\ op[i].new \in Profiles
  BY <1>0, AtPlace
<1>2. MutationCurrent(i)
  BY <1>0 DEF CoreInv, GateInv, ExpectedStaysCurrent, Checked, Pcs, TokenKinds
<1>3. mem \in StoreRec /\ disk \in StoreRec /\ base \in StoreRec
  BY DEF CoreInv, StoreTypes
<1>4. \A h \in Hosts : Pins(op[i].new, h) => known[h] # "none"
  BY <1>0, <1>1, <1>2 DEF RequestFacts, MutationCurrent, CoreInv, PinsAreKnown
<1>5. "sync" \notin faults => mem.prof = disk.prof /\ mem.rest = disk.rest
  BY <1>0, <1>1, AgreeNow
<1>6. /\ cand \in StoreRec /\ cand.prof = op[i].new /\ cand.rest = base.rest
      /\ [mem EXCEPT !.prof = op[i].new] \in StoreRec
      /\ [mem EXCEPT !.prof = op[i].new].prof = op[i].new
      /\ [mem EXCEPT !.prof = op[i].new].rest = mem.rest
  BY <1>1, <1>3, StoreUpdates
<1>7. CASE /\ IF keep THEN UNCHANGED disk ELSE disk' = cand
           /\ mem' = [mem EXCEPT !.prof = op[i].new]
           /\ End(i)
           /\ UNCHANGED faults
  <2>1. disk' \in StoreRec /\ mem' \in StoreRec /\ mem'.prof = op[i].new /\ mem'.rest = mem.rest
    BY <1>3, <1>6, <1>7
  <2>2. \/ disk' = disk /\ op[i].new = mem.prof
        \/ disk'.prof = op[i].new /\ disk'.rest \in {mem.rest, disk.rest}
    <3>1. CASE keep
      BY <1>2, <1>7, <3>1 DEF MutationCurrent
    <3>2. CASE ~keep
      BY <1>6, <1>7, <3>2
    <3> QED BY <3>1, <3>2
  <2> HIDE DEF base, cand, keep
  <2>3. "sync" \notin faults' => mem'.prof = disk'.prof /\ mem'.rest = disk'.rest
    BY <1>5, <1>7, <2>1, <2>2
  <2>4. StoreTypes'
    BY <1>0, <1>7, <2>1 DEF CoreInv, StoreTypes
  <2>5. PinsAreKnown'
    BY <1>0, <1>4, <2>1, <2>2 DEF CoreInv, PinsAreKnown
  <2> QED BY <1>1, <1>7, <2>3, <2>4, <2>5, CoreReturn
<1>8. CASE /\ SaveFails(cand) \/ UNCHANGED <<disk, faults>>
           /\ Restores(i)
           /\ UNCHANGED mem
  <2> HIDE DEF cand
  <2>1. FailedSave
    BY <1>0, <1>4, <1>6, <1>8, SaveFailsIsFailedSave
  <2> QED BY <1>0, <1>8, <2>1, RestoresPreserves
<1> QED BY <1>7, <1>8 DEF CommitProfile, SaveOk

\* The reference of a rejected or missing password goes.
LEMMA CommitCleanupPreserves ==
    ASSUME CoreInv, NEW i \in Ops, CommitCleanup(i)
    PROVE  CoreInv'
<1> DEFINE p == [mem.prof EXCEPT !.store = None, !.auto = FALSE]
           cand == [mem EXCEPT !.prof.store = None, !.prof.auto = FALSE]
<1>0. /\ op[i].pc = "commit" /\ op[i].kind \in CleanupKinds
      /\ UNCHANGED <<secret, known>>
  BY DEF CommitCleanup
<1>1. /\ gate = i /\ op[i].pc # "idle" /\ op[i].exp \in ProfileRec
  BY <1>0, AtPlace DEF RequestFacts, CleanupKinds
<1>2. mem \in StoreRec
  BY DEF CoreInv, StoreTypes
<1>3. cand = [mem EXCEPT !.prof = p]
  BY <1>2 DEF StoreRec
<1>4. ASSUME mem.prof = op[i].exp
      PROVE  /\ cand \in StoreRec /\ cand.prof = p /\ cand.rest = mem.rest
             /\ \A h \in Hosts : Pins(cand.prof, h) => known[h] # "none"
  <2>1. p \in Profiles /\ \A h \in Hosts : Pins(p, h) <=> Pins(mem.prof, h)
    BY <1>1, <1>4, ProfileUpdates DEF Profiles
  <2> HIDE DEF p, cand
  <2>2. cand \in StoreRec /\ cand.prof = p /\ cand.rest = mem.rest
    BY <1>2, <1>3, <2>1, StoreUpdates
  <2> QED BY <2>1, <2>2 DEF CoreInv, PinsAreKnown
<1> HIDE DEF cand, p
<1>5. CASE /\ mem.prof = op[i].exp
           /\ disk' = cand /\ mem' = cand
           /\ End(i)
           /\ UNCHANGED faults
  <2>1. StoreTypes' /\ PinsAreKnown'
    BY <1>0, <1>4, <1>5 DEF CoreInv, StoreTypes, PinsAreKnown
  <2> QED BY <1>1, <1>5, <2>1, CoreReturn
<1>6. CASE /\ IF mem.prof = op[i].exp THEN SaveFails(cand) ELSE UNCHANGED <<disk, faults>>
           /\ Restores(i)
           /\ UNCHANGED mem
  <2>1. FailedSave
    BY <1>0, <1>4, <1>6, SaveFailsIsFailedSave
  <2> QED BY <1>0, <1>6, <2>1, RestoresPreserves
<1> QED BY <1>5, <1>6 DEF CommitCleanup, SaveOk, cand

\* The secrets are restored, or some of them are not.
LEMMA RollbackPreserves ==
    ASSUME CoreInv, NEW i \in Ops, Rollback(i)
    PROVE  CoreInv'
<1> DEFINE old == Overlay(op[i].bak, secret)
<1>0. op[i].pc = "undo" /\ End(i) /\ UNCHANGED <<mem, disk, known>>
  BY DEF Rollback
<1>1. gate = i /\ op[i].pc # "idle" /\ op[i].bak \in Changes
  BY <1>0, AtPlace
<1>2. secret \in [Slots -> Values] /\ faults \subseteq {"crash", "restore", "sync"}
  BY DEF CoreInv, StoreTypes
<1>3. old \in [Slots -> Values] /\ \A f \in Halfway(secret, old) : f \in [Slots -> Values]
  BY <1>1, <1>2, SecretTypes
<1>4. secret' \in [Slots -> Values] /\ faults' \subseteq {"crash", "restore", "sync"}
      /\ faults \subseteq faults'
  BY <1>2, <1>3 DEF Rollback
<1> QED BY <1>0, <1>1, <1>4, QuietReturn

\* A save that returns, with or without success: memory and disk agree again.
LEMMA SaveReturns ==
    ASSUME CoreInv, NEW i \in Ops, op[i].pc = "commit", End(i), UNCHANGED <<secret, known>>,
           NEW c \in StoreRec, NEW m \in StoreRec,
           \A h \in Hosts : Pins(c.prof, h) => known[h] # "none",
           \A h \in Hosts : Pins(m.prof, h) => known[h] # "none",
           "sync" \notin faults => m.prof = c.prof /\ m.rest = c.rest,
           \/ disk' = c /\ mem' = m /\ UNCHANGED faults
           \/ SaveFails(c) /\ UNCHANGED mem
    PROVE  CoreInv'
<1>1. gate = i /\ op[i].pc # "idle"
  BY AtPlace
<1>2. CASE disk' = c /\ mem' = m /\ UNCHANGED faults
  <2>1. StoreTypes' /\ PinsAreKnown'
    BY <1>2 DEF CoreInv, StoreTypes, PinsAreKnown
  <2> QED BY <1>1, <1>2, <2>1, CoreReturn
<1>3. CASE SaveFails(c) /\ UNCHANGED mem
  <2>1. FailedSave
    BY <1>3, SaveFailsIsFailedSave
  <2> QED BY <1>1, <1>3, <2>1, FailedSaveFacts, CoreReturn DEF FailedSave
<1> QED BY <1>2, <1>3

\* Settings and the parts of the store that go with them are saved.
LEMMA CommitSettingsPreserves ==
    ASSUME CoreInv, NEW i \in Ops, CommitSettings(i)
    PROVE  CoreInv'
<1> DEFINE k == op[i].kind
<1>0. /\ op[i].pc = "commit" /\ k \in {"settings", "audio", "lang"}
      /\ End(i) /\ UNCHANGED <<secret, known>>
  BY DEF CommitSettings
<1>1. gate = i
  BY <1>0, AtPlace
<1>2. /\ mem \in StoreRec /\ disk \in StoreRec
      /\ \A h \in Hosts : Pins(mem.prof, h) \/ Pins(disk.prof, h) => known[h] # "none"
  BY DEF CoreInv, StoreTypes, PinsAreKnown
<1>3. "sync" \notin faults => mem.prof = disk.prof /\ mem.rest = disk.rest
  BY <1>0, <1>1, AgreeNow
<1>4. PICK s \in Settings, v \in BOOLEAN :
          LET cand == CASE k = "settings" -> [mem EXCEPT !.set = s]
                        [] k = "audio" -> [mem EXCEPT !.rest["audio"] = v]
                        [] k = "lang" -> [disk EXCEPT !.rest["lang"] = v]
          IN \/ /\ SaveOk(cand)
                /\ mem' = IF k = "lang" THEN [mem EXCEPT !.rest["lang"] = v] ELSE cand
                /\ UNCHANGED faults
             \/ SaveFails(cand) /\ UNCHANGED mem
  BY DEF CommitSettings
<1>5. CASE k = "settings"
  <2> DEFINE c == [mem EXCEPT !.set = s]
  <2>1. c \in StoreRec /\ c.prof = mem.prof /\ c.rest = mem.rest
    BY <1>2, StoreUpdates
  <2>2. \/ disk' = c /\ mem' = c /\ UNCHANGED faults
        \/ SaveFails(c) /\ UNCHANGED mem
    BY <1>4, <1>5 DEF SaveOk
  <2> HIDE DEF c
  <2> QED BY <1>0, <1>2, <2>1, <2>2, SaveReturns
<1>6. CASE k = "audio"
  <2> DEFINE c == [mem EXCEPT !.rest["audio"] = v]
  <2>1. c \in StoreRec /\ c.prof = mem.prof
    BY <1>2, StoreUpdates
  <2>2. \/ disk' = c /\ mem' = c /\ UNCHANGED faults
        \/ SaveFails(c) /\ UNCHANGED mem
    BY <1>4, <1>6 DEF SaveOk
  <2> HIDE DEF c
  <2> QED BY <1>0, <1>2, <2>1, <2>2, SaveReturns
<1>7. CASE k = "lang"
  <2> DEFINE c == [disk EXCEPT !.rest["lang"] = v]
             m == [mem EXCEPT !.rest["lang"] = v]
  <2>1. /\ c \in StoreRec /\ c.prof = disk.prof /\ c.rest = [disk.rest EXCEPT !["lang"] = v]
        /\ m \in StoreRec /\ m.prof = mem.prof /\ m.rest = [mem.rest EXCEPT !["lang"] = v]
    BY <1>2, StoreUpdates
  <2>2. \/ disk' = c /\ mem' = m /\ UNCHANGED faults
        \/ SaveFails(c) /\ UNCHANGED mem
    BY <1>4, <1>7 DEF SaveOk
  <2> HIDE DEF c, m
  <2>3. "sync" \notin faults => m.prof = c.prof /\ m.rest = c.rest
    BY <1>3, <2>1
  <2> QED BY <1>0, <1>2, <2>1, <2>2, <2>3, SaveReturns
<1> QED BY <1>0, <1>5, <1>6, <1>7

\* A detection is saved, dropped, or waits for the mutation that is pending.
LEMMA CommitDetectionPreserves ==
    ASSUME CoreInv, NEW i \in Ops, CommitDetection(i)
    PROVE  CoreInv'
<1> DEFINE d == [host |-> op[i].exp.host, pin |-> op[i].exp.pin]
           cand == [disk EXCEPT !.prof.det = d]
           mcand == [mem EXCEPT !.prof.det = d]
<1>0. op[i].pc = "commit" /\ op[i].kind = "detect" /\ UNCHANGED <<secret, known>>
  BY DEF CommitDetection
<1>1. /\ gate = i /\ op[i] \in OpRec /\ op[i] # Idle /\ op[i].pc # "idle"
      /\ op[i].exp \in ProfileRec /\ RequestFacts(op[i]) /\ PlaceFacts(i)
  BY <1>0, AtPlace DEF RequestFacts
<1>2. d \in Detections
  BY <1>1 DEF ProfileRec, Detections
<1> HIDE DEF d
<1>3. /\ mem \in StoreRec /\ disk \in StoreRec /\ secret \in [Slots -> Values]
      /\ faults \subseteq {"crash", "restore", "sync"}
      /\ \A h \in Hosts : Pins(mem.prof, h) \/ Pins(disk.prof, h) => known[h] # "none"
  BY DEF CoreInv, StoreTypes, PinsAreKnown
<1>4. "sync" \notin faults => mem.prof = disk.prof /\ mem.rest = disk.rest
  BY <1>0, <1>1, AgreeNow
<1>5. CASE End(i) /\ UNCHANGED <<mem, disk, faults>>
  BY <1>0, <1>1, <1>3, <1>5, QuietReturn
<1>6. CASE /\ op[i].tries + 1 # DetectTries
           /\ op' = [op EXCEPT ![i].pc = "wait", ![i].tries = @ + 1]
           /\ gate' = None
           /\ UNCHANGED <<pending, mem, disk, faults>>
  <2> DEFINE n == op[i].tries + 1
             r == [op[i] EXCEPT !.pc = "wait", !.tries = n]
  <2>1. n \in 0 .. DetectTries - 1
    <3>1. op[i].tries \in 0 .. DetectTries - 1
      BY <1>1 DEF OpRec
    <3> QED BY <1>6, <3>1, KindsAssumption
  <2>2. op' = [op EXCEPT ![i].pc = "wait", ![i].tries = n]
    BY <1>6
  <2> HIDE DEF n
  <2>3. "wait" \in Pcs \ {"idle"}
    BY DEF Pcs
  <2>4. Becomes(i, r)
    BY <1>1, <2>1, <2>2, <2>3, MoveTypes DEF CoreInv, GateInv
  <2>5. /\ r \in OpRec /\ r.pc = "wait" /\ r.kind = op[i].kind /\ r.exp = op[i].exp
        /\ r.new = op[i].new /\ r.bak = op[i].bak
    BY <1>1, <2>1, <2>3, Zenon DEF OpRec
  <2> HIDE DEF r
  <2>6. GateInv'
    BY <1>0, <1>1, <1>6, <2>4, <2>5, WaitWay DEF CoreInv, TokenKinds
  <2>7. StoreTypes' /\ PinsAreKnown' /\ Agree'
    BY <1>0, <1>4, <1>6 DEF CoreInv, StoreTypes, PinsAreKnown, Agree
  <2>8. RequestFacts(op'[i])
    BY <1>1, <2>4, <2>5 DEF RequestFacts, Becomes
  <2>9. PlaceFacts(i)'
    <3>1. DOMAIN op[i].bak = {}
      BY <1>0, <1>1 DEF PlaceFacts, CredentialKinds
    <3> QED BY <2>4, <2>5, <3>1, WaitingFacts DEF Becomes
  <2> QED BY <1>1, <2>4, <2>6, <2>7, <2>8, <2>9, CoreStep DEF Becomes
<1>7. CASE /\ Matches(d, mem.prof) /\ Matches(d, disk.prof)
           /\ \/ disk' = cand /\ mem' = mcand /\ UNCHANGED faults
              \/ SaveFails(cand) /\ UNCHANGED mem
           /\ End(i)
  <2>1. mem.prof \in ProfileRec /\ disk.prof \in ProfileRec
    BY <1>3, <1>7, StoreUpdates, GoneIsNoProfile DEF Matches
  <2>2. /\ cand = [disk EXCEPT !.prof = [disk.prof EXCEPT !.det = d]]
        /\ mcand = [mem EXCEPT !.prof = [mem.prof EXCEPT !.det = d]]
    BY <1>3 DEF StoreRec
  <2>3. /\ [disk.prof EXCEPT !.det = d] \in Profiles
        /\ [mem.prof EXCEPT !.det = d] \in Profiles
        /\ \A h \in Hosts : Pins([disk.prof EXCEPT !.det = d], h) <=> Pins(disk.prof, h)
        /\ \A h \in Hosts : Pins([mem.prof EXCEPT !.det = d], h) <=> Pins(mem.prof, h)
    BY <1>2, <2>1, ProfileUpdates DEF Profiles
  <2> HIDE DEF cand, mcand
  <2>4. /\ cand \in StoreRec /\ cand.prof = [disk.prof EXCEPT !.det = d] /\ cand.rest = disk.rest
        /\ mcand \in StoreRec /\ mcand.prof = [mem.prof EXCEPT !.det = d] /\ mcand.rest = mem.rest
    BY <1>3, <2>2, <2>3, StoreUpdates
  <2>5. /\ \A h \in Hosts : Pins(cand.prof, h) => known[h] # "none"
        /\ \A h \in Hosts : Pins(mcand.prof, h) => known[h] # "none"
    BY <1>3, <2>3, <2>4
  <2>6. "sync" \notin faults => mcand.prof = cand.prof /\ mcand.rest = cand.rest
    BY <1>4, <2>4
  <2> QED BY <1>0, <1>7, <2>4, <2>5, <2>6, SaveReturns
<1> QED BY <1>5, <1>6, <1>7 DEF CommitDetection, DetectionWaits, SaveOk, d

\* The key of a trust decision is recorded before the profile pins it.
LEMMA RecordKnownHostPreserves ==
    ASSUME CoreInv, NEW i \in Ops, RecordKnownHost(i)
    PROVE  CoreInv'
<1>0. op[i].pc = "known" /\ UNCHANGED <<mem, disk, secret, faults>>
  BY DEF RecordKnownHost
<1>1. /\ gate = i /\ op[i] \in OpRec /\ op[i] # Idle /\ op[i].pc # "idle"
      /\ RequestFacts(op[i]) /\ PlaceFacts(i) /\ op[i].kind = "trust"
  BY <1>0, AtPlace DEF PlaceFacts
<1>2. op[i].exp.host \in Hosts
  BY <1>1 DEF RequestFacts, ProfileRec
<1>3. /\ secret \in [Slots -> Values] /\ faults \subseteq {"crash", "restore", "sync"}
      /\ known \in [Hosts -> {"none", "trusted", "revoked"}]
  BY DEF CoreInv, StoreTypes
<1>4. CASE UNCHANGED known /\ End(i)
  BY <1>0, <1>1, <1>3, <1>4, QuietReturn
<1>5. CASE /\ known' = [known EXCEPT ![op[i].exp.host] = IF @ = "revoked" THEN @ ELSE "trusted"]
           /\ Go(i, "snap")
           /\ UNCHANGED <<gate, pending>>
  <2> DEFINE r == [op[i] EXCEPT !.pc = "snap"]
  <2>1. "snap" \in Pcs \ {"idle"} /\ "snap" \in Checked /\ "known" \in Checked
    BY DEF Pcs, Checked
  <2>2. Becomes(i, r)
    BY <1>1, <1>5, <2>1, MoveTypes DEF CoreInv, GateInv
  <2>3. /\ r \in OpRec /\ r.pc = "snap" /\ r.kind = op[i].kind /\ r.exp = op[i].exp
        /\ r.new = op[i].new /\ r.bak = op[i].bak
    BY <1>1, <2>1, Zenon DEF OpRec
  <2> HIDE DEF r
  <2>4. /\ known' \in [Hosts -> {"none", "trusted", "revoked"}]
        /\ known'[op[i].exp.host] # "none"
        /\ \A h \in Hosts : known[h] # "none" => known'[h] # "none"
    BY <1>2, <1>3, <1>5
  <2>5. GateInv'
    BY <1>0, <1>1, <1>5, <2>1, <2>2, <2>3, MoveWay DEF CoreInv
  <2>6. StoreTypes' /\ PinsAreKnown'
    BY <1>0, <2>4 DEF CoreInv, StoreTypes, PinsAreKnown
  <2>7. Agree'
    BY <1>0, <1>1, AgreeNow DEF Agree
  <2>8. RequestFacts(op'[i])
    BY <1>1, <2>2, <2>3 DEF RequestFacts, Becomes
  <2>9. PlaceFacts(i)'
    <3>1. DOMAIN op[i].bak = {}
      BY <1>0, <1>1 DEF PlaceFacts
    <3> QED BY <1>1, <2>2, <2>3, <2>4, <3>1 DEF PlaceFacts, Becomes, SnapshotKinds
  <2> QED BY <1>1, <2>2, <2>5, <2>6, <2>7, <2>8, <2>9, CoreStep DEF Becomes
<1> QED BY <1>4, <1>5 DEF RecordKnownHost

\* A candidate is taken, of the kind its operation saves.
LEMMA TakesCandidate ==
    ASSUME CoreInv, NEW i \in Ops, op[i].pc = "snap",
           NEW c \in StoreRec, op' = [op EXCEPT ![i].pc = "write", ![i].cand = c],
           UNCHANGED <<mem, disk, secret, known, gate, pending, faults>>,
           \A h \in Hosts : Pins(c.prof, h) => known[h] # "none" /\ op[i].kind # "revoke",
           (op[i].kind # "recents" /\ "sync" \notin faults) => c.rest = mem.rest,
           (op[i].kind = "recents" /\ "sync" \notin faults) =>
               c.prof = mem.prof /\ \A x \in {"lang", "audio"} : c.rest[x] = mem.rest[x],
           op[i].kind \in {"groups", "recents"} => c.set = disk.set
    PROVE  CoreInv'
<1> DEFINE r == [op[i] EXCEPT !.pc = "write", !.cand = c]
<1>1. /\ gate = i /\ op[i] \in OpRec /\ op[i] # Idle /\ op[i].pc # "idle"
      /\ RequestFacts(op[i]) /\ PlaceFacts(i)
  BY AtPlace
<1>2. "write" \in Pcs \ {"idle"} /\ "write" \in Checked /\ "snap" \in Checked
  BY DEF Pcs, Checked
<1>3. Becomes(i, r)
  BY <1>1, <1>2, MoveTypes DEF CoreInv, GateInv
<1>4. /\ r \in OpRec /\ r.pc = "write" /\ r.kind = op[i].kind /\ r.exp = op[i].exp
      /\ r.new = op[i].new /\ r.bak = op[i].bak /\ r.cand = c
  BY <1>1, <1>2, Zenon DEF OpRec
<1> HIDE DEF r
<1>5. GateInv'
  BY <1>1, <1>2, <1>3, <1>4, MoveWay DEF CoreInv
<1>6. StoreTypes' /\ PinsAreKnown'
  BY DEF CoreInv, StoreTypes, PinsAreKnown
<1>7. Agree'
  BY <1>1, AgreeNow DEF Agree
<1>8. RequestFacts(op'[i])
  BY <1>1, <1>3, <1>4 DEF RequestFacts, Becomes
<1>9. PlaceFacts(i)'
  <2>1. /\ DOMAIN op[i].bak = {} /\ op[i].kind \in SnapshotKinds
        /\ op[i].kind = "trust" => known[op[i].exp.host] # "none"
    BY <1>1 DEF PlaceFacts
  <2> QED BY <1>3, <1>4, <2>1 DEF PlaceFacts, Becomes
<1> QED BY <1>1, <1>3, <1>5, <1>6, <1>7, <1>8, <1>9, CoreStep DEF Becomes

\* The candidate of a trust decision, of a group operation, of a workspace list.
LEMMA TakeSnapshotPreserves ==
    ASSUME CoreInv, NEW i \in Ops, TakeSnapshot(i)
    PROVE  CoreInv'
<1> DEFINE k == op[i].kind
<1>0. op[i].pc = "snap" /\ UNCHANGED <<mem, disk, secret, known, faults>>
  BY DEF TakeSnapshot
<1>1. /\ gate = i /\ op[i].pc # "idle" /\ RequestFacts(op[i]) /\ PlaceFacts(i)
      /\ op[i].new \in Profiles
  BY <1>0, AtPlace
<1>2. /\ mem \in StoreRec /\ disk \in StoreRec /\ secret \in [Slots -> Values]
      /\ faults \subseteq {"crash", "restore", "sync"} /\ mem.prof \in Profiles
      /\ \A h \in Hosts : Pins(mem.prof, h) \/ Pins(disk.prof, h) => known[h] # "none"
  BY StoreUpdates DEF CoreInv, StoreTypes, PinsAreKnown
<1>3. "sync" \notin faults => mem.prof = disk.prof /\ mem.rest = disk.rest
  BY <1>0, <1>1, AgreeNow
<1>4. CASE End(i)
  BY <1>0, <1>1, <1>2, <1>4, QuietReturn
<1>5. CASE /\ k \in {"trust", "revoke"} /\ MutationCurrent(i)
           /\ op' = [op EXCEPT ![i].pc = "write", ![i].cand = [mem EXCEPT !.prof = op[i].new]]
           /\ UNCHANGED <<gate, pending>>
  <2> DEFINE c == [mem EXCEPT !.prof = op[i].new]
  <2>1. c \in StoreRec /\ c.prof = op[i].new /\ c.rest = mem.rest
    BY <1>1, <1>2, StoreUpdates
  <2>2. \A h \in Hosts : Pins(c.prof, h) => known[h] # "none" /\ k # "revoke"
    <3>1. k = "trust" => known[op[i].exp.host] # "none"
      BY <1>0, <1>1 DEF PlaceFacts
    <3> QED BY <1>1, <1>2, <1>5, <2>1, <3>1 DEF RequestFacts, MutationCurrent
  <2>3. op' = [op EXCEPT ![i].pc = "write", ![i].cand = c]
    BY <1>5
  <2> HIDE DEF c
  <2> QED BY <1>0, <1>5, <2>1, <2>2, <2>3, TakesCandidate
<1>6. CASE k = "groups" /\ ~End(i)
  <2>1. PICK g \in Groups :
            op' = [op EXCEPT ![i].pc = "write", ![i].cand =
                      [disk EXCEPT !.prof = IF mem.prof = Gone THEN Gone
                                            ELSE [mem.prof EXCEPT !.group = g]]]
    BY <1>6 DEF TakeSnapshot, SnapshotBase
  <2>2. PICK q \in Profiles :
            /\ q = IF mem.prof = Gone THEN Gone ELSE [mem.prof EXCEPT !.group = g]
            /\ \A h \in Hosts : Pins(q, h) => Pins(mem.prof, h)
    <3>1. CASE mem.prof = Gone
      BY <3>1 DEF Profiles
    <3>2. CASE mem.prof # Gone
      BY ZenonT(40), <1>2, <3>2, GoneIsNoProfile, ProfileUpdates DEF Profiles
    <3> QED BY <3>1, <3>2
  <2> DEFINE c == [disk EXCEPT !.prof = q]
  <2>3. c \in StoreRec /\ c.prof = q /\ c.rest = disk.rest /\ c.set = disk.set
    BY <1>2, StoreUpdates
  <2>4. op' = [op EXCEPT ![i].pc = "write", ![i].cand = c]
    BY <2>1, <2>2
  <2>5. UNCHANGED <<gate, pending>>
    BY <1>6 DEF TakeSnapshot
  <2> HIDE DEF c
  <2>6. /\ \A h \in Hosts : Pins(c.prof, h) => known[h] # "none" /\ op[i].kind # "revoke"
        /\ "sync" \notin faults => c.rest = mem.rest
        /\ op[i].kind = "groups" /\ c.set = disk.set
    BY <1>2, <1>3, <1>6, <2>2, <2>3
  <2> QED BY <1>0, <2>3, <2>4, <2>5, <2>6, TakesCandidate
<1>7. CASE k = "recents" /\ ~End(i)
  <2>1. PICK v \in BOOLEAN :
            op' = [op EXCEPT ![i].pc = "write", ![i].cand = [disk EXCEPT !.rest["recents"] = v]]
    BY <1>7 DEF TakeSnapshot, SnapshotBase
  <2> DEFINE c == [disk EXCEPT !.rest["recents"] = v]
  <2>2. /\ c \in StoreRec /\ c.prof = disk.prof /\ c.set = disk.set
        /\ c.rest = [disk.rest EXCEPT !["recents"] = v]
    BY <1>2, StoreUpdates
  <2>3. op' = [op EXCEPT ![i].pc = "write", ![i].cand = c]
    BY <2>1
  <2>4. UNCHANGED <<gate, pending>>
    BY <1>7 DEF TakeSnapshot
  <2> HIDE DEF c
  <2>5. disk.rest \in [{"recents", "lang", "audio"} -> BOOLEAN]
    BY <1>2, StoreUpdates
  <2>6. \A x \in {"lang", "audio"} : c.rest[x] = disk.rest[x]
    BY <2>2, <2>5
  <2>7. /\ \A h \in Hosts : Pins(c.prof, h) => known[h] # "none" /\ op[i].kind # "revoke"
        /\ "sync" \notin faults =>
               c.prof = mem.prof /\ \A x \in {"lang", "audio"} : c.rest[x] = mem.rest[x]
        /\ op[i].kind = "recents" /\ c.set = disk.set
    BY <1>2, <1>3, <1>7, <2>2, <2>6
  <2> QED BY <1>0, <2>2, <2>3, <2>4, <2>7, TakesCandidate
<1> QED BY <1>4, <1>5, <1>6, <1>7 DEF TakeSnapshot, SnapshotBase

\* The candidate is saved, memory is not changed yet.
LEMMA WriteSnapshotPreserves ==
    ASSUME CoreInv, NEW i \in Ops, WriteSnapshot(i)
    PROVE  CoreInv'
<1> DEFINE c == op[i].cand
<1>0. op[i].pc = "write" /\ UNCHANGED <<mem, secret, known>>
  BY DEF WriteSnapshot
<1>1. /\ gate = i /\ op[i] \in OpRec /\ op[i] # Idle /\ op[i].pc # "idle"
      /\ RequestFacts(op[i]) /\ PlaceFacts(i)
  BY <1>0, AtPlace
<1>2. c \in StoreRec /\ \A h \in Hosts : Pins(c.prof, h) => known[h] # "none"
  BY <1>0, <1>1 DEF PlaceFacts
<1>3. CASE disk' = c /\ Go(i, "publish") /\ UNCHANGED <<gate, pending, faults>>
  <2> DEFINE r == [op[i] EXCEPT !.pc = "publish"]
  <2>1. "publish" \in Pcs \ {"idle"} /\ "publish" \in Checked /\ "write" \in Checked
    BY DEF Pcs, Checked
  <2>2. Becomes(i, r)
    BY <1>1, <1>3, <2>1, MoveTypes DEF CoreInv, GateInv
  <2>3. /\ r \in OpRec /\ r.pc = "publish" /\ r.kind = op[i].kind /\ r.exp = op[i].exp
        /\ r.new = op[i].new /\ r.bak = op[i].bak /\ r.cand = c
    BY <1>1, <2>1, Zenon DEF OpRec
  <2> HIDE DEF r
  <2>4. GateInv'
    BY <1>0, <1>1, <1>3, <2>1, <2>2, <2>3, MoveWay DEF CoreInv
  <2>5. StoreTypes' /\ PinsAreKnown'
    BY <1>0, <1>2, <1>3 DEF CoreInv, StoreTypes, PinsAreKnown
  <2>6. Agree'
    BY <2>2, <2>3 DEF Agree, Becomes
  <2>7. RequestFacts(op'[i])
    BY <1>1, <2>2, <2>3 DEF RequestFacts, Becomes
  <2>8. PlaceFacts(i)'
    BY <1>0, <1>1, <1>3, <2>2, <2>3 DEF PlaceFacts, Becomes
  <2> QED BY <1>1, <2>2, <2>4, <2>5, <2>6, <2>7, <2>8, CoreStep DEF Becomes
<1>4. CASE SaveFails(c) /\ End(i)
  <2>1. FailedSave
    BY <1>0, <1>2, <1>4, SaveFailsIsFailedSave
  <2> QED BY <1>0, <1>1, <1>4, <2>1, FailedSaveFacts, CoreReturn
<1> QED BY <1>3, <1>4 DEF WriteSnapshot, SaveOk

\* What was saved is published; the token goes before a revoked record does.
LEMMA PublishSnapshotPreserves ==
    ASSUME CoreInv, NEW i \in Ops, PublishSnapshot(i)
    PROVE  CoreInv'
<1> DEFINE k == op[i].kind
           c == op[i].cand
<1>0. op[i].pc = "publish" /\ UNCHANGED <<disk, secret, known, faults>>
  BY DEF PublishSnapshot
<1>1. /\ gate = i /\ op[i] \in OpRec /\ op[i] # Idle /\ op[i].pc # "idle"
      /\ RequestFacts(op[i]) /\ PlaceFacts(i)
  BY <1>0, AtPlace
<1>2. /\ disk = c /\ c \in StoreRec /\ k \in SnapshotKinds
      /\ \A h \in Hosts : Pins(c.prof, h) => known[h] # "none" /\ k # "revoke"
      /\ (k # "recents" /\ "sync" \notin faults) => c.rest = mem.rest
      /\ (k = "recents" /\ "sync" \notin faults) =>
             c.prof = mem.prof /\ \A x \in {"lang", "audio"} : c.rest[x] = mem.rest[x]
  BY <1>0, <1>1 DEF PlaceFacts
<1>3. /\ mem \in StoreRec /\ c.prof \in Profiles
      /\ mem.rest \in [{"recents", "lang", "audio"} -> BOOLEAN]
      /\ c.rest \in [{"recents", "lang", "audio"} -> BOOLEAN]
      /\ \A h \in Hosts : Pins(mem.prof, h) \/ Pins(disk.prof, h) => known[h] # "none"
  BY <1>2, StoreUpdates DEF CoreInv, StoreTypes, PinsAreKnown
<1>4. k \in {"trust", "revoke"} => MutationCurrent(i)
  BY <1>0 DEF CoreInv, GateInv, ExpectedStaysCurrent, Checked, Pcs, TokenKinds
<1>5. ASSUME mem' \in StoreRec, \A h \in Hosts : Pins(mem'.prof, h) => known[h] # "none"
      PROVE  StoreTypes' /\ PinsAreKnown'
  BY <1>0, <1>3, <1>5 DEF CoreInv, StoreTypes, PinsAreKnown
<1>6. CASE k \in {"trust", "revoke"} /\ mem' = c /\ End(i)
  BY <1>0, <1>1, <1>2, <1>5, <1>6, CoreReturn
<1>7. CASE k = "revoke" /\ mem' = c /\ Go(i, "forget") /\ ReleaseToken(i) /\ UNCHANGED gate
  <2> DEFINE r == [op[i] EXCEPT !.pc = "forget"]
  <2>1. "forget" \in Pcs \ {"idle"}
    BY DEF Pcs
  <2>2. Becomes(i, r)
    BY <1>1, <1>7, <2>1, MoveTypes DEF CoreInv, GateInv
  <2>3. /\ r \in OpRec /\ r.pc = "forget" /\ r.kind = op[i].kind /\ r.exp = op[i].exp
        /\ r.new = op[i].new /\ r.bak = op[i].bak
    BY <1>1, <2>1, Zenon DEF OpRec
  <2> HIDE DEF r
  <2>4. GateInv'
    BY <1>1, <1>7, <2>2, <2>3, ReleaseWay DEF CoreInv
  <2>5. StoreTypes' /\ PinsAreKnown' /\ Agree'
    BY <1>0, <1>2, <1>5, <1>7 DEF Agree
  <2>6. RequestFacts(op'[i])
    BY <1>1, <2>2, <2>3 DEF RequestFacts, Becomes
  <2>7. PlaceFacts(i)'
    <3>1. DOMAIN op[i].bak = {}
      BY <1>0, <1>1 DEF PlaceFacts
    <3>2. \A h \in Hosts : ~Pins(mem'.prof, h) /\ ~Pins(disk'.prof, h)
      BY <1>0, <1>2, <1>7
    <3> QED BY <2>2, <2>3, <3>1, <3>2 DEF PlaceFacts, Becomes
  <2> QED BY <1>1, <2>2, <2>4, <2>5, <2>6, <2>7, CoreStep DEF Becomes
<1>8. CASE k = "groups" /\ mem' = [mem EXCEPT !.prof = c.prof] /\ End(i)
  <2>1. mem' \in StoreRec /\ mem'.prof = c.prof /\ mem'.rest = mem.rest
    BY <1>3, <1>8, StoreUpdates
  <2> QED BY <1>0, <1>1, <1>2, <1>5, <1>8, <2>1, CoreReturn
<1>9. CASE k = "recents" /\ mem' = [mem EXCEPT !.rest["recents"] = c.rest["recents"]] /\ End(i)
  <2>1. c.rest["recents"] \in BOOLEAN
    BY <1>3
  <2>2. /\ mem' \in StoreRec /\ mem'.prof = mem.prof
        /\ mem'.rest = [mem.rest EXCEPT !["recents"] = c.rest["recents"]]
    BY <1>3, <1>9, <2>1, StoreUpdates
  <2>3. "sync" \notin faults => mem'.rest = c.rest
    <3> SUFFICES ASSUME "sync" \notin faults PROVE mem'.rest = c.rest
      OBVIOUS
    <3>1. c.rest["lang"] = mem.rest["lang"] /\ c.rest["audio"] = mem.rest["audio"]
      BY <1>2, <1>9
    <3> QED BY <1>3, <2>2, <3>1
  <2> QED BY <1>0, <1>1, <1>2, <1>3, <1>5, <1>9, <2>2, <2>3, CoreReturn
<1> QED BY <1>2, <1>4, <1>6, <1>7, <1>8, <1>9 DEF PublishSnapshot

\* The revoked record goes when no profile pins the key.
LEMMA ForgetKnownHostPreserves ==
    ASSUME CoreInv, NEW i \in Ops, ForgetKnownHost(i)
    PROVE  CoreInv'
<1>0. op[i].pc = "forget" /\ End(i) /\ UNCHANGED <<mem, disk, secret, faults>>
  BY DEF ForgetKnownHost
<1>1. gate = i /\ op[i].pc # "idle" /\ PlaceFacts(i)
  BY <1>0, AtPlace
<1>2. \A h \in Hosts : ~Pins(mem.prof, h) /\ ~Pins(disk.prof, h)
  BY <1>0, <1>1 DEF PlaceFacts
<1>3. known' \in [Hosts -> {"none", "trusted", "revoked"}]
  BY DEF ForgetKnownHost, CoreInv, StoreTypes
<1>4. StoreTypes' /\ PinsAreKnown'
  BY <1>0, <1>2, <1>3 DEF CoreInv, StoreTypes, PinsAreKnown
<1> QED BY <1>0, <1>1, <1>4, AgreeNow, CoreReturn

\* What happens outside the operations: a preview, a lost secret, a revoked key.
LEMMA OutsidePreserves ==
    ASSUME CoreInv, PreviewSettings \/ LoseSecret \/ RevokeKey
    PROVE  CoreInv'
<1>0. UNCHANGED <<disk, gate, pending, op, faults>>
  BY DEF PreviewSettings, LoseSecret, RevokeKey
<1>1. /\ mem \in StoreRec /\ secret \in [Slots -> Values]
      /\ known \in [Hosts -> {"none", "trusted", "revoked"}]
  BY DEF CoreInv, StoreTypes
<1>2. mem' \in StoreRec /\ mem'.prof = mem.prof /\ mem'.rest = mem.rest
  <2>1. mem' = mem \/ \E s \in Settings : mem' = [mem EXCEPT !.set = s]
    BY DEF PreviewSettings, LoseSecret, RevokeKey
  <2>2. ASSUME NEW s \in Settings, mem' = [mem EXCEPT !.set = s]
        PROVE  mem' \in StoreRec /\ mem'.prof = mem.prof /\ mem'.rest = mem.rest
    BY <1>1, <2>2, StoreUpdates
  <2> QED BY <1>1, <2>1, <2>2
<1>3. secret' \in [Slots -> Values]
  BY <1>1 DEF PreviewSettings, LoseSecret, RevokeKey, Values
<1>4. /\ known' \in [Hosts -> {"none", "trusted", "revoked"}]
      /\ \A h \in Hosts : known[h] # "none" => known'[h] # "none"
  BY <1>1 DEF PreviewSettings, LoseSecret, RevokeKey
<1>5. GateInv'
  BY <1>0, <1>2, OutsideWay DEF CoreInv
<1>6. StoreTypes' /\ PinsAreKnown'
  BY <1>0, <1>2, <1>3, <1>4 DEF CoreInv, StoreTypes, PinsAreKnown
<1>7. Agree'
  BY <1>0, <1>2 DEF CoreInv, Agree
<1>8. ASSUME NEW j \in Ops, op[j] # Idle, RequestFacts(op[j]), PlaceFacts(j) PROVE PlaceFacts(j)'
  <2>1. op[j].kind = "trust" => op[j].exp.host \in Hosts
    BY <1>8 DEF RequestFacts, ProfileRec
  <2> QED BY <1>0, <1>2, <1>4, <1>8, <2>1 DEF PlaceFacts
<1> QED BY <1>0, <1>5, <1>6, <1>7, <1>8 DEF CoreInv

\* A restart loads the saved store, without any operation.
LEMMA RestartPreserves ==
    ASSUME CoreInv, Restart
    PROVE  CoreInv'
<1>1. mem' = disk /\ UNCHANGED <<disk, secret, known>> /\ op' = [i \in Ops |-> Idle]
  BY DEF Restart
<1>2. faults' \subseteq {"crash", "restore", "sync"}
  BY DEF Restart, CoreInv, StoreTypes
<1>3. StoreTypes' /\ PinsAreKnown' /\ Agree'
  BY <1>1, <1>2 DEF CoreInv, StoreTypes, PinsAreKnown, Agree
<1>4. \A i \in Ops : op'[i] = Idle
  BY <1>1
<1> QED BY <1>3, <1>4, RestartWay DEF CoreInv

\* A loaded store, and nothing in progress.
LEMMA CoreInit == Init => CoreInv
<1> SUFFICES ASSUME Init PROVE CoreInv
  OBVIOUS
<1>1. PICK s \in Settings, p \in Plain \cup {Gone} :
          mem = [prof |-> p, set |-> s, rest |-> [k \in {"recents", "lang", "audio"} |-> FALSE]]
  BY DEF Init
<1>2. p \in Profiles /\ \A h \in Hosts : ~Pins(p, h)
  BY DEF Plain, Pins, Profiles
<1>3. mem \in StoreRec /\ mem.prof = p
  BY <1>1, <1>2 DEF StoreRec, Profiles
<1>4. \A i \in Ops : op[i] = Idle
  BY DEF Init
<1>5. Idle.pc = "idle"
  BY DEF Idle
<1>6. /\ disk = mem /\ secret \in [Slots -> Values] /\ faults = {} /\ gate = None /\ pending = None
      /\ known \in [Hosts -> {"none", "trusted", "revoked"}] /\ op \in [Ops -> OpRec \cup {Idle}]
  BY DEF Init, Values
<1>7. GateInv
  BY <1>4, <1>5, <1>6, NoneIsNoOp DEF GateInv, OpTypes, Reserved, TokenHasOwner,
     ExpectedStaysCurrent, Checked
<1>8. StoreTypes /\ Agree /\ PinsAreKnown
  BY <1>2, <1>3, <1>6 DEF StoreTypes, Agree, PinsAreKnown
<1> QED BY <1>4, <1>7, <1>8 DEF CoreInv

\* Every step keeps the stores, the gate and the operations in order.
LEMMA CoreNext == CoreInv /\ [Next]_vars => CoreInv'
<1> SUFFICES ASSUME CoreInv, [Next]_vars PROVE CoreInv'
  OBVIOUS
<1>1. CASE Next
  <2>1. ASSUME NEW i \in Ops, Step(i) PROVE CoreInv'
    BY <2>1, ApplyCredentialPreserves, CommitProfilePreserves, CommitCleanupPreserves,
       RollbackPreserves, CommitSettingsPreserves, CommitDetectionPreserves,
       RecordKnownHostPreserves, TakeSnapshotPreserves, WriteSnapshotPreserves,
       PublishSnapshotPreserves, ForgetKnownHostPreserves DEF Step
  <2> QED BY <1>1, <2>1, RequestPreserves, AcquirePreserves, OutsidePreserves, RestartPreserves
          DEF Next
<1>2. CASE UNCHANGED vars
  BY <1>2 DEF vars, CoreInv, StoreTypes, GateInv, OpTypes, Reserved, TokenHasOwner,
     ExpectedStaysCurrent, MutationCurrent, PlaceFacts, Agree, PinsAreKnown
<1> QED BY <1>1, <1>2

\* CoreInv holds in every state of every behaviour.
LEMMA CoreAlways == Spec => []CoreInv
  BY CoreInit, CoreNext, PTL DEF Spec

-----------------------------------------------------------------------------
(* What follows from CoreInv.                                               *)

\* TypeOK: every operation leaves values that the program can hold.
THEOREM StoreTypeCorrect == Spec => []TypeOK
<1>1. CoreInv => TypeOK
  BY DEF CoreInv, StoreTypes, GateInv, OpTypes, TypeOK, Values
<1> QED BY <1>1, CoreAlways, PTL

\* TokenHasOwner: a mutation token is always held by an operation that still
\* has its commit ahead, so no profile stays reserved for ever.
THEOREM TokensAreReturned == Spec => []TokenHasOwner
<1>1. CoreInv => TokenHasOwner
  BY DEF CoreInv, GateInv
<1> QED BY <1>1, CoreAlways, PTL

\* ExpectedStaysCurrent: between its check and its commit a reserved operation
\* works on the published profile.
THEOREM ReservedStaysCurrent == Spec => []ExpectedStaysCurrent
<1>1. CoreInv => ExpectedStaysCurrent
  BY DEF CoreInv, GateInv
<1> QED BY <1>1, CoreAlways, PTL

\* PublishedIsSaved: while the gate is free, memory and disk agree on the
\* profile, the recent workspaces, the language and the audio settings.
THEOREM StoresAgree == Spec => []PublishedIsSaved
<1>1. CoreInv => PublishedIsSaved
  <2> SUFFICES ASSUME CoreInv, gate = None, "sync" \notin faults
               PROVE  mem.prof = disk.prof /\ mem.rest = disk.rest
    BY DEF PublishedIsSaved
  <2>1. \A i \in Ops : op[i].pc # "publish"
    BY NoneIsNoOp DEF CoreInv, GateInv
  <2> QED BY <2>1 DEF CoreInv, Agree
<1> QED BY <1>1, CoreAlways, PTL

\* The steps that may replace the saved store; none of them touches known_hosts.
Saves(i) ==
    \/ CommitProfile(i) \/ CommitCleanup(i) \/ CommitSettings(i)
    \/ CommitDetection(i) \/ WriteSnapshot(i)

\* Every other step leaves the saved store alone.
LEMMA OnlySavesReplace ==
    ASSUME [Next]_vars
    PROVE  disk' = disk \/ \E i \in Ops : Saves(i) /\ known' = known
<1>1. ASSUME NEW i \in Ops, Request(i) PROVE disk' = disk
  BY <1>1 DEF Request, SaveSession, SaveInput, RememberPassword, ClearSavedPassword,
     DeleteSession, TrustHostKey, RemoveRevokedKey, RejectedPassword, MissingPassword,
     RequestUpdate, Reserve, Queue
<1>2. ASSUME NEW i \in Ops, Acquire(i) \/ ApplyCredential(i) \/ Rollback(i)
                \/ RecordKnownHost(i) \/ TakeSnapshot(i) \/ PublishSnapshot(i) \/ ForgetKnownHost(i)
      PROVE  disk' = disk
  BY <1>2 DEF Acquire, ApplyCredential, Rollback, RecordKnownHost, TakeSnapshot,
     PublishSnapshot, ForgetKnownHost
<1>3. ASSUME NEW i \in Ops, Saves(i) PROVE known' = known
  BY <1>3 DEF Saves, CommitProfile, CommitCleanup, CommitSettings, CommitDetection, WriteSnapshot
<1>4. ASSUME PreviewSettings \/ LoseSecret \/ RevokeKey \/ Restart PROVE disk' = disk
  BY <1>4 DEF PreviewSettings, LoseSecret, RevokeKey, Restart
<1> QED BY <1>1, <1>2, <1>3, <1>4 DEF Next, Step, Saves, vars

\* The steps that may change a record of known_hosts.
LEMMA OnlyTrustStepsRecord ==
    ASSUME [Next]_vars
    PROVE  known' = known \/ RevokeKey
           \/ \E i \in Ops : RecordKnownHost(i) \/ ForgetKnownHost(i)
<1>1. ASSUME NEW i \in Ops, Request(i) PROVE known' = known
  BY <1>1 DEF Request, SaveSession, SaveInput, RememberPassword, ClearSavedPassword,
     DeleteSession, TrustHostKey, RemoveRevokedKey, RejectedPassword, MissingPassword,
     RequestUpdate, Reserve, Queue
<1>2. ASSUME NEW i \in Ops, Acquire(i) \/ ApplyCredential(i) \/ Rollback(i)
                \/ TakeSnapshot(i) \/ PublishSnapshot(i)
      PROVE  known' = known
  BY <1>2 DEF Acquire, ApplyCredential, Rollback, TakeSnapshot, PublishSnapshot
<1>3. ASSUME NEW i \in Ops, Saves(i) PROVE known' = known
  BY <1>3 DEF Saves, CommitProfile, CommitCleanup, CommitSettings, CommitDetection, WriteSnapshot
<1>4. ASSUME PreviewSettings \/ LoseSecret \/ Restart PROVE known' = known
  BY <1>4 DEF PreviewSettings, LoseSecret, Restart
<1> QED BY <1>1, <1>2, <1>3, <1>4 DEF Next, Step, Saves, vars

\* TrustIsOrdered: a key is recorded before the saved profile pins it, and a
\* revoked record goes only when neither profile pins the key.
THEOREM TrustDecisionsOrdered == Spec => TrustIsOrdered
<1> DEFINE Ordered == \A h \in Hosts :
               /\ Pins(disk'.prof, h) /\ ~Pins(disk.prof, h) => known[h] # "none"
               /\ known[h] = "revoked" /\ known'[h] # "revoked"
                      => ~Pins(mem.prof, h) /\ ~Pins(disk.prof, h)
<1>1. ASSUME CoreInv, CoreInv', [Next]_vars PROVE Ordered
  <2> SUFFICES ASSUME NEW h \in Hosts
               PROVE /\ Pins(disk'.prof, h) /\ ~Pins(disk.prof, h) => known[h] # "none"
                     /\ known[h] = "revoked" /\ known'[h] # "revoked"
                            => ~Pins(mem.prof, h) /\ ~Pins(disk.prof, h)
    OBVIOUS
  <2>1. ASSUME Pins(disk'.prof, h), ~Pins(disk.prof, h) PROVE known[h] # "none"
    <3>1. known' = known
      BY <1>1, <2>1, OnlySavesReplace
    <3>2. known'[h] # "none"
      BY <1>1, <2>1 DEF CoreInv, PinsAreKnown
    <3> QED BY <3>1, <3>2
  <2>2. ASSUME known[h] = "revoked", known'[h] # "revoked"
        PROVE  ~Pins(mem.prof, h) /\ ~Pins(disk.prof, h)
    <3>0. known \in [Hosts -> {"none", "trusted", "revoked"}]
      BY <1>1 DEF CoreInv, StoreTypes
    <3>1. ~RevokeKey
      BY <2>2, <3>0 DEF RevokeKey
    <3>2. PICK i \in Ops : RecordKnownHost(i) \/ ForgetKnownHost(i)
      BY <1>1, <2>2, <3>1, OnlyTrustStepsRecord
    <3>3. ~RecordKnownHost(i)
      BY <2>2, <3>0 DEF RecordKnownHost
    <3>4. op[i].pc = "forget"
      BY <3>2, <3>3 DEF ForgetKnownHost
    <3>5. PlaceFacts(i)
      BY <1>1, <3>4, AtPlace
    <3> QED BY <3>4, <3>5 DEF PlaceFacts
  <2> QED BY <2>1, <2>2
<1>2. Spec => [][Ordered]_vars
  BY <1>1, CoreAlways, PTL DEF Spec
<1> QED BY <1>2 DEF TrustIsOrdered

\* PreviewStaysTransient: an operation that starts from the saved store never
\* saves a setting that is only previewed.
THEOREM PreviewsAreNotSaved == Spec => PreviewStaysTransient
<1> DEFINE FromDisk == {"clear", "lang", "groups", "recents", "detect"}
           Transient == gate # None /\ op[gate].kind \in FromDisk => disk'.set = disk.set
<1>1. ASSUME CoreInv, [Next]_vars PROVE Transient
  <2> SUFFICES ASSUME gate # None, op[gate].kind \in FromDisk, disk' # disk
               PROVE  disk'.set = disk.set
    OBVIOUS
  <2>1. PICK i \in Ops : Saves(i)
    BY <1>1, OnlySavesReplace
  <2>2. op[i].pc \in {"commit", "write"}
    BY <2>1 DEF Saves, CommitProfile, CommitCleanup, CommitSettings, CommitDetection, WriteSnapshot
  <2>3. gate = i /\ PlaceFacts(i) /\ op[i].new \in Profiles
    BY <1>1, <2>2, AtPlace
  <2>4. op[i].kind \in FromDisk
    BY <2>3
  <2>5. disk \in StoreRec
    BY <1>1 DEF CoreInv, StoreTypes
  <2>6. ASSUME NEW c, disk' = c \/ SaveFails(c) PROVE disk' = c
    BY <2>6 DEF SaveFails
  <2>7. CASE CommitProfile(i)
    <3>1. op[i].kind = "clear"
      BY <2>4, <2>7 DEF CommitProfile
    <3>2. disk' = [disk EXCEPT !.prof = op[i].new]
      BY <2>6, <2>7, <3>1 DEF CommitProfile, SaveOk
    <3> QED BY <2>3, <2>5, <3>2, StoreUpdates
  <2>8. ~CommitCleanup(i)
    BY <2>4 DEF CommitCleanup, CleanupKinds
  <2>9. CASE CommitSettings(i)
    <3>1. op[i].kind = "lang"
      BY <2>4, <2>9 DEF CommitSettings
    <3>2. PICK v \in BOOLEAN : disk' = [disk EXCEPT !.rest["lang"] = v]
      BY <2>6, <2>9, <3>1 DEF CommitSettings, SaveOk
    <3> QED BY <2>5, <3>2, StoreUpdates
  <2>10. CASE CommitDetection(i)
    <3>1. PICK d : disk' = [disk EXCEPT !.prof.det = d]
      BY <2>6, <2>10 DEF CommitDetection, SaveOk
    <3> QED BY <2>5, <3>1 DEF StoreRec
  <2>11. CASE WriteSnapshot(i)
    <3>1. disk' = op[i].cand /\ op[i].pc = "write"
      BY <2>6, <2>11 DEF WriteSnapshot, SaveOk
    <3>2. op[i].kind \in SnapshotKinds
      BY <2>3, <3>1 DEF PlaceFacts
    <3>3. op[i].kind \in {"groups", "recents"}
      BY <2>4, <3>2 DEF SnapshotKinds
    <3> QED BY <2>3, <3>1, <3>3 DEF PlaceFacts
  <2> QED BY <2>1, <2>7, <2>8, <2>9, <2>10, <2>11 DEF Saves
<1>2. Spec => [][Transient]_vars
  BY <1>1, CoreAlways, PTL DEF Spec
<1> QED BY <1>2 DEF PreviewStaysTransient

-----------------------------------------------------------------------------
(* The secrets and the profile that refers to them.                         *)

\* SecretsFit for given secrets.
Fit(g, p) ==
    /\ \A s \in Slots : IF s \in Referenced(p) THEN g[s] # None ELSE g[s] \notin Passwords
    /\ SshAuto(p) /\ Lost \notin {g["vault"], g["unlock"]} => g["vault"] = g["unlock"]

\* Two profiles that refer to the same secrets.
SameStore(p, q) == SshStore(p) = SshStore(q) /\ SshAuto(p) = SshAuto(q)

\* The profile without its reference.
NoStore(p) == [p EXCEPT !.store = None, !.auto = FALSE]

\* Applied to secrets that fit one profile, the change makes them fit another.
ChangeFits(p, q, chg) ==
    \A g \in [Slots -> Values] : Fit(g, p) => Fit(Overlay(chg, g), q)

ReplaceKinds == {"save", "remember", "clear", "delete"}

\* The change an operation was given belongs to the profile it will publish.
ChangeFacts(r) ==
    /\ r.kind \in ReplaceKinds => ChangeFits(r.exp, r.new, r.chg)
    /\ r.kind = "reject" => ChangeFits(r.exp, NoStore(r.exp), r.chg)
    /\ r.kind \in {"trust", "revoke"} => SameStore(r.new, r.exp)

\* The secrets while an operation holds the gate: its backup restores those of
\* the published profile, and once they are changed they fit the profile that is
\* about to be published.  A candidate store refers to the same secrets.
HolderFits(i) ==
    LET o == op[i] IN
    /\ Fit(Overlay(o.bak, secret), mem.prof)
    /\ o.pc = "commit" /\ o.kind \in ReplaceKinds => Fit(secret, o.new)
    /\ o.pc = "commit" /\ o.kind = "reject" /\ mem.prof = o.exp => Fit(secret, NoStore(o.exp))
    /\ o.pc \in {"write", "publish"} => SameStore(o.cand.prof, mem.prof)

SecretInv ==
    /\ \A i \in Ops : op[i] # Idle => ChangeFacts(op[i])
    /\ faults = {} =>
           /\ gate = None => Fit(secret, mem.prof)
           /\ \A i \in Ops : gate = i => HolderFits(i)

\* None is no backend, Lost no password and not None.
LEMMA SecretValues ==
    /\ None \notin Storages /\ None \notin Passwords
    /\ Lost \notin Passwords /\ Lost # None
  BY ValuesAssumption DEF Storages

\* A profile that has no backend has no generated key either.
LEMMA AutoNeedsVault ==
    ASSUME NEW p \in Profiles
    PROVE  SshAuto(p) => SshStore(p) = "vault" /\ SshStore(p) # None
  BY SecretValues DEF SshAuto, SshStore, Storages

\* Only the references of the profile matter.
LEMMA FitSame ==
    ASSUME NEW g, NEW p, NEW q, SameStore(p, q), Fit(g, p)
    PROVE  Fit(g, q)
  BY DEF Fit, SameStore, Referenced

\* A secret that somebody else removes does not make the references wrong.
LEMMA FitLost ==
    ASSUME NEW g, NEW f, NEW p, Fit(g, p), \A s \in Slots : f[s] \in {g[s], Lost}
    PROVE  Fit(f, p)
<1>1. "vault" \in Slots /\ "unlock" \in Slots
  BY DEF Slots, Storages
<1>2. \A s \in Slots : IF s \in Referenced(p) THEN f[s] # None ELSE f[s] \notin Passwords
  BY SecretValues DEF Fit
<1>3. SshAuto(p) /\ Lost \notin {f["vault"], f["unlock"]} => f["vault"] = f["unlock"]
  BY <1>1 DEF Fit
<1> QED BY <1>2, <1>3 DEF Fit

\* Without a backup there is nothing to restore; a backup restores everything.
LEMMA Restoring ==
    ASSUME NEW c \in Changes, NEW g \in [Slots -> Values]
    PROVE  /\ DOMAIN c = {} => Overlay(c, g) = g
           /\ Overlay([s \in DOMAIN c |-> g[s]], Overlay(c, g)) = g
<1>1. DOMAIN c \subseteq Slots
  BY SecretTypes
<1> QED BY <1>1 DEF Overlay

\* A change that touches nothing.
LEMMA NoChangeFits ==
    ASSUME NEW p, NEW q, SameStore(p, q)
    PROVE  ChangeFits(p, q, NoChange)
<1> SUFFICES ASSUME NEW g \in [Slots -> Values], Fit(g, p) PROVE Fit(Overlay(NoChange, g), q)
  BY DEF ChangeFits
<1>1. Overlay(NoChange, g) = g
  BY DEF Overlay, NoChange
<1> QED BY <1>1, FitSame

\* DeleteChange removes exactly what the profile referred to.
LEMMA DeleteChangeFits ==
    ASSUME NEW p \in Profiles, NEW q, SshStore(q) = None, ~SshAuto(q)
    PROVE  ChangeFits(p, q, DeleteChange(p))
<1> SUFFICES ASSUME NEW g \in [Slots -> Values], Fit(g, p)
             PROVE  Fit(Overlay(DeleteChange(p), g), q)
  BY DEF ChangeFits
<1>1. Referenced(q) = {}
  BY DEF Referenced
<1>2. DOMAIN DeleteChange(p) = Referenced(p)
  BY AutoNeedsVault DEF DeleteChange, Referenced
<1>3. \A s \in DOMAIN DeleteChange(p) : DeleteChange(p)[s] = None
  BY DEF DeleteChange
<1>4. \A s \in Slots : Overlay(DeleteChange(p), g)[s] = IF s \in Referenced(p) THEN None ELSE g[s]
  BY <1>2, <1>3 DEF Overlay
<1>5. \A s \in Slots : Overlay(DeleteChange(p), g)[s] \notin Passwords
  BY <1>4, SecretValues DEF Fit
<1> QED BY <1>1, <1>5 DEF Fit

\* StoreChange writes the new secrets and removes the previous ones.
LEMMA StoreChangeFits ==
    ASSUME NEW p \in Profiles, NEW q, NEW storage \in Storages, NEW gen \in BOOLEAN,
           NEW w \in Passwords,
           SshStore(q) = storage, SshAuto(q) = (storage = "vault" /\ gen)
    PROVE  ChangeFits(p, q, StoreChange(p, storage, gen, w))
<1> SUFFICES ASSUME NEW g \in [Slots -> Values], Fit(g, p)
             PROVE  Fit(Overlay(StoreChange(p, storage, gen, w), g), q)
  BY DEF ChangeFits
<1> DEFINE auto == storage = "vault" /\ gen
           c == StoreChange(p, storage, gen, w)
           f == Overlay(c, g)
<1>0. storage # None /\ SshStore(p) \in Storages \cup {None}
  BY SecretValues, SshStoreType
<1>1. Referenced(q) = {storage} \cup (IF auto THEN {"unlock"} ELSE {})
  BY <1>0 DEF Referenced
<1>2. DOMAIN c = {storage} \cup Referenced(p) \cup (IF auto THEN {"unlock"} ELSE {})
  BY DEF StoreChange, Referenced
<1>3. \A s \in DOMAIN c : c[s] = IF s \in Referenced(q) THEN w ELSE None
  <2>1. \A s \in DOMAIN c : c[s] = IF s = storage \/ (s = "unlock" /\ auto) THEN w ELSE None
    BY DEF StoreChange
  <2> QED BY <1>1, <2>1
<1> HIDE DEF c
<1>4. \A s \in Slots : f[s] = IF s \in Referenced(q) THEN w
                              ELSE IF s \in Referenced(p) THEN None ELSE g[s]
  BY <1>1, <1>2, <1>3 DEF Overlay
<1> HIDE DEF f
<1>5. \A s \in Slots : IF s \in Referenced(q) THEN f[s] # None ELSE f[s] \notin Passwords
  BY <1>4, SecretValues DEF Fit
<1>6. SshAuto(q) => f["vault"] = f["unlock"]
  BY <1>1, <1>4 DEF Slots, Storages
<1>7. Fit(f, q)
  BY <1>5, <1>6 DEF Fit
<1> QED BY <1>7 DEF f, c

\* The editor: a new password, none any more, or the same one.
LEMMA EditorChangeFits ==
    ASSUME NEW p \in Profiles, NEW in \in Inputs, NEW w \in Passwords
    PROVE  ChangeFits(p, EditorProfile(p, in), EditorChange(p, in, w))
<1> DEFINE ps == PasswordStorage(in)
           st == IF in.auth # "password" THEN None ELSE IF ps # None THEN ps ELSE SshStore(p)
           au == CASE in.auth = "direct" -> FALSE
                   [] ps = "vault" -> in.gen
                   [] ps = "keyring" -> FALSE
                   [] OTHER -> SshAuto(p)
           base == [host |-> in.host, auth |-> in.auth, store |-> st, auto |-> au,
                    pin |-> in.auth # "direct" /\ p # Gone /\ p.auth # "direct"
                            /\ p.host = in.host /\ p.pin,
                    det |-> None, group |-> in.group]
           q == EditorProfile(p, in)
<1>1. /\ in.auth \in {"password", "key", "direct"} /\ in.store \in Storages \cup {None}
      /\ in.gen \in BOOLEAN
      /\ in.gen => in.auth = "password" /\ in.store = "vault"
  BY KindsAssumption DEF Inputs, Storages
<1>2. \/ q = base
      \/ q = [base EXCEPT !.det = p.det]
  <2>1. CASE p # Gone /\ ~in.reset /\ Matches(p.det, p) /\ Matches(p.det, base)
    BY <2>1 DEF EditorProfile
  <2>2. CASE ~(p # Gone /\ ~in.reset /\ Matches(p.det, p) /\ Matches(p.det, base))
    BY <2>2 DEF EditorProfile
  <2> QED BY <2>1, <2>2
<1>3. q.auth = in.auth /\ q.store = st /\ q.auto = au
  <2> HIDE DEF st, au
  <2> QED BY <1>2
<1>4. q # Gone
  BY EditorTypes, GoneIsNoProfile
<1> HIDE DEF q
<1>5. CASE ps # None
  <2>1. in.auth = "password" /\ ps = in.store /\ in.store \in Storages
    BY <1>1, <1>5 DEF PasswordStorage
  <2>2. SshStore(q) = in.store
    BY <1>3, <1>4, <1>5, <2>1 DEF SshStore
  <2>3. SshAuto(q) = (in.store = "vault" /\ in.gen)
    <3>1. CASE in.store = "vault"
      <4>1. q.store = "vault" /\ q.auth = "password"
        BY <1>3, <1>5, <2>1, <3>1
      <4>2. q.auto = in.gen
        BY <1>3, <2>1, <3>1
      <4> HIDE DEF st, au
      <4> QED BY <1>1, <1>4, <3>1, <4>1, <4>2 DEF SshAuto
    <3>2. CASE in.store # "vault"
      BY <1>3, <1>4, <1>5, <2>1, <3>2 DEF SshAuto
    <3> QED BY <3>1, <3>2
  <2>4. EditorChange(p, in, w) = StoreChange(p, in.store, in.gen, w)
    BY <1>5 DEF EditorChange
  <2> QED BY <1>1, <2>1, <2>2, <2>3, <2>4, StoreChangeFits DEF q
<1>6. CASE in.auth # "password"
  <2>1. ps = None
    BY <1>6 DEF PasswordStorage
  <2>2. SshStore(q) = None /\ ~SshAuto(q)
    BY <1>3, <1>6, SecretValues DEF SshStore, SshAuto, Storages
  <2>3. EditorChange(p, in, w) = DeleteChange(p)
    BY <1>6, <2>1 DEF EditorChange
  <2> QED BY <2>2, <2>3, DeleteChangeFits DEF q
<1>7. CASE ps = None /\ in.auth = "password"
  <2>1. EditorChange(p, in, w) = NoChange
    BY <1>7 DEF EditorChange
  <2>2. q.store = SshStore(p)
    BY <1>3, <1>7
  <2>3. q.auto = SshAuto(p)
    <3>1. ps # "vault" /\ ps # "keyring"
      BY <1>7, SecretValues DEF Storages
    <3> QED BY <1>3, <1>7, <3>1
  <2>4. SshStore(q) = SshStore(p)
    BY <1>3, <1>4, <1>7, <2>2 DEF SshStore
  <2>5. SshAuto(q) = SshAuto(p)
    BY <1>3, <1>4, <1>7, <2>2, <2>3, AutoNeedsVault, SshStoreType DEF SshAuto
  <2> QED BY <2>1, <2>4, <2>5, NoChangeFits DEF SameStore, q
<1> QED BY <1>5, <1>6, <1>7

\* Pin, detection and group are no references; store and auto are.
LEMMA ReferenceUpdates ==
    ASSUME NEW p \in ProfileRec
    PROVE  /\ \A b \in BOOLEAN : SameStore([p EXCEPT !.pin = b], p)
           /\ \A d \in Detections : SameStore([p EXCEPT !.det = d], p)
           /\ \A g \in Groups : SameStore([p EXCEPT !.group = g], p)
           /\ SshStore(NoStore(p)) = None /\ ~SshAuto(NoStore(p))
<1>0. p # Gone
  BY GoneIsNoProfile
<1>1. ASSUME NEW q \in ProfileRec, q.auth = p.auth, q.store = p.store, q.auto = p.auto
      PROVE  SameStore(q, p)
  <2>1. q # Gone
    BY GoneIsNoProfile
  <2> QED BY <1>0, <1>1, <2>1 DEF SameStore, SshStore, SshAuto
<1>2. ASSUME NEW b \in BOOLEAN PROVE SameStore([p EXCEPT !.pin = b], p)
  <2>1. [p EXCEPT !.pin = b] \in ProfileRec
    BY ProfileUpdates
  <2> QED BY <1>1, <2>1 DEF ProfileRec
<1>3. ASSUME NEW d \in Detections PROVE SameStore([p EXCEPT !.det = d], p)
  <2>1. [p EXCEPT !.det = d] \in ProfileRec
    BY ProfileUpdates
  <2> QED BY <1>1, <2>1 DEF ProfileRec
<1>4. ASSUME NEW g \in Groups PROVE SameStore([p EXCEPT !.group = g], p)
  <2>1. [p EXCEPT !.group = g] \in ProfileRec
    BY ProfileUpdates
  <2> QED BY <1>1, <2>1 DEF ProfileRec
<1>5. SshStore(NoStore(p)) = None /\ ~SshAuto(NoStore(p))
  <2>1. NoStore(p).store = None /\ NoStore(p).auto = FALSE
    BY DEF NoStore, ProfileRec
  <2> QED BY <2>1 DEF SshStore, SshAuto
<1> QED BY <1>2, <1>3, <1>4, <1>5

\* The references of a profile that may have some.
LEMMA StoreReference ==
    ASSUME NEW q \in ProfileRec, q.auth # "direct"
    PROVE  SshStore(q) = q.store /\ SshAuto(q) = (q.store = "vault" /\ q.auto)
  BY GoneIsNoProfile DEF SshStore, SshAuto

\* Every request prepares a change of the secrets that belongs to its profile.
LEMMA RequestChangeFacts ==
    ASSUME CoreInv, NEW i \in Ops, Request(i)
    PROVE  ChangeFacts(op'[i])
<1>0. mem.prof \in Profiles
  BY StoreUpdates DEF CoreInv, StoreTypes
<1>1. mem.prof # Gone => mem.prof \in ProfileRec
  BY <1>0, GoneIsNoProfile
<1>2. ASSUME NEW kind \in Kinds, NEW new \in Profiles, NEW chg \in Changes,
             op' = [op EXCEPT ![i] = Operation(kind, mem.prof, new, chg)],
             kind \in ReplaceKinds => ChangeFits(mem.prof, new, chg),
             kind = "reject" => ChangeFits(mem.prof, NoStore(mem.prof), chg),
             kind \in {"trust", "revoke"} => SameStore(new, mem.prof)
      PROVE  ChangeFacts(op'[i])
  <2> DEFINE r == Operation(kind, mem.prof, new, chg)
  <2>1. r.kind = kind /\ r.exp = mem.prof /\ r.new = new /\ r.chg = chg
    BY <1>0, OperationType
  <2>2. op'[i] = r
    BY <1>2 DEF CoreInv, GateInv, OpTypes
  <2> HIDE DEF r
  <2> QED BY <1>2, <2>1, <2>2 DEF ChangeFacts
<1>3. Gone \in Profiles /\ NoChange \in Changes /\ DeleteChange(mem.prof) \in Changes
  BY <1>0, ChangeTypes DEF Profiles
<1>4. SshStore(mem.prof) # None => mem.prof \in ProfileRec
  BY <1>0, SshStoreType
<1>5. CASE SaveSession(i)
  <2>1. PICK in \in Inputs, w \in Passwords : SaveInput(i, in, w)
    BY <1>5 DEF SaveSession
  <2>2. EditorProfile(mem.prof, in) \in Profiles /\ EditorChange(mem.prof, in, w) \in Changes
    BY <1>0, EditorTypes DEF Profiles
  <2>3. /\ op' = [op EXCEPT ![i] = Operation("save", mem.prof, EditorProfile(mem.prof, in),
                                             EditorChange(mem.prof, in, w))]
        /\ "save" \in Kinds
    BY <2>1 DEF SaveInput, Reserve, MayReserve
  <2>4. ChangeFits(mem.prof, EditorProfile(mem.prof, in), EditorChange(mem.prof, in, w))
    BY <1>0, EditorChangeFits
  <2> QED BY <1>2, <2>2, <2>3, <2>4
<1>6. CASE RememberPassword(i)
  <2>1. PICK storage \in Backends, gen \in BOOLEAN, w \in Passwords :
            /\ mem.prof # Gone /\ mem.prof.auth = "password"
            /\ gen => storage = "vault"
            /\ Reserve(i, "remember", [mem.prof EXCEPT !.store = storage, !.auto = gen],
                       StoreChange(mem.prof, storage, gen, w))
    BY <1>6 DEF RememberPassword
  <2> DEFINE q == [mem.prof EXCEPT !.store = storage, !.auto = gen]
  <2>2. storage \in Storages
    BY KindsAssumption DEF Storages
  <2>3. q \in Profiles
    BY <1>1, <2>1, <2>2, ProfileUpdates DEF Profiles
  <2>4. StoreChange(mem.prof, storage, gen, w) \in Changes
    BY <1>0, <2>2, ChangeTypes
  <2>5. SshStore(q) = storage /\ SshAuto(q) = (storage = "vault" /\ gen)
    <3>1. mem.prof \in ProfileRec /\ mem.prof.auth # "direct"
      BY <1>1, <2>1
    <3>2. q \in ProfileRec
      BY <2>2, <3>1, ProfileUpdates
    <3>3. q.store = storage /\ q.auto = gen /\ q.auth = mem.prof.auth
      BY <3>1 DEF ProfileRec
    <3> HIDE DEF q
    <3> QED BY <3>1, <3>2, <3>3, StoreReference
  <2>6. /\ op' = [op EXCEPT ![i] = Operation("remember", mem.prof, q,
                                             StoreChange(mem.prof, storage, gen, w))]
        /\ "remember" \in Kinds
    BY <1>6, <2>1 DEF RememberPassword, Reserve, MayReserve
  <2> HIDE DEF q
  <2>7. ChangeFits(mem.prof, q, StoreChange(mem.prof, storage, gen, w))
    BY <1>0, <2>2, <2>5, StoreChangeFits
  <2> QED BY <1>2, <2>3, <2>4, <2>6, <2>7
<1>7. CASE ClearSavedPassword(i)
  <2> DEFINE q == NoStore(mem.prof)
  <2>1. /\ op' = [op EXCEPT ![i] = Operation("clear", mem.prof, q, DeleteChange(mem.prof))]
        /\ "clear" \in Kinds /\ mem.prof \in ProfileRec
    BY <1>4, <1>7 DEF ClearSavedPassword, Reserve, MayReserve, NoStore
  <2>2. q \in Profiles
    BY <2>1, ProfileUpdates DEF NoStore, Profiles
  <2>3. ChangeFits(mem.prof, q, DeleteChange(mem.prof))
    BY <1>0, <2>1, ReferenceUpdates, DeleteChangeFits
  <2> HIDE DEF q
  <2> QED BY <1>2, <1>3, <2>1, <2>2, <2>3
<1>8. CASE DeleteSession(i)
  <2>1. /\ op' = [op EXCEPT ![i] = Operation("delete", mem.prof, Gone, DeleteChange(mem.prof))]
        /\ "delete" \in Kinds
    BY <1>8 DEF DeleteSession, Reserve, MayReserve
  <2>2. SshStore(Gone) = None /\ ~SshAuto(Gone)
    BY DEF SshStore, SshAuto
  <2>3. ChangeFits(mem.prof, Gone, DeleteChange(mem.prof))
    BY <1>0, <2>2, DeleteChangeFits
  <2> QED BY <1>2, <1>3, <2>1, <2>3
<1>9. CASE TrustHostKey(i)
  <2>1. /\ op' = [op EXCEPT ![i] = Operation("trust", mem.prof, [mem.prof EXCEPT !.pin = TRUE],
                                             NoChange)]
        /\ "trust" \in Kinds /\ mem.prof \in ProfileRec
    BY <1>1, <1>9 DEF TrustHostKey, Reserve, MayReserve
  <2>2. [mem.prof EXCEPT !.pin = TRUE] \in Profiles /\ SameStore([mem.prof EXCEPT !.pin = TRUE], mem.prof)
    BY <2>1, ProfileUpdates, ReferenceUpdates DEF Profiles
  <2> QED BY <1>2, <1>3, <2>1, <2>2 DEF ReplaceKinds
<1>10. CASE RemoveRevokedKey(i)
  <2>1. /\ op' = [op EXCEPT ![i] = Operation("revoke", mem.prof, [mem.prof EXCEPT !.pin = FALSE],
                                             NoChange)]
        /\ "revoke" \in Kinds /\ mem.prof \in ProfileRec
    BY <1>1, <1>10 DEF RemoveRevokedKey, Reserve, MayReserve
  <2>2. [mem.prof EXCEPT !.pin = FALSE] \in Profiles /\ SameStore([mem.prof EXCEPT !.pin = FALSE], mem.prof)
    BY <2>1, ProfileUpdates, ReferenceUpdates DEF Profiles
  <2> QED BY <1>2, <1>3, <2>1, <2>2 DEF ReplaceKinds
<1>11. CASE RejectedPassword(i)
  <2>1. /\ op' = [op EXCEPT ![i] = Operation("reject", mem.prof, Gone, DeleteChange(mem.prof))]
        /\ "reject" \in Kinds /\ mem.prof \in ProfileRec
    BY <1>4, <1>11 DEF RejectedPassword, Queue
  <2>2. ChangeFits(mem.prof, NoStore(mem.prof), DeleteChange(mem.prof))
    BY <1>0, <2>1, ReferenceUpdates, DeleteChangeFits
  <2> QED BY <1>2, <1>3, <2>1, <2>2 DEF ReplaceKinds
<1>12. CASE MissingPassword(i)
  <2>1. PICK chg \in Changes :
            op' = [op EXCEPT ![i] = Operation("missing", mem.prof, Gone, chg)]
    <3>1. (IF SshAuto(mem.prof) THEN DeleteChange(mem.prof) ELSE NoChange) \in Changes
      BY <1>3
    <3> QED BY <1>12, <3>1 DEF MissingPassword, Queue
  <2>2. "missing" \in Kinds
    BY <1>12 DEF MissingPassword, Queue
  <2> QED BY <1>2, <1>3, <2>1, <2>2 DEF ReplaceKinds
<1>13. CASE RequestUpdate(i)
  <2>1. PICK kind \in UpdateKinds : Queue(i, kind, NoChange)
    BY <1>13 DEF RequestUpdate
  <2> QED BY <1>2, <1>3, <2>1 DEF Queue, ReplaceKinds, UpdateKinds
<1> QED BY <1>5, <1>6, <1>7, <1>8, <1>9, <1>10, <1>11, <1>12, <1>13 DEF Request

\* The gate is free after a step of one operation.
LEMMA SecretFree ==
    ASSUME SecretInv, NEW i \in Ops, gate' = None,
           \A j \in Ops : j # i => op'[j] = op[j],
           op'[i] # Idle => ChangeFacts(op'[i]),
           faults' = {} => Fit(secret', mem'.prof)
    PROVE  SecretInv'
<1>1. \A j \in Ops : op'[j] # Idle => ChangeFacts(op'[j])
  BY DEF SecretInv
<1> QED BY <1>1, NoneIsNoOp DEF SecretInv

\* An operation returns.
LEMMA SecretReturn ==
    ASSUME CoreInv, SecretInv, NEW i \in Ops, gate \in {i, None}, End(i),
           faults' = {} => Fit(secret', mem'.prof)
    PROVE  SecretInv'
<1>1. /\ op'[i] = Idle /\ \A j \in Ops : j # i => op'[j] = op[j]
      /\ gate' = IF gate = i THEN None ELSE gate
  BY EndTypes DEF CoreInv, GateInv
<1>2. gate' = None
  BY <1>1
<1> QED BY <1>1, <1>2, SecretFree

\* An operation goes on as the holder of the gate.
LEMMA SecretMove ==
    ASSUME SecretInv, NEW i \in Ops, gate' = i, op[i] # Idle, NEW r, Becomes(i, r),
           r.kind = op[i].kind, r.exp = op[i].exp, r.new = op[i].new, r.chg = op[i].chg,
           faults' = {} => HolderFits(i)'
    PROVE  SecretInv'
<1>1. ChangeFacts(r)
  BY DEF SecretInv, ChangeFacts
<1>2. \A j \in Ops : op'[j] # Idle => ChangeFacts(op'[j])
  BY <1>1 DEF SecretInv, Becomes
<1> QED BY <1>2, NoneIsNoOp DEF SecretInv

\* Outside a change of the secrets, they fit the published profile.
LEMMA HeldFits ==
    ASSUME CoreInv, SecretInv, faults = {}, NEW i \in Ops, gate \in {i, None}, op[i] # Idle,
           gate = i => DOMAIN op[i].bak = {}
    PROVE  Fit(secret, mem.prof)
<1>1. CASE gate = None
  BY <1>1 DEF SecretInv
<1>2. CASE gate = i
  <2>1. op[i].bak \in Changes
    BY DEF CoreInv, GateInv, OpTypes, OpRec
  <2>2. Overlay(op[i].bak, secret) = secret
    BY <1>2, <2>1, Restoring DEF CoreInv, StoreTypes
  <2> QED BY <1>2, <2>2 DEF SecretInv, HolderFits
<1> QED BY <1>1, <1>2

\* Faults are never forgotten.
LEMMA FaultsStay ==
    ASSUME [Next]_vars PROVE faults' = {} => faults = {}
<1>1. ASSUME NEW i \in Ops, Request(i) \/ Acquire(i) PROVE faults' = faults
  BY <1>1 DEF Request, SaveSession, SaveInput, RememberPassword, ClearSavedPassword,
     DeleteSession, TrustHostKey, RemoveRevokedKey, RejectedPassword, MissingPassword,
     RequestUpdate, Reserve, Queue, Acquire
<1>2. ASSUME NEW i \in Ops, Step(i) PROVE \E f : faults' = faults \cup f
  <2>1. CASE faults' = faults
    BY <2>1
  <2>2. CASE faults' # faults
    BY <1>2, <2>2 DEF Step, ApplyCredential, CommitProfile, CommitCleanup, Rollback, CommitSettings,
       CommitDetection, RecordKnownHost, TakeSnapshot, WriteSnapshot, PublishSnapshot,
       ForgetKnownHost, SaveFails, Restores
  <2> QED BY <2>1, <2>2
<1>3. ASSUME PreviewSettings \/ LoseSecret \/ RevokeKey \/ Restart
      PROVE  faults' \in {faults, faults \cup {"crash"}}
  BY <1>3 DEF PreviewSettings, LoseSecret, RevokeKey, Restart
<1> QED BY <1>1, <1>2, <1>3 DEF Next, vars

\* A request: a new profile starts without secrets, the others change none.
LEMMA SecretRequest ==
    ASSUME CoreInv, SecretInv, NEW i \in Ops, Request(i)
    PROVE  SecretInv'
<1>1. PICK kind \in Kinds, new \in Profiles, chg \in Changes : RequestShape(i, kind, new, chg)
  BY RequestShapes
<1>2. /\ op[i] = Idle /\ \A j \in Ops : j # i => op'[j] = op[j]
      /\ UNCHANGED <<mem, gate, faults>>
  BY <1>1 DEF RequestShape, CoreInv, GateInv, OpTypes
<1>3. \A j \in Ops : op'[j] # Idle => ChangeFacts(op'[j])
  BY <1>2, RequestChangeFacts DEF SecretInv
<1>4. gate # i
  BY <1>2 DEF CoreInv, GateInv, Idle
<1>5. CASE UNCHANGED secret
  <2>1. \A j \in Ops : j # i /\ HolderFits(j) => HolderFits(j)'
    BY <1>2, <1>5 DEF HolderFits
  <2> QED BY <1>2, <1>3, <1>4, <1>5, <2>1 DEF SecretInv
<1>6. CASE /\ mem.prof = Gone
           /\ \A j \in Ops : op[j] = Idle
           /\ secret' = [s \in Slots |-> None]
  <2>1. \A j \in Ops : gate # j
    BY <1>6 DEF CoreInv, GateInv, Idle
  <2>2. Referenced(Gone) = {} /\ ~SshAuto(Gone)
    BY DEF Referenced, SshStore, SshAuto
  <2>3. Fit(secret', mem'.prof)
    BY <1>2, <1>6, <2>2, SecretValues DEF Fit
  <2> QED BY <1>2, <1>3, <2>1, <2>3 DEF SecretInv
<1> QED BY <1>1, <1>5, <1>6 DEF RequestShape

\* Entering the gate changes no secret.
LEMMA SecretAcquire ==
    ASSUME CoreInv, CoreInv', SecretInv, NEW i \in Ops, Acquire(i), "missing" \notin Kinds
    PROVE  SecretInv'
<1>0. /\ op[i].pc = "wait" /\ gate = None
      /\ UNCHANGED <<mem, disk, secret, known, faults>>
  BY DEF Acquire
<1>1. op[i] \in OpRec /\ op[i] # Idle /\ op[i].kind # "missing"
  <2>1. op[i] \in OpRec /\ op[i] # Idle
    BY <1>0, InProgress DEF CoreInv, GateInv
  <2> QED BY <2>1 DEF OpRec
<1>2. faults = {} => Fit(secret, mem.prof)
  BY <1>0 DEF SecretInv
<1>3. CASE End(i)
  BY <1>0, <1>2, <1>3, SecretReturn
<1>4. CASE gate' = i /\ Go(i, FirstStep(i))
  <2> DEFINE r == [op[i] EXCEPT !.pc = FirstStep(i)]
  <2>1. op'[i] = r /\ Becomes(i, r)
    BY <1>4 DEF Go, CoreInv, GateInv, OpTypes, Becomes
  <2>2. /\ r.pc = FirstStep(i) /\ r.kind = op[i].kind /\ r.exp = op[i].exp
        /\ r.new = op[i].new /\ r.chg = op[i].chg /\ r.bak = op[i].bak
    BY <1>1 DEF OpRec
  <2> HIDE DEF r
  <2>3. DOMAIN op[i].bak = {} /\ op[i].bak \in Changes
    BY <1>0, <1>1 DEF CoreInv, PlaceFacts, OpRec
  <2>4. /\ FirstStep(i) \notin {"write", "publish"}
        /\ FirstStep(i) = "commit" => op[i].kind \notin ReplaceKinds \cup {"reject"}
    <3>1. CASE op[i].kind \in ReplaceKinds \cup {"reject"}
      BY <3>1 DEF FirstStep, ReplaceKinds
    <3>2. CASE op[i].kind \notin ReplaceKinds \cup {"reject"}
      BY <3>2 DEF FirstStep
    <3> QED BY <3>1, <3>2
  <2>5. Overlay(op[i].bak, secret) = secret
    BY <2>3, Restoring DEF CoreInv, StoreTypes
  <2>6. faults' = {} => HolderFits(i)'
    BY <1>0, <1>2, <2>1, <2>2, <2>4, <2>5 DEF HolderFits
  <2> QED BY <1>1, <1>4, <2>1, <2>2, <2>6, SecretMove
<1> QED BY <1>3, <1>4 DEF Acquire

\* The secrets are changed for the profile that will be published, and backed up.
LEMMA SecretApply ==
    ASSUME CoreInv, SecretInv, NEW i \in Ops, ApplyCredential(i), "missing" \notin Kinds,
           faults' = {} => faults = {}
    PROVE  SecretInv'
<1> DEFINE bak == [s \in DOMAIN op[i].chg |-> secret[s]]
           r == [op[i] EXCEPT !.pc = "commit", !.bak = bak]
<1>0. op[i].pc = "cred" /\ UNCHANGED <<mem, disk, known>>
  BY DEF ApplyCredential
<1>1. /\ gate = i /\ op[i] \in OpRec /\ op[i] # Idle /\ PlaceFacts(i)
      /\ op[i].chg \in Changes /\ op[i].kind \in Kinds
  BY <1>0, AtPlace
<1>2. /\ DOMAIN op[i].bak = {} /\ op[i].kind \in CredentialKinds /\ op[i].kind # "missing"
  BY <1>0, <1>1 DEF PlaceFacts
<1>3. secret \in [Slots -> Values]
  BY DEF CoreInv, StoreTypes
<1>4. faults' = {} => Fit(secret, mem.prof)
  BY <1>1, <1>2, HeldFits
<1>5. CASE /\ secret' = Overlay(op[i].chg, secret)
           /\ op' = [op EXCEPT ![i].pc = "commit", ![i].bak = bak]
           /\ UNCHANGED <<gate, pending, faults>>
  <2>1. Overlay(bak, secret') = secret
    BY <1>1, <1>3, <1>5, Restoring
  <2> HIDE DEF bak
  <2>2. Becomes(i, r)
    <3>1. "commit" \in Pcs \ {"idle"}
      BY DEF Pcs
    <3>2. bak \in Changes
      BY <1>1, <1>3, SecretTypes DEF bak
    <3> QED BY <1>1, <1>5, <3>1, <3>2, MoveTypes DEF CoreInv, GateInv
  <2>3. /\ r.pc = "commit" /\ r.kind = op[i].kind /\ r.exp = op[i].exp
        /\ r.new = op[i].new /\ r.chg = op[i].chg /\ r.bak = bak
    BY <1>1 DEF OpRec
  <2> HIDE DEF r
  <2>4. op[i].kind \in ReplaceKinds => mem.prof = op[i].exp
    BY <1>0 DEF CoreInv, GateInv, ExpectedStaysCurrent, MutationCurrent, Checked, Pcs,
       TokenKinds, ReplaceKinds
  <2>5. ChangeFacts(op[i])
    BY <1>1 DEF SecretInv
  <2>6. ASSUME faults' = {} PROVE HolderFits(i)'
    <3>1. Fit(Overlay(bak, secret'), mem'.prof)
      BY <1>0, <1>4, <2>1, <2>6
    <3>2. op[i].kind \in ReplaceKinds => Fit(secret', op[i].new)
      BY <1>3, <1>4, <1>5, <2>4, <2>5, <2>6 DEF ChangeFacts, ChangeFits
    <3>3. op[i].kind = "reject" /\ mem.prof = op[i].exp => Fit(secret', NoStore(op[i].exp))
      BY <1>3, <1>4, <1>5, <2>5, <2>6 DEF ChangeFacts, ChangeFits
    <3> QED BY <1>0, <2>2, <2>3, <3>1, <3>2, <3>3 DEF HolderFits, Becomes
  <2> QED BY <1>1, <1>5, <2>2, <2>3, <2>6, SecretMove
<1>6. CASE /\ UNCHANGED <<secret, faults>> \/ faults' = faults \cup {"restore"}
           /\ End(i)
  <2>1. faults' = {} => Fit(secret', mem'.prof)
    BY <1>0, <1>4, <1>6
  <2> QED BY <1>1, <1>6, <2>1, SecretReturn
<1> QED BY <1>5, <1>6 DEF ApplyCredential, bak

\* A failed commit returns if it changed no secret, otherwise it restores them.
LEMMA SecretRestores ==
    ASSUME CoreInv, SecretInv, NEW i \in Ops, op[i].pc = "commit", Restores(i),
           UNCHANGED <<mem, secret>>, faults' = {} => faults = {}
    PROVE  SecretInv'
<1>1. gate = i /\ op[i] \in OpRec /\ op[i] # Idle
  BY AtPlace
<1>2. CASE DOMAIN op[i].bak = {} /\ End(i)
  BY <1>1, <1>2, HeldFits, SecretReturn
<1>3. CASE Go(i, "undo") /\ UNCHANGED gate
  <2> DEFINE r == [op[i] EXCEPT !.pc = "undo"]
  <2>1. Becomes(i, r)
    <3>1. "undo" \in Pcs \ {"idle"}
      BY DEF Pcs
    <3> QED BY <1>1, <1>3, <3>1, MoveTypes DEF CoreInv, GateInv
  <2>2. /\ r.pc = "undo" /\ r.kind = op[i].kind /\ r.exp = op[i].exp
        /\ r.new = op[i].new /\ r.chg = op[i].chg /\ r.bak = op[i].bak
    BY <1>1 DEF OpRec
  <2> HIDE DEF r
  <2>3. faults' = {} => HolderFits(i)'
    BY <1>1, <2>1, <2>2 DEF SecretInv, HolderFits, Becomes
  <2> QED BY <1>1, <1>3, <2>1, <2>2, <2>3, SecretMove
<1> QED BY <1>2, <1>3 DEF Restores

\* The profile is published that the secrets were changed for.
LEMMA SecretCommit ==
    ASSUME CoreInv, SecretInv, NEW i \in Ops, CommitProfile(i) \/ CommitCleanup(i),
           "missing" \notin Kinds, faults' = {} => faults = {}
    PROVE  SecretInv'
<1>0. op[i].pc = "commit" /\ UNCHANGED secret
  BY DEF CommitProfile, CommitCleanup
<1>1. gate = i /\ op[i] \in OpRec /\ op[i].kind \in Kinds /\ op[i].new \in Profiles
  BY <1>0, AtPlace
<1>2. mem \in StoreRec
  BY DEF CoreInv, StoreTypes
<1>3. CASE Restores(i) /\ UNCHANGED mem
  BY <1>0, <1>3, SecretRestores
<1>4. CASE CommitProfile(i) /\ mem' = [mem EXCEPT !.prof = op[i].new] /\ End(i)
  <2>1. op[i].kind \in ReplaceKinds
    BY <1>4 DEF CommitProfile, ReplaceKinds
  <2>2. mem'.prof = op[i].new
    BY <1>1, <1>2, <1>4, StoreUpdates
  <2>3. faults' = {} => Fit(secret', mem'.prof)
    BY <1>0, <1>1, <2>1, <2>2 DEF SecretInv, HolderFits
  <2> QED BY <1>1, <1>4, <2>3, SecretReturn
<1>5. CASE /\ op[i].kind \in CleanupKinds /\ mem.prof = op[i].exp
           /\ mem' = [mem EXCEPT !.prof.store = None, !.prof.auto = FALSE] /\ End(i)
  <2>1. op[i].kind = "reject"
    BY <1>1, <1>5 DEF CleanupKinds
  <2>2. mem'.prof = NoStore(mem.prof)
    BY <1>2, <1>5 DEF NoStore, StoreRec
  <2>3. faults' = {} => Fit(secret', mem'.prof)
    BY <1>0, <1>1, <1>5, <2>1, <2>2 DEF SecretInv, HolderFits
  <2> QED BY <1>1, <1>5, <2>3, SecretReturn
<1> QED BY <1>3, <1>4, <1>5 DEF CommitProfile, CommitCleanup

\* The backup restores the secrets of the published profile.
LEMMA SecretRollback ==
    ASSUME CoreInv, SecretInv, NEW i \in Ops, Rollback(i), faults' = {} => faults = {}
    PROVE  SecretInv'
<1>0. op[i].pc = "undo" /\ End(i) /\ UNCHANGED mem
  BY DEF Rollback
<1>1. gate = i
  BY <1>0, AtPlace
<1>2. faults' = {} => secret' = Overlay(op[i].bak, secret)
  BY DEF Rollback
<1>3. faults' = {} => Fit(secret', mem'.prof)
  BY <1>0, <1>1, <1>2 DEF SecretInv, HolderFits
<1> QED BY <1>0, <1>1, <1>3, SecretReturn

\* An operation that changes no secret and no reference returns.
LEMMA SecretQuietReturn ==
    ASSUME CoreInv, SecretInv, NEW i \in Ops, op[i].pc \notin {"idle", "wait"}, End(i),
           DOMAIN op[i].bak = {}, UNCHANGED secret,
           faults' = {} => faults = {},
           faults' = {} => SameStore(mem.prof, mem'.prof)
    PROVE  SecretInv'
<1>1. gate = i /\ op[i] # Idle
  BY AtPlace
<1>2. faults' = {} => Fit(secret', mem'.prof)
  BY <1>1, HeldFits, FitSame
<1> QED BY <1>1, <1>2, SecretReturn

\* Settings are no references.
LEMMA SecretSettings ==
    ASSUME CoreInv, SecretInv, NEW i \in Ops, CommitSettings(i), faults' = {} => faults = {}
    PROVE  SecretInv'
<1>0. /\ op[i].pc = "commit" /\ op[i].kind \in {"settings", "audio", "lang"}
      /\ End(i) /\ UNCHANGED secret
  BY DEF CommitSettings
<1>1. PlaceFacts(i)
  BY <1>0, AtPlace
<1>2. DOMAIN op[i].bak = {}
  BY <1>0, <1>1 DEF PlaceFacts, CredentialKinds
<1>3. mem'.prof = mem.prof
  <2>0. mem \in StoreRec
    BY DEF CoreInv, StoreTypes
  <2>1. \/ mem' = mem
        \/ \E s \in Settings : mem' = [mem EXCEPT !.set = s]
        \/ \E v \in BOOLEAN, x \in {"audio", "lang"} : mem' = [mem EXCEPT !.rest[x] = v]
    <3>1. CASE op[i].kind = "settings"
      BY <3>1 DEF CommitSettings
    <3>2. CASE op[i].kind = "audio"
      BY <3>2 DEF CommitSettings
    <3>3. CASE op[i].kind = "lang"
      BY <3>3 DEF CommitSettings
    <3> QED BY <1>0, <3>1, <3>2, <3>3
  <2>2. ASSUME NEW s \in Settings, mem' = [mem EXCEPT !.set = s] PROVE mem'.prof = mem.prof
    BY <2>0, <2>2, StoreUpdates
  <2>3. ASSUME NEW v \in BOOLEAN, NEW x \in {"audio", "lang"}, mem' = [mem EXCEPT !.rest[x] = v]
        PROVE mem'.prof = mem.prof
    BY <2>0, <2>3, StoreUpdates
  <2> QED BY <2>1, <2>2, <2>3
<1>4. SameStore(mem.prof, mem'.prof)
  BY <1>3 DEF SameStore
<1> QED BY <1>0, <1>2, <1>4, SecretQuietReturn

\* A detection is no reference.
LEMMA SecretDetection ==
    ASSUME CoreInv, SecretInv, NEW i \in Ops, CommitDetection(i), faults' = {} => faults = {}
    PROVE  SecretInv'
<1> DEFINE d == [host |-> op[i].exp.host, pin |-> op[i].exp.pin]
<1>0. op[i].pc = "commit" /\ op[i].kind = "detect" /\ UNCHANGED secret
  BY DEF CommitDetection
<1>1. /\ gate = i /\ op[i] \in OpRec /\ op[i] # Idle /\ PlaceFacts(i)
      /\ op[i].exp \in ProfileRec
  BY <1>0, AtPlace DEF RequestFacts
<1>2. DOMAIN op[i].bak = {}
  BY <1>0, <1>1 DEF PlaceFacts, CredentialKinds
<1>3. d \in Detections
  BY <1>1 DEF ProfileRec, Detections
<1> HIDE DEF d
<1>4. mem \in StoreRec
  BY DEF CoreInv, StoreTypes
<1>5. CASE End(i)
  <2>1. \/ mem' = mem
        \/ Matches(d, mem.prof) /\ mem' = [mem EXCEPT !.prof.det = d]
    BY DEF CommitDetection, d
  <2>2. CASE mem' = mem
    BY <1>0, <1>2, <1>5, <2>2, SecretQuietReturn DEF SameStore
  <2>3. CASE Matches(d, mem.prof) /\ mem' = [mem EXCEPT !.prof.det = d]
    <3>1. mem.prof \in ProfileRec
      BY <1>4, <2>3, StoreUpdates, GoneIsNoProfile DEF Matches
    <3>2. mem'.prof = [mem.prof EXCEPT !.det = d]
      BY <1>4, <2>3 DEF StoreRec
    <3>3. SameStore(mem.prof, mem'.prof)
      BY <1>3, <3>1, <3>2, ReferenceUpdates DEF SameStore
    <3> QED BY <1>0, <1>2, <1>5, <3>3, SecretQuietReturn
  <2> QED BY <2>1, <2>2, <2>3
<1>6. CASE /\ op' = [op EXCEPT ![i].pc = "wait", ![i].tries = @ + 1]
           /\ gate' = None /\ UNCHANGED mem
  <2> DEFINE n == op[i].tries + 1
             r == [op[i] EXCEPT !.pc = "wait", !.tries = n]
  <2>1. op'[i] = r /\ \A j \in Ops : j # i => op'[j] = op[j]
    BY <1>6 DEF CoreInv, GateInv, OpTypes
  <2> HIDE DEF n
  <2>2. r.kind = op[i].kind /\ r.exp = op[i].exp /\ r.new = op[i].new /\ r.chg = op[i].chg
    BY <1>1 DEF OpRec
  <2> HIDE DEF r
  <2>3. ChangeFacts(r)
    BY <1>1, <2>2 DEF SecretInv, ChangeFacts
  <2>4. faults' = {} => Fit(secret', mem'.prof)
    BY <1>0, <1>1, <1>2, <1>6, HeldFits
  <2> QED BY <1>6, <2>1, <2>3, <2>4, SecretFree
<1> QED BY <1>5, <1>6 DEF CommitDetection, DetectionWaits

\* The steps on known_hosts change no store.
LEMMA SecretKnownHosts ==
    ASSUME CoreInv, SecretInv, NEW i \in Ops, RecordKnownHost(i) \/ ForgetKnownHost(i)
    PROVE  SecretInv'
<1>0. op[i].pc \in {"known", "forget"} /\ UNCHANGED <<mem, secret, faults>>
  BY DEF RecordKnownHost, ForgetKnownHost
<1>1. gate = i /\ op[i] \in OpRec /\ op[i] # Idle /\ PlaceFacts(i)
  BY <1>0, AtPlace
<1>2. DOMAIN op[i].bak = {}
  BY <1>0, <1>1 DEF PlaceFacts
<1>3. CASE End(i)
  BY <1>0, <1>2, <1>3, SecretQuietReturn DEF SameStore
<1>4. CASE Go(i, "snap") /\ UNCHANGED gate
  <2> DEFINE r == [op[i] EXCEPT !.pc = "snap"]
  <2>1. Becomes(i, r)
    <3>1. "snap" \in Pcs \ {"idle"}
      BY DEF Pcs
    <3> QED BY <1>1, <1>4, <3>1, MoveTypes DEF CoreInv, GateInv
  <2>2. /\ r.pc = "snap" /\ r.kind = op[i].kind /\ r.exp = op[i].exp
        /\ r.new = op[i].new /\ r.chg = op[i].chg /\ r.bak = op[i].bak
    BY <1>1 DEF OpRec
  <2> HIDE DEF r
  <2>3. faults' = {} => HolderFits(i)'
    BY <1>0, <1>1, <2>1, <2>2 DEF SecretInv, HolderFits, Becomes
  <2> QED BY <1>1, <1>4, <2>1, <2>2, <2>3, SecretMove
<1> QED BY <1>3, <1>4 DEF RecordKnownHost, ForgetKnownHost

\* A candidate refers to the same secrets as the published profile.
LEMMA SecretSnapshot ==
    ASSUME CoreInv, CoreInv', SecretInv, NEW i \in Ops, TakeSnapshot(i)
    PROVE  SecretInv'
<1> DEFINE k == op[i].kind
<1>0. op[i].pc = "snap" /\ UNCHANGED <<mem, disk, secret, known, faults>>
  BY DEF TakeSnapshot
<1>1. /\ gate = i /\ op[i] \in OpRec /\ op[i] # Idle /\ PlaceFacts(i)
      /\ op[i].new \in Profiles
  BY <1>0, AtPlace
<1>2. DOMAIN op[i].bak = {}
  BY <1>0, <1>1 DEF PlaceFacts
<1>3. mem \in StoreRec /\ disk \in StoreRec /\ mem.prof \in Profiles
  BY StoreUpdates DEF CoreInv, StoreTypes
<1>4. "sync" \notin faults => mem.prof = disk.prof
  BY <1>0, <1>1, AgreeNow
<1>5. CASE End(i)
  BY <1>0, <1>2, <1>5, SecretQuietReturn DEF SameStore
<1>6. ASSUME NEW c \in StoreRec, op' = [op EXCEPT ![i].pc = "write", ![i].cand = c], UNCHANGED gate,
             faults = {} => SameStore(c.prof, mem.prof)
      PROVE  SecretInv'
  <2> DEFINE r == [op[i] EXCEPT !.pc = "write", !.cand = c]
  <2>1. Becomes(i, r)
    <3>1. "write" \in Pcs \ {"idle"}
      BY DEF Pcs
    <3> QED BY <1>1, <1>6, <3>1, MoveTypes DEF CoreInv, GateInv
  <2>2. /\ r.pc = "write" /\ r.kind = op[i].kind /\ r.exp = op[i].exp
        /\ r.new = op[i].new /\ r.chg = op[i].chg /\ r.bak = op[i].bak /\ r.cand = c
    BY <1>1 DEF OpRec
  <2> HIDE DEF r
  <2>3. faults' = {} => HolderFits(i)'
    BY <1>0, <1>1, <1>6, <2>1, <2>2 DEF SecretInv, HolderFits, Becomes
  <2> QED BY <1>1, <1>6, <2>1, <2>2, <2>3, SecretMove
<1>7. CASE /\ k \in {"trust", "revoke"} /\ MutationCurrent(i)
           /\ op' = [op EXCEPT ![i].pc = "write", ![i].cand = [mem EXCEPT !.prof = op[i].new]]
           /\ UNCHANGED gate
  <2> DEFINE c == [mem EXCEPT !.prof = op[i].new]
  <2>1. c \in StoreRec /\ c.prof = op[i].new
    BY <1>1, <1>3, StoreUpdates
  <2>2. op' = [op EXCEPT ![i].pc = "write", ![i].cand = c]
    BY <1>7
  <2> HIDE DEF c
  <2>3. SameStore(c.prof, mem.prof)
    BY <1>1, <1>7, <2>1 DEF SecretInv, ChangeFacts, MutationCurrent
  <2> QED BY <1>6, <1>7, <2>1, <2>2, <2>3
<1>8. CASE k = "groups" /\ ~End(i)
  <2>1. PICK g \in Groups :
            op' = [op EXCEPT ![i].pc = "write", ![i].cand =
                      [disk EXCEPT !.prof = IF mem.prof = Gone THEN Gone
                                            ELSE [mem.prof EXCEPT !.group = g]]]
    BY <1>8 DEF TakeSnapshot, SnapshotBase
  <2>2. PICK q \in Profiles :
            /\ q = IF mem.prof = Gone THEN Gone ELSE [mem.prof EXCEPT !.group = g]
            /\ SameStore(q, mem.prof)
    <3>1. CASE mem.prof = Gone
      BY <3>1 DEF Profiles, SameStore
    <3>2. CASE mem.prof # Gone
      BY <1>3, <3>2, GoneIsNoProfile, ProfileUpdates, ReferenceUpdates DEF Profiles
    <3> QED BY <3>1, <3>2
  <2> DEFINE c == [disk EXCEPT !.prof = q]
  <2>3. c \in StoreRec /\ c.prof = q
    BY <1>3, StoreUpdates
  <2>4. op' = [op EXCEPT ![i].pc = "write", ![i].cand = c]
    BY <2>1, <2>2
  <2>5. UNCHANGED gate
    BY <1>8 DEF TakeSnapshot
  <2> HIDE DEF c
  <2> QED BY <1>6, <2>2, <2>3, <2>4, <2>5
<1>9. CASE k = "recents" /\ ~End(i)
  <2>1. PICK v \in BOOLEAN :
            op' = [op EXCEPT ![i].pc = "write", ![i].cand = [disk EXCEPT !.rest["recents"] = v]]
    BY <1>9 DEF TakeSnapshot, SnapshotBase
  <2> DEFINE c == [disk EXCEPT !.rest["recents"] = v]
  <2>2. c \in StoreRec /\ c.prof = disk.prof
    BY <1>3, StoreUpdates
  <2>3. op' = [op EXCEPT ![i].pc = "write", ![i].cand = c] /\ UNCHANGED gate
    BY <1>9, <2>1 DEF TakeSnapshot
  <2> HIDE DEF c
  <2>4. faults = {} => SameStore(c.prof, mem.prof)
    BY <1>4, <2>2 DEF SameStore
  <2> QED BY <1>6, <2>2, <2>3, <2>4
<1> QED BY <1>5, <1>7, <1>8, <1>9 DEF TakeSnapshot, SnapshotBase

\* The candidate is saved.
LEMMA SecretWrite ==
    ASSUME CoreInv, SecretInv, NEW i \in Ops, WriteSnapshot(i), faults' = {} => faults = {}
    PROVE  SecretInv'
<1>0. op[i].pc = "write" /\ UNCHANGED <<mem, secret, known>>
  BY DEF WriteSnapshot
<1>1. gate = i /\ op[i] \in OpRec /\ op[i] # Idle /\ PlaceFacts(i)
  BY <1>0, AtPlace
<1>2. DOMAIN op[i].bak = {}
  BY <1>0, <1>1 DEF PlaceFacts
<1>3. CASE End(i)
  BY <1>0, <1>2, <1>3, SecretQuietReturn DEF SameStore
<1>4. CASE Go(i, "publish") /\ UNCHANGED gate
  <2> DEFINE r == [op[i] EXCEPT !.pc = "publish"]
  <2>1. Becomes(i, r)
    <3>1. "publish" \in Pcs \ {"idle"}
      BY DEF Pcs
    <3> QED BY <1>1, <1>4, <3>1, MoveTypes DEF CoreInv, GateInv
  <2>2. /\ r.pc = "publish" /\ r.kind = op[i].kind /\ r.exp = op[i].exp /\ r.new = op[i].new
        /\ r.chg = op[i].chg /\ r.bak = op[i].bak /\ r.cand = op[i].cand
    BY <1>1 DEF OpRec
  <2> HIDE DEF r
  <2>3. faults' = {} => HolderFits(i)'
    BY <1>0, <1>1, <2>1, <2>2 DEF SecretInv, HolderFits, Becomes
  <2> QED BY <1>1, <1>4, <2>1, <2>2, <2>3, SecretMove
<1> QED BY <1>3, <1>4 DEF WriteSnapshot

\* The candidate is published.
LEMMA SecretPublish ==
    ASSUME CoreInv, SecretInv, NEW i \in Ops, PublishSnapshot(i)
    PROVE  SecretInv'
<1> DEFINE c == op[i].cand
<1>0. op[i].pc = "publish" /\ UNCHANGED <<disk, secret, known, faults>>
  BY DEF PublishSnapshot
<1>1. gate = i /\ op[i] \in OpRec /\ op[i] # Idle /\ PlaceFacts(i)
  BY <1>0, AtPlace
<1>2. DOMAIN op[i].bak = {} /\ c \in StoreRec
  BY <1>0, <1>1 DEF PlaceFacts
<1>3. mem \in StoreRec
  BY DEF CoreInv, StoreTypes
<1>4. faults = {} => SameStore(c.prof, mem.prof)
  BY <1>0, <1>1 DEF SecretInv, HolderFits
<1>5. mem'.prof \in {mem.prof, c.prof}
  <2>1. \/ mem' \in {mem, c}
        \/ mem' = [mem EXCEPT !.prof = c.prof]
        \/ mem' = [mem EXCEPT !.rest["recents"] = c.rest["recents"]]
    BY DEF PublishSnapshot
  <2> QED BY <1>3, <2>1 DEF StoreRec
<1>6. faults' = {} => SameStore(mem.prof, mem'.prof)
  BY <1>0, <1>4, <1>5 DEF SameStore
<1>7. CASE End(i)
  BY <1>0, <1>2, <1>6, <1>7, SecretQuietReturn
<1>8. CASE Go(i, "forget") /\ UNCHANGED gate
  <2> DEFINE r == [op[i] EXCEPT !.pc = "forget"]
  <2>1. Becomes(i, r)
    <3>1. "forget" \in Pcs \ {"idle"}
      BY DEF Pcs
    <3> QED BY <1>1, <1>8, <3>1, MoveTypes DEF CoreInv, GateInv
  <2>2. /\ r.pc = "forget" /\ r.kind = op[i].kind /\ r.exp = op[i].exp
        /\ r.new = op[i].new /\ r.chg = op[i].chg /\ r.bak = op[i].bak
    BY <1>1 DEF OpRec
  <2> HIDE DEF r
  <2>3. faults' = {} => Fit(Overlay(op[i].bak, secret), mem'.prof)
    BY <1>0, <1>1, <1>6, FitSame DEF SecretInv, HolderFits
  <2>4. faults' = {} => HolderFits(i)'
    BY <1>0, <2>1, <2>2, <2>3 DEF HolderFits, Becomes
  <2> QED BY <1>1, <1>8, <2>1, <2>2, <2>4, SecretMove
<1> QED BY <1>7, <1>8 DEF PublishSnapshot

\* A preview, a secret somebody removes, a revoked key.
LEMMA SecretOutside ==
    ASSUME CoreInv, SecretInv, PreviewSettings \/ LoseSecret \/ RevokeKey
    PROVE  SecretInv'
<1>0. UNCHANGED <<gate, op, faults>>
  BY DEF PreviewSettings, LoseSecret, RevokeKey
<1>1. mem'.prof = mem.prof
  BY DEF PreviewSettings, LoseSecret, RevokeKey, CoreInv, StoreTypes, StoreRec
<1>2. secret \in [Slots -> Values] /\ secret' \in [Slots -> Values]
  BY DEF PreviewSettings, LoseSecret, RevokeKey, CoreInv, StoreTypes, Values
<1>3. \A s \in Slots : secret'[s] \in {secret[s], Lost}
  BY <1>2 DEF PreviewSettings, LoseSecret, RevokeKey
<1>4. \A p : Fit(secret, p) => Fit(secret', p)
  BY <1>3, FitLost
<1>5. ASSUME NEW c \in Changes, NEW p, Fit(Overlay(c, secret), p) PROVE Fit(Overlay(c, secret'), p)
  <2>1. \A s \in Slots : Overlay(c, secret')[s] \in {Overlay(c, secret)[s], Lost}
    BY <1>2, <1>3 DEF Overlay
  <2> QED BY <1>5, <2>1, FitLost
<1>6. ASSUME NEW i \in Ops, gate = i, HolderFits(i) PROVE HolderFits(i)'
  <2>1. op[i] \in OpRec
    BY <1>6, InProgress DEF CoreInv, GateInv
  <2>2. op[i].bak \in Changes
    BY <2>1 DEF OpRec
  <2> QED BY <1>0, <1>1, <1>4, <1>5, <1>6, <2>2 DEF HolderFits
<1> QED BY <1>0, <1>1, <1>4, <1>6 DEF SecretInv

\* A restart outside a change of the secrets loads a profile that they fit.
LEMMA SecretRestart ==
    ASSUME CoreInv, SecretInv, Restart
    PROVE  SecretInv'
<1>0. /\ mem' = disk /\ gate' = None /\ op' = [i \in Ops |-> Idle] /\ UNCHANGED secret
  BY DEF Restart
<1>1. ASSUME faults' = {} PROVE Fit(secret, disk.prof)
  <2>1. faults = {} /\ \A i \in Ops : op[i].pc \in {"commit", "undo"} => DOMAIN op[i].bak = {}
    <3>1. ~\E i \in Ops : op[i].pc \in {"commit", "undo"} /\ DOMAIN op[i].bak # {}
      BY <1>1 DEF Restart
    <3> QED BY <1>1, <3>1 DEF Restart
  <2>2. CASE gate = None
    <3>1. \A i \in Ops : op[i].pc # "publish"
      BY <2>2, NoneIsNoOp DEF CoreInv, GateInv
    <3>2. mem.prof = disk.prof
      BY <2>1, <3>1 DEF CoreInv, Agree
    <3> QED BY <2>1, <2>2, <3>2 DEF SecretInv
  <2>3. CASE gate # None
    <3>1. PICK i \in Ops : gate = i
      BY <2>3 DEF CoreInv, GateInv, OpTypes
    <3>2. op[i].pc \notin {"idle", "wait"}
      BY <3>1 DEF CoreInv, GateInv
    <3>3. op[i] # Idle /\ PlaceFacts(i)
      BY <3>2, AtPlace
    <3>4. DOMAIN op[i].bak = {}
      BY <2>1, <3>3 DEF PlaceFacts
    <3>5. Fit(secret, mem.prof)
      BY <2>1, <3>1, <3>3, <3>4, HeldFits
    <3>6. SameStore(mem.prof, disk.prof)
      <4>1. CASE op[i].pc = "publish"
        <5>1. disk = op[i].cand
          BY <3>3, <4>1 DEF PlaceFacts
        <5>2. SameStore(op[i].cand.prof, mem.prof)
          BY <2>1, <3>1, <4>1 DEF SecretInv, HolderFits
        <5> QED BY <5>1, <5>2 DEF SameStore
      <4>2. CASE op[i].pc # "publish"
        <5>1. mem.prof = disk.prof
          BY <2>1, <3>1, <4>2, AgreeNow
        <5> QED BY <5>1 DEF SameStore
      <4> QED BY <4>1, <4>2
    <3> QED BY <3>5, <3>6, FitSame
  <2> QED BY <2>2, <2>3
<1>2. \A i \in Ops : op'[i] = Idle
  BY <1>0
<1> QED BY <1>0, <1>1, <1>2, NoneIsNoOp DEF SecretInv

\* A loaded profile has no secrets yet.
LEMMA SecretInit == Init => SecretInv
<1> SUFFICES ASSUME Init PROVE SecretInv
  OBVIOUS
<1>1. PICK s \in Settings, p \in Plain \cup {Gone} :
          mem = [prof |-> p, set |-> s, rest |-> [k \in {"recents", "lang", "audio"} |-> FALSE]]
  BY DEF Init
<1>2. SshStore(p) = None /\ ~SshAuto(p)
  <2>1. CASE p = Gone
    BY <2>1 DEF SshStore, SshAuto
  <2>2. CASE p \in Plain
    BY <2>2 DEF Plain, SshStore, SshAuto
  <2> QED BY <2>1, <2>2
<1>3. mem.prof = p /\ secret = [s2 \in Slots |-> None] /\ gate = None
  BY <1>1 DEF Init
<1>4. Referenced(p) = {}
  BY <1>2 DEF Referenced
<1>5. Fit(secret, mem.prof)
  BY <1>2, <1>3, <1>4, SecretValues DEF Fit
<1>6. \A i \in Ops : op[i] = Idle
  BY DEF Init
<1> QED BY <1>3, <1>5, <1>6, NoneIsNoOp DEF SecretInv

\* Every step keeps the secrets and the references together.
LEMMA SecretNext ==
    ASSUME "missing" \notin Kinds, CoreInv, CoreInv', SecretInv, [Next]_vars
    PROVE  SecretInv'
<1>0. faults' = {} => faults = {}
  BY FaultsStay
<1>1. ASSUME NEW i \in Ops, Request(i) \/ Acquire(i) PROVE SecretInv'
  BY <1>1, SecretRequest, SecretAcquire
<1>2. ASSUME NEW i \in Ops, Step(i) PROVE SecretInv'
  BY <1>0, <1>2, SecretApply, SecretCommit, SecretRollback, SecretSettings, SecretDetection,
     SecretKnownHosts, SecretSnapshot, SecretWrite, SecretPublish DEF Step
<1>3. CASE UNCHANGED vars
  BY <1>3 DEF vars, SecretInv, HolderFits
<1> QED BY <1>1, <1>2, <1>3, SecretOutside, SecretRestart DEF Next

\* SecretsMatchReference: while the gate is free and nothing went wrong beyond
\* repair, the published profile refers to exactly the secrets that exist, for
\* every interleaving of saves, remembered and cleared passwords, deletions,
\* rejected passwords, trust decisions and updates.  A cleanup of a missing
\* password is left out: with it the property does not hold (README, section 4).
THEOREM SecretsFollowProfile ==
    ASSUME "missing" \notin Kinds
    PROVE  Spec => []SecretsMatchReference
<1>1. CoreInv /\ CoreInv' /\ SecretInv /\ [Next]_vars => SecretInv'
  BY SecretNext
<1>2. SecretInv => SecretsMatchReference
  BY DEF SecretInv, SecretsMatchReference, SecretsFit, Fit
<1> QED BY <1>1, <1>2, SecretInit, CoreAlways, PTL DEF Spec

=============================================================================

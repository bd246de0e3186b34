---------------------------- MODULE ProfileStore ----------------------------
(***************************************************************************)
(* The saved profile of one connection and everything that is changed       *)
(* together with it: the session store in memory and on disk, the password  *)
(* in the system keyring or the encrypted vault, and the host's record in   *)
(* known_hosts.                                                             *)
(*                                                                          *)
(* Operations are asynchronous.  A process-wide gate serialises all that    *)
(* write the store; those that replace the profile also reserve it with a   *)
(* mutation token before they queue for the gate.  Every platform call may  *)
(* fail, saving may fail before or after the file was replaced, a rollback  *)
(* may fail, and the process may end anywhere.                              *)
(***************************************************************************)
EXTENDS Naturals

CONSTANTS
    Ops,         \* identities of concurrent operations
    Kinds,       \* the kinds of operation that are started
    Events,      \* what else happens: previews, interference, faults
    Hosts,       \* endpoints (host and port) a profile may have
    Groups,      \* groups it may be filed under
    Auths,       \* authentications the editor offers
    Backends,    \* credential backends it offers
    Settings,    \* values of the settings that can be previewed
    Passwords,   \* passwords (and the vault keys generated for them)
    DetectTries, \* how often a detection waits for a mutation (300)
    None, Lost   \* Option::None; a secret somebody else removed

TokenKinds == {"save", "remember", "clear", "delete", "trust", "revoke"}
CleanupKinds == {"reject", "missing"}
UpdateKinds == {"settings", "audio", "lang", "groups", "recents", "detect"}

EventKinds == {"preview", "lose", "revoke", "restart", "norestore", "nosync"}

ASSUME KindsAssumption ==
    /\ Kinds \subseteq TokenKinds \cup CleanupKinds \cup UpdateKinds
    /\ Events \subseteq EventKinds
    /\ Auths \subseteq {"password", "key", "direct"}
    /\ Backends \subseteq {"keyring", "vault"}
    /\ DetectTries \in Nat \ {0}
ASSUME ValuesAssumption == /\ None \notin Ops \cup Passwords \cup {"keyring", "vault"}
                           /\ Lost \notin Passwords \cup {None}

VARIABLES
    mem,        \* AppState.sessions, the published store
    disk,       \* the saved store
    secret,     \* [Slots -> password, None or Lost]
    known,      \* the record of each host's key in known_hosts
    gate,       \* PersistenceCoordinator.gate: its holder, or None
    pending,    \* profile_mutations of the profile: its owner, or None
    op,         \* [Ops -> operation in progress]
    faults      \* ghost: what went wrong beyond repair

vars == <<mem, disk, secret, known, gate, pending, op, faults>>

-----------------------------------------------------------------------------
(* Data.                                                                    *)

Storages == {"keyring", "vault"}
Slots == Storages \cup {"unlock"}

Detections == [host : Hosts, pin : BOOLEAN]

Gone == [auth |-> "gone"]

\* SessionProfile: endpoint, authentication ("direct" is Telnet or Serial),
\* credential_storage, credential_vault_key_saved, the pinned host key, the
\* detected system and the group.
ProfileRec ==
    [host : Hosts, auth : {"password", "key", "direct"},
     store : Storages \cup {None}, auto : BOOLEAN, pin : BOOLEAN,
     det : Detections \cup {None}, group : Groups]

\* SessionStore: the profile, the previewable settings, and the parts other
\* operations own (recent workspaces, language, audio).
StoreRec ==
    [prof : ProfileRec \cup {Gone}, set : Settings,
     rest : [{"recents", "lang", "audio"} -> BOOLEAN]]

\* validate_connection_consistency, for the fields kept here.
Validate(p) ==
    /\ p.auth # "password" => p.store = None /\ ~p.auto
    /\ p.auto => p.store = "vault"

\* SystemDetection::matches_profile.
Matches(d, p) ==
    /\ d # None /\ p # Gone /\ p.auth # "direct"
    /\ d.host = p.host /\ d.pin = p.pin

Overlay(f, g) == [s \in DOMAIN g |-> IF s \in DOMAIN f THEN f[s] ELSE g[s]]

NoChange == [s \in {} |-> None]
Changes == UNION {[D -> Passwords \cup {None, Lost}] : D \in SUBSET Slots}

Pcs == {"idle", "wait", "cred", "commit", "undo", "known", "snap", "write",
        "publish", "forget"}

Idle == [pc |-> "idle"]
OpRec == [pc : Pcs \ {"idle"}, kind : Kinds, exp : ProfileRec \cup {Gone},
          new : ProfileRec \cup {Gone}, chg : Changes, bak : Changes,
          cand : StoreRec \cup {None}, tries : 0 .. DetectTries - 1]

TypeOK ==
    /\ mem \in StoreRec /\ disk \in StoreRec
    /\ secret \in [Slots -> Passwords \cup {None, Lost}]
    /\ known \in [Hosts -> {"none", "trusted", "revoked"}]
    /\ gate \in Ops \cup {None} /\ pending \in Ops \cup {None}
    /\ op \in [Ops -> OpRec \cup {Idle}]
    /\ faults \subseteq {"crash", "restore", "sync"}

-----------------------------------------------------------------------------
(* The session editor: profile_from_editor_with_password.                   *)

\* What the user can enter: store is the backend of a password to remember,
\* None when none is; gen says that the vault password was left empty.
Inputs ==
    {in \in [host : Hosts, auth : Auths, store : Backends \cup {None},
             gen : BOOLEAN, group : Groups, reset : BOOLEAN] :
        in.gen => in.auth = "password" /\ in.store = "vault"}

SshStore(p) == IF p = Gone \/ p.auth = "direct" THEN None ELSE p.store
SshAuto(p) == p # Gone /\ p.auth # "direct" /\ p.store = "vault" /\ p.auto
PasswordStorage(in) == IF in.auth = "password" THEN in.store ELSE None

EditorProfile(p, in) ==
    LET ps == PasswordStorage(in)
        base == [host |-> in.host, auth |-> in.auth,
                 store |-> IF in.auth # "password" THEN None
                           ELSE IF ps # None THEN ps ELSE SshStore(p),
                 auto |-> CASE in.auth = "direct" -> FALSE
                            [] ps = "vault" -> in.gen
                            [] ps = "keyring" -> FALSE
                            [] OTHER -> SshAuto(p),
                 pin |-> /\ in.auth # "direct" /\ p # Gone
                         /\ p.auth # "direct" /\ p.host = in.host /\ p.pin,
                 det |-> None,
                 group |-> in.group]
    IN IF p # Gone /\ ~in.reset /\ Matches(p.det, p) /\ Matches(p.det, base)
       THEN [base EXCEPT !.det = p.det] ELSE base

\* CredentialChange::Store and save_password: write the new secret, set or
\* drop the generated unlock key, drop the previous backend's secret.
StoreChange(p, storage, gen, w) ==
    [s \in {storage} \cup (IF SshStore(p) # None THEN {SshStore(p)} ELSE {})
              \cup (IF (storage = "vault" /\ gen) \/ SshAuto(p)
                    THEN {"unlock"} ELSE {}) |->
        IF s = storage \/ (s = "unlock" /\ storage = "vault" /\ gen)
        THEN w ELSE None]

DeleteChangeKeepsKey(p) ==
    [s \in IF SshStore(p) = None THEN {} ELSE {SshStore(p)} |-> None]

\* CredentialChange::Delete and delete_password.
DeleteChange(p) ==
    [s \in IF SshStore(p) = None THEN {}
           ELSE {SshStore(p)} \cup (IF SshAuto(p) THEN {"unlock"} ELSE {}) |->
        None]

EditorChange(p, in, w) ==
    IF PasswordStorage(in) # None
    THEN StoreChange(p, in.store, in.gen, w)
    ELSE IF in.auth # "password" THEN DeleteChange(p) ELSE NoChange

-----------------------------------------------------------------------------
(* Operations and their tokens.                                             *)

Operation(kind, exp, new, chg) ==
    [pc |-> "wait", kind |-> kind, exp |-> exp, new |-> new, chg |-> chg,
     bak |-> NoChange, cand |-> None, tries |-> 0]

MayReserve(i, kind) == op[i] = Idle /\ kind \in Kinds /\ pending = None

\* begin_profile_mutation; the profile is the expected one by construction.
Reserve(i, kind, new, chg) ==
    /\ pending' = i
    /\ op' = [op EXCEPT ![i] = Operation(kind, mem.prof, new, chg)]
    /\ UNCHANGED <<mem, disk, known, gate, faults>>

\* An operation that only queues for the gate.
Queue(i, kind, chg) ==
    /\ op[i] = Idle /\ kind \in Kinds
    /\ op' = [op EXCEPT ![i] = Operation(kind, mem.prof, Gone, chg)]
    /\ UNCHANGED <<mem, disk, secret, known, gate, pending, faults>>

\* finish_profile_mutation.
ReleaseTokenNever(i) == UNCHANGED pending

ReleaseToken(i) == pending' = IF pending = i THEN None ELSE pending

\* The operation returns: its token and its gate guard are dropped.
End(i) ==
    /\ op' = [op EXCEPT ![i] = Idle]
    /\ gate' = IF gate = i THEN None ELSE gate
    /\ ReleaseToken(i)

Go(i, pc) == op' = [op EXCEPT ![i].pc = pc]

-----------------------------------------------------------------------------
(* Requests.                                                                *)

\* Saving the editor.  A new profile has a new id and no secrets: it takes
\* the place of the deleted one once the operations on that are over.
SaveInput(i, in, w) ==
    /\ MayReserve(i, "save")
    /\ IF mem.prof # Gone THEN UNCHANGED secret
       ELSE /\ \A j \in Ops : op[j] = Idle
            /\ secret' = [s \in Slots |-> None]
    /\ Validate(EditorProfile(mem.prof, in))
    /\ Reserve(i, "save", EditorProfile(mem.prof, in), EditorChange(mem.prof, in, w))

SaveSession(i) == \E in \in Inputs, w \in Passwords : SaveInput(i, in, w)

\* persist_authenticated_credential, after the server accepted a password
\* that is to be remembered.
RememberPassword(i) ==
    /\ MayReserve(i, "remember")
    /\ \E storage \in Backends, gen \in BOOLEAN, w \in Passwords :
           /\ mem.prof # Gone /\ mem.prof.auth = "password"
           /\ gen => storage = "vault"
           /\ Reserve(i, "remember",
                      [mem.prof EXCEPT !.store = storage, !.auto = gen],
                      StoreChange(mem.prof, storage, gen, w))
           /\ UNCHANGED secret

\* clear_saved_password.
ClearSavedPassword(i) ==
    /\ MayReserve(i, "clear")
    /\ SshStore(mem.prof) # None
    /\ Reserve(i, "clear", [mem.prof EXCEPT !.store = None, !.auto = FALSE],
               DeleteChange(mem.prof))
    /\ UNCHANGED secret

\* delete_session_profile.
DeleteSession(i) ==
    /\ MayReserve(i, "delete")
    /\ mem.prof # Gone
    /\ Reserve(i, "delete", Gone, DeleteChange(mem.prof))
    /\ UNCHANGED secret

\* on_confirm_host_key for a key that is unknown or changed.
TrustHostKey(i) ==
    /\ MayReserve(i, "trust")
    /\ mem.prof # Gone /\ mem.prof.auth # "direct"
    /\ known[mem.prof.host] # "revoked"
    /\ Reserve(i, "trust", [mem.prof EXCEPT !.pin = TRUE], NoChange)
    /\ UNCHANGED secret

\* on_confirm_host_key for a revoked key.
RemoveRevokedKey(i) ==
    /\ MayReserve(i, "revoke")
    /\ mem.prof # Gone /\ mem.prof.auth # "direct"
    /\ known[mem.prof.host] = "revoked"
    /\ Reserve(i, "revoke", [mem.prof EXCEPT !.pin = FALSE], NoChange)
    /\ UNCHANGED secret

\* The server rejected the stored password.
RejectedPassword(i) ==
    /\ SshStore(mem.prof) # None
    /\ Queue(i, "reject", DeleteChange(mem.prof))

\* The stored password was not found: an automatic vault is cleaned up
\* (clear_missing_auto_vault_credential), otherwise only the reference goes.
MissingPassword(i) ==
    /\ SshStore(mem.prof) # None
    /\ \/ secret[SshStore(mem.prof)] \in {None, Lost}
       \/ SshAuto(mem.prof) /\ secret["unlock"] \in {None, Lost}
    /\ Queue(i, "missing", IF SshAuto(mem.prof) THEN DeleteChange(mem.prof)
                                                ELSE NoChange)

\* Settings, audio settings, language or icon, groups and imports, recent
\* workspaces, the detected system.
RequestUpdate(i) ==
    \E kind \in UpdateKinds :
        /\ kind = "detect" => mem.prof # Gone /\ mem.prof.auth # "direct"
        /\ Queue(i, kind, NoChange)

\* apply_preview_settings: no gate, memory only.
PreviewSettings ==
    /\ "preview" \in Events
    /\ \E s \in Settings : s # mem.set /\ mem' = [mem EXCEPT !.set = s]
    /\ UNCHANGED <<disk, secret, known, gate, pending, op, faults>>

\* Somebody else removes a secret from the keyring or the vault directory.
LoseSecret ==
    /\ "lose" \in Events
    /\ \E s \in Slots : /\ secret[s] \in Passwords
                        /\ secret' = [secret EXCEPT ![s] = Lost]
    /\ UNCHANGED <<mem, disk, known, gate, pending, op, faults>>

\* Somebody else marks the host key as revoked.
RevokeKey ==
    /\ "revoke" \in Events
    /\ \E h \in Hosts : /\ known[h] # "revoked"
                        /\ known' = [known EXCEPT ![h] = "revoked"]
    /\ UNCHANGED <<mem, disk, secret, gate, pending, op, faults>>

-----------------------------------------------------------------------------
(* Steps.                                                                   *)

\* ensure_profile_mutation_current.
MutationCurrent(i) == pending = i /\ mem.prof = op[i].exp

FirstStepPinsFirst(i) ==
    LET k == op[i].kind IN
    CASE k \in {"save", "remember", "clear", "delete", "reject"} -> "cred"
      [] k \in {"trust", "revoke", "groups", "recents"} -> "snap"
      [] OTHER -> "commit"

FirstStep(i) ==
    LET k == op[i].kind IN
    CASE k \in {"save", "remember", "clear", "delete", "reject"} -> "cred"
      [] k = "missing" -> IF DOMAIN op[i].chg = {} THEN "commit" ELSE "cred"
      [] k = "trust" -> "known"
      [] k \in {"revoke", "groups", "recents"} -> "snap"
      [] OTHER -> "commit"

AcquireFreely(i) ==
    /\ op[i].pc = "wait"
    /\ gate' = i
    /\ Go(i, FirstStep(i))
    /\ UNCHANGED <<mem, disk, secret, known, pending, faults>>

AcquireUnchecked(i) ==
    /\ op[i].pc = "wait" /\ gate = None
    /\ gate' = i /\ Go(i, FirstStep(i))
    /\ UNCHANGED <<mem, disk, secret, known, pending, faults>>

\* The gate is free; a reserved operation first checks that it is current.
Acquire(i) ==
    /\ op[i].pc = "wait" /\ gate = None
    /\ IF op[i].kind \in TokenKinds /\ ~MutationCurrent(i)
       THEN End(i)
       ELSE gate' = i /\ Go(i, FirstStep(i)) /\ UNCHANGED pending
    /\ UNCHANGED <<mem, disk, secret, known, faults>>

\* Every touched slot holds its old or its new value.
Halfway(old, new) ==
    {f \in [Slots -> {old[s] : s \in Slots} \cup {new[s] : s \in Slots}] :
        \A s \in Slots : f[s] \in {old[s], new[s]}}

\* save_password or delete_password in a blocking task.  A failing call
\* restores the backups before it returns, unless that fails too.
ApplyCredential(i) ==
    LET new == Overlay(op[i].chg, secret) IN
    /\ op[i].pc = "cred"
    /\ \/ /\ secret' = new
          /\ op' = [op EXCEPT ![i].pc = "commit",
                              ![i].bak = [s \in DOMAIN op[i].chg |-> secret[s]]]
          /\ UNCHANGED <<gate, pending, faults>>
       \/ /\ DOMAIN op[i].chg # {}
          /\ \/ UNCHANGED <<secret, faults>>
             \/ /\ "norestore" \in Events
                /\ secret' \in Halfway(secret, new)
                /\ faults' = faults \cup {"restore"}
          /\ End(i)
    /\ UNCHANGED <<mem, disk, known>>

\* ConfigStore::save: it succeeds; it fails and leaves the file alone; or
\* the directory cannot be synced once the file was replaced.
SaveOk(cand) == disk' = cand
SaveFails(cand) ==
    \/ UNCHANGED <<disk, faults>>
    \/ /\ "nosync" \in Events /\ cand # disk
       /\ disk' = cand
       /\ faults' = faults \cup {"sync"}

Restores(i) == IF DOMAIN op[i].bak = {} THEN End(i)
               ELSE Go(i, "undo") /\ ReleaseToken(i) /\ UNCHANGED gate

\* commit_profile_save, commit_profile_credential_storage,
\* commit_profile_password_clear and commit_profile_delete.  Only the clear
\* starts from the saved store; an unchanged reference is not saved again.
CommitAllowed(i) ==
    /\ MutationCurrent(i)
    /\ op[i].kind = "clear" => disk.prof = op[i].exp

CommitProfile(i) ==
    LET base == IF op[i].kind = "clear" THEN disk ELSE mem
        cand == [base EXCEPT !.prof = op[i].new]
        keep == op[i].kind = "remember" /\ op[i].new = op[i].exp
    IN /\ op[i].pc = "commit"
       /\ op[i].kind \in {"save", "remember", "clear", "delete"}
       /\ \/ /\ CommitAllowed(i)
             /\ IF keep THEN UNCHANGED disk ELSE SaveOk(cand)
             /\ mem' = [mem EXCEPT !.prof = op[i].new]
             /\ End(i)
             /\ UNCHANGED faults
          \/ /\ IF CommitAllowed(i) THEN ~keep /\ SaveFails(cand)
                                    ELSE UNCHANGED <<disk, faults>>
             /\ Restores(i)
             /\ UNCHANGED mem
       /\ UNCHANGED <<secret, known>>

\* set_credential_storage_while_loading, for a rejected or missing password;
\* the tab may have left its loading phase by now.
CommitCleanup(i) ==
    LET cand == [mem EXCEPT !.prof.store = None, !.prof.auto = FALSE]
    IN /\ op[i].pc = "commit" /\ op[i].kind \in CleanupKinds
       /\ \/ /\ mem.prof = op[i].exp
             /\ SaveOk(cand) /\ mem' = cand
             /\ End(i)
             /\ UNCHANGED faults
          \/ /\ IF mem.prof = op[i].exp THEN SaveFails(cand)
                                        ELSE UNCHANGED <<disk, faults>>
             /\ Restores(i)
             /\ UNCHANGED mem
       /\ UNCHANGED <<secret, known>>

\* CredentialRollback::restore.
Rollback(i) ==
    LET old == Overlay(op[i].bak, secret) IN
    /\ op[i].pc = "undo"
    /\ \/ secret' = old /\ UNCHANGED faults
       \/ /\ "norestore" \in Events
          /\ secret' \in Halfway(secret, old)
          /\ secret' # old
          /\ faults' = faults \cup {"restore"}
    /\ End(i)
    /\ UNCHANGED <<mem, disk, known>>

\* save_workspace_settings and the audio settings save the published store,
\* language and shell icon the saved one.
CommitSettings(i) ==
    LET k == op[i].kind IN
    /\ op[i].pc = "commit" /\ k \in {"settings", "audio", "lang"}
    /\ \E s \in Settings, v \in BOOLEAN :
          LET cand == CASE k = "settings" -> [mem EXCEPT !.set = s]
                        [] k = "audio" -> [mem EXCEPT !.rest["audio"] = v]
                        [] k = "lang" -> [disk EXCEPT !.rest["lang"] = v]
          IN \/ /\ SaveOk(cand)
                /\ mem' = IF k = "lang" THEN [mem EXCEPT !.rest["lang"] = v]
                                        ELSE cand
                /\ UNCHANGED faults
             \/ SaveFails(cand) /\ UNCHANGED mem
    /\ End(i)
    /\ UNCHANGED <<secret, known>>

\* save_system_detection found a mutation pending: persist_system_detection
\* waits and queues again, and gives up after DetectTries.
DetectionWaitsForever(i) ==
    /\ Go(i, "wait") /\ gate' = None
    /\ UNCHANGED pending

DetectionWaits(i) ==
    IF op[i].tries + 1 = DetectTries THEN End(i)
    ELSE /\ op' = [op EXCEPT ![i].pc = "wait", ![i].tries = @ + 1]
         /\ gate' = None
         /\ UNCHANGED pending

\* save_system_detection; a detection that no longer matches, or that
\* forget_system_detection removed meanwhile, is dropped.
CommitDetection(i) ==
    LET d == [host |-> op[i].exp.host, pin |-> op[i].exp.pin]
        cand == [disk EXCEPT !.prof.det = d]
        fits == Matches(d, mem.prof) /\ Matches(d, disk.prof)
    IN /\ op[i].pc = "commit" /\ op[i].kind = "detect"
       /\ \/ /\ pending # None
             /\ DetectionWaits(i)
             /\ UNCHANGED <<mem, disk, faults>>
          \/ pending = None /\ End(i) /\ UNCHANGED <<mem, disk, faults>>
          \/ /\ pending = None /\ fits
             /\ \/ /\ SaveOk(cand)
                   /\ mem' = [mem EXCEPT !.prof.det = d]
                   /\ UNCHANGED faults
                \/ SaveFails(cand) /\ UNCHANGED mem
             /\ End(i)
       /\ UNCHANGED <<secret, known>>

\* confirm_host_key: known_hosts is written first; a line with a marker
\* stays and keeps its precedence.
RecordKnownHost(i) ==
    /\ op[i].pc = "known"
    /\ \/ /\ known' = [known EXCEPT ![op[i].exp.host] =
                          IF @ = "revoked" THEN @ ELSE "trusted"]
          /\ Go(i, "snap")
          /\ UNCHANGED <<gate, pending>>
       \/ UNCHANGED known /\ End(i)
    /\ UNCHANGED <<mem, disk, secret, faults>>

\* A trust decision changes a copy of the published store; groups and recent
\* workspaces start from the saved one.
SnapshotOfMemory(k) == mem

SnapshotBase(k) == IF k \in {"trust", "revoke"} THEN mem ELSE disk

\* The candidate is taken under the state lock and saved without it.
TakeSnapshot(i) ==
    LET k == op[i].kind
        base == SnapshotBase(k) IN
    /\ op[i].pc = "snap"
    /\ \/ /\ k \in {"trust", "revoke"}
          /\ IF ~MutationCurrent(i) THEN End(i)
             ELSE /\ op' = [op EXCEPT ![i].pc = "write", ![i].cand =
                                [base EXCEPT !.prof = op[i].new]]
                  /\ UNCHANGED <<gate, pending>>
       \/ /\ k = "groups"
          /\ \E g \in Groups :
                op' = [op EXCEPT ![i].pc = "write", ![i].cand =
                          [base EXCEPT !.prof =
                              IF mem.prof = Gone THEN Gone
                              ELSE [mem.prof EXCEPT !.group = g]]]
          /\ UNCHANGED <<gate, pending>>
       \/ /\ k = "recents"
          /\ \E v \in BOOLEAN :
                op' = [op EXCEPT ![i].pc = "write", ![i].cand =
                          [base EXCEPT !.rest["recents"] = v]]
          /\ UNCHANGED <<gate, pending>>
    /\ UNCHANGED <<mem, disk, secret, known, faults>>

WriteSnapshot(i) ==
    /\ op[i].pc = "write"
    /\ \/ /\ SaveOk(op[i].cand) /\ Go(i, "publish")
          /\ UNCHANGED <<gate, pending, faults>>
       \/ SaveFails(op[i].cand) /\ End(i)
    /\ UNCHANGED <<mem, secret, known>>

\* A trust decision publishes the whole candidate; the other operations only
\* the fields they own.
PublishSnapshot(i) ==
    LET k == op[i].kind
        cand == op[i].cand IN
    /\ op[i].pc = "publish"
    /\ \/ /\ k \in {"trust", "revoke"}
          /\ mem' = IF MutationCurrent(i) THEN cand ELSE mem
          /\ IF k = "trust" \/ ~MutationCurrent(i) THEN End(i)
             ELSE Go(i, "forget") /\ ReleaseToken(i) /\ UNCHANGED gate
       \/ /\ k = "groups"
          /\ mem' = [mem EXCEPT !.prof = cand.prof]
          /\ End(i)
       \/ /\ k = "recents"
          /\ mem' = [mem EXCEPT !.rest["recents"] = cand.rest["recents"]]
          /\ End(i)
    /\ UNCHANGED <<disk, secret, known, faults>>

\* confirm_revoked_host_key: the @revoked record goes last.
ForgetKnownHost(i) ==
    /\ op[i].pc = "forget"
    /\ \/ known' = [known EXCEPT ![op[i].exp.host] = "none"]
       \/ UNCHANGED known
    /\ End(i)
    /\ UNCHANGED <<mem, disk, secret, faults>>

\* The process ends and starts again from the saved store.
Restart ==
    /\ "restart" \in Events
    /\ mem' = disk
    /\ op' = [i \in Ops |-> Idle]
    /\ gate' = None /\ pending' = None
    /\ faults' = IF \E i \in Ops : /\ op[i].pc \in {"commit", "undo"}
                                 /\ DOMAIN op[i].bak # {}
                 THEN faults \cup {"crash"} ELSE faults
    /\ UNCHANGED <<disk, secret, known>>

-----------------------------------------------------------------------------
Request(i) ==
    \/ SaveSession(i) \/ RememberPassword(i) \/ ClearSavedPassword(i)
    \/ DeleteSession(i) \/ TrustHostKey(i) \/ RemoveRevokedKey(i)
    \/ RejectedPassword(i) \/ MissingPassword(i) \/ RequestUpdate(i)

Step(i) ==
    \/ ApplyCredential(i) \/ CommitProfile(i) \/ CommitCleanup(i)
    \/ Rollback(i) \/ CommitSettings(i) \/ CommitDetection(i)
    \/ RecordKnownHost(i) \/ TakeSnapshot(i) \/ WriteSnapshot(i)
    \/ PublishSnapshot(i) \/ ForgetKnownHost(i)

\* A loaded store, with or without a profile that has no secrets yet.
Plain == {p \in ProfileRec : /\ p.auth \in Auths /\ p.store = None
                             /\ ~p.auto /\ ~p.pin /\ p.det = None}

Init ==
    /\ \E s \in Settings, p \in Plain \cup {Gone} :
          mem = [prof |-> p, set |-> s,
                 rest |-> [k \in {"recents", "lang", "audio"} |-> FALSE]]
    /\ disk = mem
    /\ secret = [s \in Slots |-> None]
    /\ known = [h \in Hosts |-> "none"]
    /\ gate = None /\ pending = None
    /\ op = [i \in Ops |-> Idle]
    /\ faults = {}

Next ==
    \/ \E i \in Ops : Request(i) \/ Acquire(i) \/ Step(i)
    \/ PreviewSettings \/ LoseSecret \/ RevokeKey \/ Restart

Spec == Init /\ [][Next]_vars

\* Tokio polls every spawned operation until it returns, blocking tasks
\* included, and its Mutex hands the gate to waiters in FIFO order.
Fairness == \A i \in Ops : WF_vars(Step(i)) /\ SF_vars(Acquire(i))

FairSpec == Spec /\ Fairness

-----------------------------------------------------------------------------
(* Safety.                                                                  *)

Checked == Pcs \ {"idle", "wait", "undo", "forget"}

\* "Every SessionStore persistence path shares one process-wide asynchronous
\* gate": from its first check to its commit, a reserved operation works on
\* the profile that is published, whoever else wants to change it meanwhile.
ExpectedStaysCurrent ==
    \A i \in Ops :
        op[i].pc \in Checked /\ op[i].kind \in TokenKinds => MutationCurrent(i)

\* A mutation token never outlives its operation; a leaked one would refuse
\* every later edit of the profile ("session is already being modified").
TokenHasOwner ==
    pending # None => /\ op[pending].pc \in Checked \cup {"wait"}
                      /\ op[pending].kind \in TokenKinds

\* While no operation runs, memory and disk hold the same profile, groups
\* and lists: a failed save publishes nothing, and operations that start from
\* the saved store lose nothing that was published.
PublishedIsSaved ==
    gate = None /\ "sync" \notin faults
        => mem.prof = disk.prof /\ mem.rest = disk.rest

Referenced(p) ==
    (IF SshStore(p) = None THEN {} ELSE {SshStore(p)})
        \cup (IF SshAuto(p) THEN {"unlock"} ELSE {})

SecretsFit(p) ==
    /\ \A s \in Slots : IF s \in Referenced(p) THEN secret[s] # None
                                              ELSE secret[s] \notin Passwords
    /\ SshAuto(p) /\ Lost \notin {secret["vault"], secret["unlock"]}
           => secret["vault"] = secret["unlock"]

\* While no operation runs, the profile refers to exactly the secrets that
\* exist, and a generated unlock key is the one its vault was sealed with:
\* failed operations were rolled back completely.  docs/architecture.md: "the
\* selected backend is updated transactionally with the profile".  (faults: a rollback failed,
\* the directory sync failed, or the process ended in a transaction.)
SecretsMatchReference == gate = None /\ faults = {} => SecretsFit(mem.prof)

Pins(p, h) == p # Gone /\ p.auth # "direct" /\ p.host = h /\ p.pin

\* The order of the two files of a trust decision: a key is pinned only once
\* it is recorded, and a @revoked record is removed only once neither the
\* published nor the saved profile pins the key, also across restarts.
TrustIsOrdered ==
    [][\A h \in Hosts :
          /\ Pins(disk'.prof, h) /\ ~Pins(disk.prof, h) => known[h] # "none"
          /\ known[h] = "revoked" /\ known'[h] # "revoked"
                 => ~Pins(mem.prof, h) /\ ~Pins(disk.prof, h)]_vars

\* "Do not persist transient Settings previews as a side effect of CRUD": an
\* operation that starts from the saved store leaves the saved settings alone,
\* whatever is previewed before or while it runs.
PreviewStaysTransient ==
    [][gate # None /\ op[gate].kind \in {"clear", "lang", "groups", "recents",
                                         "detect"}
           => disk'.set = disk.set]_vars

-----------------------------------------------------------------------------
(* What the documentation says.                                             *)

\* docs/architecture.md: "switching it to private-key or SSH-agent
\* authentication [...] removes its referenced credential": the editor
\* accepts the switch.
SwitchingIsAccepted ==
    mem.prof # Gone =>
        \A in \in Inputs :
            in.auth = "key" => Validate(EditorProfile(mem.prof, in))

-----------------------------------------------------------------------------
(* Liveness, under FairSpec.                                                *)

\* Every request is carried out or refused: the gate starves nobody, and with
\* TokenHasOwner a reserved profile becomes available again.
RequestEnds == \A i \in Ops : op[i].pc # "idle" ~> op[i].pc = "idle"
=============================================================================

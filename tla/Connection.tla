----------------------------- MODULE Connection -----------------------------
(***************************************************************************)
(* The connection lifecycle of one SSH (or SFTP) tab of AxSSH: host-key     *)
(* probe, trust, authentication, the transport worker with its event        *)
(* monitor, automatic reconnection, manual retry, disconnect and close.     *)
(*                                                                          *)
(* The state is the tab's TerminalTabState (a record, changed by operators  *)
(* named after its methods), the saved profile, the asynchronous tasks in   *)
(* flight and, for each worker attempt, its worker, event channel and       *)
(* monitor.  Every action is one critical section of the application state  *)
(* lock: what the code does after an unlock is a later step of a task.      *)
(***************************************************************************)
EXTENDS Naturals, Sequences

CONSTANTS
    Attempts,      \* attempt ids (Uuids) that may be drawn; bounds the workers
    TaskIds,       \* identities of concurrently running tasks
    None,          \* Option::None
    Auths,         \* authentication set-ups a profile may have
    MaxReconnect,  \* TerminalTabState::MAX_RECONNECT_ATTEMPTS (5 in the code)
    MaxGen,        \* bound on reconnect_generation: user cancels and retries
    MaxEdits       \* bound on concurrent edits of the saved profile

AuthKinds == {"agent", "key", "password", "keyring", "vault", "vaultauto"}

ASSUME NoneAssumption == None \notin Attempts
ASSUME AuthAssumption == Auths \subseteq AuthKinds
ASSUME BoundsAssumption == /\ MaxReconnect \in Nat \ {0}
                           /\ MaxGen \in Nat
                           /\ MaxEdits \in Nat

VARIABLES
    profile,    \* the saved profile, or Gone (deleted, or no longer SSH)
    tab,        \* TerminalTabState of the tab
    tasks,      \* [TaskIds -> task]: spawned futures and UI-thread callbacks
    wk,         \* [Attempts -> state of the transport worker]
    stop,       \* [Attempts -> Disconnect queued or controller dropped]
    chan,       \* [Attempts -> event channel worker -> monitor]
    mon,        \* [Attempts -> monitor task of the attempt]
    card,       \* the Retry card is on screen (an old snapshot of the tab)
    fired,      \* ghost: automatic starts since the last Connected or Retry
    ended       \* ghost: how the user last ended the connection, or "no"

vars == <<profile, tab, tasks, wk, stop, chan, mon, card, fired, ended>>

-----------------------------------------------------------------------------
(* Data.                                                                    *)

Gone == [auth |-> "gone", pin |-> FALSE, ver |-> 0]

\* SessionProfile: how it authenticates (method and credential_storage), the
\* pinned host key, and a version standing for every other field.
Profiles ==
    [auth : Auths \cup {"password"}, pin : BOOLEAN, ver : 0..MaxEdits]
        \cup {Gone}

\* SshConnectionPhase; the flags of AwaitingAuthentication (vault_unlock_only)
\* and of PendingHostKey (revoked) are part of the phase's name.
Phases == {"Idle", "Probing", "AwaitKey", "AwaitRevoked", "ConfirmKey",
           "ConfirmRevoked", "AwaitAuth", "AwaitVault", "Loading"}

AwaitingAuthentication == {"AwaitAuth", "AwaitVault"}

\* What ends a worker's event stream.
TerminalEvents == {"Disconnected", "ShellExited", "Failed", "HostKeyRejected",
                   "HostKeyRevoked", "AuthFailed", "KeyFailed"}
Events == TerminalEvents \cup {"Connected"}

TaskKinds == {"probe", "resume", "begin", "lookup", "clear", "prompt",
              "timer", "expire", "start", "confirm", "confirmRevoked"}
NoTask == [kind |-> "none"]
TaskRec == [kind : TaskKinds, prof : Profiles, gen : Nat, ui : BOOLEAN]

\* In "sched", "schedFailed" and "close" the attempt is retired and
\* schedule_reconnect or the closing of the pane is the monitor's next step;
\* in "cleanup" it removes a rejected stored credential.
MonStates == {"none", "run", "sched", "schedFailed", "close", "cleanup",
              "ended"}
MonRec == [st : MonStates, prof : Profiles, stored : BOOLEAN, term : BOOLEAN]
NoMon == [st |-> "none", prof |-> Gone, stored |-> FALSE, term |-> FALSE]

TabRec == [open : BOOLEAN, phase : Phases, secret : BOOLEAN,
           attempt : Attempts \cup {None}, worker : Attempts \cup {None},
           running : BOOLEAN, connected : BOOLEAN, failure : BOOLEAN,
           gen : Nat, rtry : 0..MaxReconnect,
           reconnecting : BOOLEAN, enabled : BOOLEAN]

ClosedTab == [open |-> FALSE, phase |-> "Idle", secret |-> FALSE,
              attempt |-> None, worker |-> None, running |-> FALSE,
              connected |-> FALSE, failure |-> FALSE, gen |-> 0, rtry |-> 0,
              reconnecting |-> FALSE, enabled |-> FALSE]

Task(kind, prof, gen, ui) ==
    [kind |-> kind, prof |-> prof, gen |-> gen, ui |-> ui]

TypeOK ==
    /\ profile \in Profiles
    /\ tab \in TabRec
    /\ tasks \in [TaskIds -> TaskRec \cup {NoTask}]
    /\ wk \in [Attempts -> {"unused", "connecting", "up", "done"}]
    /\ stop \in [Attempts -> BOOLEAN]
    /\ chan \in [Attempts -> Seq(Events)]
    /\ mon \in [Attempts -> MonRec]
    /\ card \in BOOLEAN
    /\ fired \in Nat
    /\ ended \in {"no", "cancel", "disconnect", "close"}

-----------------------------------------------------------------------------
(* Methods of TerminalTabState.                                             *)

SetSshPhaseKeepsSecret(t, p) == [t EXCEPT !.phase = p]

SetSshPhase(t, p) ==
    [t EXCEPT !.phase = p, !.secret = IF p = "Idle" THEN FALSE ELSE @]

CanReconnectOffByOne(t) ==
    /\ t.open /\ t.enabled /\ ~t.reconnecting /\ t.worker = None
    /\ t.rtry <= MaxReconnect

CanReconnect(t) ==
    /\ t.open /\ t.enabled /\ ~t.reconnecting /\ t.worker = None
    /\ t.rtry < MaxReconnect

BeginReconnect(t) == [t EXCEPT !.rtry = @ + 1, !.reconnecting = TRUE]

ReconnectCurrent(t, g) == t.open /\ t.enabled /\ t.gen = g /\ t.reconnecting

FinishReconnectAttempt(t, g) ==
    IF t.gen = g THEN [t EXCEPT !.reconnecting = FALSE] ELSE t

MarkReconnectConnected(t) ==
    [t EXCEPT !.rtry = 0, !.reconnecting = FALSE, !.enabled = TRUE]

CancelReconnect(t) ==
    [t EXCEPT !.gen = @ + 1, !.reconnecting = FALSE, !.enabled = FALSE]

PrepareManualRetry(t) ==
    [t EXCEPT !.gen = @ + 1, !.rtry = 0,
              !.reconnecting = FALSE, !.enabled = TRUE]

RetireAttemptStaysConnected(t) ==
    [FinishReconnectAttempt(t, t.gen) EXCEPT
        !.worker = None, !.attempt = None, !.running = FALSE]

RetireAttemptKeepsWorker(t) ==
    [FinishReconnectAttempt(t, t.gen) EXCEPT !.connected = FALSE]

\* The part retire_session_attempt, prepare_retry_with_phase and
\* prepare_host_key_retry share.
RetireAttempt(t) ==
    [FinishReconnectAttempt(t, t.gen) EXCEPT
        !.worker = None, !.attempt = None,
        !.connected = FALSE, !.running = FALSE]

\* set_awaiting_authentication: only a tab that waits for or loads a
\* credential can be sent (back) to the prompt.
SetAwaiting(t, p) ==
    IF t.open /\ t.phase \in AwaitingAuthentication \cup {"Loading"}
    THEN SetSshPhase(t, p) ELSE t

\* notice_snapshot: the card with the Retry action, the Reconnecting card
\* (which offers only Close), and the blocking prompts.
RetryNotice(t) ==
    /\ t.open /\ ~t.connected /\ ~t.running /\ t.phase = "Idle"
    /\ ~t.reconnecting /\ t.failure

SecurityPrompt(t) ==
    /\ t.open /\ profile # Gone
    /\ t.phase \in AwaitingAuthentication \cup {"AwaitKey", "AwaitRevoked"}

MatchesAttempt(a) == tab.open /\ tab.attempt = a

-----------------------------------------------------------------------------
(* Tasks.                                                                   *)

Free(i) == tasks[i] = NoTask
Spawn(i, t) == tasks' = [tasks EXCEPT ![i] = t]
Finish(i) == tasks' = [tasks EXCEPT ![i] = NoTask]

\* The Slint event loop runs one callback at a time.
UiIdle == \A i \in TaskIds : tasks[i] # NoTask => ~tasks[i].ui

Busy(i, kind) == tasks[i] # NoTask /\ tasks[i].kind = kind

-----------------------------------------------------------------------------
(* start_session_worker: one critical section that either refuses or        *)
(* attaches a fresh attempt to the tab and spawns its worker and monitor.   *)

StartAllowedStale(prof, from) ==
    tab.open /\ tab.phase \in from /\ profile # Gone /\ tab.worker = None

StartAllowed(prof, from) ==
    /\ tab.open
    /\ tab.phase \in from
    /\ profile # Gone /\ profile = prof
    /\ tab.worker = None

StartSessionWorker(prof, stored) ==
    \E a \in Attempts :
        /\ wk[a] = "unused"
        /\ tab' = SetSshPhase([tab EXCEPT !.attempt = a, !.worker = a,
                                 !.enabled = TRUE, !.running = TRUE,
                                 !.connected = FALSE, !.failure = FALSE],
                              "Idle")
        /\ wk' = [wk EXCEPT ![a] = "connecting"]
        /\ mon' = [mon EXCEPT ![a] = [st |-> "run", prof |-> prof,
                                      stored |-> stored, term |-> FALSE]]

DropWorkerSilently == UNCHANGED stop

\* The worker handle leaves the tab: dropping it closes the command channel.
DropWorker ==
    stop' = IF tab.worker = None THEN stop
            ELSE [stop EXCEPT ![tab.worker] = TRUE]

-----------------------------------------------------------------------------
(* User and environment actions.                                            *)

\* request_profile_connection: opens the tab.  A pinned profile goes on to
\* authentication, any other one to a host-key probe.
OpenConnection(i, secret) ==
    /\ ~tab.open /\ ended = "no" /\ UiIdle /\ Free(i)
    /\ profile # Gone
    /\ tab' = [ClosedTab EXCEPT !.open = TRUE, !.secret = secret,
                  !.phase = IF profile.pin THEN "AwaitAuth" ELSE "Probing"]
    /\ IF profile.pin THEN Spawn(i, Task("begin", profile, 0, TRUE))
                      ELSE Spawn(i, Task("probe", profile, 0, FALSE))
    /\ UNCHANGED <<profile, wk, stop, chan, mon, card, fired, ended>>

\* on_authenticate_session with a password (or a key passphrase).
Authenticate ==
    /\ UiIdle /\ tab.open /\ tab.phase = "AwaitAuth"
    /\ StartAllowed(profile, AwaitingAuthentication)
    /\ StartSessionWorker(profile, FALSE)
    /\ ended' = "no"
    /\ UNCHANGED <<profile, tasks, stop, chan, card, fired>>

\* on_authenticate_session of a tab that only needs its vault unlocked.
UnlockVault(i) ==
    /\ UiIdle /\ Free(i) /\ tab.open /\ tab.phase = "AwaitVault"
    /\ profile # Gone
    /\ tab' = SetSshPhase(tab, "Loading")
    /\ Spawn(i, Task("lookup", profile, 0, FALSE))
    /\ ended' = "no"
    /\ UNCHANGED <<profile, wk, stop, chan, mon, card, fired>>

\* on_cancel_password_dialog.
CancelPasswordDialog ==
    /\ UiIdle /\ tab.open /\ tab.phase \in AwaitingAuthentication
    /\ tab' = [SetSshPhase(tab, "Idle") EXCEPT !.failure = FALSE]
    /\ ended' = "cancel"
    /\ UNCHANGED <<profile, tasks, wk, stop, chan, mon, card, fired>>

\* on_confirm_host_key: reserves the profile and starts the trust update.
ConfirmHostKey(i) ==
    /\ UiIdle /\ Free(i) /\ tab.open /\ profile # Gone
    /\ tab.phase \in {"AwaitKey", "AwaitRevoked"}
    /\ \A j \in TaskIds : ~Busy(j, "confirm") /\ ~Busy(j, "confirmRevoked")
    /\ \/ /\ tab.phase = "AwaitKey"
          /\ tab' = SetSshPhase(tab, "ConfirmKey")
          /\ Spawn(i, Task("confirm", profile, 0, FALSE))
       \/ /\ tab.phase = "AwaitRevoked"
          /\ tab' = SetSshPhase(tab, "ConfirmRevoked")
          /\ Spawn(i, Task("confirmRevoked", profile, 0, FALSE))
    /\ UNCHANGED <<profile, wk, stop, chan, mon, card, fired, ended>>

\* on_reject_host_key.
RejectHostKey ==
    /\ UiIdle /\ tab.open /\ tab.phase \in {"AwaitKey", "AwaitRevoked"}
    /\ tab' = [SetSshPhase(tab, "Idle") EXCEPT !.failure = FALSE]
    /\ ended' = "cancel"
    /\ UNCHANGED <<profile, tasks, wk, stop, chan, mon, card, fired>>

\* on_disconnect_session: reconnection is cancelled even when there is no
\* worker to stop or its command queue refuses the request (~queued).
Disconnect(queued) ==
    /\ UiIdle /\ tab.open /\ tab.gen < MaxGen
    /\ tab' = CancelReconnect(tab)
    /\ IF tab.worker # None /\ queued
       THEN /\ stop' = [stop EXCEPT ![tab.worker] = TRUE]
            /\ ended' = "disconnect"
       ELSE ended' = "cancel" /\ UNCHANGED stop
    /\ UNCHANGED <<profile, tasks, wk, chan, mon, card, fired>>

\* retry_terminal_notice_tab, from the card that is on screen.
Retry(i) ==
    /\ UiIdle /\ Free(i) /\ card /\ tab.open /\ tab.gen < MaxGen
    /\ tab.worker = None /\ ~tab.running
    /\ tab' = PrepareManualRetry(tab)
    /\ fired' = 0
    /\ ended' = "no"
    /\ Spawn(i, Task("resume", Gone, 0, TRUE))
    /\ UNCHANGED <<profile, wk, stop, chan, mon, card>>

\* close_tab: cancels reconnect and probe, asks the worker to disconnect and
\* hands it to the shutdown registry, which joins or aborts it.
CloseTabState ==
    /\ tab.open
    /\ DropWorker
    /\ tab' = ClosedTab
    /\ ended' = "close"

CloseTab ==
    /\ UiIdle
    /\ CloseTabState
    /\ UNCHANGED <<profile, tasks, wk, chan, mon, card, fired>>

\* The session editor, an import or a credential save publishes another
\* definition of the profile; a delete or a protocol change makes it Gone.
EditProfile ==
    /\ profile # Gone /\ profile.ver < MaxEdits
    /\ \E p \in Profiles :
          /\ p = Gone \/ p.ver = profile.ver + 1
          /\ profile' = p
    /\ UNCHANGED <<tab, tasks, wk, stop, chan, mon, card, fired, ended>>

\* The coalesced UI refresh renders the present snapshot.
RefreshUi ==
    /\ card # RetryNotice(tab)
    /\ card' = RetryNotice(tab)
    /\ UNCHANGED <<profile, tab, tasks, wk, stop, chan, mon, fired, ended>>

-----------------------------------------------------------------------------
(* Steps of tasks.                                                          *)

\* resume_existing_connection after prepare_manual_retry.  A new probe
\* replaces the phase, which drops the sender of any older one (gen = 1
\* marks a probe as cancelled).
ResumeConnection(i) ==
    /\ Busy(i, "resume")
    /\ \/ /\ ~tab.open \/ profile = Gone
          /\ Finish(i)
          /\ UNCHANGED tab
       \/ /\ tab.open /\ profile # Gone /\ profile.pin
          /\ tab' = [SetSshPhase(tab, "AwaitAuth") EXCEPT !.failure = FALSE]
          /\ Spawn(i, Task("begin", profile, 0, TRUE))
       \/ /\ tab.open /\ profile # Gone /\ ~profile.pin
          /\ tab' = [SetSshPhase(tab, "Probing") EXCEPT !.failure = FALSE]
          /\ tasks' = [j \in TaskIds |->
                         IF j = i THEN Task("probe", profile, 0, FALSE)
                         ELSE IF Busy(j, "probe")
                              THEN [tasks[j] EXCEPT !.gen = 1]
                              ELSE tasks[j]]
    /\ UNCHANGED <<profile, wk, stop, chan, mon, card, fired, ended>>

\* probe_host_key: what the user is asked about a key that is not trusted
\* (unknown or changed, or revoked).
ProbedPhases == {"AwaitKey", "AwaitRevoked"}

HostKeyProbedKeepsPhase(i) ==
    /\ Busy(i, "probe")
    /\ Finish(i)
    /\ UNCHANGED <<profile, tab, wk, stop, chan, mon, card, fired, ended>>

\* finish_host_key_probe: only a tab that is still probing consumes the
\* result; the probe is not told apart from a newer one of the same tab.
HostKeyProbed(i) ==
    /\ Busy(i, "probe")
    /\ \/ /\ ~tab.open \/ tab.phase # "Probing" \/ tasks[i].gen = 1
          /\ Finish(i)
          /\ UNCHANGED tab
       \/ /\ tab.open /\ tab.phase = "Probing"
          /\ \/ /\ tab' = SetSshPhase(tab, "AwaitAuth")
                /\ Spawn(i, Task("begin", tasks[i].prof, 0, FALSE))
             \/ /\ \E p \in ProbedPhases : tab' = SetSshPhase(tab, p)
                /\ Finish(i)
             \/ /\ tab' = [SetSshPhase(tab, "Idle") EXCEPT !.failure = TRUE]
                /\ Finish(i)
    /\ UNCHANGED <<profile, wk, stop, chan, mon, card, fired, ended>>

\* begin_authentication: keys, agents and one-time passwords start a worker
\* at once, stored credentials are looked up, the rest is prompted for.
NeedsLookup(prof) == prof.auth \in {"keyring", "vaultauto"}
DirectStart(prof) ==
    \/ prof.auth \in {"agent", "key"}
    \/ tab.secret /\ tab.phase \in AwaitingAuthentication

BeginAuthentication(i) ==
    LET prof == tasks[i].prof IN
    /\ Busy(i, "begin")
    /\ \/ /\ DirectStart(prof) /\ StartAllowed(prof, AwaitingAuthentication)
          /\ StartSessionWorker(prof, FALSE)
          /\ Finish(i)
       \/ /\ DirectStart(prof) /\ ~StartAllowed(prof, AwaitingAuthentication)
          /\ tab' = IF prof.auth \in {"agent", "key"} THEN tab
                    ELSE [tab EXCEPT !.secret = FALSE]
          /\ Spawn(i, Task("prompt", prof, 0, tasks[i].ui))
          /\ UNCHANGED <<wk, mon>>
       \/ /\ ~DirectStart(prof) /\ NeedsLookup(prof)
          /\ IF tab.open /\ tab.phase \in AwaitingAuthentication
             THEN /\ tab' = SetSshPhase(tab, "Loading")
                  /\ Spawn(i, Task("lookup", prof, 0, FALSE))
             ELSE Finish(i) /\ UNCHANGED tab
          /\ UNCHANGED <<wk, mon>>
       \/ /\ ~DirectStart(prof) /\ ~NeedsLookup(prof)
          /\ tab' = SetAwaiting(tab, IF prof.auth = "vault"
                                     THEN "AwaitVault" ELSE "AwaitAuth")
          /\ Finish(i)
          /\ UNCHANGED <<wk, mon>>
    /\ UNCHANGED <<profile, stop, chan, card, fired, ended>>

\* A stored-credential lookup ends: found, missing, or failed.  When the
\* start of the worker is refused nothing else happens to the tab.
CredentialLookedUp(i) ==
    LET prof == tasks[i].prof
        current == tab.open /\ tab.phase = "Loading" IN
    /\ Busy(i, "lookup")
    /\ \/ /\ StartAllowed(prof, {"Loading"})
          /\ StartSessionWorker(prof, TRUE)
          /\ Finish(i)
       \/ /\ ~StartAllowed(prof, {"Loading"})
          /\ Finish(i)
          /\ UNCHANGED <<tab, wk, mon>>
       \/ /\ current \/ prof.auth = "vault"
          /\ \E next \in {"clear", "prompt"} :
                Spawn(i, Task(next, prof, 0, FALSE))
          /\ UNCHANGED <<tab, wk, mon>>
    /\ UNCHANGED <<profile, stop, chan, card, fired, ended>>

\* set_credential_storage_while_loading(None): the three results of the
\* call, given the tab and the profile it finds.
StorageCleared(prof) ==
    /\ tab.open /\ tab.phase = "Loading" /\ profile # Gone /\ profile = prof
    /\ profile' = [profile EXCEPT !.auth = "password"]
StorageClearRefused(prof) ==
    /\ \/ ~tab.open \/ tab.phase # "Loading"
       \/ profile # prof
    /\ UNCHANGED profile
StorageClearFailed(prof) ==
    /\ tab.open /\ tab.phase = "Loading" /\ profile \in {prof, Gone}
    /\ UNCHANGED profile

\* The lookup found nothing: clear the reference, under the persistence gate.
ClearMissingCredential(i) ==
    LET prof == tasks[i].prof IN
    /\ Busy(i, "clear")
    /\ \/ /\ StorageCleared(prof) \/ StorageClearFailed(prof)
          /\ Spawn(i, Task("prompt", prof, 0, FALSE))
       \/ /\ StorageClearRefused(prof)
          /\ IF prof.auth = "vaultauto"
             THEN Spawn(i, Task("prompt", prof, 0, FALSE))
             ELSE Finish(i)
    /\ UNCHANGED <<tab, wk, stop, chan, mon, card, fired, ended>>

\* set_awaiting_authentication on the failure paths.
PromptAgain(i) ==
    /\ Busy(i, "prompt")
    /\ tab' = SetAwaiting(tab, "AwaitAuth")
    /\ Finish(i)
    /\ UNCHANGED <<profile, wk, stop, chan, mon, card, fired, ended>>

\* schedule_reconnect's task after its delay: the tab and the current
\* profile are checked under the lock, what follows runs after the unlock.
ReconnectTimerFires(i) ==
    /\ Busy(i, "timer")
    /\ \/ /\ ReconnectCurrent(tab, tasks[i].gen) /\ profile # Gone
          /\ Spawn(i, Task("start", profile, tasks[i].gen, FALSE))
          /\ fired' = fired + 1
       \/ /\ ~ReconnectCurrent(tab, tasks[i].gen) \/ profile = Gone
          /\ Spawn(i, Task("expire", Gone, tasks[i].gen, FALSE))
          /\ UNCHANGED fired
    /\ UNCHANGED <<profile, tab, wk, stop, chan, mon, card, ended>>

\* clear_reconnect_attempt.
ReconnectExpires(i) ==
    /\ Busy(i, "expire")
    /\ tab' = IF tab.open /\ tab.gen = tasks[i].gen
              THEN [FinishReconnectAttempt(tab, tasks[i].gen) EXCEPT
                      !.failure = FALSE]
              ELSE tab
    /\ Finish(i)
    /\ UNCHANGED <<profile, wk, stop, chan, mon, card, fired, ended>>

\* reconnect_ssh.  Neither branch looks at the generation again.
ReconnectSsh(i) ==
    LET prof == tasks[i].prof IN
    /\ Busy(i, "start")
    /\ \/ /\ ~tab.open
          /\ Finish(i)
          /\ UNCHANGED tab
       \/ /\ tab.open /\ prof.auth \notin {"password", "vault"}
          /\ tab' = [SetSshPhase(tab, "AwaitAuth") EXCEPT !.failure = FALSE]
          /\ Spawn(i, Task("begin", prof, 0, FALSE))
       \/ /\ tab.open /\ prof.auth \in {"password", "vault"}
          /\ tab' = [SetSshPhase(FinishReconnectAttempt(tab, tab.gen),
                                 IF prof.auth = "vault"
                                 THEN "AwaitVault" ELSE "AwaitAuth")
                       EXCEPT !.failure = FALSE]
          /\ Finish(i)
    /\ UNCHANGED <<profile, wk, stop, chan, mon, card, fired, ended>>

\* confirm_host_key: pins the key on the unchanged profile, or fails.
HostKeyConfirmed(i) ==
    LET pinned == [profile EXCEPT !.pin = TRUE] IN
    /\ Busy(i, "confirm")
    /\ \/ /\ profile # Gone /\ profile = tasks[i].prof
          /\ profile' = pinned
          /\ IF tab.open /\ tab.phase = "ConfirmKey"
             THEN /\ tab' = SetSshPhase(tab, "AwaitAuth")
                  /\ Spawn(i, Task("begin", pinned, 0, FALSE))
             ELSE Finish(i) /\ UNCHANGED tab
       \/ /\ tab' = IF tab.open /\ tab.phase \in {"ConfirmKey", "ConfirmRevoked"}
                    THEN SetSshPhase(tab, "AwaitKey") ELSE tab
          /\ Finish(i)
          /\ UNCHANGED profile
    /\ UNCHANGED <<wk, stop, chan, mon, card, fired, ended>>

\* confirm_revoked_host_key: the pin is cleared first, then the record is
\* removed; a failure of either returns to the prompt.
RevokedKeyConfirmed(i) ==
    LET reprompt == IF tab.open /\ tab.phase \in {"ConfirmKey", "ConfirmRevoked"}
                    THEN SetSshPhase(tab, "AwaitRevoked") ELSE tab IN
    /\ Busy(i, "confirmRevoked")
    /\ \/ /\ profile # Gone /\ profile = tasks[i].prof
          /\ profile' = [profile EXCEPT !.pin = FALSE]
          /\ \/ tab' = IF tab.open /\ tab.phase = "ConfirmRevoked"
                       THEN [SetSshPhase(tab, "Idle") EXCEPT !.failure = FALSE]
                       ELSE tab
             \/ tab' = reprompt
       \/ /\ tab' = reprompt
          /\ UNCHANGED profile
    /\ ended' = IF tab'.open /\ tab'.phase = "Idle" THEN "cancel" ELSE ended
    /\ Finish(i)
    /\ UNCHANGED <<wk, stop, chan, mon, card, fired>>

TaskStep(i) ==
    \/ ResumeConnection(i) \/ HostKeyProbed(i) \/ BeginAuthentication(i)
    \/ CredentialLookedUp(i) \/ ClearMissingCredential(i) \/ PromptAgain(i)
    \/ ReconnectTimerFires(i) \/ ReconnectExpires(i) \/ ReconnectSsh(i)
    \/ HostKeyConfirmed(i) \/ RevokedKeyConfirmed(i)

-----------------------------------------------------------------------------
(* The transport worker (run_session).                                      *)

Emit(a, ev) == chan' = [chan EXCEPT ![a] = Append(@, ev)]

WorkerConnects(a) ==
    /\ wk[a] = "connecting"
    /\ wk' = [wk EXCEPT ![a] = "up"]
    /\ Emit(a, "Connected")
    /\ UNCHANGED <<profile, tab, tasks, stop, mon, card, fired, ended>>

\* check_server_key refuses a revoked key whatever the profile says, and any
\* other that is not the pinned or a known one.
HostKeyErrors == {"HostKeyRejected", "HostKeyRevoked"}

\* connect_transport: the handshake fails or the key is refused.
TransportErrors == {"Failed"} \cup HostKeyErrors

\* SshConnection::connect_with_x11: the errors it tells apart.
ConnectErrors(prof) ==
    TransportErrors \cup {"AuthFailed"}
        \cup (IF prof.auth = "key" THEN {"KeyFailed"} ELSE {})

\* The connection attempt fails.
WorkerCannotConnect(a) ==
    /\ wk[a] = "connecting"
    /\ \E ev \in ConnectErrors(mon[a].prof) : Emit(a, ev)
    /\ wk' = [wk EXCEPT ![a] = "done"]
    /\ UNCHANGED <<profile, tab, tasks, stop, mon, card, fired, ended>>

\* A connected worker loses its transport, its shell, or a subsystem.
WorkerLosesConnection(a) ==
    /\ wk[a] = "up"
    /\ \E ev \in {"Failed", "ShellExited", "Disconnected"} : Emit(a, ev)
    /\ wk' = [wk EXCEPT ![a] = "done"]
    /\ UNCHANGED <<profile, tab, tasks, stop, mon, card, fired, ended>>

\* Disconnect was queued, or the controller is gone.
WorkerStops(a) ==
    /\ wk[a] \in {"connecting", "up"} /\ stop[a]
    /\ Emit(a, "Disconnected")
    /\ wk' = [wk EXCEPT ![a] = "done"]
    /\ UNCHANGED <<profile, tab, tasks, stop, mon, card, fired, ended>>

\* The task panics or is aborted: the stream ends without a terminal event.
WorkerAborts(a) ==
    /\ wk[a] \in {"connecting", "up"}
    /\ wk' = [wk EXCEPT ![a] = "done"]
    /\ UNCHANGED <<profile, tab, tasks, stop, chan, mon, card, fired, ended>>

-----------------------------------------------------------------------------
(* The event monitor (spawn_session_monitor).                               *)

Receives(a, evs) ==
    /\ mon[a].st = "run" /\ chan[a] # <<>> /\ Head(chan[a]) \in evs
    /\ chan' = [chan EXCEPT ![a] = Tail(@)]

MonTerm(a, st) == mon' = [mon EXCEPT ![a].st = st, ![a].term = TRUE]

MonConnected(a) ==
    /\ Receives(a, {"Connected"})
    /\ IF MatchesAttempt(a)
       THEN /\ tab' = MarkReconnectConnected(
                         [tab EXCEPT !.connected = TRUE, !.running = TRUE,
                                     !.failure = FALSE])
            /\ fired' = 0
       ELSE UNCHANGED <<tab, fired>>
    /\ UNCHANGED <<profile, tasks, wk, stop, mon, card, ended>>

\* Disconnected and Failed retire the attempt; schedule_reconnect follows in
\* a critical section of its own.
MonDisconnected(a) ==
    /\ Receives(a, {"Disconnected", "Failed"})
    /\ IF MatchesAttempt(a)
       THEN /\ tab' = RetireAttempt(tab)
            /\ DropWorker
            /\ MonTerm(a, IF Head(chan[a]) = "Failed" THEN "schedFailed"
                                                      ELSE "sched")
       ELSE MonTerm(a, "run") /\ UNCHANGED <<tab, stop>>
    /\ UNCHANGED <<profile, tasks, wk, card, fired, ended>>

\* schedule_reconnect.
MonSchedules(a) ==
    LET t == [tab EXCEPT !.failure = IF mon[a].st = "schedFailed"
                                     THEN TRUE ELSE @] IN
    /\ mon[a].st \in {"sched", "schedFailed"}
    /\ \/ /\ CanReconnect(tab)
          /\ tab' = BeginReconnect(t)
          /\ \E i \in TaskIds :
                Free(i) /\ Spawn(i, Task("timer", Gone, tab.gen, FALSE))
       \/ /\ ~CanReconnect(tab)
          /\ tab' = IF ~tab.open THEN tab
                    ELSE IF tab.rtry >= MaxReconnect
                         THEN [t EXCEPT !.failure = TRUE] ELSE t
          /\ UNCHANGED tasks
    /\ mon' = [mon EXCEPT ![a].st = "run"]
    /\ UNCHANGED <<profile, wk, stop, chan, card, fired, ended>>

\* ShellExited retires the attempt and then closes its pane or tab.
MonShellExited(a) ==
    /\ Receives(a, {"ShellExited"})
    /\ IF MatchesAttempt(a)
       THEN tab' = RetireAttempt(tab) /\ DropWorker /\ MonTerm(a, "close")
       ELSE MonTerm(a, "ended") /\ UNCHANGED <<tab, stop>>
    /\ UNCHANGED <<profile, tasks, wk, card, fired, ended>>

MonCloses(a) ==
    /\ mon[a].st = "close"
    /\ \/ CloseTabState
       \/ ~tab.open /\ UNCHANGED <<tab, stop, ended>>
    /\ mon' = [mon EXCEPT ![a].st = "ended"]
    /\ UNCHANGED <<profile, tasks, wk, chan, card, fired>>

\* prepare_host_key_retry.
MonHostKeyRefused(a) ==
    /\ Receives(a, {"HostKeyRejected", "HostKeyRevoked"})
    /\ IF MatchesAttempt(a)
       THEN /\ tab' = SetSshPhase(RetireAttempt(tab),
                                  IF Head(chan[a]) = "HostKeyRevoked"
                                  THEN "AwaitRevoked" ELSE "AwaitKey")
            /\ DropWorker
       ELSE UNCHANGED <<tab, stop>>
    /\ MonTerm(a, "run")
    /\ UNCHANGED <<profile, tasks, wk, card, fired, ended>>

\* An agent's rejection only retires the attempt; a rejected stored
\* credential is removed before the prompt; the rest returns to the prompt.
MonAuthenticationFailed(a) ==
    LET agent == mon[a].prof.auth = "agent" /\ Head(chan[a]) = "AuthFailed"
        stored == mon[a].stored /\ Head(chan[a]) = "AuthFailed" IN
    /\ Receives(a, {"AuthFailed", "KeyFailed"})
    /\ IF MatchesAttempt(a)
       THEN /\ tab' = IF agent
                      THEN [RetireAttempt(tab) EXCEPT !.failure = FALSE]
                      ELSE SetSshPhase(RetireAttempt(tab),
                                       IF stored THEN "Loading" ELSE "AwaitAuth")
            /\ DropWorker
            /\ MonTerm(a, IF stored /\ ~agent THEN "cleanup" ELSE "run")
       ELSE MonTerm(a, "run") /\ UNCHANGED <<tab, stop>>
    /\ UNCHANGED <<profile, tasks, wk, card, fired, ended>>

\* finish_stored_credential_retry.
FinishCredentialRetry(t) ==
    IF t.open /\ t.phase = "Loading" THEN SetSshPhase(t, "AwaitAuth") ELSE t

\* The rejected credential is deleted under the gate and the profile's
\* reference cleared; a stale result restores the credential and gives up.
MonCleansUp(a) ==
    LET prof == mon[a].prof IN
    /\ mon[a].st = "cleanup"
    /\ \/ /\ \/ StorageCleared(prof)
             \/ StorageClearFailed(prof)
             \/ UNCHANGED profile      \* delete_password failed
          /\ tab' = FinishCredentialRetry(tab)
       \/ /\ StorageClearRefused(prof)
          /\ UNCHANGED tab
    /\ mon' = [mon EXCEPT ![a].st = "run"]
    /\ UNCHANGED <<tasks, wk, stop, chan, card, fired, ended>>

\* The stream ended: retire once more and, when no terminal event was seen,
\* schedule a reconnect.
MonStreamEnds(a) ==
    /\ mon[a].st = "run" /\ wk[a] = "done" /\ chan[a] = <<>>
    /\ IF MatchesAttempt(a)
       THEN /\ tab' = RetireAttempt(tab)
            /\ DropWorker
            /\ MonTerm(a, IF mon[a].term THEN "ended" ELSE "sched")
       ELSE MonTerm(a, "ended") /\ UNCHANGED <<tab, stop>>
    /\ UNCHANGED <<profile, tasks, wk, chan, card, fired, ended>>

MonStep(a) ==
    \/ MonConnected(a) \/ MonDisconnected(a) \/ MonSchedules(a)
    \/ MonShellExited(a) \/ MonCloses(a) \/ MonHostKeyRefused(a)
    \/ MonAuthenticationFailed(a) \/ MonCleansUp(a) \/ MonStreamEnds(a)

WorkerStep(a) ==
    \/ WorkerConnects(a) \/ WorkerCannotConnect(a) \/ WorkerLosesConnection(a)
    \/ WorkerStops(a) \/ WorkerAborts(a)

-----------------------------------------------------------------------------
Init ==
    /\ profile \in Profiles /\ profile # Gone /\ profile.ver = 0
    /\ tab = ClosedTab
    /\ tasks = [i \in TaskIds |-> NoTask]
    /\ wk = [a \in Attempts |-> "unused"]
    /\ stop = [a \in Attempts |-> FALSE]
    /\ chan = [a \in Attempts |-> <<>>]
    /\ mon = [a \in Attempts |-> NoMon]
    /\ card = FALSE
    /\ fired = 0
    /\ ended = "no"

UserStep ==
    \/ \E i \in TaskIds : \/ \E s \in BOOLEAN : OpenConnection(i, s)
                          \/ UnlockVault(i) \/ ConfirmHostKey(i) \/ Retry(i)
    \/ Authenticate \/ CancelPasswordDialog \/ RejectHostKey
    \/ \E q \in BOOLEAN : Disconnect(q)
    \/ CloseTab

Next ==
    \/ UserStep \/ EditProfile \/ RefreshUi
    \/ \E i \in TaskIds : TaskStep(i)
    \/ \E a \in Attempts : WorkerStep(a) \/ MonStep(a)

Spec == Init /\ [][Next]_vars

\* Tasks, monitors and stopped workers are polled by Tokio until they finish:
\* a ready future is eventually run.  Nothing is assumed of the user, of the
\* editor, or of a worker nobody asked to stop.
Fairness ==
    /\ \A i \in TaskIds : WF_vars(TaskStep(i))
    /\ \A a \in Attempts : WF_vars(MonStep(a))
    /\ \A a \in Attempts : WF_vars(WorkerStops(a))

FairSpec == Spec /\ Fairness

-----------------------------------------------------------------------------
(* Safety.                                                                  *)

\* The four fields that describe the transport agree: a tab has a worker
\* exactly when it has an attempt and shows it as running, and only such a
\* tab is connected.  They are written by different handlers.
TransportCoherent ==
    /\ tab.worker = tab.attempt
    /\ tab.running <=> tab.worker # None
    /\ tab.connected => tab.running

\* The worker a tab owns is always watched: its monitor is in its event loop
\* and has not seen the end of that worker yet.  Otherwise the tab would stay
\* "running" for ever with nobody to retire the attempt.
AttachedWorkerIsMonitored ==
    \A a \in Attempts :
        tab.worker = a => /\ mon[a].st = "run" /\ ~mon[a].term
                          /\ wk[a] # "unused"

\* "Each saved-connection terminal tab owns at most one transport worker":
\* any other worker that still runs has been told to stop.
NoStrayWorker ==
    \A a \in Attempts :
        wk[a] \in {"connecting", "up"} /\ tab.worker # a => stop[a]

\* A one-time password typed into the connection request serves one attempt:
\* once any worker was started, no automatic path can use it again.
OneTimeSecretIsSingleUse ==
    tab.secret => \A a \in Attempts : wk[a] = "unused"

\* Worker setup "rejects a snapshot that no longer equals that definition":
\* a worker only ever starts from the profile that is saved at that moment,
\* however long the probe, lookup, confirmation or timer before it took.
StartsFromCurrentProfile ==
    [][\A a \in Attempts :
          wk[a] = "unused" /\ wk'[a] # "unused"
              => tab.open /\ mon'[a].prof = profile]_vars

-----------------------------------------------------------------------------
(* What the documentation says.                                             *)

\* docs/architecture.md: "User disconnect and Tab close clear the intents and
\* do not schedule replay": after the user disconnected a running worker no
\* automatic reconnect is scheduled.
UserDisconnectIsFinal == ended = "disconnect" => ~tab.reconnecting

\* docs/usage.md: a tab reconnects "using at most five attempts".
ReconnectBudget == fired <= MaxReconnect

\* Nothing runs on behalf of the tab any more.
Settled ==
    /\ \A i \in TaskIds : tasks[i] = NoTask
    /\ \A a \in Attempts : mon[a].st \in {"none", "ended"}

\* docs/usage.md: "When a connection attempt fails [...] the owning pane
\* shows a non-blocking notice with Retry and Close"; prompts stay blocking.
FailureIsVisible ==
    tab.open /\ Settled /\ ended = "no" /\ profile # Gone
        => RetryNotice(tab) \/ SecurityPrompt(tab)

-----------------------------------------------------------------------------
(* Liveness, under FairSpec.                                                *)

\* An attempt the tab no longer owns comes to its end: its worker stops and
\* its monitor drains the channel and terminates, whatever the tab does next;
\* and closing the tab ends every task, worker and monitor started for it.
AttemptsDrain ==
    /\ \A a \in Attempts :
           wk[a] # "unused" /\ tab.worker # a ~> mon[a].st = "ended"
    /\ ended = "close" ~> Settled

\* The tab never hangs in the host-key check, also when a second Retry
\* replaces a probe that is still running.
ProbingResolves == tab.phase = "Probing" ~> tab.phase # "Probing"
=============================================================================

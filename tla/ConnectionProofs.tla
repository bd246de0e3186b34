-------------------------- MODULE ConnectionProofs --------------------------
(***************************************************************************)
(* Proofs about Connection, for any number of attempts, tasks, retries and  *)
(* profile edits.                                                           *)
(*                                                                          *)
(* Every action treats the transport of the tab (worker, attempt, running,  *)
(* connected) in one of three ways: it keeps it, drops it, or attaches a    *)
(* fresh worker.  One lemma per way shows that the safety invariant is      *)
(* preserved; the step lemma says which way each action takes.              *)
(***************************************************************************)
EXTENDS Connection, TLAPS

-----------------------------------------------------------------------------
(* The methods of TerminalTabState: types, and what they leave alone.       *)

\* What a method does that leaves the transport fields alone, does not open
\* or close the tab and does not bring a one-time password back.
Kept(t, u) ==
    /\ u \in TabRec
    /\ u.worker = t.worker /\ u.attempt = t.attempt
    /\ u.running = t.running /\ u.connected = t.connected
    /\ u.open = t.open /\ (u.secret => t.secret)

\* The methods of TerminalTabState map tab states to tab states (begin_reconnect
\* keeps the retry count within its limit) and leave the transport alone.
LEMMA TabMethods ==
    ASSUME NEW t \in TabRec, NEW p \in Phases, NEW g \in Nat
    PROVE  /\ Kept(t, t)
           /\ Kept(t, SetSshPhase(t, p))
           /\ Kept(t, FinishReconnectAttempt(t, g))
           /\ Kept(t, MarkReconnectConnected(t))
           /\ Kept(t, CancelReconnect(t))
           /\ Kept(t, PrepareManualRetry(t))
           /\ Kept(t, SetAwaiting(t, p))
           /\ CanReconnect(t) => Kept(t, BeginReconnect(t))
           /\ Kept(t, [t EXCEPT !.failure = TRUE])
           /\ Kept(t, [t EXCEPT !.secret = FALSE])
           /\ Kept(t, [SetSshPhase(t, p) EXCEPT !.failure = TRUE])
           /\ Kept(t, [SetSshPhase(t, p) EXCEPT !.failure = FALSE])
<1>0. 0 \in 0..MaxReconnect /\ t.gen + 1 \in Nat
  BY BoundsAssumption DEF TabRec
<1>1. Kept(t, SetSshPhase(t, p))
  BY Zenon DEF Kept, SetSshPhase, TabRec
<1>2. Kept(t, FinishReconnectAttempt(t, g))
  BY Zenon DEF Kept, FinishReconnectAttempt, TabRec
<1>3. Kept(t, MarkReconnectConnected(t))
  BY Zenon, <1>0 DEF Kept, MarkReconnectConnected, TabRec
<1>4. Kept(t, CancelReconnect(t))
  BY Zenon, <1>0 DEF Kept, CancelReconnect, TabRec
<1>5. Kept(t, PrepareManualRetry(t))
  BY Zenon, <1>0 DEF Kept, PrepareManualRetry, TabRec
<1>6. Kept(t, t)
  BY Zenon DEF Kept
<1>7. Kept(t, SetAwaiting(t, p))
  BY <1>1, <1>6 DEF SetAwaiting
<1>8. CanReconnect(t) => Kept(t, BeginReconnect(t))
  <2> SUFFICES ASSUME CanReconnect(t) PROVE Kept(t, BeginReconnect(t))
    OBVIOUS
  <2>1. t.rtry + 1 \in 0..MaxReconnect
    BY BoundsAssumption DEF CanReconnect, TabRec
  <2> QED BY Zenon, <2>1 DEF Kept, BeginReconnect, TabRec
<1>9. Kept(t, [t EXCEPT !.failure = TRUE]) /\ Kept(t, [t EXCEPT !.secret = FALSE])
  BY Zenon DEF Kept, TabRec
<1>10. /\ Kept(t, [SetSshPhase(t, p) EXCEPT !.failure = TRUE])
       /\ Kept(t, [SetSshPhase(t, p) EXCEPT !.failure = FALSE])
  BY Zenon, <1>1 DEF Kept, TabRec
<1> QED BY <1>1, <1>2, <1>3, <1>4, <1>5, <1>6, <1>7, <1>8, <1>9, <1>10

\* Calling one such method after another.
LEMMA KeptTransitive ==
    ASSUME NEW t, NEW u, NEW v, Kept(t, u), Kept(u, v)
    PROVE  Kept(t, v)
  BY Zenon DEF Kept

\* A retired attempt leaves no trace in the transport fields.
LEMMA RetireAttemptDrops ==
    ASSUME NEW t \in TabRec
    PROVE  /\ RetireAttempt(t) \in TabRec
           /\ RetireAttempt(t).worker = None /\ RetireAttempt(t).attempt = None
           /\ RetireAttempt(t).running = FALSE /\ RetireAttempt(t).connected = FALSE
           /\ RetireAttempt(t).open = t.open
           /\ RetireAttempt(t).secret = t.secret
  BY Zenon DEF RetireAttempt, FinishReconnectAttempt, TabRec

\* The tab of a freshly attached worker.
Attached(t, a) ==
    SetSshPhase([t EXCEPT !.attempt = a, !.worker = a, !.enabled = TRUE,
                   !.running = TRUE, !.connected = FALSE, !.failure = FALSE],
                "Idle")

\* The tab start_session_worker leaves behind: well-typed, owning the fresh
\* attempt, not yet connected and without a one-time secret.
LEMMA AttachedFields ==
    ASSUME NEW t \in TabRec, NEW a \in Attempts
    PROVE  /\ Attached(t, a) \in TabRec
           /\ Attached(t, a).worker = a /\ Attached(t, a).attempt = a
           /\ Attached(t, a).running = TRUE /\ Attached(t, a).connected = FALSE
           /\ Attached(t, a).open = t.open
           /\ Attached(t, a).secret = FALSE
<1> DEFINE u == [t EXCEPT !.attempt = a, !.worker = a, !.enabled = TRUE,
                   !.running = TRUE, !.connected = FALSE, !.failure = FALSE]
<1>1. /\ u \in TabRec
      /\ u.worker = a /\ u.attempt = a /\ u.running = TRUE
      /\ u.connected = FALSE /\ u.open = t.open
  BY Zenon DEF TabRec
<1>2. "Idle" \in Phases
  BY DEF Phases
<1>3. /\ SetSshPhase(u, "Idle") \in TabRec
      /\ SetSshPhase(u, "Idle").worker = u.worker
      /\ SetSshPhase(u, "Idle").attempt = u.attempt
      /\ SetSshPhase(u, "Idle").running = u.running
      /\ SetSshPhase(u, "Idle").connected = u.connected
      /\ SetSshPhase(u, "Idle").open = u.open
      /\ SetSshPhase(u, "Idle").secret = FALSE
  <2> HIDE DEF u
  <2> QED BY Zenon, <1>1, <1>2 DEF SetSshPhase, TabRec
<1>4. Attached(t, a) = SetSshPhase(u, "Idle")
  BY DEF Attached
<1> HIDE DEF u
<1> QED BY <1>1, <1>3, <1>4

\* The tab request_profile_connection opens, and the one close_tab leaves,
\* own no transport.
LEMMA ClosedTabFields ==
    /\ ClosedTab \in TabRec
    /\ ClosedTab.worker = None /\ ClosedTab.attempt = None
    /\ ClosedTab.running = FALSE /\ ClosedTab.connected = FALSE
    /\ ClosedTab.open = FALSE /\ ClosedTab.secret = FALSE
<1>1. 0 \in 0..MaxReconnect /\ 0 \in Nat
  BY BoundsAssumption
<1>2. "Idle" \in Phases
  BY DEF Phases
<1> QED BY Zenon, <1>1, <1>2 DEF ClosedTab, TabRec

-----------------------------------------------------------------------------
(* Tasks, monitors and profiles.                                            *)

\* Spawning or finishing a task keeps the task table well-formed.
LEMMA TasksType ==
    ASSUME tasks \in [TaskIds -> TaskRec \cup {NoTask}], NEW i \in TaskIds
    PROVE  /\ \A k \in TaskKinds, p \in Profiles, g \in Nat, ui \in BOOLEAN :
                  Spawn(i, Task(k, p, g, ui))
                      => tasks' \in [TaskIds -> TaskRec \cup {NoTask}]
           /\ Finish(i) => tasks' \in [TaskIds -> TaskRec \cup {NoTask}]
<1>1. ASSUME NEW k \in TaskKinds, NEW p \in Profiles, NEW g \in Nat, NEW ui \in BOOLEAN
      PROVE  Task(k, p, g, ui) \in TaskRec
  BY Zenon DEF Task, TaskRec
<1> QED BY <1>1 DEF Spawn, Finish

\* What is known of a running task.
LEMMA BusyTask ==
    ASSUME tasks \in [TaskIds -> TaskRec \cup {NoTask}],
           NEW i \in TaskIds, NEW k, Busy(i, k)
    PROVE  /\ tasks[i] \in TaskRec /\ tasks[i].prof \in Profiles
           /\ tasks[i].gen \in Nat /\ tasks[i].ui \in BOOLEAN
<1>1. tasks[i] \in TaskRec
  BY DEF Busy
<1> QED BY Zenon, <1>1 DEF TaskRec

\* A step of one monitor keeps the table well-formed and the others as they are.
LEMMA MonitorType ==
    ASSUME mon \in [Attempts -> MonRec], NEW a \in Attempts, NEW st \in MonStates,
           MonTerm(a, st) \/ mon' = [mon EXCEPT ![a].st = st]
    PROVE  /\ mon' \in [Attempts -> MonRec]
           /\ \A b \in Attempts : b # a => mon'[b] = mon[b]
<1>1. ASSUME NEW r \in MonRec
      PROVE  [r EXCEPT !.st = st] \in MonRec /\ [r EXCEPT !.st = st, !.term = TRUE] \in MonRec
  BY Zenon DEF MonRec
<1>2. CASE mon' = [mon EXCEPT ![a].st = st]
  BY <1>1, <1>2
<1>3. CASE MonTerm(a, st)
  <2>1. mon' = [mon EXCEPT ![a] = [mon[a] EXCEPT !.st = st, !.term = TRUE]]
    BY Zenon, <1>3 DEF MonTerm
  <2> QED BY <1>1, <2>1
<1> QED BY <1>2, <1>3

\* Pinning, unpinning or clearing the storage of a profile yields a profile.
LEMMA ProfileFields ==
    ASSUME NEW p \in Profiles
    PROVE  /\ Gone \in Profiles
           /\ p # Gone => /\ [p EXCEPT !.auth = "password"] \in Profiles
                          /\ [p EXCEPT !.pin = TRUE] \in Profiles
                          /\ [p EXCEPT !.pin = FALSE] \in Profiles
  BY Zenon DEF Profiles

-----------------------------------------------------------------------------
(* The inductive invariant, and the three ways a step treats the transport. *)

\* A tab that is not open owns nothing, and if any worker was ever started it
\* was closed by the user: it is not opened a second time.
ClosedTabOwnsNothing ==
    ~tab.open => /\ tab.worker = None /\ ~tab.secret
                 /\ ended = "close" \/ \A a \in Attempts : wk[a] = "unused"

IInv ==
    /\ TypeOK
    /\ TransportCoherent
    /\ AttachedWorkerIsMonitored
    /\ NoStrayWorker
    /\ OneTimeSecretIsSingleUse
    /\ ClosedTabOwnsNothing

\* A step that keeps the transport of the tab preserves the invariant when it
\* starts no worker, withdraws no stop request and does not touch the monitor
\* of the attached attempt.
LEMMA TransportKept ==
    ASSUME IInv, TypeOK', Kept(tab, tab'),
           \A a \in Attempts :
               /\ stop[a] => stop'[a]
               /\ wk'[a] = "unused" <=> wk[a] = "unused"
               /\ wk'[a] \in {"connecting", "up"} => wk[a] \in {"connecting", "up"}
               /\ tab.worker = a => mon'[a] = mon[a],
           ended' = ended \/ tab.open
    PROVE  IInv'
<1>1. TransportCoherent'
  BY Zenon DEF IInv, TransportCoherent, Kept
<1>2. AttachedWorkerIsMonitored'
  BY DEF IInv, AttachedWorkerIsMonitored, Kept
<1>3. NoStrayWorker'
  BY DEF IInv, NoStrayWorker, Kept
<1>4. OneTimeSecretIsSingleUse'
  BY DEF IInv, OneTimeSecretIsSingleUse, Kept
<1>5. ClosedTabOwnsNothing'
  BY DEF IInv, ClosedTabOwnsNothing, Kept
<1> QED BY <1>1, <1>2, <1>3, <1>4, <1>5 DEF IInv

\* A step that takes the worker from the tab drops its handle, which tells the
\* worker to stop.
LEMMA TransportDropped ==
    ASSUME IInv, TypeOK', DropWorker, wk' = wk,
           tab'.worker = None, tab'.attempt = None,
           tab'.running = FALSE, tab'.connected = FALSE,
           tab'.secret => tab.secret,
           \/ tab'.open = tab.open /\ ended' = ended
           \/ ended' = "close" /\ ~tab'.secret
    PROVE  IInv'
<1>1. TransportCoherent'
  BY Zenon DEF TransportCoherent
<1>2. AttachedWorkerIsMonitored'
  BY NoneAssumption DEF AttachedWorkerIsMonitored
<1>3. NoStrayWorker'
  BY DEF IInv, NoStrayWorker, DropWorker, TypeOK
<1>4. OneTimeSecretIsSingleUse' /\ ClosedTabOwnsNothing'
  BY DEF IInv, OneTimeSecretIsSingleUse, ClosedTabOwnsNothing
<1> QED BY <1>1, <1>2, <1>3, <1>4 DEF IInv

\* start_session_worker attaches a fresh worker to a tab that has none.
LEMMA TransportStarted ==
    ASSUME IInv, tab.open, tab.worker = None,
           NEW prof \in Profiles, NEW stored \in BOOLEAN,
           StartSessionWorker(prof, stored),
           UNCHANGED <<profile, stop, chan, card, fired>>,
           tasks' \in [TaskIds -> TaskRec \cup {NoTask}],
           ended' \in {"no", ended}
    PROVE  IInv'
<1>1. PICK a \in Attempts :
         /\ wk[a] = "unused"
         /\ tab' = Attached(tab, a)
         /\ wk' = [wk EXCEPT ![a] = "connecting"]
         /\ mon' = [mon EXCEPT ![a] = [st |-> "run", prof |-> prof,
                                      stored |-> stored, term |-> FALSE]]
  BY DEF StartSessionWorker, Attached
<1>2. /\ tab' \in TabRec /\ tab'.worker = a /\ tab'.attempt = a
      /\ tab'.running = TRUE /\ tab'.connected = FALSE
      /\ tab'.open = tab.open /\ tab'.secret = FALSE
  BY ZenonT(40), <1>1, AttachedFields DEF IInv, TypeOK
<1>3. TypeOK'
  <2>1. [st |-> "run", prof |-> prof, stored |-> stored, term |-> FALSE] \in MonRec
    <3>1. "run" \in MonStates
      BY DEF MonStates
    <3> QED BY Zenon, <3>1 DEF MonRec
  <2>2. mon' \in [Attempts -> MonRec]
    BY <1>1, <2>1 DEF IInv, TypeOK
  <2> QED BY <1>1, <1>2, <2>2 DEF IInv, TypeOK
<1>4. TransportCoherent'
  BY Zenon, <1>2, NoneAssumption DEF TransportCoherent
<1>5. AttachedWorkerIsMonitored'
  BY <1>1, <1>2 DEF IInv, TypeOK, AttachedWorkerIsMonitored
<1>6. NoStrayWorker'
  BY <1>1, <1>2, NoneAssumption DEF IInv, TypeOK, NoStrayWorker
<1>7. OneTimeSecretIsSingleUse' /\ ClosedTabOwnsNothing'
  BY <1>2 DEF OneTimeSecretIsSingleUse, ClosedTabOwnsNothing
<1> QED BY <1>3, <1>4, <1>5, <1>6, <1>7 DEF IInv

-----------------------------------------------------------------------------
(* User and environment actions.                                            *)

\* Every callback of the user interface preserves the invariant.
LEMMA UserActions == IInv /\ UserStep => IInv'
<1> SUFFICES ASSUME IInv, UserStep PROVE IInv'
  OBVIOUS
<1> USE DEF IInv, TypeOK
<1>0. /\ tab \in TabRec /\ Gone \in Profiles /\ 0 \in Nat
      /\ "Idle" \in Phases
  BY ProfileFields DEF Phases
<1>1. ASSUME NEW i \in TaskIds, NEW s \in BOOLEAN, OpenConnection(i, s)
      PROVE  IInv'
  <2> DEFINE p == IF profile.pin THEN "AwaitAuth" ELSE "Probing"
  <2>1. p \in Phases
    BY DEF Phases
  <2>2. /\ tab' \in TabRec
        /\ tab'.worker = None /\ tab'.attempt = None
        /\ tab'.running = FALSE /\ tab'.connected = FALSE
        /\ tab'.open = TRUE
    <3>1. tab' = [ClosedTab EXCEPT !.open = TRUE, !.secret = s, !.phase = p]
      BY <1>1 DEF OpenConnection
    <3> HIDE DEF p
    <3> QED BY Zenon, <2>1, <3>1, ClosedTabFields DEF TabRec
  <2>3. TypeOK'
    <3>1. tasks' \in [TaskIds -> TaskRec \cup {NoTask}]
      BY <1>0, <1>1, TasksType DEF OpenConnection, TaskKinds
    <3> QED BY <1>1, <2>2, <3>1 DEF OpenConnection
  <2>4. ~tab.open /\ ended = "no" /\ UNCHANGED <<wk, stop, mon>>
    BY <1>1 DEF OpenConnection
  <2>5. tab.worker = None /\ \A a \in Attempts : wk[a] = "unused"
    BY <2>4 DEF ClosedTabOwnsNothing
  <2>6. TransportCoherent'
    BY Zenon, <2>2 DEF TransportCoherent
  <2>7. AttachedWorkerIsMonitored' /\ NoStrayWorker'
    BY <2>2, <2>4, <2>5, NoneAssumption DEF AttachedWorkerIsMonitored, NoStrayWorker
  <2>8. OneTimeSecretIsSingleUse' /\ ClosedTabOwnsNothing'
    BY <2>2, <2>4, <2>5 DEF OneTimeSecretIsSingleUse, ClosedTabOwnsNothing
  <2> QED BY <2>3, <2>6, <2>7, <2>8
<1>2. CASE Authenticate
  BY <1>2, TransportStarted DEF Authenticate, StartAllowed
<1>3. ASSUME NEW i \in TaskIds, UnlockVault(i) PROVE IInv'
  <2>1. Kept(tab, tab')
    BY <1>0, <1>3, TabMethods DEF UnlockVault, Phases
  <2>2. TypeOK'
    BY <1>0, <1>3, <2>1, TasksType DEF UnlockVault, TaskKinds, Kept
  <2> QED BY <1>3, <2>1, <2>2, TransportKept DEF UnlockVault
<1>4. CASE CancelPasswordDialog \/ RejectHostKey
  <2>1. Kept(tab, tab')
    <3>1. Kept(tab, [SetSshPhase(tab, "Idle") EXCEPT !.failure = FALSE])
      BY <1>0, TabMethods
    <3> QED BY <1>4, <3>1 DEF CancelPasswordDialog, RejectHostKey
  <2>2. TypeOK'
    BY <1>4, <2>1 DEF CancelPasswordDialog, RejectHostKey, Kept
  <2> QED BY <1>4, <2>1, <2>2, TransportKept DEF CancelPasswordDialog, RejectHostKey
<1>5. ASSUME NEW i \in TaskIds, ConfirmHostKey(i) PROVE IInv'
  <2>1. Kept(tab, tab')
    BY <1>0, <1>5, TabMethods DEF ConfirmHostKey, Phases
  <2>2. TypeOK'
    BY <1>0, <1>5, <2>1, TasksType DEF ConfirmHostKey, TaskKinds, Kept
  <2> QED BY <1>5, <2>1, <2>2, TransportKept DEF ConfirmHostKey
<1>6. ASSUME NEW q \in BOOLEAN, Disconnect(q) PROVE IInv'
  <2>1. Kept(tab, tab') /\ tab.open
    BY <1>0, <1>6, TabMethods DEF Disconnect
  <2>2. stop' \in [Attempts -> BOOLEAN] /\ \A a \in Attempts : stop[a] => stop'[a]
    BY <1>6 DEF Disconnect
  <2>3. TypeOK'
    BY <1>6, <2>1, <2>2 DEF Disconnect, Kept
  <2> QED BY <1>6, <2>1, <2>2, <2>3, TransportKept DEF Disconnect
<1>7. ASSUME NEW i \in TaskIds, Retry(i) PROVE IInv'
  <2>1. Kept(tab, tab')
    BY <1>0, <1>7, TabMethods DEF Retry
  <2>2. TypeOK'
    BY <1>0, <1>7, <2>1, TasksType DEF Retry, TaskKinds, Kept
  <2> QED BY <1>7, <2>1, <2>2, TransportKept DEF Retry
<1>8. CASE CloseTab
  <2>1. TypeOK'
    BY <1>8, ClosedTabFields DEF CloseTab, CloseTabState, DropWorker
  <2> QED BY <1>8, <2>1, ClosedTabFields, TransportDropped DEF CloseTab, CloseTabState
<1> QED BY <1>1, <1>2, <1>3, <1>4, <1>5, <1>6, <1>7, <1>8 DEF UserStep

\* Profile edits and UI refreshes preserve the invariant.
LEMMA EnvironmentActions == IInv /\ (EditProfile \/ RefreshUi) => IInv'
<1> SUFFICES ASSUME IInv, EditProfile \/ RefreshUi PROVE IInv'
  OBVIOUS
<1>1. Kept(tab, tab')
  BY TabMethods DEF IInv, TypeOK, EditProfile, RefreshUi, Phases
<1>2. TypeOK'
  BY DEF IInv, TypeOK, EditProfile, RefreshUi, RetryNotice
<1> QED BY <1>1, <1>2, TransportKept DEF EditProfile, RefreshUi

-----------------------------------------------------------------------------
(* Steps of tasks, workers and monitors.                                    *)

\* Every step of a spawned task (probe, lookup, prompt, timer, reconnect,
\* confirmation) preserves the invariant.
LEMMA TaskActions ==
    ASSUME IInv, NEW i \in TaskIds, TaskStep(i)
    PROVE  IInv'
<1> USE DEF IInv, TypeOK
<1>0. /\ tab \in TabRec /\ Gone \in Profiles /\ 0 \in Nat /\ 1 \in Nat
      /\ Phases = {"Idle", "Probing", "AwaitKey", "AwaitRevoked", "ConfirmKey",
                   "ConfirmRevoked", "AwaitAuth", "AwaitVault", "Loading"}
  BY ProfileFields DEF Phases
<1>1. CASE ResumeConnection(i)
  <2>1. Kept(tab, tab')
    BY <1>0, <1>1, TabMethods DEF ResumeConnection
  <2>2. tasks' \in [TaskIds -> TaskRec \cup {NoTask}]
    <3>1. \A j \in TaskIds : Busy(j, "probe") => [tasks[j] EXCEPT !.gen = 1] \in TaskRec
      <4> TAKE j \in TaskIds
      <4> HAVE Busy(j, "probe")
      <4>1. tasks[j] \in TaskRec
        BY BusyTask
      <4> QED BY Zenon, <1>0, <4>1 DEF TaskRec
    <3>2. Task("probe", profile, 0, FALSE) \in TaskRec
      <4>1. "probe" \in TaskKinds
        BY DEF TaskKinds
      <4> QED BY Zenon, <1>0, <4>1 DEF Task, TaskRec
    <3>3. CASE Finish(i) \/ Spawn(i, Task("begin", profile, 0, TRUE))
      BY <1>0, <3>3, TasksType DEF TaskKinds
    <3>4. CASE tasks' = [j \in TaskIds |->
                           IF j = i THEN Task("probe", profile, 0, FALSE)
                           ELSE IF Busy(j, "probe") THEN [tasks[j] EXCEPT !.gen = 1]
                                                    ELSE tasks[j]]
      BY <3>1, <3>2, <3>4
    <3> QED BY <1>1, <3>3, <3>4 DEF ResumeConnection
  <2>3. TypeOK'
    BY <1>1, <2>1, <2>2 DEF ResumeConnection, Kept
  <2> QED BY <1>1, <2>1, <2>3, TransportKept DEF ResumeConnection
<1>2. CASE HostKeyProbed(i)
  <2>1. Kept(tab, tab')
    BY <1>0, <1>2, TabMethods DEF HostKeyProbed, ProbedPhases
  <2>2. TypeOK'
    BY <1>0, <1>2, <2>1, TasksType, BusyTask DEF HostKeyProbed, TaskKinds, Kept, ProbedPhases
  <2> QED BY <1>2, <2>1, <2>2, TransportKept DEF HostKeyProbed
<1>3. CASE BeginAuthentication(i)
  <2>0. tasks[i].prof \in Profiles /\ tasks[i].ui \in BOOLEAN
    BY <1>3, BusyTask DEF BeginAuthentication
  <2>1. CASE /\ StartAllowed(tasks[i].prof, AwaitingAuthentication)
             /\ StartSessionWorker(tasks[i].prof, FALSE)
             /\ Finish(i)
    BY <1>3, <2>0, <2>1, TasksType, TransportStarted DEF BeginAuthentication, StartAllowed
  <2>2. CASE /\ Kept(tab, tab')
             /\ Finish(i) \/ \E k \in {"prompt", "lookup"}, ui \in BOOLEAN :
                                 Spawn(i, Task(k, tasks[i].prof, 0, ui))
             /\ UNCHANGED <<wk, mon>>
    <3>1. TypeOK'
      BY <1>0, <1>3, <2>0, <2>2, TasksType DEF BeginAuthentication, TaskKinds, Kept
    <3> QED BY <1>3, <2>2, <3>1, TransportKept DEF BeginAuthentication
  <2>3. /\ Kept(tab, tab) /\ Kept(tab, [tab EXCEPT !.secret = FALSE])
        /\ Kept(tab, SetSshPhase(tab, "Loading"))
        /\ Kept(tab, SetAwaiting(tab, "AwaitVault"))
        /\ Kept(tab, SetAwaiting(tab, "AwaitAuth"))
    BY <1>0, TabMethods
  <2> QED BY <1>3, <2>0, <2>1, <2>2, <2>3 DEF BeginAuthentication
<1>4. CASE CredentialLookedUp(i)
  <2>0. tasks[i].prof \in Profiles
    BY <1>4, BusyTask DEF CredentialLookedUp
  <2>1. CASE /\ StartAllowed(tasks[i].prof, {"Loading"})
             /\ StartSessionWorker(tasks[i].prof, TRUE)
             /\ Finish(i)
    BY <1>4, <2>0, <2>1, TasksType, TransportStarted DEF CredentialLookedUp, StartAllowed
  <2>2. CASE /\ UNCHANGED <<tab, wk, mon>>
             /\ Finish(i) \/ \E k \in {"clear", "prompt"} :
                                 Spawn(i, Task(k, tasks[i].prof, 0, FALSE))
    <3>1. Kept(tab, tab')
      BY <1>0, <2>2, TabMethods
    <3>2. TypeOK'
      BY <1>0, <1>4, <2>0, <2>2, TasksType DEF CredentialLookedUp, TaskKinds
    <3> QED BY <1>4, <2>2, <3>1, <3>2, TransportKept DEF CredentialLookedUp
  <2> QED BY <1>4, <2>1, <2>2 DEF CredentialLookedUp
<1>5. CASE ClearMissingCredential(i)
  <2>1. Kept(tab, tab')
    BY <1>0, <1>5, TabMethods DEF ClearMissingCredential
  <2>2. profile' \in Profiles
    BY <1>5, ProfileFields
       DEF ClearMissingCredential, StorageCleared, StorageClearRefused, StorageClearFailed
  <2>3. tasks' \in [TaskIds -> TaskRec \cup {NoTask}]
    BY <1>0, <1>5, TasksType, BusyTask DEF ClearMissingCredential, TaskKinds
  <2>4. TypeOK'
    BY <1>5, <2>1, <2>2, <2>3 DEF ClearMissingCredential
  <2> QED BY <1>5, <2>1, <2>4, TransportKept DEF ClearMissingCredential
<1>6. CASE PromptAgain(i)
  <2>1. Kept(tab, tab')
    BY <1>0, <1>6, TabMethods DEF PromptAgain
  <2>2. TypeOK'
    BY <1>6, <2>1, TasksType DEF PromptAgain, Kept
  <2> QED BY <1>6, <2>1, <2>2, TransportKept DEF PromptAgain
<1>7. CASE ReconnectTimerFires(i)
  <2>1. Kept(tab, tab')
    BY <1>0, <1>7, TabMethods DEF ReconnectTimerFires
  <2>2. tasks[i].gen \in Nat
    BY <1>7, BusyTask DEF ReconnectTimerFires
  <2>3. tasks' \in [TaskIds -> TaskRec \cup {NoTask}]
    BY <1>0, <1>7, <2>2, TasksType DEF ReconnectTimerFires, TaskKinds
  <2>4. fired' \in Nat
    <3>1. fired' = fired + 1 \/ fired' = fired
      BY Zenon, <1>7 DEF ReconnectTimerFires
    <3> QED BY <3>1
  <2>5. UNCHANGED <<profile, tab, wk, stop, chan, mon, card, ended>>
    BY <1>7 DEF ReconnectTimerFires
  <2>6. TypeOK'
    BY <2>3, <2>4, <2>5
  <2> QED BY <2>1, <2>5, <2>6, TransportKept
<1>8. CASE ReconnectExpires(i)
  <2>0. tasks[i].gen \in Nat
    BY <1>8, BusyTask DEF ReconnectExpires
  <2>1. Kept(tab, tab')
    <3> DEFINE u == FinishReconnectAttempt(tab, tasks[i].gen)
    <3>1. Kept(tab, u) /\ Kept(tab, tab)
      BY <1>0, <2>0, TabMethods
    <3>2. tab' = [u EXCEPT !.failure = FALSE] \/ tab' = tab
      BY <1>8 DEF ReconnectExpires
    <3> HIDE DEF u
    <3>3. Kept(tab, [u EXCEPT !.failure = FALSE])
      BY Zenon, <3>1 DEF Kept, TabRec
    <3> QED BY <3>1, <3>2, <3>3
  <2>2. TypeOK'
    BY <1>8, <2>1, TasksType DEF ReconnectExpires, Kept
  <2> QED BY <1>8, <2>1, <2>2, TransportKept DEF ReconnectExpires
<1>9. CASE ReconnectSsh(i)
  <2>0. tasks[i].prof \in Profiles /\ tab.gen \in Nat
    <3>1. tab.gen \in Nat
      BY <1>0 DEF TabRec
    <3> QED BY <1>9, <3>1, BusyTask DEF ReconnectSsh
  <2>1. Kept(tab, tab')
    <3> DEFINE u == FinishReconnectAttempt(tab, tab.gen)
    <3>0. Kept(tab, u)
      BY <1>0, <2>0, TabMethods
    <3>1. Kept(tab, u) /\ u \in TabRec
      BY <3>0 DEF Kept
    <3>2. ASSUME NEW p \in Phases PROVE Kept(tab, [SetSshPhase(u, p) EXCEPT !.failure = FALSE])
      BY <2>0, <3>1, TabMethods, KeptTransitive
    <3>3. \/ tab' = tab
          \/ tab' = [SetSshPhase(tab, "AwaitAuth") EXCEPT !.failure = FALSE]
          \/ \E p \in Phases : tab' = [SetSshPhase(u, p) EXCEPT !.failure = FALSE]
      BY <1>0, <1>9 DEF ReconnectSsh
    <3> HIDE DEF u
    <3> QED BY ZenonT(40), <1>0, <3>2, <3>3, TabMethods
  <2>2. TypeOK'
    BY <1>0, <1>9, <2>0, <2>1, TasksType DEF ReconnectSsh, TaskKinds, Kept
  <2> QED BY <1>9, <2>1, <2>2, TransportKept DEF ReconnectSsh
<1>10. CASE HostKeyConfirmed(i)
  <2>1. Kept(tab, tab')
    BY <1>0, <1>10, TabMethods DEF HostKeyConfirmed
  <2>2. profile' \in Profiles
    BY <1>10, ProfileFields DEF HostKeyConfirmed
  <2>3. tasks' \in [TaskIds -> TaskRec \cup {NoTask}]
    BY <1>0, <1>10, <2>2, TasksType DEF HostKeyConfirmed, TaskKinds
  <2>4. TypeOK'
    BY <1>10, <2>1, <2>2, <2>3 DEF HostKeyConfirmed, Kept
  <2> QED BY <1>10, <2>1, <2>4, TransportKept DEF HostKeyConfirmed
<1>11. CASE RevokedKeyConfirmed(i)
  <2>1. Kept(tab, tab')
    BY <1>0, <1>11, TabMethods DEF RevokedKeyConfirmed
  <2>2. profile' \in Profiles
    BY <1>11, ProfileFields DEF RevokedKeyConfirmed
  <2>3. ended' = ended \/ (ended' = "cancel" /\ tab.open)
    BY <1>11, <2>1 DEF RevokedKeyConfirmed, Kept
  <2>4. TypeOK'
    BY <1>11, <2>1, <2>2, <2>3, TasksType DEF RevokedKeyConfirmed, Kept
  <2> QED BY <1>11, <2>1, <2>3, <2>4, TransportKept DEF RevokedKeyConfirmed
<1> QED BY <1>1, <1>2, <1>3, <1>4, <1>5, <1>6, <1>7, <1>8, <1>9, <1>10, <1>11 DEF TaskStep

\* Every step of a transport worker preserves the invariant.
LEMMA WorkerActions ==
    ASSUME IInv, NEW a \in Attempts, WorkerStep(a)
    PROVE  IInv'
<1> USE DEF IInv, TypeOK
<1>1. Kept(tab, tab')
  BY TabMethods DEF WorkerStep, WorkerConnects, WorkerCannotConnect, Phases,
                    WorkerLosesConnection, WorkerStops, WorkerAborts
<1>2. /\ UNCHANGED <<profile, tab, tasks, stop, mon, card, fired, ended>>
      /\ wk[a] \in {"connecting", "up"}
      /\ \E w \in {"up", "done"} : wk' = [wk EXCEPT ![a] = w]
      /\ chan' = chan \/ \E ev \in Events : Emit(a, ev)
  BY DEF WorkerStep, WorkerConnects, WorkerCannotConnect, WorkerLosesConnection,
         WorkerStops, WorkerAborts, Events, TerminalEvents, ConnectErrors,
         TransportErrors, HostKeyErrors
<1>3. chan' \in [Attempts -> Seq(Events)]
  <2>1. ASSUME NEW ev \in Events, Emit(a, ev) PROVE chan' \in [Attempts -> Seq(Events)]
    <3>1. Append(chan[a], ev) \in Seq(Events)
      OBVIOUS
    <3>2. chan' = [chan EXCEPT ![a] = Append(chan[a], ev)]
      BY Zenon, <2>1 DEF Emit
    <3> QED BY <3>1, <3>2
  <2> QED BY <1>2, <2>1
<1>4. TypeOK'
  BY <1>2, <1>3
<1> QED BY <1>1, <1>2, <1>4, TransportKept

\* The event at the head of the channel, and the channel after it is taken.
LEMMA ReceivesType ==
    ASSUME TypeOK, NEW a \in Attempts, NEW evs, Receives(a, evs)
    PROVE  chan' \in [Attempts -> Seq(Events)] /\ mon[a].st = "run"
  BY DEF TypeOK, Receives

\* A monitor whose attempt the tab no longer owns changes nothing of the tab.
LEMMA DetachedMonitor ==
    ASSUME IInv, TypeOK', NEW a \in Attempts, ~MatchesAttempt(a) \/ mon[a].st # "run",
           Kept(tab, tab'), wk' = wk, stop' = stop,
           \A b \in Attempts : b # a => mon'[b] = mon[b],
           ended' = ended
    PROVE  IInv'
<1>1. tab.worker # a
  <2>1. CASE mon[a].st # "run"
    BY <2>1 DEF IInv, AttachedWorkerIsMonitored
  <2>2. CASE ~MatchesAttempt(a)
    <3>1. tab.worker = a => tab.open
      BY NoneAssumption DEF IInv, ClosedTabOwnsNothing
    <3> QED BY <2>2, <3>1 DEF IInv, TransportCoherent, MatchesAttempt
  <2> QED BY <2>1, <2>2
<1> QED BY <1>1, TransportKept

\* A monitor that retires the attempt drops the worker.
LEMMA RetiringMonitor ==
    ASSUME IInv, TypeOK', DropWorker, wk' = wk, ended' = ended,
           Kept(RetireAttempt(tab), tab')
    PROVE  IInv'
<1>1. /\ RetireAttempt(tab).worker = None /\ RetireAttempt(tab).attempt = None
      /\ RetireAttempt(tab).running = FALSE /\ RetireAttempt(tab).connected = FALSE
      /\ RetireAttempt(tab).open = tab.open
      /\ RetireAttempt(tab).secret = tab.secret
  BY RetireAttemptDrops DEF IInv, TypeOK
<1>2. /\ tab'.worker = None /\ tab'.attempt = None
      /\ tab'.running = FALSE /\ tab'.connected = FALSE
      /\ tab'.open = tab.open /\ (tab'.secret => tab.secret)
  BY Zenon, <1>1 DEF Kept
<1> QED BY <1>2, TransportDropped

\* Every event a monitor handles preserves the invariant.
LEMMA MonitorActions ==
    ASSUME IInv, NEW a \in Attempts, MonStep(a)
    PROVE  IInv'
<1> USE DEF IInv, TypeOK
<1>0. /\ tab \in TabRec /\ RetireAttempt(tab) \in TabRec /\ 0 \in Nat
      /\ Phases = {"Idle", "Probing", "AwaitKey", "AwaitRevoked", "ConfirmKey",
                   "ConfirmRevoked", "AwaitAuth", "AwaitVault", "Loading"}
      /\ MonStates = {"none", "run", "sched", "schedFailed", "close", "cleanup",
                      "ended"}
  BY RetireAttemptDrops DEF Phases, MonStates
<1>a. DropWorker => stop' \in [Attempts -> BOOLEAN]
  BY DEF DropWorker
<1>b. Kept(tab, tab) /\ Kept(RetireAttempt(tab), RetireAttempt(tab))
  BY <1>0, TabMethods
<1>1. CASE MonConnected(a)
  <2>1. chan' \in [Attempts -> Seq(Events)]
    BY <1>1, ReceivesType DEF MonConnected
  <2>2. CASE ~MatchesAttempt(a)
    <3>1. TypeOK'
      BY <1>1, <2>1, <2>2 DEF MonConnected
    <3> QED BY <1>1, <1>b, <2>2, <3>1, DetachedMonitor DEF MonConnected
  <2>3. CASE MatchesAttempt(a)
    <3> DEFINE u == [tab EXCEPT !.connected = TRUE, !.running = TRUE, !.failure = FALSE]
    <3>1. /\ u \in TabRec /\ u.worker = tab.worker /\ u.attempt = tab.attempt
          /\ u.running = TRUE /\ u.connected = TRUE
          /\ u.open = tab.open /\ u.secret = tab.secret
      BY Zenon, <1>0 DEF TabRec
    <3>2. tab' = MarkReconnectConnected(u) /\ fired' = 0
      BY <1>1, <2>3 DEF MonConnected
    <3> HIDE DEF u
    <3>3. Kept(u, tab')
      BY <1>0, <3>1, <3>2, TabMethods
    <3>4. /\ tab' \in TabRec /\ tab'.worker = tab.worker /\ tab'.attempt = tab.attempt
          /\ tab'.running = TRUE /\ tab'.connected = TRUE
          /\ tab'.open = tab.open /\ (tab'.secret => tab.secret)
      BY Zenon, <3>1, <3>3 DEF Kept
    <3>5. tab.worker = a /\ tab.attempt = a /\ tab.open
      BY <2>3 DEF MatchesAttempt, TransportCoherent
    <3>6. UNCHANGED <<profile, tasks, wk, stop, mon, card, ended>>
      BY <1>1 DEF MonConnected
    <3>7. TypeOK'
      BY <2>1, <3>2, <3>4, <3>6
    <3>8. TransportCoherent'
      BY Zenon, <3>4, <3>5, NoneAssumption DEF TransportCoherent
    <3>9. AttachedWorkerIsMonitored' /\ NoStrayWorker'
      BY <3>4, <3>6 DEF AttachedWorkerIsMonitored, NoStrayWorker
    <3>10. OneTimeSecretIsSingleUse' /\ ClosedTabOwnsNothing'
      BY <3>4, <3>5, <3>6 DEF OneTimeSecretIsSingleUse, ClosedTabOwnsNothing
    <3> QED BY <3>7, <3>8, <3>9, <3>10
  <2> QED BY <2>2, <2>3
<1>2. CASE MonDisconnected(a) \/ MonShellExited(a)
  <2>1. chan' \in [Attempts -> Seq(Events)]
    BY <1>2, ReceivesType DEF MonDisconnected, MonShellExited
  <2>2. \E st \in MonStates : MonTerm(a, st)
    BY <1>0, <1>2 DEF MonDisconnected, MonShellExited
  <2>3. UNCHANGED <<profile, tasks, wk, card, fired, ended>>
    BY <1>2 DEF MonDisconnected, MonShellExited
  <2>4. mon' \in [Attempts -> MonRec] /\ \A b \in Attempts : b # a => mon'[b] = mon[b]
    BY <2>2, MonitorType
  <2>5. CASE MatchesAttempt(a)
    <3>1. tab' = RetireAttempt(tab) /\ DropWorker
      BY <1>2, <2>5 DEF MonDisconnected, MonShellExited
    <3>2. TypeOK'
      BY <1>0, <1>a, <2>1, <2>3, <2>4, <3>1
    <3> QED BY <1>b, <2>3, <3>1, <3>2, RetiringMonitor
  <2>6. CASE ~MatchesAttempt(a)
    <3>1. UNCHANGED <<tab, stop>>
      BY <1>2, <2>6 DEF MonDisconnected, MonShellExited
    <3>2. TypeOK'
      BY <2>1, <2>3, <2>4, <3>1
    <3> QED BY <1>b, <2>3, <2>4, <2>6, <3>1, <3>2, DetachedMonitor
  <2> QED BY <2>5, <2>6
<1>3. CASE MonSchedules(a)
  <2> DEFINE t == [tab EXCEPT !.failure = IF mon[a].st = "schedFailed" THEN TRUE ELSE @]
  <2>1. Kept(tab, t) /\ t \in TabRec /\ (CanReconnect(tab) => CanReconnect(t))
    <3>1. t = tab \/ t = [tab EXCEPT !.failure = TRUE]
      BY Zenon, <1>0 DEF TabRec
    <3>2. Kept(tab, [tab EXCEPT !.failure = TRUE])
      BY <1>0, TabMethods
    <3>3. CanReconnect(tab) => CanReconnect([tab EXCEPT !.failure = TRUE])
      BY Zenon, <1>0 DEF CanReconnect, TabRec
    <3> HIDE DEF t
    <3>4. Kept(tab, t)
      BY <1>b, <3>1, <3>2
    <3> QED BY <3>1, <3>3, <3>4 DEF Kept
  <2>2. Kept(tab, tab')
    <3>1. \/ CanReconnect(tab) /\ tab' = BeginReconnect(t)
          \/ tab' = tab \/ tab' = t \/ tab' = [t EXCEPT !.failure = TRUE]
      BY <1>3 DEF MonSchedules
    <3> HIDE DEF t
    <3>2. CanReconnect(tab) => Kept(t, BeginReconnect(t))
      BY <1>0, <2>1, TabMethods
    <3>3. Kept(t, [t EXCEPT !.failure = TRUE])
      BY <1>0, <2>1, TabMethods
    <3>4. CanReconnect(tab) => Kept(tab, BeginReconnect(t))
      BY <2>1, <3>2, KeptTransitive
    <3>5. Kept(tab, [t EXCEPT !.failure = TRUE])
      BY <2>1, <3>3, KeptTransitive
    <3> QED BY <1>b, <2>1, <3>1, <3>4, <3>5
  <2> HIDE DEF t
  <2>3. tab.gen \in Nat /\ Gone \in Profiles /\ FALSE \in BOOLEAN
    <3>1. tab.gen \in Nat
      BY <1>0 DEF TabRec
    <3> QED BY <3>1, ProfileFields
  <2>4. tasks' \in [TaskIds -> TaskRec \cup {NoTask}]
    BY <1>3, <2>3, TasksType DEF MonSchedules, TaskKinds
  <2>5. mon' \in [Attempts -> MonRec] /\ \A b \in Attempts : b # a => mon'[b] = mon[b]
    BY <1>0, <1>3, MonitorType DEF MonSchedules
  <2>6. UNCHANGED <<profile, wk, stop, chan, card, fired, ended>> /\ mon[a].st # "run"
    BY <1>3 DEF MonSchedules
  <2>7. TypeOK'
    BY <2>2, <2>4, <2>5, <2>6 DEF Kept
  <2> QED BY <2>2, <2>5, <2>6, <2>7, DetachedMonitor
<1>4. CASE MonCloses(a)
  <2>1. mon' \in [Attempts -> MonRec] /\ \A b \in Attempts : b # a => mon'[b] = mon[b]
    BY <1>0, <1>4, MonitorType DEF MonCloses
  <2>2. UNCHANGED <<profile, tasks, wk, chan, card, fired>> /\ mon[a].st # "run"
    BY <1>4 DEF MonCloses
  <2>3. CASE CloseTabState
    <3>1. TypeOK'
      BY <1>a, <2>1, <2>2, <2>3, ClosedTabFields DEF CloseTabState
    <3> QED BY <2>2, <2>3, <3>1, ClosedTabFields, TransportDropped DEF CloseTabState
  <2>4. CASE UNCHANGED <<tab, stop, ended>>
    <3>1. TypeOK'
      BY <2>1, <2>2, <2>4
    <3> QED BY <1>b, <2>1, <2>2, <2>4, <3>1, DetachedMonitor
  <2> QED BY <1>4, <2>3, <2>4 DEF MonCloses
<1>5. CASE MonHostKeyRefused(a) \/ MonAuthenticationFailed(a)
  <2>1. chan' \in [Attempts -> Seq(Events)]
    BY <1>5, ReceivesType DEF MonHostKeyRefused, MonAuthenticationFailed
  <2>2. \E st \in MonStates : MonTerm(a, st)
    BY <1>0, <1>5 DEF MonHostKeyRefused, MonAuthenticationFailed
  <2>3. UNCHANGED <<profile, tasks, wk, card, fired, ended>>
    BY <1>5 DEF MonHostKeyRefused, MonAuthenticationFailed
  <2>4. mon' \in [Attempts -> MonRec] /\ \A b \in Attempts : b # a => mon'[b] = mon[b]
    BY <2>2, MonitorType
  <2>5. CASE MatchesAttempt(a)
    <3>1. /\ DropWorker
          /\ \/ \E p \in Phases : tab' = SetSshPhase(RetireAttempt(tab), p)
             \/ tab' = [RetireAttempt(tab) EXCEPT !.failure = FALSE]
      BY <1>0, <1>5, <2>5 DEF MonHostKeyRefused, MonAuthenticationFailed
    <3>2. Kept(RetireAttempt(tab), [RetireAttempt(tab) EXCEPT !.failure = FALSE])
      BY Zenon, <1>0 DEF Kept, TabRec
    <3>3. Kept(RetireAttempt(tab), tab')
      BY <1>0, <3>1, <3>2, TabMethods
    <3>4. TypeOK'
      BY <1>a, <2>1, <2>3, <2>4, <3>1, <3>3 DEF Kept
    <3> QED BY <2>3, <3>1, <3>3, <3>4, RetiringMonitor
  <2>6. CASE ~MatchesAttempt(a)
    <3>1. UNCHANGED <<tab, stop>>
      BY <1>5, <2>6 DEF MonHostKeyRefused, MonAuthenticationFailed
    <3>2. TypeOK'
      BY <2>1, <2>3, <2>4, <3>1
    <3> QED BY <1>b, <2>3, <2>4, <2>6, <3>1, <3>2, DetachedMonitor
  <2> QED BY <2>5, <2>6
<1>6. CASE MonCleansUp(a)
  <2>1. mon' \in [Attempts -> MonRec] /\ \A b \in Attempts : b # a => mon'[b] = mon[b]
    BY <1>0, <1>6, MonitorType DEF MonCleansUp
  <2>2. Kept(tab, tab')
    BY <1>0, <1>6, TabMethods DEF MonCleansUp, FinishCredentialRetry
  <2>3. profile' \in Profiles
    BY <1>6, ProfileFields
       DEF MonCleansUp, StorageCleared, StorageClearRefused, StorageClearFailed
  <2>4. UNCHANGED <<tasks, wk, stop, chan, card, fired, ended>> /\ mon[a].st # "run"
    BY <1>6 DEF MonCleansUp
  <2>5. TypeOK'
    BY <2>1, <2>2, <2>3, <2>4 DEF Kept
  <2> QED BY <2>1, <2>2, <2>4, <2>5, DetachedMonitor
<1>7. CASE MonStreamEnds(a)
  <2>1. \E st \in MonStates : MonTerm(a, st)
    BY <1>0, <1>7 DEF MonStreamEnds
  <2>2. UNCHANGED <<profile, tasks, wk, chan, card, fired, ended>>
    BY <1>7 DEF MonStreamEnds
  <2>3. mon' \in [Attempts -> MonRec] /\ \A b \in Attempts : b # a => mon'[b] = mon[b]
    BY <2>1, MonitorType
  <2>4. CASE MatchesAttempt(a)
    <3>1. tab' = RetireAttempt(tab) /\ DropWorker
      BY <1>7, <2>4 DEF MonStreamEnds
    <3>2. TypeOK'
      BY <1>0, <1>a, <2>2, <2>3, <3>1
    <3> QED BY <1>b, <2>2, <3>1, <3>2, RetiringMonitor
  <2>5. CASE ~MatchesAttempt(a)
    <3>1. UNCHANGED <<tab, stop>>
      BY <1>7, <2>5 DEF MonStreamEnds
    <3>2. TypeOK'
      BY <2>2, <2>3, <3>1
    <3> QED BY <1>b, <2>2, <2>3, <2>5, <3>1, <3>2, DetachedMonitor
  <2> QED BY <2>4, <2>5
<1> QED BY <1>1, <1>2, <1>3, <1>4, <1>5, <1>6, <1>7 DEF MonStep

-----------------------------------------------------------------------------
(* The theorems.                                                            *)

\* The invariant holds before the tab is opened.
LEMMA InitIInv == Init => IInv
<1> SUFFICES ASSUME Init PROVE IInv
  OBVIOUS
<1>1. NoMon \in MonRec
  <2>1. "none" \in MonStates /\ Gone \in Profiles
    BY DEF MonStates, Profiles
  <2> QED BY Zenon, <2>1 DEF NoMon, MonRec
<1>2. TypeOK
  <2>1. \A a \in Attempts : <<>> \in Seq(Events)
    OBVIOUS
  <2> QED BY <1>1, <2>1, ClosedTabFields DEF Init, TypeOK
<1>3. TransportCoherent
  BY Zenon, ClosedTabFields DEF Init, TransportCoherent
<1>4. AttachedWorkerIsMonitored /\ NoStrayWorker
  BY ClosedTabFields, NoneAssumption DEF Init, AttachedWorkerIsMonitored, NoStrayWorker
<1>5. OneTimeSecretIsSingleUse /\ ClosedTabOwnsNothing
  BY ClosedTabFields DEF Init, OneTimeSecretIsSingleUse, ClosedTabOwnsNothing
<1> QED BY <1>2, <1>3, <1>4, <1>5 DEF IInv

\* The invariant is inductive.
LEMMA NextIInv == IInv /\ [Next]_vars => IInv'
<1> SUFFICES ASSUME IInv, [Next]_vars PROVE IInv'
  OBVIOUS
<1>1. CASE UNCHANGED vars
  <2> USE <1>1 DEF vars
  <2>1. TypeOK'
    BY DEF IInv, TypeOK
  <2>2. Kept(tab, tab')
    BY Zenon DEF IInv, TypeOK, Kept
  <2> QED BY <2>1, <2>2, TransportKept
<1> QED BY <1>1, UserActions, EnvironmentActions, TaskActions, WorkerActions,
           MonitorActions DEF Next

\* The inductive invariant holds in every reachable state, for any number of
\* attempts, tasks, retries and concurrent profile edits.
THEOREM Invariance == Spec => []IInv
  BY InitIInv, NextIInv, PTL DEF Spec

\* Type correctness; in particular the automatic retry counter of a tab never
\* passes MAX_RECONNECT_ATTEMPTS.
THEOREM TypeCorrect == Spec => []TypeOK
<1>1. IInv => TypeOK
  BY DEF IInv
<1> QED BY <1>1, Invariance, PTL

\* worker, connection_attempt, running and connected of a tab always agree,
\* whichever of the handlers wrote them last.
THEOREM TransportIsCoherent == Spec => []TransportCoherent
<1>1. IInv => TransportCoherent
  BY DEF IInv
<1> QED BY <1>1, Invariance, PTL

\* The worker a tab owns always has a monitor that will still see its end.
THEOREM EveryWorkerIsMonitored == Spec => []AttachedWorkerIsMonitored
<1>1. IInv => AttachedWorkerIsMonitored
  BY DEF IInv
<1> QED BY <1>1, Invariance, PTL

\* A tab owns at most one transport worker: any other worker that was started
\* for it and still runs has been told to stop.
THEOREM AtMostOneWorker == Spec => []NoStrayWorker
<1>1. IInv => NoStrayWorker
  BY DEF IInv
<1> QED BY <1>1, Invariance, PTL

\* A one-time password is gone before the first worker has been started.
THEOREM SecretUsedOnce == Spec => []OneTimeSecretIsSingleUse
<1>1. IInv => OneTimeSecretIsSingleUse
  BY DEF IInv
<1> QED BY <1>1, Invariance, PTL

\* start_session_worker is the only step that starts a worker, and it starts
\* it from the given profile.
LEMMA StartUsesProfile ==
    ASSUME TypeOK, NEW prof, NEW stored, NEW from,
           StartAllowed(prof, from), StartSessionWorker(prof, stored),
           NEW a \in Attempts, wk[a] = "unused", wk'[a] # "unused"
    PROVE  tab.open /\ mon'[a].prof = profile
<1>1. PICK b \in Attempts :
         /\ wk' = [wk EXCEPT ![b] = "connecting"]
         /\ mon' = [mon EXCEPT ![b] = [st |-> "run", prof |-> prof,
                                      stored |-> stored, term |-> FALSE]]
  BY DEF StartSessionWorker
<1>2. a = b
  BY <1>1 DEF TypeOK
<1>3. mon'[a] = [st |-> "run", prof |-> prof, stored |-> stored, term |-> FALSE]
  BY <1>1, <1>2 DEF TypeOK
<1>4. mon'[a].prof = prof
  BY <1>3
<1> QED BY <1>4 DEF StartAllowed

\* Only the three callers of start_session_worker start a worker.
LEMMA OnlyStartersStart ==
    ASSUME TypeOK, Next, NEW a \in Attempts, wk[a] = "unused", wk'[a] # "unused"
    PROVE  \/ Authenticate
           \/ \E i \in TaskIds : BeginAuthentication(i) \/ CredentialLookedUp(i)
<1>1. CASE UserStep \/ EditProfile \/ RefreshUi
  BY <1>1 DEF UserStep, OpenConnection, UnlockVault, ConfirmHostKey, Retry,
       CancelPasswordDialog, RejectHostKey, Disconnect, CloseTab, EditProfile, RefreshUi
<1>2. ASSUME NEW i \in TaskIds, TaskStep(i)
      PROVE  BeginAuthentication(i) \/ CredentialLookedUp(i)
  BY <1>2 DEF TaskStep, ResumeConnection, HostKeyProbed, ClearMissingCredential,
       PromptAgain, ReconnectTimerFires, ReconnectExpires, ReconnectSsh,
       HostKeyConfirmed, RevokedKeyConfirmed
<1>3. ASSUME NEW b \in Attempts, MonStep(b) PROVE FALSE
  BY <1>3 DEF MonStep, MonConnected, MonDisconnected, MonSchedules, MonShellExited,
       MonCloses, MonHostKeyRefused, MonAuthenticationFailed, MonCleansUp, MonStreamEnds
<1>4. ASSUME NEW b \in Attempts, WorkerStep(b) PROVE FALSE
  <2>1. wk[b] \in {"connecting", "up"} /\ \E w \in {"up", "done"} : wk' = [wk EXCEPT ![b] = w]
    BY <1>4 DEF WorkerStep, WorkerConnects, WorkerCannotConnect,
         WorkerLosesConnection, WorkerStops, WorkerAborts
  <2> QED BY <2>1 DEF TypeOK
<1> QED BY <1>1, <1>2, <1>3, <1>4 DEF Next

\* No worker is ever started from a stale profile, whatever happened to it
\* during the probe, the lookup or the delay that preceded the start.
THEOREM NoStaleStart == Spec => StartsFromCurrentProfile
<1>1. ASSUME TypeOK, [Next]_vars, NEW a \in Attempts, wk[a] = "unused", wk'[a] # "unused"
      PROVE  tab.open /\ mon'[a].prof = profile
  <2>1. Next
    BY <1>1 DEF vars
  <2>2. CASE Authenticate
    BY <1>1, <2>2, StartUsesProfile DEF Authenticate
  <2>3. ASSUME NEW i \in TaskIds, BeginAuthentication(i) \/ CredentialLookedUp(i)
        PROVE  tab.open /\ mon'[a].prof = profile
    <3>1. \E from, stored : StartAllowed(tasks[i].prof, from) /\ StartSessionWorker(tasks[i].prof, stored)
      BY <1>1, <2>3 DEF BeginAuthentication, CredentialLookedUp
    <3> QED BY <1>1, <3>1, StartUsesProfile
  <2> QED BY <1>1, <2>1, <2>2, <2>3, OnlyStartersStart
<1>2. TypeOK /\ [Next]_vars
        => [\A a \in Attempts : wk[a] = "unused" /\ wk'[a] # "unused"
               => tab.open /\ mon'[a].prof = profile]_vars
  BY <1>1
<1> QED BY <1>2, TypeCorrect, PTL DEF Spec, StartsFromCurrentProfile
=============================================================================

---------------------------- MODULE TransferRows ----------------------------
(***************************************************************************)
(* The transfer list of an SFTP tab (src/app/state/sftp.rs): rows, the     *)
(* intents kept for a reconnection, the tasks that submit them             *)
(* (src/app/sftp_bridge/transfers.rs) and the worker's events as the       *)
(* connection monitor applies them. The worker is reduced to what it       *)
(* promises: it takes requests, runs each once and reports in order.       *)
(***************************************************************************)
EXTENDS Naturals, Sequences, FiniteSets, SequencesExt, Absent

CONSTANTS
  Files, Ups,    \* single-file downloads and uploads, by transfer id
  Folder, Inside,  \* a directory download, and the files in it
  MaxEvents,     \* capacity of the event channel
  MaxDrops       \* connections lost

Tops == Files \cup Ups \cup {Folder}
Rows == Tops \cup Inside

ASSUME RowsAssumption == MaxEvents \in Nat \ {0} /\ MaxDrops \in Nat /\ Files \cap Ups = {}

VARIABLES
  a,        \* the tab's SftpState
  link,     \* the attempt: up, replaying worker, reconnect_enabled
  job,      \* what the worker of this attempt does with each id
  events,   \* its events, first in first out
  task,     \* the submission of each top-level transfer
  replay,   \* the task of requeue_transfer_intents
  asked,    \* what the user asks for in this behaviour
  unsent    \* cancelled when no worker could act on it: none connected, the transfer
            \* still being submitted, or its end settled already

rowVars == <<a, link, job, events, task, replay, asked, unsent>>

Active == {"Queued", "AwaitingConflict", "Downloading", "Uploading", "Pausing", "Paused", "Resuming", "Cancelling"}
Settled == {"Completed", "Skipped", "Conflict"}
Final == {"Completed", "Cancelled", "Failed", "Skipped"}
NoReplay == [st |-> "none", todo |-> {}, sent |-> {}, cur |-> Nil, again |-> FALSE, seen |-> {}]
Quiet == [i \in Rows |-> "none"]
Blank == [row |-> [i \in Rows |-> Nil], intents |-> {}, done |-> {}, kids |-> {}, scanning |-> FALSE,
          pending |-> FALSE, changed |-> FALSE]

RowsInit ==
  /\ a = Blank
  /\ link = [up |-> TRUE, closed |-> FALSE, reconnect |-> TRUE, drops |-> 0]
  /\ job = Quiet /\ events = <<>> /\ task = [i \in Tops |-> "none"]
  /\ replay = NoReplay /\ unsent = {}
  /\ asked \in SUBSET Tops

----------------------------------------------------------------------------
(* SftpState.                                                              *)

ActivePhase(i) == IF i \in Ups THEN "Uploading" ELSE "Downloading"

\* register_*_intent.
Register(s, i) == [s EXCEPT !.intents = @ \cup {i}, !.changed = TRUE,
                            !.done = IF i = Folder THEN {} ELSE @]

\* remove_transfer_intent.
RemoveIntent(s, i) ==
  [s EXCEPT !.intents = @ \ {i}, !.changed = @ \/ i \in s.intents,
            !.kids = IF i = Folder THEN {} ELSE @ \ {i}]

\* A bug: files that arrived are not noted.
MarkChildNot(s, i) == s

\* mark_directory_child_completed.
MarkChild(s, i) ==
  IF i \in s.kids /\ Folder \in s.intents THEN [s EXCEPT !.done = @ \cup {i}, !.changed = TRUE] ELSE s

\* queue_transfer_with_pause.
QueueRow(s, i) ==
  IF s.row[i] \in {Nil, "Queued"} \/ (i \in Ups /\ s.row[i] \in {"AwaitingConflict", "Uploading"})
  THEN [s EXCEPT !.row[i] = "Queued"]
  ELSE s

\* The transitions finish_transfer accepts.
Allowed(from, to) ==
  CASE from = "Queued" -> TRUE
    [] from = "Uploading" -> TRUE
    [] from \in {"Downloading", "Pausing", "Resuming"} -> to \in {"Cancelled", "Failed", "Completed"}
    [] from \in {"AwaitingConflict", "Paused", "Cancelling"} -> to \in {"Cancelled", "Failed"}
    [] OTHER -> FALSE

\* finish_transfer.
Finish(s, i, to) ==
  LET quiet == [s EXCEPT !.scanning = @ /\ i # Folder]
      ended == [quiet EXCEPT !.row[i] = to]
  IN  IF s.row[i] = Nil \/ ~Allowed(s.row[i], to) THEN quiet
      ELSE RemoveIntent(IF to = "Completed" THEN MarkChild(ended, i) ELSE ended, i)

\* finish_downloaded_transfer.
FinishDownloaded(s, i) ==
  IF s.row[i] \notin {"Downloading", "Pausing", "Resuming"} THEN s
  ELSE RemoveIntent(MarkChild([s EXCEPT !.row[i] = "Completed"], i), i)

\* defer_recoverable_failure.
Deferred(s, i) ==
  [s EXCEPT !.scanning = @ /\ i # Folder, !.row[i] = IF @ = Nil THEN Nil ELSE "Queued"]

\* prepare_for_reconnect: rows without an intent go, the others wait.
PrepareForReconnect(s) ==
  [s EXCEPT !.pending = TRUE, !.scanning = Folder \in s.intents,
            !.row = [i \in Rows |-> IF @[i] \notin Active THEN @[i]
                                    ELSE IF i \in s.intents THEN "Queued" ELSE Nil]]

----------------------------------------------------------------------------
(* Submissions by the user: rows and intents first, then the worker.       *)

EventRoom == Len(events) < MaxEvents
Post(i, k) == events' = Append(events, [id |-> i, kind |-> k])

\* A download task goes on to look for a replay; an upload knows.
AfterQueueing(i) ==
  IF ~link.up THEN "none" ELSE IF i \notin Ups THEN "reg" ELSE IF a.pending THEN "none" ELSE "send"

\* queue_selected_remote_downloads and queue_upload_file_for_tab register the
\* transfer; an upload takes its submitter in the same step.
Queue(i) ==
  /\ i \in asked /\ task[i] = "none" /\ a.row[i] = Nil
  /\ link.up \/ link.reconnect
  /\ a' = [Register(QueueRow(a, i), i) EXCEPT !.scanning = @ \/ i = Folder]
  /\ task' = [task EXCEPT ![i] = AfterQueueing(i)]
  /\ asked' = asked \ {i}
  /\ UNCHANGED <<link, job, events, replay, unsent>>

\* sftp_tab_has_replay_pending, sftp_tab_is_reconnecting: the replay submits it.
HeldForReplay == a.pending \/ (link.reconnect /\ ~link.up)

\* The download task asks for a submitter.
TakeSubmitter(i) ==
  /\ task[i] = "reg"
  /\ task' = [task EXCEPT ![i] = IF HeldForReplay \/ ~link.up THEN "none" ELSE "send"]
  /\ a' = IF ~HeldForReplay /\ ~link.up THEN Finish(a, i, "Failed") ELSE a
  /\ UNCHANGED <<link, job, events, replay, asked, unsent>>

\* The worker takes a request; one it already has is refused with a report.
Accept(i) ==
  IF job[i] = "none" THEN job' = [job EXCEPT ![i] = "got"] /\ UNCHANGED events
  ELSE EventRoom /\ Post(i, "Refused") /\ UNCHANGED job

\* submit: accepted, refused, or interrupted by the end of the connection.
Submit(i) ==
  /\ task[i] = "send"
  /\ task' = [task EXCEPT ![i] = "none"]
  /\ \/ link.closed /\ UNCHANGED <<a, job, events>>
     \/ ~link.closed /\ Accept(i) /\ UNCHANGED a
     \/ ~link.closed /\ a' = (IF HeldForReplay THEN a ELSE Finish(a, i, "Failed")) /\ UNCHANGED <<job, events>>
  /\ UNCHANGED <<link, replay, asked, unsent>>

----------------------------------------------------------------------------
(* requeue_transfer_intents, spawned when the tab is connected.            *)

ReplaySnapshot ==
  /\ replay.st = "snap"
  /\ replay' = [replay EXCEPT !.st = "each", !.todo = a.intents, !.again = FALSE, !.seen = a.done]
  /\ a' = [a EXCEPT !.changed = FALSE]
  /\ UNCHANGED <<link, job, events, task, asked, unsent>>

\* transfer_intent_is_current.
IntentIsCurrent(i) == i \in a.intents /\ (i = Folder => a.done = replay.seen)

\* The next intent of the snapshot, unless it was submitted before or has changed.
ReplayPick(i) ==
  /\ replay.st = "each" /\ i \in replay.todo
  /\ replay' = IF i \notin replay.sent /\ IntentIsCurrent(i)
               THEN [replay EXCEPT !.todo = @ \ {i}, !.st = "submit", !.cur = i]
               ELSE [replay EXCEPT !.todo = @ \ {i}]
  /\ UNCHANGED <<a, link, job, events, task, asked, unsent>>

ReplaySubmit ==
  /\ replay.st = "submit"
  /\ LET i == replay.cur
         back == [replay EXCEPT !.st = "each", !.cur = Nil]
     IN  \/ /\ link.closed
            /\ replay' = [back EXCEPT !.again = TRUE]
            /\ UNCHANGED <<a, job, events>>
         \/ /\ ~link.closed /\ Accept(i)
            /\ replay' = [back EXCEPT !.sent = @ \cup {i}]
            /\ UNCHANGED a
         \/ /\ ~link.closed
            /\ a' = IF IntentIsCurrent(i) THEN Finish(a, i, "Failed") ELSE a
            /\ replay' = back
            /\ UNCHANGED <<job, events>>
  /\ UNCHANGED <<link, task, asked, unsent>>

\* A bug: the replay ends whatever was registered meanwhile.
IntentsUnchangedAlways == TRUE

\* transfer_intent_revision is the one of the snapshot.
IntentsUnchanged == ~a.changed

\* The replay is complete when nothing changed since the snapshot.
ReplayDone ==
  /\ replay.st = "each" /\ replay.todo = {}
  /\ \/ replay.again /\ replay' = NoReplay /\ UNCHANGED a
     \/ ~replay.again /\ IntentsUnchanged /\ replay' = NoReplay /\ a' = [a EXCEPT !.pending = FALSE]
     \/ ~replay.again /\ ~IntentsUnchanged /\ replay' = [replay EXCEPT !.st = "snap"] /\ UNCHANGED a
  /\ UNCHANGED <<link, job, events, task, asked, unsent>>

----------------------------------------------------------------------------
(* The worker.                                                             *)

\* A file starts; a directory is scanned and lists the files not excluded.
JobStarts(i) ==
  /\ ~link.closed /\ job[i] = "got" /\ EventRoom /\ i # Folder
  /\ job' = [job EXCEPT ![i] = "run"]
  /\ Post(i, "Started")
  /\ UNCHANGED <<a, link, task, replay, asked, unsent>>

ScanLists(k) ==
  /\ ~link.closed /\ job[Folder] = "got" /\ k \in Inside \ a.done /\ job[k] = "none" /\ EventRoom
  /\ job' = [job EXCEPT ![k] = "got"]
  /\ Post(k, "Queued")
  /\ UNCHANGED <<a, link, task, replay, asked, unsent>>

\* Discovery ends: files neither listed now nor excluded do not exist any more.
ScanDone ==
  /\ ~link.closed /\ job[Folder] = "got"
  /\ job' = [job EXCEPT ![Folder] = "rest"]
  /\ UNCHANGED <<a, link, events, task, replay, asked, unsent>>

\* A bug: files the replay left out are waited for.
FilesOverAll == \A k \in Inside : job[k] = "over"

\* No file of the directory is under way.
FilesOver == \A k \in Inside : job[k] \in {"none", "over"}

FolderDone ==
  /\ job[Folder] \in {"rest", "stop"} /\ EventRoom /\ FilesOver
  /\ job' = [job EXCEPT ![Folder] = "none"]
  /\ \E res \in {"Completed", "Failed", "Cancelled"} :
       /\ (res = "Cancelled") = (job[Folder] = "stop")
       /\ Post(Folder, IF res = "Completed" THEN "DirCompleted"
                       ELSE IF res = "Failed" THEN "DirFailed" ELSE "DirCancelled")
  /\ UNCHANGED <<a, link, task, replay, asked, unsent>>

\* The task of a transfer has settled how it ends, its event is not forwarded yet.
JobSettles(i) ==
  /\ job[i] \in {"run", "halt"}
  /\ \E k \in Settled :
       /\ k # "Completed" => i \in Ups
       /\ job' = [job EXCEPT ![i] = k]
  /\ UNCHANGED <<a, link, events, task, replay, asked, unsent>>

\* A transfer ends. A lost transport makes the failure recoverable; a listed file
\* is not listed again by the same discovery.
JobEnds(i) ==
  /\ job[i] \in {"run", "halt", "still", "stop", "drop", "got"} \cup Settled /\ i # Folder /\ EventRoom
  /\ job' = [job EXCEPT ![i] = IF @ = "Conflict" THEN "ask" ELSE IF i \in Inside THEN "over" ELSE "none"]
  /\ \E k \in Settled \cup {"Failed", "Recoverable", "Cancelled"} :
       /\ job[i] \in Settled => k = job[i]
       /\ k \in Settled => job[i] = k
       /\ k = "Recoverable" => link.closed
       /\ k = "Cancelled" => job[i] \in {"stop", "drop"}
       /\ job[i] = "drop" => k = "Cancelled"
       /\ job[i] = "still" => link.closed
       /\ Post(i, k)
  /\ UNCHANGED <<a, link, task, replay, asked, unsent>>

\* A transfer told to pause reports progress until it reaches a place to wait.
JobReports(i) ==
  /\ job[i] = "halt" /\ EventRoom
  /\ \E k \in {"Progress", "Paused"} :
       Post(i, k) /\ job' = [job EXCEPT ![i] = IF k = "Paused" THEN "still" ELSE @]
  /\ UNCHANGED <<a, link, task, replay, asked, unsent>>

----------------------------------------------------------------------------
(* The connection monitor applies the next event of the current attempt.   *)

\* queue_transfer_event; a file of a directory that is still wanted is noted.
OnQueued(s, i) ==
  [QueueRow(s, i) EXCEPT !.kids = IF i \in Inside /\ Folder \in s.intents THEN @ \cup {i} ELSE @]

Move(s, i, from, to) == IF s.row[i] \in from THEN [s EXCEPT !.row[i] = to] ELSE s

OnStarted(s, i) == Move(s, i, {"Queued", "AwaitingConflict", "Resuming"}, ActivePhase(i))
OnProgress(s, i) == Move(s, i, {"Pausing"}, ActivePhase(i))
OnPaused(s, i) == Move(s, i, {"Downloading", "Pausing"}, "Paused")
OnResumed(s, i) == Move(s, i, {"Resuming"}, ActivePhase(i))
OnConflict(s, i) == Move(s, i, {"Queued", "Uploading"}, "AwaitingConflict")

\* finish_download_root, for a root that is being discovered.
OnRootEnd(s, i, kind) ==
  IF ~s.scanning THEN s
  ELSE Finish(s, i, IF kind = "DirCompleted" THEN "Completed" ELSE IF kind = "DirFailed" THEN "Failed" ELSE "Cancelled")

Apply(s, e) ==
  LET i == e.id
  IN  CASE e.kind = "Queued" -> OnQueued(s, i)
        [] e.kind = "Started" -> OnStarted(s, i)
        [] e.kind = "Progress" -> OnProgress(s, i)
        [] e.kind = "Paused" -> OnPaused(s, i)
        [] e.kind = "Resumed" -> OnResumed(s, i)
        [] e.kind = "Conflict" -> OnConflict(s, i)
        [] e.kind \in {"DirCompleted", "DirFailed", "DirCancelled"} -> OnRootEnd(s, i, e.kind)
        [] e.kind = "Completed" -> IF i \in Ups THEN Finish(s, i, "Completed") ELSE FinishDownloaded(s, i)
        [] e.kind = "Refused" -> Finish(s, i, "Failed")
        [] e.kind = "Recoverable" -> IF link.reconnect THEN Deferred(s, i) ELSE Finish(s, i, "Failed")
        [] OTHER -> Finish(s, i, e.kind)

Monitor ==
  /\ link.up /\ events # <<>>
  /\ a' = Apply(a, Head(events))
  /\ events' = Tail(events)
  /\ UNCHANGED <<link, job, task, replay, asked, unsent>>

----------------------------------------------------------------------------
(* The user's commands: the worker is told first, then the row changes.    *)

\* The command reaches the worker: a running job stops, a waiting one is reported.
WorkerCancels(i) ==
  IF job[i] \in {"run", "halt", "still", "stop"} \/ (i = Folder /\ job[i] # "none")
  THEN   /\ job' = [k \in Rows |-> IF k = i \/ (i = Folder /\ k \in Inside /\ job[k] \in {"run", "halt", "still"}) THEN "stop"
                                   ELSE IF i = Folder /\ k \in Inside /\ job[k] = "got" THEN "drop" ELSE job[k]]
         /\ UNCHANGED events
  ELSE IF job[i] \in {"got", "ask"}
  THEN   /\ job' = [job EXCEPT ![i] = IF i \in Inside THEN "over" ELSE "none"]
         /\ EventRoom /\ Post(i, "Cancelled")
  ELSE IF job[i] \in Settled THEN UNCHANGED <<job, events>>
  ELSE   UNCHANGED job /\ EventRoom /\ Post(i, "Failed")

\* The end is settled, the submission still under way, or this is a second one.
MissesTransfer(i) ==
  \/ job[i] \in Settled
  \/ i \in Tops /\ task[i] # "none"
  \/ i = Folder /\ job[i] # "none" /\ \E n \in DOMAIN events : events[n].id = i

\* request_transfer_cancel.
RequestCancel(s, i) == RemoveIntent([s EXCEPT !.row[i] = "Cancelling"], i)

\* on_cancel_sftp_transfer: no command while reconnecting or replaying.
CancelRow(i) ==
  /\ link.up \/ link.reconnect
  /\ a.row[i] \in Active \ {"Cancelling"}
  /\ a' = RequestCancel(a, i)
  /\ IF link.up /\ ~a.pending /\ ~link.closed
     THEN /\ WorkerCancels(i)
          /\ unsent' = IF MissesTransfer(i) THEN unsent \cup {i} ELSE unsent
     ELSE UNCHANGED <<job, events>> /\ unsent' = unsent \cup {i}
  /\ UNCHANGED <<link, task, replay, asked>>

\* on_pause_sftp_transfer and on_resume_sftp_transfer: downloads only.
PauseRow(i) ==
  /\ link.up /\ ~link.closed /\ i \notin Ups /\ a.row[i] = "Downloading"
  /\ a' = [a EXCEPT !.row[i] = "Pausing"]
  /\ job' = IF job[i] = "run" THEN [job EXCEPT ![i] = "halt"] ELSE job
  /\ UNCHANGED <<link, events, task, replay, asked, unsent>>

ResumeRow(i) ==
  /\ link.up /\ ~link.closed /\ a.row[i] = "Paused" /\ EventRoom
  /\ a' = [a EXCEPT !.row[i] = "Resuming"]
  /\ IF job[i] = "still" THEN job' = [job EXCEPT ![i] = "run"] /\ Post(i, "Resumed") ELSE UNCHANGED <<job, events>>
  /\ UNCHANGED <<link, task, replay, asked, unsent>>

\* on_resolve_sftp_upload_conflict.
ResolveRow(i) ==
  /\ link.up /\ ~link.closed /\ a.row[i] = "AwaitingConflict" /\ EventRoom
  /\ a' = [a EXCEPT !.row[i] = "Queued"]
  /\ IF job[i] = "ask" THEN job' = [job EXCEPT ![i] = "got"] /\ Post(i, "Queued") ELSE UNCHANGED <<job, events>>
  /\ UNCHANGED <<link, task, replay, asked, unsent>>

\* remove_finished_transfer.
RemoveRow(i) ==
  /\ a.row[i] \in Final
  /\ a' = [a EXCEPT !.row[i] = Nil]
  /\ UNCHANGED <<link, job, events, task, replay, asked, unsent>>

----------------------------------------------------------------------------
(* The connection.                                                         *)

TransportCloses ==
  /\ link.up /\ ~link.closed /\ link.drops < MaxDrops
  /\ link' = [link EXCEPT !.closed = TRUE, !.drops = @ + 1]
  /\ UNCHANGED <<a, job, events, task, replay, asked, unsent>>

\* retire_session_attempt: the worker's remaining events are fenced off.
Retire ==
  /\ link.up /\ link.closed
  /\ link' = [link EXCEPT !.up = FALSE]
  /\ a' = IF link.reconnect THEN PrepareForReconnect(a) ELSE [Blank EXCEPT !.changed = TRUE]
  /\ job' = Quiet /\ events' = <<>> /\ replay' = NoReplay
  /\ task' = [i \in Tops |-> IF task[i] = "send" THEN "none" ELSE task[i]]
  /\ unsent' = unsent \ {i \in Rows : a'.row[i] = Nil}
  /\ UNCHANGED asked

\* Connected: the new worker is there and the replay is spawned.
Reconnect ==
  /\ ~link.up /\ link.reconnect
  /\ link' = [link EXCEPT !.up = TRUE, !.closed = FALSE]
  /\ replay' = IF a.pending THEN [NoReplay EXCEPT !.st = "snap"] ELSE NoReplay
  /\ UNCHANGED <<a, job, events, task, asked, unsent>>

\* The user disconnects: no reconnection follows.
DisableReconnect ==
  /\ link.reconnect
  /\ link' = [link EXCEPT !.reconnect = FALSE, !.closed = TRUE]
  /\ UNCHANGED <<a, job, events, task, replay, asked, unsent>>

----------------------------------------------------------------------------
RowSystem ==
  \/ ReplaySnapshot \/ ReplaySubmit \/ ReplayDone \/ ScanDone \/ FolderDone \/ Monitor \/ Retire \/ Reconnect
  \/ \E i \in Tops : TakeSubmitter(i) \/ Submit(i) \/ ReplayPick(i)
  \/ \E i \in Rows : JobStarts(i) \/ JobSettles(i) \/ JobEnds(i) \/ ScanLists(i)

RowUser == \E i \in Tops : Queue(i) \/ ResolveRow(i)

RowWhims ==
  \/ \E i \in Rows : CancelRow(i) \/ PauseRow(i) \/ ResumeRow(i) \/ RemoveRow(i) \/ JobReports(i)
  \/ DisableReconnect

RowsNext == RowSystem \/ RowUser \/ RowWhims \/ TransportCloses

----------------------------------------------------------------------------
(* Properties.                                                             *)

\* An unfinished row has someone to move it. On a live connection: a submission, the
\* worker, an event on its way or the replay; and it keeps its intent, so that the next
\* reconnection submits it again. Rows whose cancellation met no running transfer
\* (unsent) and, between the loss of a transport and the retirement of the attempt, rows
\* that are about to go are the exceptions.
NoStrandedRow ==
  /\ (link.up => ~link.closed) =>
       \A i \in Tops : a.row[i] \in Active \ {"Cancelling"} => i \in a.intents
  /\ (link.up /\ ~link.closed) =>
       \A i \in Rows \ unsent : a.row[i] \in Active =>
         \/ job[i] \notin {"none", "over"}
         \/ \E n \in DOMAIN events : events[n].id = i
         \/ i \in Tops /\ (task[i] # "none" \/ (replay.st # "none" /\ i \notin replay.sent))

\* Nothing is transferred twice. No upload is given to a worker that already has it (it
\* decides under one lock whether the replay submits it; a download registers first and
\* looks for a replay later). And a file that the list shows as downloaded is not
\* transferred again by the replay of its unfinished directory
\* (completed_directory_child_paths), over any number of lost connections.
NothingTwice ==
  /\ \A n \in DOMAIN events : events[n].kind = "Refused" => events[n].id \notin Ups
  /\ Folder \in a.intents => \A k \in Inside : a.row[k] = "Completed" => job[k] \in {"none", "over"}
=============================================================================

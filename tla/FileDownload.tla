---------------------------- MODULE FileDownload ----------------------------
(***************************************************************************)
(* One download of one remote file to a local path (run_download and what  *)
(* it calls in src/sftp/transfer): the stream task with its window of      *)
(* outstanding reads, the blocking writer thread behind a bounded channel, *)
(* validation of the remote file, publication without overwrite, retries   *)
(* on the same connection, pause, cancellation and the abort of a task     *)
(* that does not stop in time.                                             *)
(***************************************************************************)
EXTENDS TransferBounds, Sequences

CONSTANTS
  Sizes,         \* sizes of the remote file, in chunks
  Window,        \* REQUEST_WINDOW
  WriterQueue,   \* WRITER_QUEUE_CAPACITY
  MaxTouch,      \* bound: modifications of the remote file
  MaxPauses      \* bound: pauses

ASSUME DownloadConstants ==
  /\ Sizes \subseteq Nat \ {0}
  /\ Window \in Nat \ {0} /\ WriterQueue \in Nat \ {0}
  /\ MaxTouch \in Nat /\ MaxPauses \in Nat

VARIABLES
  remote,   \* the remote file: size, version, and whether the server reports times
  disk,     \* the local target: content at the final path, the part file
  task,     \* the transfer task
  writer    \* the writer thread of the current (or last) attempt

downloadVars == <<remote, disk, task, writer>>

Foreign == <<[off |-> 0, ver |-> 0]>>        \* a file of another program at the final path
Errors == {"cancelled", "recoverable", "fatal"}
DownloadEvents == {"Completed", "Cancelled", "Failed", "lost", "aborted"}
Chunk == [off : Nat, ver : Nat]

ASSUME DownloadNil == Nil \notin Errors \cup DownloadEvents /\ Nil \notin Seq(Chunk)

\* The wait states of the task: where run_download can be suspended.
Places == {"open", "stat", "check", "prepare", "top", "paused", "fill", "verify",
           "join", "cleanup", "close", "decide", "delay", "send", "undo", "end"}
WriterStates == {"none", "run", "link", "sync", "ok", "failed"}

\* Metadata as lstat and fstat report it; RemoteFileMetadata.
Meta == [size |-> remote.size, modified |-> IF remote.stamped THEN remote.ver ELSE Nil]

\* ensure_same_remote_file: sizes agree, and times when both are known.
SameRemote(expected, actual) ==
  /\ expected.size = actual.size
  /\ (expected.modified # Nil /\ actual.modified # Nil) => expected.modified = actual.modified

NoWriter == [st |-> "none", abort |-> FALSE, closed |-> FALSE, queue |-> <<>>,
             got |-> <<>>, size |-> 0]

DownloadInit ==
  /\ \E s \in Sizes, b \in BOOLEAN : remote = [size |-> s, ver |-> 0, stamped |-> b]
  /\ disk \in [final : {Nil, Foreign}, part : {FALSE}]
  /\ task = [pc |-> "open", retries |-> 0, want |-> remote.size, init |-> Nil, next |-> 0,
             win |-> <<>>, sent |-> 0, cancelled |-> FALSE, paused |-> FALSE, pauses |-> 0,
             err |-> Nil, event |-> Nil, excuse |-> FALSE]
  /\ writer = NoWriter

----------------------------------------------------------------------------
(* The outside world.                                                      *)

\* Somebody modifies the remote file.
TouchRemote ==
  /\ remote.ver < MaxTouch
  /\ \E s \in Sizes : remote' = [remote EXCEPT !.size = s, !.ver = @ + 1]
  /\ UNCHANGED <<disk, task, writer>>

\* Another program creates a file at the final path.
SomebodyCreates ==
  /\ disk.final = Nil
  /\ disk' = [disk EXCEPT !.final = Foreign]
  /\ UNCHANGED <<remote, task, writer>>

\* The user, or the shutdown of the worker, cancels; TransferCancellation::cancel.
CancelDownload ==
  /\ ~task.cancelled /\ task.pc # "end"
  /\ task' = [task EXCEPT !.cancelled = TRUE]
  /\ UNCHANGED <<remote, disk, writer>>

PauseDownload ==
  /\ ~task.cancelled /\ ~task.paused /\ task.pc # "end" /\ task.pauses < MaxPauses
  /\ task' = [task EXCEPT !.paused = TRUE, !.pauses = @ + 1]
  /\ UNCHANGED <<remote, disk, writer>>

ResumeDownload ==
  /\ task.paused /\ task.pc # "end"
  /\ task' = [task EXCEPT !.paused = FALSE]
  /\ UNCHANGED <<remote, disk, writer>>

----------------------------------------------------------------------------
(* The task: before the first byte.                                        *)

\* An attempt ends before its writer exists; the remote handle is closed.
GiveUpEarly(e) == task' = [task EXCEPT !.pc = "decide", !.err = e]

\* The channel to the writer is dropped.
CloseChannel(w) == [w EXCEPT !.closed = TRUE]

\* An attempt ends with a running writer: the writer is told to abort before
\* its channel is dropped, so that a full byte count is not published.
AbortWriter(w) == [w EXCEPT !.abort = TRUE, !.closed = TRUE]

GiveUpStream(e) ==
  /\ task' = [task EXCEPT !.pc = "cleanup", !.err = e]
  /\ writer' = AbortWriter(writer)

\* A stream is there: the first one, or a reopened one.
Opened ==
  /\ task.pc = "open" /\ ~task.cancelled
  /\ task' = [task EXCEPT !.pc = "stat"]
  /\ UNCHANGED <<remote, disk, writer>>

\* lstat_regular_file and the comparison with the queued size.
Inspect ==
  /\ task.pc = "stat" /\ ~task.cancelled
  /\ IF remote.size # task.want
     THEN GiveUpEarly("fatal")
     ELSE task' = [task EXCEPT !.pc = "check", !.init = Meta]
  /\ UNCHANGED <<remote, disk, writer>>

\* The file is open; fstat and a second lstat must agree; Started is sent.
CheckOpened ==
  /\ task.pc = "check" /\ ~task.cancelled
  /\ IF SameRemote(task.init, Meta)
     THEN task' = [task EXCEPT !.pc = "prepare"]
     ELSE GiveUpEarly("fatal")
  /\ UNCHANGED <<remote, disk, writer>>

\* LocalDownloadTarget::prepare: the target is free and the part file new.
PrepareTarget ==
  /\ task.pc = "prepare" /\ ~task.cancelled
  /\ IF disk.final = Nil /\ ~disk.part
     THEN /\ disk' = [disk EXCEPT !.part = TRUE]
          /\ writer' = [NoWriter EXCEPT !.st = "run", !.size = task.init.size]
          /\ task' = [task EXCEPT !.pc = "top", !.next = 0, !.sent = 0, !.win = <<>>]
     ELSE GiveUpEarly("fatal") /\ UNCHANGED <<disk, writer>>
  /\ UNCHANGED remote

\* A step before the writer exists fails, times out or is cancelled.
EarlyFailure ==
  /\ task.pc \in {"open", "stat", "check", "prepare"}
  /\ \E e \in IF task.cancelled THEN {"cancelled"} ELSE {"recoverable", "fatal"} : GiveUpEarly(e)
  /\ UNCHANGED <<remote, disk, writer>>

----------------------------------------------------------------------------
(* The task: stream_remote_file.                                           *)

\* Top of the loop: a pause is reported and waited for.
EnterPause ==
  /\ task.pc = "top" /\ task.paused
  /\ task' = [task EXCEPT !.pc = "paused"]
  /\ UNCHANGED <<remote, disk, writer>>

\* A bug: only a resume ends the wait.
LeavePauseOnResume ==
  /\ task.pc = "paused" /\ ~task.paused
  /\ task' = [task EXCEPT !.pc = "fill"]
  /\ UNCHANGED <<remote, disk, writer>>

\* wait_until_running.
LeavePause ==
  /\ task.pc = "paused" /\ (task.cancelled \/ ~task.paused)
  /\ IF task.cancelled
     THEN GiveUpStream("cancelled")
     ELSE task' = [task EXCEPT !.pc = "fill"] /\ UNCHANGED writer
  /\ UNCHANGED <<remote, disk>>

PassTop ==
  /\ task.pc = "top" /\ ~task.paused
  /\ task' = [task EXCEPT !.pc = "fill"]
  /\ UNCHANGED <<remote, disk, writer>>

\* RequestWindow::push, until the window is full or all is requested.
RequestChunk ==
  /\ task.pc = "fill" /\ ~task.cancelled
  /\ Len(task.win) < Window /\ task.next < task.init.size
  /\ task' = [task EXCEPT !.next = @ + 1, !.win = Append(@, [off |-> task.next + 1, ver |-> Nil])]
  /\ UNCHANGED <<remote, disk, writer>>

\* The server answers one outstanding read, in any order; 0 is an end of file.
ServerReads(i) ==
  /\ i \in DOMAIN task.win /\ task.win[i].ver = Nil
  /\ task' = [task EXCEPT !.win[i].ver = IF remote.size >= task.win[i].off THEN remote.ver + 1 ELSE 0]
  /\ UNCHANGED <<remote, disk, writer>>

WindowReady == Len(task.win) = Window \/ task.next = task.init.size

\* RequestWindow::next: replies are taken in the order of the requests.
NextReply == Head(task.win)
DropReply == Tail(task.win)

\* A chunk goes to the writer, or ends the stream.
DeliverChunk ==
  /\ task.pc = "fill" /\ ~task.cancelled /\ WindowReady
  /\ task.win # <<>> /\ NextReply.ver # Nil
  /\ \/ /\ NextReply.ver = 0 \/ writer.st = "failed"
        /\ GiveUpStream("fatal")
     \/ /\ NextReply.ver # 0 /\ writer.st = "run" /\ Len(writer.queue) < WriterQueue
        /\ writer' = [writer EXCEPT !.queue = Append(@, NextReply)]
        /\ task' = [task EXCEPT !.win = DropReply, !.sent = @ + 1,
                                !.pc = IF task.sent + 1 = task.init.size THEN "verify" ELSE "top"]
  /\ UNCHANGED <<remote, disk>>

\* One byte past the end, fstat and lstat; then the channel is closed.
VerifyRemote ==
  /\ task.pc = "verify" /\ ~task.cancelled
  /\ IF SameRemote(task.init, Meta)
     THEN task' = [task EXCEPT !.pc = "join"] /\ writer' = CloseChannel(writer)
     ELSE GiveUpStream("fatal")
  /\ UNCHANGED <<remote, disk>>

\* A step of the stream fails, times out or is cancelled.
StreamFailure ==
  /\ task.pc \in {"fill", "verify"}
  /\ \E e \in IF task.cancelled THEN {"cancelled"} ELSE {"recoverable", "fatal"} : GiveUpStream(e)
  /\ UNCHANGED <<remote, disk>>

----------------------------------------------------------------------------
(* The writer thread: write_local_file and LocalPendingFile::finish.       *)

\* A bug: the part file stays.
WriterStopsLeavingPart ==
  /\ writer' = [writer EXCEPT !.st = "failed", !.queue = <<>>]
  /\ UNCHANGED disk

\* LocalPendingFile is dropped: its part file is removed.
WriterStops ==
  /\ writer' = [writer EXCEPT !.st = "failed", !.queue = <<>>]
  /\ disk' = [disk EXCEPT !.part = FALSE]

WriterTakes ==
  /\ writer.st = "run" /\ writer.queue # <<>>
  /\ IF writer.abort
     THEN WriterStops
     ELSE /\ writer' = [writer EXCEPT !.queue = Tail(@), !.got = Append(@, Head(writer.queue))]
          /\ UNCHANGED disk
  /\ UNCHANGED <<remote, task>>

\* The channel is closed and empty: publish only a full, unaborted file.
WriterFinishes ==
  /\ writer.st = "run" /\ writer.queue = <<>> /\ writer.closed
  /\ IF writer.abort \/ Len(writer.got) # writer.size
     THEN WriterStops
     ELSE writer' = [writer EXCEPT !.st = "link"] /\ UNCHANGED disk
  /\ UNCHANGED <<remote, task>>

\* A bug: a rename replaces whatever is there.
PublishByRename ==
  /\ disk' = [final |-> writer.got, part |-> FALSE]
  /\ writer' = [writer EXCEPT !.st = "sync"]

\* publish_local_download_without_overwrite: hard_link refuses an existing name.
PublishNoOverwrite ==
  IF disk.final = Nil
  THEN /\ disk' = [final |-> writer.got, part |-> FALSE]
       /\ writer' = [writer EXCEPT !.st = "sync"]
  ELSE WriterStops

WriterLinks ==
  /\ writer.st = "link"
  /\ PublishNoOverwrite
  /\ UNCHANGED <<remote, task>>

\* The directory is synced, or the published file is withdrawn.
WriterSyncs ==
  /\ writer.st = "sync"
  /\ \/ writer' = [writer EXCEPT !.st = "ok"] /\ UNCHANGED disk
     \/ writer' = [writer EXCEPT !.st = "failed"] /\ disk' = [disk EXCEPT !.final = Nil]
  /\ UNCHANGED <<remote, task>>

\* Writing, flushing or checking the parent directory fails.
WriterFails ==
  /\ writer.st \in {"run", "link"}
  /\ WriterStops
  /\ UNCHANGED <<remote, task>>

----------------------------------------------------------------------------
(* The task: the end of an attempt and of the transfer.                    *)

\* remove_local_download_best_effort: the removal may fail.
RemovePublished(t) ==
  \/ disk' = [disk EXCEPT !.final = Nil] /\ task' = t
  \/ UNCHANGED disk /\ task' = [t EXCEPT !.excuse = TRUE]

\* await_local_writer_success.
JoinWriter ==
  /\ task.pc = "join"
  /\ \/ ~task.cancelled /\ writer.st = "ok" /\ task' = [task EXCEPT !.pc = "close", !.err = Nil]
     \/ ~task.cancelled /\ writer.st = "failed" /\ task' = [task EXCEPT !.pc = "close", !.err = "fatal"]
     \/ task.cancelled /\ task' = [task EXCEPT !.pc = "cleanup", !.err = "cancelled"]
  /\ UNCHANGED <<remote, disk, writer>>

\* await_local_writer_cleanup: a file that was published after all is removed;
\* a real writer error replaces the error of the stream.
CleanUp ==
  /\ task.pc = "cleanup"
  /\ \/ /\ writer.st = "ok"
        /\ RemovePublished([task EXCEPT !.pc = "close"])
     \/ /\ writer.st = "failed"
        /\ \E e \in IF task.err = "cancelled" THEN {"cancelled"} ELSE {task.err, "fatal"} :
             task' = [task EXCEPT !.pc = "close", !.err = e]
        /\ UNCHANGED disk
     \/ /\ writer.st \in {"run", "link", "sync"}       \* WRITER_CLEANUP_TIMEOUT
        /\ task' = [task EXCEPT !.pc = "close", !.excuse = TRUE]
        /\ UNCHANGED disk
  /\ UNCHANGED <<remote, writer>>

CloseHandle ==
  /\ task.pc = "close"
  /\ task' = [task EXCEPT !.pc = "decide"]
  /\ UNCHANGED <<remote, disk, writer>>

\* transfer_error_is_recoverable and fewer than two retries: another attempt.
MayRetry == task.err = "recoverable" /\ task.retries < MaxRetries

\* The end of the loop of run_download; a publication that was cancelled is
\* taken back, everything else becomes the terminal event.
Decide ==
  /\ task.pc = "decide"
  /\ \/ /\ MayRetry
        /\ task' = [task EXCEPT !.pc = "delay", !.retries = @ + 1, !.err = Nil]
        /\ UNCHANGED disk
     \/ /\ ~MayRetry /\ (task.err # Nil \/ ~task.cancelled)
        /\ task' = [task EXCEPT !.pc = "send",
                                !.err = IF @ = "recoverable" THEN "fatal" ELSE @]
        /\ UNCHANGED disk
     \/ /\ task.err = Nil /\ task.cancelled
        /\ RemovePublished([task EXCEPT !.pc = "send", !.err = "cancelled"])
  /\ UNCHANGED <<remote, writer>>

\* transfer_retry_delay.
RetryDelay ==
  /\ task.pc = "delay"
  /\ task' = [task EXCEPT !.pc = IF task.cancelled THEN "send" ELSE "open",
                          !.err = IF task.cancelled THEN "cancelled" ELSE Nil]
  /\ UNCHANGED <<remote, disk, writer>>

EventOf(err) == IF err = Nil THEN "Completed" ELSE IF err = "cancelled" THEN "Cancelled" ELSE "Failed"

\* The terminal event is delivered, or it is not.
SendTerminal ==
  /\ task.pc = "send"
  /\ \/ task' = [task EXCEPT !.pc = "end", !.event = EventOf(task.err)]
     \/ task' = [task EXCEPT !.pc = IF task.err = Nil THEN "undo" ELSE "end", !.event = "lost"]
  /\ UNCHANGED <<remote, disk, writer>>

\* A completed file whose event was not delivered is removed.
UndoUndelivered ==
  /\ task.pc = "undo"
  /\ RemovePublished([task EXCEPT !.pc = "end"])
  /\ UNCHANGED <<remote, writer>>

\* SftpDownloadHandle::shutdown aborts a cancelled task that waits where
\* cancellation is not observed; its channel to the writer is dropped.
AbortTask ==
  /\ task.cancelled /\ task.pc \in {"check", "top", "cleanup", "close", "send", "undo"}
  /\ task' = [task EXCEPT !.pc = "end", !.event = "aborted", !.excuse = TRUE]
  /\ writer' = IF writer.st = "run" THEN CloseChannel(writer) ELSE writer
  /\ UNCHANGED <<remote, disk>>

----------------------------------------------------------------------------
WriterStep == WriterTakes \/ WriterFinishes \/ WriterLinks \/ WriterSyncs \/ WriterFails

TaskStep ==
  \/ Opened \/ Inspect \/ CheckOpened \/ PrepareTarget \/ EarlyFailure
  \/ EnterPause \/ LeavePause \/ PassTop \/ RequestChunk \/ DeliverChunk
  \/ VerifyRemote \/ StreamFailure
  \/ JoinWriter \/ CleanUp \/ CloseHandle \/ Decide \/ RetryDelay \/ SendTerminal \/ UndoUndelivered

DownloadNext ==
  \/ TouchRemote \/ SomebodyCreates
  \/ CancelDownload \/ PauseDownload \/ ResumeDownload
  \/ \E i \in 1..Window : ServerReads(i)
  \/ WriterStep \/ TaskStep \/ AbortTask

----------------------------------------------------------------------------
(* Properties.                                                             *)

\* The file published at the final path (write_local_file, finish) has the
\* chunks in order, as many as the validated size, and, when the server
\* reports modification times, all from one version of the remote file,
\* whatever was modified, retried, aborted or answered out of order.
PublishedIsWhole ==
  disk.final \notin {Nil, Foreign} =>
    /\ Len(disk.final) = writer.size
    /\ \A i \in DOMAIN disk.final : disk.final[i].off = i
    /\ remote.stamped => \A i, j \in DOMAIN disk.final : disk.final[i].ver = disk.final[j].ver

\* When task and writer have ended, no part file is left, and a file is left
\* at the final path only if Completed was reported, the clean-up was given up
\* (a timeout, a failing removal) or the task was aborted.
NothingLeftBehind ==
  (task.pc = "end" /\ writer.st \in {"none", "ok", "failed"}) =>
    /\ ~disk.part
    /\ disk.final \notin {Nil, Foreign} => (task.event = "Completed" \/ task.excuse)

\* The destination as the abstract specification sees it.
DownloadAtomic == INSTANCE AtomicFile WITH
  file <- IF disk.final = Nil THEN "absent" ELSE IF disk.final = Foreign THEN "foreign" ELSE "whole",
  outcome <- IF task.event \in {Nil, "Completed"} THEN task.event ELSE "other"
=============================================================================

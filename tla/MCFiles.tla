------------------------------- MODULE MCFiles -------------------------------
(***************************************************************************)
(* One upload and one download share no state; a behaviour exercises one   *)
(* of them, chosen at the start.                                           *)
(***************************************************************************)
EXTENDS FileDownload, FileUpload

VARIABLE focus

mcVars == <<focus, downloadVars, uploadVars>>

Init ==
  /\ focus \in {"download", "upload"}
  /\ DownloadInit /\ UploadInit
  /\ focus = "download" => server.at[0] = Nil /\ ~server.stamped /\ ~server.posix
  /\ focus = "upload" => disk.final = Nil /\ ~remote.stamped /\ \A s \in Sizes : s <= remote.size

Next ==
  \/ focus = "download" /\ DownloadNext /\ UNCHANGED <<focus, uploadVars>>
  \/ focus = "upload" /\ UploadNext /\ UNCHANGED <<focus, downloadVars>>

Fairness ==
  /\ WF_mcVars(focus = "download" /\ TaskStep /\ UNCHANGED <<focus, uploadVars>>)
  /\ WF_mcVars(focus = "download" /\ WriterStep /\ UNCHANGED <<focus, uploadVars>>)
  /\ WF_mcVars(focus = "upload" /\ UploadStep /\ UNCHANGED <<focus, downloadVars>>)

Spec == Init /\ [][Next]_mcVars /\ Fairness

\* Both transfers implement a file that changes in one step, from what it was to the whole
\* new content, and is reported as complete only then (finish, publish_upload).
FilesAreAtomic == DownloadAtomic!Spec /\ UploadAtomic!Spec

\* A cancelled download (TransferCancellation::cancel, await_step) comes to an end,
\* and its writer with it, wherever it was when the user cancelled.
CancelEnds == (task.cancelled /\ focus = "download") ~> (task.pc = "end" /\ writer.st \in {"none", "ok", "failed"})
=============================================================================

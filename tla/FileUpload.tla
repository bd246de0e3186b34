----------------------------- MODULE FileUpload -----------------------------
(***************************************************************************)
(* One upload of one local file (run_upload, upload_initialized and the    *)
(* conflict handling of the SFTP worker): inspection of the target, the    *)
(* conflict question and its answer, a temporary file per execution,       *)
(* publication by rename, lost replies, retries and cancellation, against  *)
(* other clients of the server and other programs at home.                 *)
(***************************************************************************)
EXTENDS TransferBounds, Sequences

CONSTANTS
  Copies,        \* highest number find_keep_both_path can need
  Chunks,        \* size of the local file, in chunks
  MaxForeign,    \* bound: changes other clients make on the server
  MaxLocal,      \* bound: modifications of the local file
  MaxAsks        \* bound: conflicts put to the user

ASSUME UploadConstants ==
  /\ Copies \in Nat \ {0} /\ Chunks \in Nat \ {0}
  /\ MaxForeign \in Nat /\ MaxLocal \in Nat /\ MaxAsks \in Nat

VARIABLES
  server,   \* contents by path, temporary files, what the server supports
  local,    \* version of the local file
  up,       \* the upload task and its request
  ghost     \* what happened on the server: publications, destroyed contents

uploadVars == <<server, local, up, ghost>>

Paths == 0..Copies                      \* 0 is the requested path, n its n-th copy
Choices == {"Skip", "Overwrite", "KeepBoth"}
Other(n) == <<"other", n>>              \* the n-th content of somebody else
Mine == <<"mine", 0>>                   \* content published by this upload
Blank == <<"blank", 0>>                 \* the fingerprint of a server that gives none
UploadPlaces == {"open", "inspect", "probe", "create", "stream", "shut", "reinspect", "rename",
                 "clean", "decide", "delay", "send", "conflict", "end"}

UploadErrors == {"recoverable", "fatal", "cancelled", "conflict", "skipped", "uncertain"}
UploadEvents == {"Completed", "Cancelled", "Skipped", "Failed"}

ASSUME UploadNil == Nil \notin Choices \cup UploadErrors \cup UploadEvents

\* inspect_remote_upload_target: a fingerprint, blank when the server gives none.
Fingerprint(path) ==
  IF server.at[path] = Nil THEN Nil ELSE IF server.stamped THEN server.at[path] ELSE Blank

UploadInit ==
  /\ \E b, c \in BOOLEAN, f \in {Nil, Other(0)} :
       server = [at |-> [p \in Paths |-> IF p = 0 THEN f ELSE Nil], temps |-> {},
                 stamped |-> b, posix |-> c, changes |-> 0]
  /\ local = 0
  /\ up = [pc |-> "open", retries |-> 0, choice |-> Nil, expected |-> Nil, existing |-> Nil,
           target |-> 0, over |-> FALSE, exec |-> 0, got |-> <<>>, cancelled |-> FALSE,
           err |-> Nil, event |-> Nil, asks |-> 0]
  /\ ghost = [published |-> 0, content |-> <<>>, destroyed |-> {}, raced |-> FALSE]

----------------------------------------------------------------------------
(* The outside world.                                                      *)

\* Another client creates, modifies or removes a file at one of the paths.
SomebodyChanges ==
  /\ server.changes < MaxForeign
  /\ \E p \in Paths \ {Copies} :
       /\ server.at[p] # Mine
       /\ \E c \in {Nil, Other(server.changes + 1)} :
            server' = [server EXCEPT !.at[p] = c, !.changes = @ + 1]
       /\ ghost' = [ghost EXCEPT !.raced = @ \/ (up.pc = "rename" /\ p = up.target)]
  /\ UNCHANGED <<local, up>>

\* Another program modifies the local file.
TouchLocal ==
  /\ local < MaxLocal
  /\ local' = local + 1
  /\ UNCHANGED <<server, up, ghost>>

CancelUpload ==
  /\ ~up.cancelled /\ up.pc \notin {"end", "conflict"}
  /\ up' = [up EXCEPT !.cancelled = TRUE]
  /\ UNCHANGED <<server, local, ghost>>

----------------------------------------------------------------------------
(* One attempt.                                                            *)

Leave(e) == up' = [up EXCEPT !.pc = "decide", !.err = e]          \* no temporary file yet
LeaveAndClean(e) == up' = [up EXCEPT !.pc = "clean", !.err = e]   \* remove_upload_temporary follows

\* A channel is open and Started is sent.
OpenChannel ==
  /\ up.pc = "open" /\ ~up.cancelled
  /\ up' = [up EXCEPT !.pc = "inspect"]
  /\ UNCHANGED <<server, local, ghost>>

\* A bug: without the comparison with what the user saw.
MayOverwriteAnything(existing) == server.posix /\ existing # Nil

\* The checks before an overwrite: a fingerprint exists, it is the confirmed
\* one, and the server can replace atomically.
MayOverwrite(existing) ==
  /\ up.expected # Blank
  /\ up.expected # Nil => existing = up.expected
  /\ server.posix

\* The target is inspected and the conflict choice applied.
InspectTarget ==
  /\ up.pc = "inspect"
  /\ LET existing == Fingerprint(0)
         go(path, over) == up' = [up EXCEPT !.pc = "create", !.existing = existing,
                                            !.target = path, !.over = over]
     IN  \/ existing = Nil /\ up.expected # Nil /\ Leave("fatal")
         \/ existing = Nil /\ up.expected = Nil /\ go(0, FALSE)
         \/ /\ existing # Nil /\ up.choice = Nil
            /\ up' = [up EXCEPT !.pc = "send", !.err = "conflict", !.existing = existing]
         \/ existing # Nil /\ up.choice = "Skip" /\ up' = [up EXCEPT !.pc = "send", !.err = "skipped"]
         \/ existing # Nil /\ up.choice = "Overwrite" /\ MayOverwrite(existing) /\ go(0, TRUE)
         \/ existing # Nil /\ up.choice = "Overwrite" /\ ~MayOverwrite(existing) /\ Leave("fatal")
         \/ /\ existing # Nil /\ up.choice = "KeepBoth"
            /\ up' = [up EXCEPT !.pc = "probe", !.existing = existing, !.target = 1]
  /\ UNCHANGED <<server, local, ghost>>

\* find_keep_both_path: the next numbered name, until one is free.
ProbeCopy ==
  /\ up.pc = "probe"
  /\ IF server.at[up.target] = Nil
     THEN up' = [up EXCEPT !.pc = "create", !.over = FALSE]
     ELSE up.target < Copies /\ up' = [up EXCEPT !.target = @ + 1]
  /\ UNCHANGED <<server, local, ghost>>

\* CREATE | EXCLUDE of the temporary file of this execution. A cancellation
\* or a lost reply may leave the file behind.
CreateTemporary ==
  /\ up.pc = "create" /\ ~up.cancelled
  /\ IF up.exec \in server.temps
     THEN Leave("fatal") /\ UNCHANGED server
     ELSE /\ server' = [server EXCEPT !.temps = @ \cup {up.exec}]
          /\ \/ up' = [up EXCEPT !.pc = "stream", !.got = <<>>]
             \/ Leave("recoverable")
  /\ UNCHANGED <<local, ghost>>

\* The reader takes the next chunk of the local file and it is written.
WriteChunk ==
  /\ up.pc = "stream" /\ ~up.cancelled /\ Len(up.got) < Chunks
  /\ up' = [up EXCEPT !.got = Append(@, local)]
  /\ UNCHANGED <<server, local, ghost>>

\* validate_local_upload_file: the file is still the one that was queued.
LocalUnchanged == local = 0

\* All chunks are written: the reader validates the file a last time and the
\* remote handle is closed.
FinishStream ==
  /\ up.pc = "stream" /\ Len(up.got) = Chunks
  /\ IF ~LocalUnchanged THEN LeaveAndClean("fatal")
     ELSE IF up.cancelled THEN LeaveAndClean("cancelled")
     ELSE up' = [up EXCEPT !.pc = "reinspect"]
  /\ UNCHANGED <<server, local, ghost>>

\* The target is looked at once more before publication.
ReinspectTarget ==
  /\ up.pc = "reinspect"
  /\ LET current == Fingerprint(up.target)
         clear == IF up.over THEN current = up.existing ELSE current = Nil
     IN  IF up.cancelled THEN LeaveAndClean("cancelled")
         ELSE IF clear THEN up' = [up EXCEPT !.pc = "rename"]
         ELSE LeaveAndClean("fatal")
  /\ UNCHANGED <<server, local, ghost>>

\* The server renames: over an existing file only with posix-rename.
ServerRenames ==
  /\ up.over \/ server.at[up.target] = Nil
  /\ server' = [server EXCEPT !.at[up.target] = Mine, !.temps = @ \ {up.exec}]
  /\ ghost' = [ghost EXCEPT !.published = @ + 1, !.content = up.got,
                            !.destroyed = @ \cup ({server.at[up.target]} \ {Nil})]

\* A bug: a lost reply counts as a recoverable failure.
RenameErrorRetried == "recoverable"

\* Every error of the rename is UploadPublicationUncertain: not recoverable.
RenameError == "uncertain"

Publish ==
  /\ up.pc = "rename"
  /\ \/ ServerRenames /\ up' = [up EXCEPT !.pc = "decide", !.err = Nil]
     \/ ServerRenames /\ LeaveAndClean(RenameError)            \* the reply is lost
     \/ UNCHANGED <<server, ghost>> /\ LeaveAndClean(RenameError)   \* refused, or never arrived
  /\ UNCHANGED local

\* The temporary file is removed, or that fails too.
CleanTemporary ==
  /\ up.pc = "clean"
  /\ server' \in {server, [server EXCEPT !.temps = @ \ {up.exec}]}
  /\ up' = [up EXCEPT !.pc = "decide"]
  /\ UNCHANGED <<local, ghost>>

\* A request fails or times out, the channel is lost, or the task is cancelled
\* where it listens to cancellation.
UploadFailure ==
  /\ \/ /\ up.pc \in {"open", "create"}
        /\ \E e \in IF up.cancelled THEN {"cancelled"} ELSE {"recoverable", "fatal"} : Leave(e)
     \/ /\ up.pc \in {"inspect", "probe"}
        /\ \E e \in {"recoverable", "fatal"} : Leave(e)
     \/ /\ up.pc = "stream"
        /\ \E e \in IF up.cancelled THEN {"cancelled"} ELSE {"recoverable", "fatal"} : LeaveAndClean(e)
     \/ /\ up.pc = "reinspect"
        /\ \E e \in {"recoverable", "fatal"} : LeaveAndClean(e)
  /\ UNCHANGED <<server, local, ghost>>

----------------------------------------------------------------------------
(* The end of an attempt, the terminal event, the conflict.                *)

UploadMayRetry == up.err = "recoverable" /\ up.retries < MaxRetries

DecideUpload ==
  /\ up.pc = "decide"
  /\ up' = IF UploadMayRetry
           THEN [up EXCEPT !.pc = "delay", !.retries = @ + 1, !.err = Nil]
           ELSE [up EXCEPT !.pc = "send", !.err = IF @ = Nil /\ up.cancelled THEN "cancelled" ELSE @]
  /\ UNCHANGED <<server, local, ghost>>

\* A retry never reuses the temporary name of an earlier execution.
DelayUpload ==
  /\ up.pc = "delay"
  /\ up' = IF up.cancelled THEN [up EXCEPT !.pc = "send", !.err = "cancelled"]
           ELSE [up EXCEPT !.pc = "open", !.exec = @ + 1]
  /\ UNCHANGED <<server, local, ghost>>

UploadEventOf(err) ==
  CASE err = Nil -> "Completed" [] err = "cancelled" -> "Cancelled"
    [] err = "skipped" -> "Skipped" [] OTHER -> "Failed"

\* The terminal event; a conflict is kept for the user's choice with the
\* fingerprint that was seen.
SendUploadEvent ==
  /\ up.pc = "send"
  /\ up' = IF up.err = "conflict"
           THEN [up EXCEPT !.pc = "conflict", !.expected = up.existing, !.err = Nil]
           ELSE [up EXCEPT !.pc = "end", !.event = UploadEventOf(up.err)]
  /\ UNCHANGED <<server, local, ghost>>

\* ResolveSftpUploadConflict: the original request runs again with the choice.
ResolveConflict(choice) ==
  /\ up.pc = "conflict" /\ up.asks < MaxAsks
  /\ up' = [up EXCEPT !.pc = "open", !.choice = choice, !.retries = 0, !.exec = 0,
                      !.cancelled = FALSE, !.asks = @ + 1]
  /\ UNCHANGED <<server, local, ghost>>

\* CancelSftpTransfer of a pending conflict.
CancelConflict ==
  /\ up.pc = "conflict"
  /\ up' = [up EXCEPT !.pc = "end", !.event = "Cancelled"]
  /\ UNCHANGED <<server, local, ghost>>

----------------------------------------------------------------------------
UploadStep ==
  \/ OpenChannel \/ InspectTarget \/ ProbeCopy \/ CreateTemporary \/ WriteChunk \/ FinishStream
  \/ ReinspectTarget \/ Publish \/ CleanTemporary \/ UploadFailure
  \/ DecideUpload \/ DelayUpload \/ SendUploadEvent

UploadNext ==
  \/ SomebodyChanges \/ TouchLocal \/ CancelUpload
  \/ UploadStep
  \/ \E c \in Choices : ResolveConflict(c)
  \/ CancelConflict

----------------------------------------------------------------------------
(* Properties.                                                             *)

\* However often the task retries, whatever replies are lost and whatever the user
\* answers, the upload is published at most once (an uncertain rename is never repeated,
\* so KeepBoth makes no second copy: transfer_error_is_recoverable), and as the whole
\* local file that was queued, modified or not while it was read (the final check).
PublishedOnceAsQueued ==
  /\ ghost.published <= 1
  /\ ghost.published > 0 => Len(ghost.content) = Chunks /\ \A i \in DOMAIN ghost.content : ghost.content[i] = 0

\* A file of somebody else is destroyed only by a confirmed overwrite, and then
\* it is the one the user was asked about, except for a change between the last
\* inspection and the rename, which the protocol cannot exclude.
OverwritesOnlyConfirmed ==
  ghost.destroyed # {} =>
    /\ up.choice = "Overwrite"
    /\ (up.expected # Nil /\ ~ghost.raced) => ghost.destroyed = {up.expected}

\* The target as the abstract specification sees it: nothing or the whole file
\* of this upload.
UploadAtomic == INSTANCE AtomicFile WITH
  file <- IF ghost.published = 0 THEN "absent" ELSE "whole",
  outcome <- IF up.event \in {Nil, "Completed"} THEN up.event ELSE "other"
=============================================================================

----------------------------- MODULE RemoteEdit -----------------------------
(***************************************************************************)
(* Editing remote files in local applications: the edit contexts of a tab, *)
(* the preparation and watching of local copies (src/app/remote_edit.rs),  *)
(* the ordered write worker (src/ssh/worker/sftp/operations.rs) and its    *)
(* guarded reads and writes (src/sftp/edit.rs). Contents are numbers; a    *)
(* remote file carries the stamp (size and time) the code compares.        *)
(***************************************************************************)
EXTENDS Naturals, Sequences, FiniteSets, SequencesExt, Absent

CONSTANTS
  EditPaths,     \* remote files
  MaxTabEdits,   \* MAX_TAB_EDITS
  MaxEditIds,    \* bound on edit contexts ever made
  MaxContents,   \* bound on contents ever written
  MaxOrders      \* bound on uploads asked for and automatic uploads switched

EditIds == 1..MaxEditIds

ASSUME EditAssumption == {MaxTabEdits, MaxEditIds, MaxContents, MaxOrders} \subseteq Nat

VARIABLES
  edits,     \* RemoteEdits: files, current, auto_upload, and the record of every id
  copies,    \* local copies on disk
  handed,    \* copies an application was opened on
  prep,      \* tasks of finish_download
  watcher,   \* tasks of watch_copy
  ops,       \* operations of the write worker, the first one running
  step,      \* how far the running operation is
  results,   \* SftpWrite events
  remote,    \* remote files
  counts,    \* ids, operations, contents, orders and attempts used; connected
  slipped    \* a rewrite between two looks of an operation, or one that kept the stamp

editVars == <<edits, copies, handed, prep, watcher, ops, step, results, remote, counts, slipped>>

NoEdits == [files |-> <<>>, current |-> Nil, auto |-> TRUE, of |-> [i \in EditIds |-> Nil]]

EditInit ==
  /\ edits = NoEdits
  /\ copies = [i \in EditIds |-> Nil] /\ handed = {}
  /\ prep = [i \in EditIds |-> Nil]
  /\ watcher = [i \in EditIds |-> [st |-> "off", data |-> Nil, seen |-> Nil]]
  /\ ops = <<>> /\ step = "none" /\ results = <<>>
  /\ remote = [p \in EditPaths |-> [data |-> 0, stamp |-> 0]]
  /\ counts = [ids |-> 0, ops |-> 0, contents |-> 0, orders |-> 0, up |-> TRUE, drops |-> 0]
  /\ slipped = FALSE

----------------------------------------------------------------------------
(* RemoteEdits.                                                            *)

Of(i) == edits.of[i]
HeadOr(s) == IF s = <<>> THEN Nil ELSE Last(s)

\* connected_edit: the edit is still this one.
Connected(i) == counts.up /\ Of(i) # Nil

Without(files, i) == SelectSeq(files, LAMBDA k : k # i)
Forget(e, i) ==
  LET left == Without(e.files, i)
  IN  [e EXCEPT !.files = left, !.of[i] = Nil, !.current = IF @ = i THEN HeadOr(left) ELSE @]

\* The edit that waits for this operation.
Answers(i, r) == Of(i) # Nil /\ Of(i).path = r.path /\ Of(i).pending # Nil /\ Of(i).pending.n = r.n

\* A bug: the operation stays pending after its answer.
UpdatedKeepsPending(r) ==
  [edits EXCEPT !.of = [i \in EditIds |->
     IF Answers(i, r) THEN [@[i] EXCEPT !.uploaded = Of(i).pending.data, !.exp = r.exp, !.failed = FALSE] ELSE @[i]]]

\* RemoteEdits::apply_result of Updated.
ApplyUpdated(r) ==
  LET hit == {i \in EditIds : Answers(i, r)}
  IN  [edits EXCEPT !.of = [i \in EditIds |->
         IF i \notin hit THEN @[i]
         ELSE [@[i] EXCEPT !.uploaded = Of(i).pending.data, !.pending = Nil, !.exp = r.exp, !.failed = FALSE]]]

\* RemoteEdits::apply_result of Failed: a failed download forgets the edit.
ApplyFailed(r) ==
  LET hit == {i \in EditIds : Of(i) # Nil /\ (r.n = <<i>> \/ (Of(i).pending # Nil /\ Of(i).pending.n = r.n))}
  IN  IF hit = {} THEN edits
      ELSE LET i == CHOOSE k \in hit : TRUE
           IN  IF ~Of(i).ready THEN Forget(edits, i)
               ELSE [edits EXCEPT !.of[i].pending = Nil, !.of[i].failed = TRUE]

----------------------------------------------------------------------------
(* The user and the local application.                                     *)

\* RemoteEdits::open of a new edit.
OpenEdit(e, i, p) ==
  [e EXCEPT !.files = Append(@, i), !.current = i,
            !.of[i] = [path |-> p, ready |-> FALSE, exp |-> 0, uploaded |-> 0, observed |-> 0, pending |-> Nil,
                       asked |-> FALSE, failed |-> FALSE]]

\* on_edit_remote_sftp of a file that is not open; a download is queued or refused.
EditFile(p) ==
  /\ counts.up /\ counts.ids < MaxEditIds
  /\ ~\E i \in EditIds : Of(i) # Nil /\ Of(i).path = p
  /\ Len(edits.files) < MaxTabEdits
  /\ LET i == counts.ids + 1
     IN  \/ /\ edits' = OpenEdit(edits, i, p)
            /\ ops' = Append(ops, [n |-> <<i>>, kind |-> "read", path |-> p, data |-> Nil, exp |-> 0, base |-> Nil])
         \/ UNCHANGED <<edits, ops>>
  /\ counts' = [counts EXCEPT !.ids = @ + 1]
  /\ UNCHANGED <<copies, handed, prep, watcher, step, results, remote, slipped>>

\* stop_current.
StopEdit ==
  /\ edits.current # Nil
  /\ edits' = [Forget(edits, edits.current) EXCEPT
                 !.current = HeadOr(Without(edits.files, edits.current))]
  /\ UNCHANGED <<copies, handed, prep, watcher, ops, step, results, remote, counts, slipped>>

\* request_upload of the current edit, when it is still among the files and has its copy.
RequestUpload ==
  /\ counts.up /\ counts.orders < MaxOrders
  /\ \E i \in EditIds :
       /\ i = edits.current /\ Of(i) # Nil /\ Of(i).ready
       /\ edits' = [edits EXCEPT !.of[i].asked = TRUE, !.of[i].failed = FALSE]
  /\ counts' = [counts EXCEPT !.orders = @ + 1]
  /\ UNCHANGED <<copies, handed, prep, watcher, ops, step, results, remote, slipped>>

ToggleAuto ==
  /\ counts.up /\ counts.orders < MaxOrders
  /\ edits' = [edits EXCEPT !.auto = ~@]
  /\ counts' = [counts EXCEPT !.orders = @ + 1]
  /\ UNCHANGED <<copies, handed, prep, watcher, ops, step, results, remote, slipped>>

\* The application saves the copy, also after the edit was stopped.
EditorSaves(i) ==
  /\ i \in handed /\ counts.contents < MaxContents
  /\ counts' = [counts EXCEPT !.contents = @ + 1]
  /\ copies' = [copies EXCEPT ![i] = counts.contents + 1]
  /\ UNCHANGED <<edits, handed, prep, watcher, ops, step, results, remote, slipped>>

\* Somebody rewrites the remote file, noticeably or not.
SomebodyWrites(p) ==
  /\ counts.contents < MaxContents
  /\ LET c == counts.contents + 1
     IN  /\ counts' = [counts EXCEPT !.contents = c]
         /\ \/ /\ remote' = [remote EXCEPT ![p] = [data |-> c, stamp |-> c]]
               /\ slipped' = (slipped \/ step \in {"checked", "renamed"})
            \/ /\ remote' = [remote EXCEPT ![p].data = c]
               /\ slipped' = TRUE
  /\ UNCHANGED <<edits, copies, handed, prep, watcher, ops, step, results>>

----------------------------------------------------------------------------
(* finish_download: the local copy.                                        *)

\* create_copy on the blocking pool, unless the edit is gone already.
CreateCopy(i) ==
  /\ prep[i] # Nil /\ copies[i] = Nil /\ i \notin handed
  /\ \/ ~Connected(i) /\ prep' = [prep EXCEPT ![i] = Nil] /\ UNCHANGED <<edits, copies>>
     \/ Connected(i) /\ copies' = [copies EXCEPT ![i] = prep[i].data] /\ UNCHANGED <<edits, prep>>
     \/ /\ Connected(i)                                   \* fail_download
        /\ edits' = Forget(edits, i)
        /\ prep' = [prep EXCEPT ![i] = Nil] /\ UNCHANGED copies
  /\ UNCHANGED <<handed, watcher, ops, step, results, remote, counts, slipped>>

\* remove_unused_copy.
RemoveUnused(i) == [copies EXCEPT ![i] = Nil]

\* The edit takes the copy, watches it and opens an application; or it is gone.
AcceptCopy(i) ==
  /\ prep[i] # Nil /\ copies[i] # Nil
  /\ prep' = [prep EXCEPT ![i] = Nil]
  /\ IF Connected(i)
     THEN /\ edits' = [edits EXCEPT !.of[i] = [@ EXCEPT !.ready = TRUE, !.exp = prep[i].exp,
                                                        !.uploaded = prep[i].data, !.observed = prep[i].data]]
          /\ handed' = handed \cup {i}
          /\ watcher' = [watcher EXCEPT ![i].st = "idle"]
          /\ UNCHANGED copies
     ELSE copies' = RemoveUnused(i) /\ UNCHANGED <<edits, handed, watcher>>
  /\ UNCHANGED <<ops, step, results, remote, counts, slipped>>

----------------------------------------------------------------------------
(* watch_copy.                                                             *)

\* An acknowledgement may release a second save without another file event.
PendingChanges(e) == edits.auto /\ e.pending = Nil /\ ~e.failed /\ e.uploaded # e.observed

\* A tick that finds something to do: a request, a file event or the fallback
\* probe (another fingerprint), or changes held back.
WatchTick0(i) ==
  /\ watcher[i].st = "idle"
  /\ IF ~Connected(i) THEN watcher' = [watcher EXCEPT ![i].st = "off"]
     ELSE /\ Of(i).pending = Nil
          /\ Of(i).asked \/ PendingChanges(Of(i)) \/ copies[i] # watcher[i].seen
          /\ watcher' = [watcher EXCEPT ![i].st = "read", ![i].data = copies[i]]
  /\ UNCHANGED <<edits, copies, handed, prep, ops, step, results, remote, counts, slipped>>

\* queue_edit_save of a content that was read whole.
QueueSave(i, c) ==
  LET e == [Of(i) EXCEPT !.observed = c]
      n == <<0, counts.ops + 1>>
      put(r) == edits' = [edits EXCEPT !.of[i] = r]
  IN  IF c = e.uploaded THEN put([e EXCEPT !.asked = FALSE]) /\ UNCHANGED <<ops, counts>>
      ELSE IF e.pending # Nil \/ (~e.asked /\ (~edits.auto \/ e.failed))
      THEN put(e) /\ UNCHANGED <<ops, counts>>
      ELSE /\ counts' = [counts EXCEPT !.ops = @ + 1]
           /\ \/ /\ put([e EXCEPT !.asked = FALSE, !.pending = [n |-> n, data |-> c]])
                 /\ ops' = Append(ops, [n |-> n, kind |-> "write", path |-> e.path, data |-> c, exp |-> e.exp,
                                    base |-> e.uploaded])
              \/ put([e EXCEPT !.asked = FALSE, !.failed = TRUE]) /\ UNCHANGED ops

\* read_open_copy: a copy that changed while it was read is an error.
Torn(i) == copies[i] # watcher[i].data

CopyRead(i) ==
  /\ watcher[i].st = "read"
  /\ LET c == watcher[i].data
         bad == Torn(i)
     IN  /\ watcher' = [watcher EXCEPT ![i] = [st |-> "idle", data |-> Nil, seen |-> IF bad THEN Nil ELSE c]]
         /\ IF ~Connected(i) THEN UNCHANGED <<edits, ops, counts>>
            ELSE IF bad THEN edits' = [edits EXCEPT !.of[i].asked = FALSE] /\ UNCHANGED <<ops, counts>>
            ELSE QueueSave(i, c)
  /\ UNCHANGED <<copies, handed, prep, step, results, remote, slipped>>

----------------------------------------------------------------------------
(* The write worker: one operation at a time.                              *)

Now(o) == remote[o.path]
Report(k, exp, data) ==
  /\ results' = Append(results, [n |-> Head(ops).n, kind |-> k, path |-> Head(ops).path, exp |-> exp, data |-> data])
  /\ ops' = Tail(ops)
  /\ step' = "none"

\* read_edit_file: the stamp before, the bytes, the stamp after.
ReadEdit ==
  /\ counts.up /\ ops # <<>> /\ Head(ops).kind = "read"
  /\ \/ step = "none" /\ step' = "read" /\ UNCHANGED <<ops, results>>
     \/ step = "read" /\ Report("EditFile", Now(Head(ops)).stamp, Now(Head(ops)).data)
     \/ step = "read" /\ Report("Failed", 0, Nil)
  /\ UNCHANGED <<edits, copies, handed, prep, watcher, remote, counts, slipped>>

\* A bug: the file is not looked at again before it is replaced.
UnchangedBefore(o) == TRUE

\* require_fingerprint.
Unchanged(o) == Now(o).stamp = o.exp

\* write_edit_file up to the second look; a different stamp or an error ends it.
WriteEdit ==
  /\ counts.up /\ ops # <<>> /\ Head(ops).kind = "write" /\ step \in {"none", "written"}
  /\ \/ step = "none" /\ Now(Head(ops)).stamp = Head(ops).exp /\ step' = "written" /\ UNCHANGED <<ops, results>>
     \/ step = "written" /\ Unchanged(Head(ops)) /\ step' = "checked" /\ UNCHANGED <<ops, results>>
     \/ Report("Failed", 0, Nil)
  /\ UNCHANGED <<edits, copies, handed, prep, watcher, remote, counts, slipped>>

\* posix-rename; its answer may be lost. The new file has a stamp of its own.
RenameEdit ==
  /\ counts.up /\ step = "checked"
  /\ LET o == Head(ops)
     IN  \/ /\ remote' = [remote EXCEPT ![o.path] = [data |-> o.data, stamp |-> o.data]]
            /\ \/ step' = "renamed" /\ UNCHANGED <<ops, results>>
               \/ Report("Failed", 0, Nil)
         \/ UNCHANGED remote /\ Report("Failed", 0, Nil)
  /\ UNCHANGED <<edits, copies, handed, prep, watcher, counts, slipped>>

\* The stamp read after the publication becomes the new baseline.
StatEdit ==
  /\ counts.up /\ step = "renamed"
  /\ Report("Updated", Now(Head(ops)).stamp, Nil) \/ Report("Failed", 0, Nil)
  /\ UNCHANGED <<edits, copies, handed, prep, watcher, remote, counts, slipped>>

----------------------------------------------------------------------------
(* The connection monitor.                                                 *)

TakeResult ==
  /\ counts.up /\ results # <<>>
  /\ results' = Tail(results)
  /\ LET r == Head(results)
     IN  CASE r.kind = "EditFile" ->
                prep' = [prep EXCEPT ![r.n[1]] = [data |-> r.data, exp |-> r.exp]] /\ UNCHANGED edits
           [] r.kind = "Updated" -> edits' = ApplyUpdated(r) /\ UNCHANGED prep
           [] r.kind = "Failed" -> edits' = ApplyFailed(r) /\ UNCHANGED prep
  /\ UNCHANGED <<copies, handed, watcher, ops, step, remote, counts, slipped>>

\* The browser channel is reopened (Opened): every edit is forgotten.
BrowserReopened ==
  /\ counts.up /\ edits # NoEdits
  /\ edits' = NoEdits
  /\ UNCHANGED <<copies, handed, prep, watcher, ops, step, results, remote, counts, slipped>>

\* The attempt ends: edits, operations and events go, copies stay.
EditsLost ==
  /\ counts.up /\ counts.drops = 0
  /\ counts' = [counts EXCEPT !.up = FALSE, !.drops = 1]
  /\ edits' = NoEdits /\ ops' = <<>> /\ step' = "none" /\ results' = <<>>
  /\ UNCHANGED <<copies, handed, prep, watcher, remote, slipped>>

EditsBack ==
  /\ ~counts.up
  /\ counts' = [counts EXCEPT !.up = TRUE]
  /\ UNCHANGED <<edits, copies, handed, prep, watcher, ops, step, results, remote, slipped>>

----------------------------------------------------------------------------
EditWorker == ReadEdit \/ WriteEdit \/ RenameEdit \/ StatEdit \/ TakeResult \/ EditsBack
EditTasks == \E i \in EditIds : CreateCopy(i) \/ AcceptCopy(i) \/ WatchTick0(i) \/ CopyRead(i)

EditNext ==
  \/ EditWorker \/ EditTasks
  \/ StopEdit \/ RequestUpload \/ ToggleAuto \/ BrowserReopened \/ EditsLost
  \/ \E p \in EditPaths : EditFile(p) \/ SomebodyWrites(p)
  \/ \E i \in EditIds : EditorSaves(i)

----------------------------------------------------------------------------
(* Properties.                                                             *)

\* A save destroys no version of the remote file but the one the user edited, whatever
\* others wrote, whichever edits, operations and attempts came between (write_edit_file,
\* apply_result). Rewrites that keep size and time, or that follow the last look, can
\* escape it (slipped). base is the content the saved copy started from.
ReplacesOnlyBaseline ==
  [][(step = "checked" /\ remote' # remote /\ counts' = counts)
       => slipped \/ Now(Head(ops)).data = Head(ops).base]_editVars

\* With automatic uploads on, the last save of a watched copy ends up on the server or in
\* a visible failure, also when it came while an earlier save was under way (watch_copy,
\* has_pending_changes).
SavesReachRemote ==
  \A i \in EditIds :
    (Of(i) # Nil /\ Of(i).ready /\ copies[i] # Of(i).uploaded)
      ~> (Of(i) = Nil \/ Of(i).failed \/ copies[i] = Of(i).uploaded \/ ~edits.auto)
=============================================================================

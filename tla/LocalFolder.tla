---------------------------- MODULE LocalFolder ----------------------------
(***************************************************************************)
(* The local directory pane of an SFTP tab: LocalDirectoryState of         *)
(* app/state/sftp.rs, the listing task of load_local_directory and the     *)
(* watcher of app/local_directory_watch.rs. A directory's content is its   *)
(* version.                                                                *)
(***************************************************************************)
EXTENDS DirectoryHistory, FiniteSets

CONSTANTS
  LocalBudgets   \* bounds on the user's navigations and on changes of directories: a
                 \* behaviour has one of these

ASSUME LocalAssumption == LocalBudgets \subseteq [steps : Nat, edits : Nat]

VARIABLES
  files,     \* the tab's LocalDirectoryState
  reads,     \* running listing tasks, by request id
  watch,     \* the watcher task
  folders,   \* version of every local directory
  allowance  \* what is left of the bounds

folderVars == <<files, reads, watch, folders, allowance>>

NoWatch == [on |-> FALSE, dir |-> Nil, tried |-> Nil, slot |-> FALSE, debounce |-> FALSE, base |-> 0]

FolderInit ==
  /\ files = [loaded |-> FALSE, loading |-> FALSE, path |-> Nil, id |-> 0, nav |-> Nil, auto |-> Nil,
              ver |-> 0, back |-> <<>>, fwd |-> <<>>, running |-> FALSE,
              lapsed |-> FALSE]       \* a listing failed or was given up since the last page
  /\ reads = {} /\ watch = NoWatch
  /\ folders = [d \in Dirs |-> 0]
  /\ allowance \in LocalBudgets

----------------------------------------------------------------------------
(* Listings.                                                               *)

\* begin_navigation, and the task of load_local_directory.
BeginLocal(f, kind, to) ==
  [f EXCEPT !.nav = [kind |-> kind, from |-> f.path, to |-> to], !.loading = TRUE, !.id = @ + 1]
NewRead(f) == [id |-> f.id, name |-> f.nav.to, st |-> "run", ver |-> 0]

\* queue_local_navigation.
LocalNavigate(kind, name) ==
  /\ ~files.loading /\ allowance.steps > 0
  /\ Wanted(files, kind, name) # Nil
  /\ files' = BeginLocal(files, kind, Wanted(files, kind, name))
  /\ reads' = reads \cup {NewRead(files')}
  /\ allowance' = [allowance EXCEPT !.steps = @ - 1]
  /\ UNCHANGED <<watch, folders>>

\* read_local_directory on the blocking pool; an error or a timeout ends it as well.
ReadEnds(r) ==
  /\ r.st = "run"
  /\ \E ok \in BOOLEAN :
       reads' = (reads \ {r}) \cup {[r EXCEPT !.st = IF ok THEN "ok" ELSE "failed", !.ver = folders[Resolved[r.name]]]}
  /\ UNCHANGED <<files, watch, folders, allowance>>

CurrentRead(r) == r.id = files.id

\* LocalDirectoryState::complete and fail.
Complete(f, r) ==
  LET d == Resolved[r.name]
  IN  [CompleteHistory(f, d) EXCEPT !.nav = Nil, !.loading = FALSE, !.loaded = TRUE, !.path = d, !.ver = r.ver,
                                    !.lapsed = FALSE]
FailLocal(f) == [f EXCEPT !.nav = Nil, !.loading = FALSE, !.lapsed = TRUE]

\* apply_local_directory_listing and apply_local_directory_failure, then
\* ensure_local_directory_watch after a listing.
ApplyRead(r) ==
  /\ r.st \in {"ok", "failed"}
  /\ IF CurrentRead(r)
     THEN /\ files' = IF r.st = "ok" THEN [Complete(files, r) EXCEPT !.running = TRUE] ELSE FailLocal(files)
          /\ reads' = (reads \ {r}) \cup {[r EXCEPT !.st = "after"]}
          /\ watch' = IF r.st = "ok" /\ ~files.running THEN [NoWatch EXCEPT !.on = TRUE] ELSE watch
     ELSE reads' = reads \ {r} /\ UNCHANGED <<files, watch>>
  /\ UNCHANGED <<folders, allowance>>

\* begin_pending_auto_refresh has a request.
PendingRefresh(f) == ~f.loading /\ f.auto # Nil /\ f.auto = f.path

\* The pending refresh, under a lock of its own.
AfterRead(r) ==
  /\ r.st = "after"
  /\ LET taken == [files EXCEPT !.auto = IF files.loading THEN @ ELSE Nil]
     IN  IF PendingRefresh(files)
         THEN /\ files' = BeginLocal(taken, "Direct", files.path)
              /\ reads' = (reads \ {r}) \cup {NewRead(files')}
         ELSE files' = taken /\ reads' = reads \ {r}
  /\ UNCHANGED <<watch, folders, allowance>>

\* begin_refresh_after_local_change.
RefreshLocal(d) ==
  IF files.path # d THEN UNCHANGED <<files, reads>>
  ELSE IF files.loading THEN files' = [files EXCEPT !.auto = d] /\ UNCHANGED reads
  ELSE files' = BeginLocal(files, "Direct", d) /\ reads' = reads \cup {NewRead(files')}

\* SftpBrowserState::reset of a tab that disconnects: the listing is given up.
ResetLocal ==
  /\ files.id > 0 /\ allowance.steps > 0
  /\ files' = [files EXCEPT !.id = @ + 1, !.nav = Nil, !.auto = Nil, !.loading = FALSE,
                            !.lapsed = @ \/ files.loading \/ files.auto # Nil]
  /\ allowance' = [allowance EXCEPT !.steps = @ - 1]
  /\ UNCHANGED <<reads, watch, folders>>

----------------------------------------------------------------------------
(* The watcher. slot is its single-place channel.                          *)

\* The operating system notifies the watcher of the directory it watches.
Notified(d) == IF watch.on /\ watch.dir = d THEN [watch EXCEPT !.slot = TRUE] ELSE watch

\* Another program changes a directory.
FolderChanges(d) ==
  /\ allowance.edits > 0
  /\ folders' = [folders EXCEPT ![d] = @ + 1]
  /\ allowance' = [allowance EXCEPT !.edits = @ - 1]
  /\ watch' = Notified(d)
  /\ UNCHANGED <<files, reads>>

\* A download of this tab arrives in a directory (begin_refresh_after_download).
DownloadLands(d) ==
  /\ allowance.edits > 0
  /\ folders' = [folders EXCEPT ![d] = @ + 1]
  /\ allowance' = [allowance EXCEPT !.edits = @ - 1]
  /\ watch' = Notified(d)
  /\ RefreshLocal(d)

\* The native watcher cannot be created: WatchRegistration frees the place.
WatchFails ==
  /\ watch.on /\ watch.tried = Nil
  /\ watch' = NoWatch
  /\ files' = [files EXCEPT !.running = FALSE]
  /\ UNCHANGED <<reads, folders, allowance>>

\* A tick finds another directory shown: unwatch, drain once, watch (or retry later).
Switch(d, ok) ==
  [watch EXCEPT !.dir = IF ok THEN d ELSE Nil, !.base = IF ok THEN folders[d] ELSE 0,
                !.slot = @ /\ watch.tried = d, !.tried = d]

WatchTick ==
  /\ watch.on /\ ~watch.debounce
  /\ \E ok \in BOOLEAN :
       LET w == IF watch.dir = files.path THEN watch ELSE Switch(files.path, ok)
       IN  watch' = [w EXCEPT !.debounce = w.slot, !.slot = FALSE]
  /\ watch' # watch
  /\ UNCHANGED <<files, reads, folders, allowance>>

\* After the debounce interval, queue_local_change_refresh; a change noticed while
\* another directory is shown is discarded.
WatchRefreshes ==
  /\ watch.debounce
  /\ watch' = [watch EXCEPT !.debounce = FALSE, !.slot = FALSE,
                            !.base = IF watch.dir \in {Nil, files.path} THEN @ ELSE folders[watch.dir]]
  /\ IF watch.dir = Nil THEN UNCHANGED <<files, reads>> ELSE RefreshLocal(watch.dir)
  /\ UNCHANGED <<folders, allowance>>

----------------------------------------------------------------------------
FolderSystem ==
  \/ \E r \in reads : ReadEnds(r)
  \/ \E r \in reads : ApplyRead(r)
  \/ \E r \in reads : AfterRead(r)
  \/ WatchTick \/ WatchRefreshes

FolderNext ==
  \/ FolderSystem \/ WatchFails \/ ResetLocal
  \/ \E kind \in Kinds \ {"Direct"} : LocalNavigate(kind, Nil)
  \/ \E name \in Names : LocalNavigate("Direct", name)
  \/ \E d \in Dirs : FolderChanges(d) \/ DownloadLands(d)

----------------------------------------------------------------------------
(* Properties.                                                             *)

\* Once nothing is under way, the pane shows every change made since its directory is
\* watched, however the change fell between listing, debounce and navigation (base: a
\* change between the listing and the first tick of the watcher is not noticed, nor one
\* reported while another directory is shown; lapsed: a listing that failed or was given
\* up is not repeated).
WatchedChangeShown ==
  ( /\ files.loaded /\ ~files.loading /\ ~files.lapsed
    /\ watch.dir = files.path /\ ~watch.slot /\ ~watch.debounce
    /\ \A r \in reads : r.st # "after"
    /\ folders[files.path] > watch.base ) => files.ver = folders[files.path]

\* Going back and forward retraces the directories visited and loses none of them, also
\* when listings fail, change or answer late in between (complete_directory_history).
LocalTimelineKept == [][Retraced(files, files') => Timeline(files') = Timeline(files)]_folderVars
=============================================================================

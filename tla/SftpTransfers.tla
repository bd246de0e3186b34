--------------------------- MODULE SftpTransfers ----------------------------
(***************************************************************************)
(* The transfer half of run_sftp_session (src/ssh/worker/sftp.rs): the     *)
(* select loop that owns discoveries, queued, opening and active transfers *)
(* of one SFTP tab, the directory aggregates, upload slots and conflicts.  *)
(* One action is one turn of the loop or one step of a task it spawned;    *)
(* x is the worker's local state and the end it reported for every id.     *)
(***************************************************************************)
EXTENDS Naturals, Sequences, FiniteSets, FiniteSetsExt, SequencesExt, Absent

CONSTANTS
  FileRoots,     \* download roots that turn out to be files
  DirRoots,      \* download roots that are directories
  Contents,      \* files of each directory, in the order they are found
  Uploads,       \* uploads, all of one batch
  PerTab,        \* per_tab_limit
  QueueWindow,   \* SFTP_TRANSFER_QUEUE_WINDOW
  FoundSpace,    \* capacity of the channel of discovered files
  GlobalUploads  \* process-wide upload permits

Roots == FileRoots \cup DirRoots
Kids == UNION {Range(Contents[r]) : r \in DirRoots}
Downloads == FileRoots \cup Kids
Ids == Roots \cup Kids \cup Uploads

ASSUME TransferAssumption ==
  /\ Contents \in [DirRoots -> Seq(Kids)]
  /\ {PerTab, QueueWindow, FoundSpace, GlobalUploads} \subseteq Nat \ {0}
  /\ FileRoots \cap DirRoots = {} /\ Roots \cap (Kids \cup Uploads) = {} /\ Kids \cap Uploads = {}
  /\ IsFiniteSet(Ids)

\* stable_child_transfer_id: the id of a file is made of its root's id and its path.
ASSUME DistinctFiles ==
  /\ \A r \in DirRoots : IsInjective(Contents[r])
  /\ \A r, s \in DirRoots : r # s => Range(Contents[r]) \cap Range(Contents[s]) = {}

VARIABLES
  x,           \* the worker
  elsewhere,   \* upload permits held by other tabs
  wanted       \* what the user asks for in this behaviour

transferVars == <<x, elsewhere, wanted>>

Outcomes == {"Completed", "Failed", "Cancelled", "Skipped"}
\* SftpDiscoveredDownload: a file found under a root, or Finished.
Messages == [root : Roots, file : Downloads \cup {Nil}, ok : BOOLEAN]

ASSUME TransferNil ==
  Nil \notin Ids \cup Messages \cup Outcomes
           \cup {"Partial", "Conflict", "on", "cancelled", "Skip", "Overwrite"}

NoScan == [root |-> Nil, left |-> <<>>, told |-> FALSE, st |-> "none"]
NoDir == [is |-> FALSE, kids |-> {}, done |-> FALSE, cancelled |-> FALSE, failed |-> 0]

Idle ==
  [open |-> TRUE,
   roots |-> <<>>,                              \* queued_discovery_roots
   pending |-> [r \in Roots |-> Nil],           \* discovery_by_transfer
   scan |-> NoScan,                             \* the one running discovery task
   found |-> <<>>, deferred |-> Nil,            \* discovered_downloads, deferred_discovered
   dirs |-> [r \in Roots |-> NoDir],            \* directory_transfers
   parent |-> [k \in Downloads |-> Nil],        \* child_roots
   queue |-> <<>>, uploads |-> <<>>,            \* queued_requests, queued_uploads
   place |-> [i \in Ids |-> "none"],
   result |-> [i \in Ids |-> Nil],              \* what a task posted to transfer_events
   slots |-> {}, policy |-> Nil,                \* upload_queue_slots, batch_policies
   choice |-> [u \in Uploads |-> Nil],
   ends |-> [i \in Ids |-> Nil], again |-> {},  \* reports, second reports
   skipped |-> FALSE]                           \* a cancelled opening was joined

SftpInit == x = Idle /\ elsewhere = 0 /\ wanted \in SUBSET (Roots \cup Uploads)

----------------------------------------------------------------------------
(* Limits and starts.                                                      *)

In(w, places) == {i \in Ids : w.place[i] \in places}

\* transfers.len() and pending_by_transfer.len().
Transfers(w) == In(w, {"active", "stopping", "posted"})
Openings(w) == In(w, {"opening", "dropped"})
Busy(w) == Cardinality(Transfers(w)) + Cardinality(Openings(w))

\* A bug: cancelled openings are not counted.
RoomIgnoringDropped(w) ==
  LET n == Cardinality(Transfers(w)) + Cardinality(In(w, {"opening"}))
  IN  IF n >= PerTab THEN 0 ELSE PerTab - n

\* sftp_transfer_limit_reached.
Room(w) == IF Busy(w) >= PerTab THEN 0 ELSE PerTab - Busy(w)

\* start_queued_sftp_transfers: requests leave the queue in order and open a channel.
StartDownloads(w) ==
  LET n == Min({Room(w), Len(w.queue)})
      go == Range(SubSeq(w.queue, 1, n))
  IN  [w EXCEPT !.queue = SubSeq(@, n + 1, Len(@)),
                !.place = [i \in Ids |-> IF i \in go THEN "opening" ELSE @[i]]]

\* reserve_global_slot.
Permits(w) ==
  LET held == elsewhere + Cardinality(Transfers(w) \cap Uploads)
  IN  IF held >= GlobalUploads THEN 0 ELSE GlobalUploads - held

\* start_queued_uploads.
StartUploads(w) ==
  LET n == Min({Room(w), Permits(w), Len(w.uploads)})
      go == Range(SubSeq(w.uploads, 1, n))
  IN  [w EXCEPT !.uploads = SubSeq(@, n + 1, Len(@)),
                !.place = [i \in Ids |-> IF i \in go THEN "active" ELSE @[i]]]

\* What follows an opening and every terminal event: downloads first, then uploads.
StartNext(W) == {StartUploads(w) : w \in {StartDownloads(v) : v \in W}}

----------------------------------------------------------------------------
(* What the tab is told, and directories.                                  *)

\* send_sftp_transfer_event of a terminal event.
Tell(w, i, e) ==
  IF w.ends[i] = Nil THEN [w EXCEPT !.ends[i] = e] ELSE [w EXCEPT !.again = @ \cup {i}]

\* How finish_download_root reads DiscoveryFinished.
Summary(d) == IF d.cancelled THEN "Cancelled" ELSE IF d.failed > 0 THEN "Partial" ELSE "Completed"

\* The discovery is over and no child is under way.
DirectoryReady(d) == d.done /\ d.kids = {}

\* finish_directory_transfer: the aggregate goes and its root is reported.
FinishDirectory(w, r) ==
  IF DirectoryReady(w.dirs[r])
  THEN Tell([w EXCEPT !.dirs[r] = NoDir], r, Summary(w.dirs[r]))
  ELSE w

\* A bug: only failures count, cancelled files are forgotten.
ChildFailsUncancelled(e) == e = "Failed"

\* Failed and cancelled files make the directory partial.
ChildFails(e) == e \in {"Failed", "Cancelled"}

\* complete_directory_child.
CompleteChild(w, k, e) ==
  LET r == w.parent[k]
  IN  IF r = Nil THEN w
      ELSE FinishDirectory([w EXCEPT !.parent[k] = Nil,
                                     !.dirs[r].kids = @ \ {k},
                                     !.dirs[r].failed = IF ChildFails(e) THEN @ + 1 ELSE @], r)

\* send_transfer_event_with_directory_state.
TellFile(w, i, e) ==
  LET v == Tell(w, i, e) IN IF i \in Downloads THEN CompleteChild(v, i, e) ELSE v

----------------------------------------------------------------------------
(* Discovery: the task of spawn_pending_sftp_discovery and its messages.   *)

FilesOf(r) == IF r \in DirRoots THEN Contents[r] ELSE <<r>>

StartScan(w, r) ==
  [w EXCEPT !.scan = [root |-> r, left |-> FilesOf(r), told |-> FALSE, st |-> "run"],
            !.pending[r] = "on"]

\* The sender waits while the channel is full.
HasSpace(w) == Len(w.found) < FoundSpace

\* The task finds a file and sends it, when the channel has space.
ScanFinds ==
  /\ x.open /\ x.scan.st = "run" /\ ~x.scan.told
  /\ x.scan.left # <<>> /\ HasSpace(x)
  /\ x' = [x EXCEPT !.scan.left = Tail(@),
                    !.found = Append(@, [root |-> x.scan.root, file |-> Head(x.scan.left), ok |-> TRUE])]
  /\ UNCHANGED <<elsewhere, wanted>>

\* The task ends: all found, failed, or cancelled; Finished is its last message.
ScanEnds ==
  /\ x.open /\ x.scan.st = "run" /\ HasSpace(x)
  /\ \E ok \in BOOLEAN :
       /\ ok => x.scan.left = <<>> /\ ~x.scan.told
       /\ ~ok /\ x.scan.root \in FileRoots => x.scan.left # <<>> \/ x.scan.told
       /\ x' = [x EXCEPT !.scan.st = "done",
                         !.found = Append(@, [root |-> x.scan.root, file |-> Nil, ok |-> ok])]
  /\ UNCHANGED <<elsewhere, wanted>>

\* A bug: a queued root waits for the next request.
JoinScanOnly ==
  /\ x.open /\ x.scan.st = "done"
  /\ x' = StartDownloads([x EXCEPT !.scan = NoScan])
  /\ UNCHANGED <<elsewhere, wanted>>

\* discoveries.join_next_with_id: the next root may start.
JoinScan ==
  /\ x.open /\ x.scan.st = "done"
  /\ LET idle == [x EXCEPT !.scan = NoScan]
         next == IF x.roots = <<>> THEN idle
                 ELSE StartScan([idle EXCEPT !.roots = Tail(@)], Head(x.roots))
     IN  x' = StartDownloads(next)
  /\ UNCHANGED <<elsewhere, wanted>>

\* One message is set aside until there is room for it.
Defer ==
  /\ x.open /\ x.deferred = Nil /\ x.found # <<>>
  /\ x' = [x EXCEPT !.deferred = Head(x.found), !.found = Tail(@)]
  /\ UNCHANGED <<elsewhere, wanted>>

\* available_sftp_transfer_slots.
WindowRoom(w) == Busy(w) + Len(w.queue) < QueueWindow

\* A discovered file is queued, unless its root was cancelled.
TakeFound ==
  /\ x.open /\ x.deferred # Nil /\ x.deferred.file # Nil /\ WindowRoom(x)
  /\ LET r == x.deferred.root
         f == x.deferred.file
         taken == [x EXCEPT !.deferred = Nil]
         owned == IF f = r THEN taken
                  ELSE [taken EXCEPT !.parent[f] = r, !.dirs[r].kids = @ \cup {f}, !.dirs[r].is = TRUE]
     IN  x' = IF x.pending[r] = "cancelled" \/ x.dirs[r].cancelled THEN taken
              ELSE StartDownloads([owned EXCEPT !.queue = Append(@, f), !.place[f] = "queue"])
  /\ UNCHANGED <<elsewhere, wanted>>

\* Finished: a cancelled, successful or failed discovery settles its root (a recoverable
\* failure of a closed transport is left to the end of the session).
TakeFinished ==
  /\ x.open /\ x.deferred # Nil /\ x.deferred.file = Nil /\ WindowRoom(x)
  /\ LET r == x.deferred.root
         taken == [x EXCEPT !.deferred = Nil, !.pending[r] = Nil]
         gone == [taken EXCEPT !.dirs[r] = NoDir]
         done == [taken EXCEPT !.dirs[r].done = TRUE]
     IN  x' = IF x.pending[r] = "cancelled"
              THEN FinishDirectory([done EXCEPT !.dirs[r].cancelled = TRUE], r)
              ELSE IF x.deferred.ok
              THEN IF r \in FileRoots THEN gone ELSE FinishDirectory(done, r)
              ELSE IF x.dirs[r].cancelled THEN FinishDirectory(done, r)
              ELSE IF x.dirs[r].kids = {} THEN Tell(gone, r, "Failed")
              ELSE FinishDirectory([done EXCEPT !.dirs[r].failed = @ + 1], r)
  /\ UNCHANGED <<elsewhere, wanted>>

----------------------------------------------------------------------------
(* Transfers: openings, tasks and their events.                            *)

\* pending_openings.join_next_with_id of an opening nobody cancelled.
OpeningEnds(i) ==
  /\ x.open /\ x.place[i] = "opening"
  /\ \E ok \in BOOLEAN :
       LET opened == IF ok THEN [x EXCEPT !.place[i] = "active"]
                     ELSE TellFile([x EXCEPT !.place[i] = "none"], i, "Failed")
       IN  x' \in StartNext({opened})
  /\ UNCHANGED <<elsewhere, wanted>>

\* A cancelled opening is only joined: nothing else is started in its place.
DroppedOpeningEnds(i) ==
  /\ x.open /\ x.place[i] = "dropped"
  /\ x' = [x EXCEPT !.place[i] = "none", !.skipped = TRUE]
  /\ UNCHANGED <<elsewhere, wanted>>

\* A download or upload task posts its terminal event.
TaskPosts(i) ==
  /\ x.open /\ x.place[i] \in {"active", "stopping"}
  /\ \E e \in Outcomes \cup {"Conflict"} :
       /\ e = "Skipped" => i \in Uploads /\ x.choice[i] = "Skip"
       /\ e = "Conflict" => i \in Uploads /\ x.choice[i] = Nil
       /\ x.place[i] = "stopping" => e # "Completed"
       /\ e = "Cancelled" => x.place[i] = "stopping"
       /\ x' = [x EXCEPT !.place[i] = "posted", !.result[i] = e]
  /\ UNCHANGED <<elsewhere, wanted>>

\* upload_terminal_id: everything but a conflict gives the slot back.
FreesSlot(e) == e # "Conflict"

\* transfer_events.recv.
TransferEvent(i) ==
  /\ x.open /\ x.place[i] \in {"posted", "reaped"}
  /\ LET e == x.result[i]
         done == [x EXCEPT !.place[i] = "none", !.result[i] = Nil]
         settled ==
           IF e # "Conflict" THEN TellFile(done, i, e)
           ELSE IF x.policy # Nil
           THEN [done EXCEPT !.choice[i] = x.policy, !.uploads = Append(@, i), !.place[i] = "queue"]
           ELSE [done EXCEPT !.place[i] = "conflict"]
         freed == IF FreesSlot(e) THEN [settled EXCEPT !.slots = @ \ {i}] ELSE settled
     IN  x' \in StartNext({freed})
  /\ UNCHANGED <<elsewhere, wanted>>

\* Uploads of other tabs take and give back process-wide permits.
OtherTabs ==
  /\ elsewhere' \in {n \in 0..GlobalUploads : n + Cardinality(Transfers(x) \cap Uploads) <= GlobalUploads}
  /\ elsewhere' # elsewhere
  /\ wanted \cap Uploads # {}
  /\ UNCHANGED <<x, wanted>>

----------------------------------------------------------------------------
(* Commands. Each first reaps tasks that ended, events still to come.      *)

\* reap_finished_sftp_transfers.
Reaps(w) == {[w EXCEPT !.place = [i \in Ids |-> IF i \in S THEN "reaped" ELSE @[i]]] :
               S \in SUBSET In(w, {"posted"})}

Known(w, i) ==
  \/ w.place[i] # "none" \/ i \in w.slots
  \/ i \in Roots /\ (w.pending[i] # Nil \/ w.dirs[i] # NoDir \/ i \in Range(w.roots))

\* OpenSftpFile of a new root; a directory gets its aggregate at once.
OpenRoot(r) ==
  /\ x.open /\ r \in wanted /\ x.ends[r] = Nil /\ ~Known(x, r)
  /\ \E w \in Reaps(x) :
       LET v == [w EXCEPT !.dirs[r].is = r \in DirRoots]
       IN  x' = IF v.scan = NoScan THEN StartScan(v, r)
                ELSE IF Len(v.roots) < QueueWindow THEN [v EXCEPT !.roots = Append(@, r)]
                ELSE Tell(w, r, "Failed")
  /\ UNCHANGED <<elsewhere, wanted>>

\* OpenSftpFileAtLocalPath: the request of one known file, without a discovery.
OpenRequest(f) ==
  /\ x.open /\ f \in wanted \cap FileRoots /\ x.ends[f] = Nil /\ ~Known(x, f)
  /\ \E w \in Reaps(x) : x' = StartDownloads([w EXCEPT !.queue = Append(@, f), !.place[f] = "queue"])
  /\ UNCHANGED <<elsewhere, wanted>>

\* OpenSftpUpload: the batch policy applies, the slot is kept until the end.
OpenUpload(u) ==
  /\ x.open /\ u \in wanted /\ x.ends[u] = Nil /\ ~Known(x, u)
  /\ \E w \in Reaps(x) :
       x' = StartUploads([w EXCEPT !.uploads = Append(@, u), !.place[u] = "queue",
                                   !.slots = @ \cup {u}, !.choice[u] = w.policy])
  /\ UNCHANGED <<elsewhere, wanted>>

\* ResolveSftpUploadConflict, for one file or for the batch.
Resolve(u, choice, batch) ==
  /\ x.open /\ x.place[u] = "conflict"
  /\ \E w \in Reaps(x) :
       LET go == IF batch THEN In(w, {"conflict"}) ELSE {u}
       IN  x' = StartUploads(
                  [w EXCEPT !.policy = IF batch THEN choice ELSE @,
                            !.choice = [i \in Uploads |-> IF i \in go THEN choice ELSE @[i]],
                            !.place = [i \in Ids |-> IF i \in go THEN "queue" ELSE @[i]],
                            !.uploads = @ \o <<u>> \o SetToSeq(go \ {u})])
  /\ UNCHANGED <<elsewhere, wanted>>

\* retain: the ids of q that are not in S, in their order.
Unqueue(q, S) ==
  LET kept == {n \in DOMAIN q : q[n] \notin S}
      Nth(j) == CHOOSE n \in kept : Cardinality({m \in kept : m <= n}) = j
  IN  [j \in 1..Cardinality(kept) |-> q[Nth(j)]]

\* cancel_pending_discovery.
StopScan(w, r) ==
  [w EXCEPT !.pending[r] = IF @ = Nil THEN Nil ELSE "cancelled",
            !.scan.told = IF w.scan.root = r THEN TRUE ELSE @]

\* The files S of directory r are told of their end, and counted as complete_directory_child
\* counts each.
TellKids(w, r, S, e) ==
  [w EXCEPT !.ends = [i \in Ids |-> IF i \in S /\ @[i] = Nil THEN e ELSE @[i]],
            !.again = @ \cup {k \in S : w.ends[k] # Nil},
            !.parent = [k \in Downloads |-> IF k \in S THEN Nil ELSE @[k]],
            !.dirs[r] = [w.dirs[r] EXCEPT
                           !.kids = @ \ S,
                           !.failed = IF ChildFails(e) THEN @ + Cardinality(S) ELSE @]]

\* The discovery of directory r is over: nothing more is found in it, nor queued.
CancelScan(w, r) ==
  [StopScan(w, r) EXCEPT
     !.dirs[r].cancelled = TRUE,
     !.dirs[r].done = @ \/ w.pending[r] = Nil,
     !.roots = Unqueue(@, {r}),
     !.deferred = IF @ # Nil /\ w.deferred.root = r /\ w.deferred.file # Nil THEN Nil ELSE @]

\* Its files leave the queue, their openings are dropped, running tasks are told to stop.
StopKids(w, r) ==
  LET kids == w.dirs[r].kids
  IN  [w EXCEPT !.queue = Unqueue(@, {k \in kids : w.place[k] = "queue"}),
                !.place = [i \in Ids |-> IF i \notin kids THEN @[i]
                                         ELSE CASE @[i] = "queue" -> "none"
                                                [] @[i] = "opening" -> "dropped"
                                                [] @[i] = "active" -> "stopping"
                                                [] OTHER -> @[i]]]

\* cancel_directory_download: discovery, queued, opening and active files.
CancelDirectory(w, r) ==
  LET waiting == {k \in w.dirs[r].kids : w.place[k] \in {"queue", "opening"}}
      stopped == StopKids(CancelScan(w, r), r)
  IN  FinishDirectory(TellKids(stopped, r, waiting, "Cancelled"), r)

\* A bug: the transfer is reported before its task has ended.
StopRunningAtOnce(w, i) == Tell([w EXCEPT !.place[i] = "stopping"], i, "Cancelled")

\* A running task is told to stop and reports its own end.
StopRunning(w, i) == [w EXCEPT !.place[i] = IF @ = "active" THEN "stopping" ELSE @]

\* CancelSftpTransfer: the first structure that knows the id.
CancelOne(w, i) ==
  IF i \in Roots /\ w.dirs[i] # NoDir THEN CancelDirectory(w, i)
  ELSE IF i \in Transfers(w) THEN StopRunning(w, i)
  ELSE IF i \in Range(w.roots) THEN Tell([w EXCEPT !.roots = Unqueue(@, {i})], i, "Cancelled")
  ELSE IF i \in Roots /\ w.pending[i] # Nil THEN Tell(StopScan(w, i), i, "Cancelled")
  ELSE IF i \in Range(w.queue)
  THEN TellFile([w EXCEPT !.queue = Unqueue(@, {i}), !.place[i] = "none"], i, "Cancelled")
  ELSE IF i \in Range(w.uploads)
  THEN Tell([w EXCEPT !.uploads = Unqueue(@, {i}), !.place[i] = "none", !.slots = @ \ {i}], i, "Cancelled")
  ELSE IF w.place[i] = "conflict"
  THEN Tell([w EXCEPT !.place[i] = "none", !.slots = @ \ {i}], i, "Cancelled")
  ELSE IF w.place[i] = "opening" THEN TellFile([w EXCEPT !.place[i] = "dropped"], i, "Cancelled")
  ELSE w                                     \* already cancelled, or no longer active

Cancel(i) ==
  /\ x.open
  /\ \E w \in Reaps(x) : x' = CancelOne(w, i)
  /\ x' # x
  /\ UNCHANGED <<elsewhere, wanted>>

\* shutdown_pending_sftp_discoveries, shutdown_pending_sftp_opens, shutdown_sftp_transfers:
\* everything is cancelled and joined, nothing more is reported.
Drained(w) == [Idle EXCEPT !.open = FALSE, !.ends = w.ends, !.again = w.again]

\* The loop ends (Disconnect, closed transport, full failure): discoveries,
\* openings and transfers are cancelled and joined.
EndSession ==
  /\ x.open
  /\ x' = Drained(x)
  /\ UNCHANGED <<elsewhere, wanted>>

----------------------------------------------------------------------------
LoopStep ==
  \/ ScanFinds \/ ScanEnds \/ JoinScan \/ Defer \/ TakeFound \/ TakeFinished
  \/ \E i \in Ids : OpeningEnds(i) \/ DroppedOpeningEnds(i) \/ TaskPosts(i) \/ TransferEvent(i)

UserStep ==
  \/ \E r \in Roots : OpenRoot(r) \/ OpenRequest(r)
  \/ \E u \in Uploads : OpenUpload(u)
  \/ \E u \in Uploads, c \in {"Skip", "Overwrite"}, b \in BOOLEAN : Resolve(u, c, b)

SftpNext ==
  \/ LoopStep \/ UserStep \/ OtherTabs
  \/ \E i \in Ids : Cancel(i)
  \/ EndSession

----------------------------------------------------------------------------
(* Properties.                                                             *)

\* The channels in use, the discovery's included, never exceed the reservation of
\* one more than the tab's transfers, whatever is cancelled, reaped or restarted.
ChannelsReserved == Busy(x) + (IF x.scan.st = "run" THEN 1 ELSE 0) <= PerTab + 1

\* A directory is reported after its discovery and the last of its files, and as
\* complete only when every file in it arrived (cancel_directory_download,
\* complete_directory_child, finish_directory_transfer).
DirectoryEndsLast ==
  \A r \in DirRoots : x.ends[r] # Nil =>
    /\ \A k \in Kids : x.parent[k] # r
    /\ \A k \in Range(Contents[r]) : x.place[k] \in {"none", "dropped"}
    /\ x.ends[r] = "Completed" => \A k \in Range(Contents[r]) : x.ends[k] = "Completed"

\* Every transfer but a single-file root is reported exactly once
\* (a single-file root is known both as a discovery and as a request).
ReportedOnce == x.again \subseteq FileRoots
=============================================================================

---- MODULE WorkspaceProofs ----
(***************************************************************************)
(* Proofs about Autosave, for any layouts and texts and any three periods  *)
(* that PeriodsAssumption allows; about UiRefresh, for any set of          *)
(* terminals and any number of callbacks waiting in the event loop;        *)
(* about Workspace, for any numbers of tabs, windows and panes; about      *)
(* Media, for any terminals and any numbers of operations and connections; *)
(* and about Latency, for any intervals, lifetimes and capacities.         *)
(***************************************************************************)
EXTENDS Autosave, UiRefresh, Workspace, TabData, FiniteSetTheorems, WellFoundedInduction, TLAPS

AutosaveSpec == AutosaveInit /\ [][AutosaveNext]_autosaveVars

-----------------------------------------------------------------------------
(* The invariant.                                                           *)

Ages == Nat \cup {Nil}
Values == Snapshots \cup {Nil}

AutosaveTypeOK ==
    /\ current \in Snapshots
    /\ schedule \in [observed : Layouts \cup {Nil}, dirty : Ages, quiet : Ages, checkpoint : Ages]
    /\ handed \in Values /\ unseen \in BOOLEAN
    /\ writer \in [at : {"waiting", "writing", "ended"}, snapshot : Values]
    /\ written \in Values /\ disk \in Values
    /\ stage \in {"running", "finishing", "over"}
    /\ lag \in [layout : Nat, text : Nat]
    /\ failed \in BOOLEAN /\ doubtful \in BOOLEAN

\* The layout of the value handed over is the one last observed, unless a
\* change is noted; the age of that change bounds how far the value is behind.
LayoutKept ==
    IF schedule.dirty = Nil
    THEN /\ lag.layout = 0
         /\ schedule.observed # Nil => handed # Nil /\ handed.layout = schedule.observed
    ELSE schedule.dirty < MaxDirty /\ lag.layout <= schedule.dirty + 1

\* The age of the last checkpoint bounds how far its text is behind; until
\* the first one the age of the first change does.
TextKept ==
    IF schedule.checkpoint # Nil
    THEN schedule.checkpoint < TextEvery /\ lag.text <= schedule.checkpoint
    ELSE IF schedule.dirty = Nil THEN schedule.observed = Nil /\ lag.text = 0
    ELSE lag.text <= schedule.dirty + 1

\* The file holds the last value written, and a writer that has seen the
\* last value handed over has written it, is writing it or has failed to.
DiskKept ==
    /\ written # Nil /\ ~doubtful => disk = written
    /\ handed # Nil /\ ~unseen =>
         IF writer.at = "writing" THEN writer.snapshot = handed ELSE failed \/ written = handed
    /\ writer.at = "writing" => writer.snapshot # Nil
    /\ unseen => handed # Nil

AutosaveInv ==
    /\ AutosaveTypeOK
    /\ stage = "running" => LayoutKept /\ TextKept
    /\ lag.layout <= MaxDirty /\ lag.text <= TextEvery
    /\ DiskKept

-----------------------------------------------------------------------------
(* One poll.                                                                *)

ScheduleRec == [observed : Layouts \cup {Nil}, dirty : Ages, quiet : Ages, checkpoint : Ages]

\* An age grows by one, and no age stays none.
LEMMA AgedAge ==
    ASSUME NEW age \in Ages
    PROVE  Aged(age) \in Ages /\ (Aged(age) = Nil <=> age = Nil) /\ (age # Nil => Aged(age) = age + 1)
  BY AutosaveNil DEF Aged, Ages

\* What CheckpointSchedule::observe makes of the schedule before it decides.
LEMMA NoticedSchedule ==
    ASSUME AutosaveTypeOK
    PROVE  /\ Noticed \in ScheduleRec
           /\ Noticed.observed = current.layout
           /\ Noticed.checkpoint = Aged(schedule.checkpoint)
           /\ Noticed.dirty = IF schedule.dirty # Nil THEN schedule.dirty + 1
                              ELSE IF schedule.observed = current.layout THEN Nil ELSE 0
<1> DEFINE aged == [schedule EXCEPT !.dirty = Aged(@), !.quiet = Aged(@), !.checkpoint = Aged(@)]
<1>1. schedule \in ScheduleRec /\ current.layout \in Layouts
  BY DEF AutosaveTypeOK, ScheduleRec, Snapshots
<1>2. Aged(schedule.dirty) \in Ages /\ Aged(schedule.quiet) \in Ages /\ Aged(schedule.checkpoint) \in Ages
  BY <1>1, AgedAge DEF ScheduleRec
<1>3. aged \in ScheduleRec
  BY <1>1, <1>2, Zenon DEF ScheduleRec
<1>4. /\ aged.observed = schedule.observed /\ aged.dirty = Aged(schedule.dirty)
      /\ aged.checkpoint = Aged(schedule.checkpoint)
  BY <1>1, Zenon DEF ScheduleRec
<1>5. Aged(schedule.dirty) = IF schedule.dirty = Nil THEN Nil ELSE schedule.dirty + 1
  BY DEF Aged
<1> HIDE DEF aged
<1>6. CASE schedule.observed = current.layout
  <2>1. Noticed = aged
    BY <1>6 DEF Noticed, aged
  <2> QED BY <1>3, <1>4, <1>5, <1>6, <2>1
<1>7. CASE schedule.observed # current.layout
  <2>1. Noticed = [aged EXCEPT !.observed = current.layout, !.dirty = DirtySince(@), !.quiet = 0]
    BY <1>7 DEF Noticed, aged
  <2>2. DirtySince(aged.dirty) = (IF schedule.dirty # Nil THEN schedule.dirty + 1 ELSE 0)
    BY <1>1, <1>4, <1>5, AutosaveNil DEF DirtySince, ScheduleRec, Ages
  <2>3. DirtySince(aged.dirty) \in Ages /\ 0 \in Ages
    BY <1>1, <2>2 DEF ScheduleRec, Ages
  <2>4. Noticed \in ScheduleRec
    BY <1>1, <1>3, <2>1, <2>3, Zenon DEF ScheduleRec
  <2>5. /\ Noticed.observed = current.layout /\ Noticed.dirty = DirtySince(aged.dirty)
        /\ Noticed.checkpoint = aged.checkpoint
    BY <1>3, <2>1, Zenon DEF ScheduleRec
  <2> QED BY <1>4, <1>7, <2>2, <2>4, <2>5
<1> QED BY <1>6, <1>7

\* A poll keeps the types.
LEMMA PollTypes ==
    ASSUME AutosaveTypeOK, Poll
    PROVE  AutosaveTypeOK'
<1> USE DEF AutosaveTypeOK
<1>1. /\ handed' \in Values /\ unseen' \in BOOLEAN /\ schedule' \in ScheduleRec
  <2>1. Noticed \in ScheduleRec
    BY NoticedSchedule
  <2>2. CASE Due(Noticed)
    <3>1. schedule' = [Noticed EXCEPT !.dirty = Nil, !.quiet = Nil, !.checkpoint = 0]
      BY <2>2 DEF Poll
    <3>2. Nil \in Ages /\ 0 \in Ages
      BY DEF Ages
    <3>3. schedule' \in ScheduleRec
      BY <2>1, <3>1, <3>2, Zenon DEF ScheduleRec
    <3> QED BY <2>2, <3>3 DEF Poll, Values
  <2>3. CASE ~Due(Noticed)
    BY <2>1, <2>3 DEF Poll
  <2> QED BY <2>2, <2>3
<1>2. lag' = [f \in {"layout", "text"} |-> Behind(handed', f)]
  BY DEF Poll
<1>3. ASSUME NEW f \in {"layout", "text"} PROVE Behind(handed', f) \in Nat
  BY <1>3 DEF Behind
<1>4. lag' \in [layout : Nat, text : Nat]
  BY <1>2, <1>3
<1> QED BY <1>1, <1>4 DEF Poll, diskVars, ScheduleRec

\* A poll keeps the value handed over within its bounds.
LEMMA PollPreserves ==
    ASSUME AutosaveInv, Poll
    PROVE  AutosaveInv'
<1> USE DEF AutosaveInv
<1>1. AutosaveTypeOK'
  BY PollTypes
<1>2. /\ stage = "running" /\ stage' = "running" /\ LayoutKept /\ TextKept /\ current' = current
      /\ writer' = writer /\ written' = written /\ disk' = disk /\ failed' = failed /\ doubtful' = doubtful
  BY DEF Poll, diskVars
<1>3. /\ lag'.layout = Behind(handed', "layout") /\ lag'.text = Behind(handed', "text")
      /\ lag.layout \in Nat /\ lag.text \in Nat
  BY DEF Poll, AutosaveTypeOK
<1>4. /\ schedule.observed \in Layouts \cup {Nil} /\ schedule.dirty \in Ages /\ schedule.checkpoint \in Ages
      /\ current.layout \in Layouts /\ current # Nil /\ handed \in Values
  BY AutosaveNil DEF AutosaveTypeOK, Snapshots
<1>5. CASE Due(Noticed)
  <2>1. handed' = current /\ unseen'
    BY <1>5 DEF Poll
  <2>2. lag'.layout = 0 /\ lag'.text = 0
    BY <1>3, <1>4, <2>1 DEF Behind
  <2>3. schedule'.observed = current.layout /\ schedule'.dirty = Nil /\ schedule'.checkpoint = 0
    BY <1>5, NoticedSchedule DEF Poll, ScheduleRec
  <2>4. LayoutKept' /\ TextKept'
    BY <1>4, <2>1, <2>2, <2>3, PeriodsAssumption, AutosaveNil DEF LayoutKept, TextKept
  <2>5. DiskKept'
    BY <1>2, <1>4, <2>1 DEF DiskKept
  <2> QED BY <1>1, <1>2, <2>2, <2>4, <2>5, PeriodsAssumption
<1>6. CASE ~Due(Noticed)
  <2>1. handed' = handed /\ unseen' = unseen /\ schedule' = Noticed
    BY <1>6 DEF Poll
  <2>2. /\ schedule'.observed = current.layout
        /\ schedule'.checkpoint = Aged(schedule.checkpoint)
        /\ schedule'.dirty = IF schedule.dirty # Nil THEN schedule.dirty + 1
                             ELSE IF schedule.observed = current.layout THEN Nil ELSE 0
    BY <2>1, NoticedSchedule
  <2>3. /\ schedule'.dirty # Nil => schedule'.dirty < MaxDirty
        /\ schedule'.checkpoint # Nil => schedule'.checkpoint < TextEvery
    <3>1. schedule'.dirty \in Ages /\ schedule'.checkpoint \in Ages
      BY <1>1 DEF AutosaveTypeOK
    <3> QED BY <1>6, <2>1, <3>1, PeriodsAssumption, AutosaveNil DEF Due, Reached, Ages
  <2>4. lag'.layout <= lag.layout + 1 /\ lag'.text <= lag.text + 1 /\ lag'.layout \in Nat /\ lag'.text \in Nat
    BY <1>3 DEF Behind
  <2>5. LayoutKept'
    <3>1. CASE schedule.dirty # Nil
      BY <1>2, <1>3, <1>4, <2>2, <2>3, <2>4, <3>1, AutosaveNil, PeriodsAssumption DEF LayoutKept, Ages
    <3>2. CASE schedule.dirty = Nil /\ schedule.observed = current.layout
      <4>1. handed # Nil /\ handed.layout = current.layout
        BY <1>2, <1>4, <3>2, AutosaveNil DEF LayoutKept
      <4>2. lag'.layout = 0
        BY <1>3, <2>1, <4>1 DEF Behind
      <4> QED BY <2>1, <2>2, <3>2, <4>1, <4>2 DEF LayoutKept
    <3>3. CASE schedule.dirty = Nil /\ schedule.observed # current.layout
      BY <1>2, <1>4, <2>2, <2>3, <2>4, <3>3, AutosaveNil, PeriodsAssumption DEF LayoutKept
    <3> QED BY <3>1, <3>2, <3>3
  <2>6. TextKept'
    <3>1. CASE schedule.checkpoint # Nil
      <4>1. schedule'.checkpoint = schedule.checkpoint + 1 /\ schedule'.checkpoint # Nil
        BY <1>4, <2>2, <3>1, AgedAge
      <4> QED BY <1>2, <1>3, <1>4, <2>3, <2>4, <3>1, <4>1 DEF TextKept, Ages
    <3>2. CASE schedule.checkpoint = Nil
      <4>1. schedule'.checkpoint = Nil
        BY <2>2, <3>2 DEF Aged
      <4>2. CASE schedule.dirty # Nil
        BY <1>2, <1>3, <1>4, <2>2, <2>4, <3>2, <4>1, <4>2, AutosaveNil DEF TextKept, Ages
      <4>3. CASE schedule.dirty = Nil
        BY <1>2, <1>4, <2>2, <2>4, <3>2, <4>1, <4>3, AutosaveNil DEF TextKept, Ages
      <4> QED BY <4>2, <4>3
    <3> QED BY <3>1, <3>2
  <2>7. lag'.layout <= MaxDirty
    <3>1. schedule'.dirty \in Ages
      BY <1>1 DEF AutosaveTypeOK
    <3> QED BY <2>3, <2>4, <2>5, <3>1, PeriodsAssumption DEF LayoutKept, Ages
  <2>8. lag'.text <= TextEvery
    <3>1. schedule'.dirty \in Ages /\ schedule'.checkpoint \in Ages
      BY <1>1 DEF AutosaveTypeOK
    <3> QED BY <2>3, <2>4, <2>6, <3>1, PeriodsAssumption DEF TextKept, Ages
  <2>9. DiskKept'
    BY <1>2, <2>1, Zenon DEF DiskKept
  <2> QED BY <1>1, <1>2, <2>5, <2>6, <2>7, <2>8, <2>9
<1> QED BY <1>5, <1>6

-----------------------------------------------------------------------------
(* The other steps.                                                         *)

\* The initial states satisfy the invariant.
LEMMA AutosaveInvInit == AutosaveInit => AutosaveInv
<1> SUFFICES ASSUME AutosaveInit PROVE AutosaveInv
  OBVIOUS
<1>1. AutosaveTypeOK
  BY DEF AutosaveInit, AutosaveTypeOK, Ages, Values
<1>2. LayoutKept /\ TextKept
  BY DEF AutosaveInit, LayoutKept, TextKept
<1>3. DiskKept
  BY DEF AutosaveInit, DiskKept
<1>4. lag.layout <= MaxDirty /\ lag.text <= TextEvery
  BY PeriodsAssumption DEF AutosaveInit
<1> QED BY <1>1, <1>2, <1>3, <1>4 DEF AutosaveInv

\* What the user, the writer and the end of the application do keeps the invariant.
LEMMA OthersPreserve ==
    ASSUME AutosaveInv,
           \/ Changed \/ Takes \/ Finish \/ WriterEnds
           \/ \E replaced, ok \in BOOLEAN : Writes(replaced, ok)
    PROVE  AutosaveInv'
<1> USE DEF AutosaveInv
<1>0. UNCHANGED <<schedule, lag>> /\ (stage' = "running" => stage = "running")
  BY DEF Changed, Takes, Finish, WriterEnds, Writes
<1>1. UNCHANGED handed \/ stage' # "running"
  BY DEF Changed, Takes, Finish, WriterEnds, Writes
<1>2. stage' = "running" => LayoutKept' /\ TextKept'
  BY <1>0, <1>1 DEF LayoutKept, TextKept
<1>3. CASE Changed
  <2>1. AutosaveTypeOK'
    BY <1>3 DEF Changed, AutosaveTypeOK, diskVars
  <2>2. DiskKept'
    BY <1>3 DEF Changed, DiskKept, diskVars
  <2> QED BY <1>0, <1>2, <2>1, <2>2
<1>4. CASE Takes
  <2>1. handed # Nil /\ writer.at = "waiting"
    BY <1>4 DEF Takes, DiskKept
  <2>2. CASE written = handed
    <3>1. AutosaveTypeOK'
      BY <1>4, <2>2 DEF Takes, AutosaveTypeOK
    <3>2. DiskKept'
      BY <1>4, <2>1, <2>2 DEF Takes, DiskKept
    <3> QED BY <1>0, <1>2, <3>1, <3>2
  <2>3. CASE written # handed
    <3>1. AutosaveTypeOK'
      BY <1>4, <2>3 DEF Takes, AutosaveTypeOK
    <3>2. DiskKept'
      BY <1>4, <2>1, <2>3 DEF Takes, DiskKept
    <3> QED BY <1>0, <1>2, <3>1, <3>2
  <2> QED BY <2>2, <2>3
<1>5. CASE Finish
  <2>1. AutosaveTypeOK'
    BY <1>5 DEF Finish, AutosaveTypeOK, diskVars, Values
  <2>2. DiskKept'
    BY <1>5, AutosaveNil DEF Finish, DiskKept, diskVars, AutosaveTypeOK
  <2> QED BY <1>0, <1>2, <2>1, <2>2
<1>6. CASE WriterEnds
  <2>1. writer'.at = "ended" /\ writer.at = "waiting" /\ writer'.snapshot = writer.snapshot
    BY <1>6 DEF WriterEnds, AutosaveTypeOK
  <2>2. AutosaveTypeOK'
    BY <1>6 DEF WriterEnds, AutosaveTypeOK
  <2>3. DiskKept'
    BY <1>6, <2>1 DEF WriterEnds, DiskKept
  <2> QED BY <1>0, <1>2, <2>2, <2>3
<1>7. ASSUME NEW replaced \in BOOLEAN, NEW ok \in BOOLEAN, Writes(replaced, ok) PROVE AutosaveInv'
  <2>1. AutosaveTypeOK'
    BY <1>7 DEF Writes, AutosaveTypeOK, Remembers, Values
  <2>2. DiskKept'
    BY <1>7 DEF Writes, DiskKept, Remembers
  <2> QED BY <1>0, <1>2, <2>1, <2>2
<1> QED BY <1>3, <1>4, <1>5, <1>6, <1>7

\* Every step keeps the invariant.
LEMMA AutosaveInvStep == AutosaveInv /\ [AutosaveNext]_autosaveVars => AutosaveInv'
<1> SUFFICES ASSUME AutosaveInv, [AutosaveNext]_autosaveVars PROVE AutosaveInv'
  OBVIOUS
<1>1. CASE UNCHANGED autosaveVars
  BY <1>1, Zenon DEF autosaveVars, AutosaveInv, AutosaveTypeOK, LayoutKept, TextKept, DiskKept
<1>2. CASE Poll
  BY <1>2, PollPreserves
<1> QED BY <1>1, <1>2, OthersPreserve DEF AutosaveNext

\* The value handed to the writer is never further behind the workspace than
\* the two periods, and is what the file holds whenever the writer is idle and
\* no save has failed (CheckpointSchedule::observe, write_snapshots).
THEOREM CheckpointsAreKept == AutosaveSpec => []CheckpointsKept
<1>1. AutosaveInv => CheckpointsKept
  BY DEF AutosaveInv, DiskKept, CheckpointsKept, AutosaveTypeOK
<1> QED BY <1>1, AutosaveInvInit, AutosaveInvStep, PTL DEF AutosaveSpec

-----------------------------------------------------------------------------
(* Refreshes.  That no change is forgotten is inductive once it is known    *)
(* that a batch in progress is still recorded as pending, and that a        *)
(* pending batch which is not in progress has a callback in the event loop. *)

RefreshSpec == RefreshInit /\ [][RefreshNext]_refreshVars

RefreshTypeOK ==
    /\ stale \subseteq Items /\ owed \subseteq Items
    /\ screens \subseteq Screens
    /\ full \in BOOLEAN /\ badges \in BOOLEAN /\ asked \in BOOLEAN
    /\ inProgress \in BOOLEAN /\ newer \in BOOLEAN /\ looping \in BOOLEAN
    /\ scheduled \in Nat

(* The flags of UiRefreshState and the event loop agree: in_progress implies *)
(* pending, and the first request of a batch has a callback to serve it.     *)
PendingIsServed ==
    /\ inProgress => asked
    /\ (looping /\ asked /\ ~inProgress) => scheduled > 0

RefreshInv == RefreshTypeOK /\ PendingIsServed /\ NothingForgotten

(* A recorded request is covered by the batch, and what was covered before   *)
(* stays covered: request_ui_refresh drops the terminals only for a full     *)
(* refresh, which rebuilds them all.                                         *)
LEMMA RecordedCovers ==
    ASSUME RefreshTypeOK, NEW x \in Items, Recorded(x)
    PROVE  /\ x \in Covered'
           /\ \A y \in Items : y \in Covered => y \in Covered'
           /\ x = Layout => Covered' = Items
           /\ full' \in BOOLEAN /\ badges' \in BOOLEAN /\ screens' \subseteq Screens
<1>1. CASE x = Layout
  BY <1>1 DEF Recorded, Covered, Items, RefreshTypeOK
<1>2. CASE x # Layout /\ full
  BY <1>2 DEF Recorded, Covered, Items, RefreshTypeOK
<1>3. CASE x # Layout /\ ~full
  <2>1. full' = FALSE /\ badges' = (badges \/ x = Badges)
        /\ screens' = IF x \in Screens THEN screens \cup {x} ELSE screens
    BY <1>3 DEF Recorded
  <2>2. Covered' = (IF badges' THEN {Badges} ELSE {}) \cup screens'
    BY <2>1 DEF Covered
  <2>3. Covered = (IF badges THEN {Badges} ELSE {}) \cup screens
    BY <1>3 DEF Covered
  <2> QED BY <1>3, <2>1, <2>2, <2>3 DEF Items, RefreshTypeOK
<1> QED BY <1>1, <1>2, <1>3 DEF RefreshTypeOK

\* A change of a shown item owes a request for it and keeps the invariant.
LEMMA ChangesPreserves ==
    ASSUME RefreshInv, NEW x \in Items, Changes(x)
    PROVE  RefreshInv'
<1>1. Covered' = Covered
  BY DEF Changes, requestVars, Covered
<1>2. RefreshTypeOK' /\ PendingIsServed'
  BY DEF RefreshInv, RefreshTypeOK, PendingIsServed, Changes, requestVars
<1>3. NothingForgotten'
  BY <1>1 DEF RefreshInv, NothingForgotten, Changes, requestVars
<1> QED BY <1>2, <1>3 DEF RefreshInv

\* A request, coalesced with a scheduled batch or scheduling one, keeps the invariant.
LEMMA RequestsPreserves ==
    ASSUME RefreshInv, NEW x \in Items, Requests(x)
    PROVE  RefreshInv'
<1> USE DEF RefreshInv
<1>1. CASE asked /\ Recorded(x) /\ Coalesces /\ UNCHANGED <<asked, inProgress, scheduled>>
  <2>0. newer' \in BOOLEAN /\ (inProgress => newer')
    BY <1>1 DEF Coalesces, RefreshTypeOK
  <2>1. RefreshTypeOK'
    BY <1>1, <2>0, RecordedCovers DEF Requests, RefreshTypeOK
  <2>2. PendingIsServed'
    BY <1>1 DEF Requests, PendingIsServed
  <2>3. ASSUME looping', NEW y \in stale'
        PROVE  \/ y \in owed' \/ Layout \in owed'
               \/ /\ y \in Covered' /\ asked'
                  /\ IF inProgress' THEN newer' ELSE scheduled' > 0
    <3>1. y \in stale /\ y \in Items /\ looping
      BY <2>3 DEF Requests, RefreshTypeOK
    <3>2. IF inProgress' THEN newer' ELSE scheduled' > 0
      BY <1>1, <2>0, <3>1 DEF PendingIsServed
    <3>3. \/ y \in owed \/ Layout \in owed \/ y \in Covered
      BY <3>1 DEF NothingForgotten
    <3> QED BY <1>1, <3>1, <3>2, <3>3, RecordedCovers DEF Requests
  <2> QED BY <2>1, <2>2, <2>3 DEF NothingForgotten
<1>2. CASE /\ ~asked /\ looping /\ scheduled < MaxScheduled /\ Recorded(x)
           /\ asked' = TRUE /\ scheduled' = scheduled + 1
           /\ UNCHANGED <<inProgress, newer>>
  <2>1. RefreshTypeOK'
    BY <1>2, RecordedCovers DEF Requests, RefreshTypeOK
  <2>2. ~inProgress' /\ scheduled' > 0
    BY <1>2 DEF PendingIsServed, RefreshTypeOK
  <2>3. PendingIsServed'
    BY <1>2, <2>2 DEF PendingIsServed
  <2>4. ASSUME NEW y \in stale'
        PROVE  y \in owed' \/ Layout \in owed' \/ y \in Covered'
    <3>1. y \in Items /\ (y \in owed \/ Layout \in owed)
      BY <1>2 DEF Requests, RefreshTypeOK, NothingForgotten
    <3> QED BY <1>2, <3>1, RecordedCovers DEF Requests
  <2> QED BY <1>2, <2>1, <2>2, <2>3, <2>4 DEF NothingForgotten
<1>3. CASE /\ ~asked /\ ~looping
           /\ full' = FALSE /\ badges' = FALSE /\ screens' = {}
           /\ asked' = FALSE /\ inProgress' = FALSE /\ newer' = FALSE
           /\ UNCHANGED scheduled
  BY <1>3 DEF Requests, RefreshTypeOK, PendingIsServed, NothingForgotten
<1> QED BY <1>1, <1>2, <1>3 DEF Requests

\* Taking the batch at the start of a frame keeps the invariant.
LEMMA TakesBatchPreserves ==
    ASSUME RefreshInv, TakesBatch
    PROVE  RefreshInv'
<1> USE DEF RefreshInv
<1>0. scheduled - 1 \in Nat
  BY DEF TakesBatch, RefreshTypeOK
<1>1. CASE asked
  <2>1. RefreshTypeOK' /\ PendingIsServed'
    BY <1>0, <1>1 DEF TakesBatch, RefreshTypeOK, PendingIsServed
  <2>2. \A y \in stale' : y \in owed' \/ Layout \in owed'
    BY <1>1 DEF TakesBatch, NothingForgotten
  <2> QED BY <2>1, <2>2 DEF NothingForgotten
<1>2. CASE ~asked
  <2>1. RefreshTypeOK' /\ PendingIsServed'
    BY <1>0, <1>2 DEF TakesBatch, RefreshTypeOK, PendingIsServed
  <2>2. \A y \in stale' : y \in owed' \/ Layout \in owed'
    BY <1>2 DEF TakesBatch, NothingForgotten
  <2> QED BY <2>1, <2>2 DEF NothingForgotten
<1> QED BY <1>1, <1>2

\* Ending a frame, rescheduling when newer requests came, keeps the invariant.
LEMMA FinishesBatchPreserves ==
    ASSUME RefreshInv, FinishesBatch
    PROVE  RefreshInv'
<1> USE DEF RefreshInv
<1>0. /\ scheduled' \in Nat
      /\ newer => scheduled' > 0
  BY DEF FinishesBatch, RefreshTypeOK
<1>1. RefreshTypeOK' /\ PendingIsServed'
  BY Zenon, <1>0 DEF FinishesBatch, RefreshTypeOK, PendingIsServed
<1>2. Covered' = Covered
  BY DEF FinishesBatch, Covered
<1>3. NothingForgotten'
  BY Zenon, <1>0, <1>2 DEF FinishesBatch, NothingForgotten
<1> QED BY <1>1, <1>3

(* While the event loop runs, no change of the state is forgotten by the     *)
(* display: it is still to be asked for, or it is in a batch that is served. *)
(* request_ui_refresh, take_ui_refresh_batch and finish_ui_refresh lose no   *)
(* request that is made while a batch is applied without the lock.           *)
THEOREM RefreshLosesNothing == RefreshSpec => []NothingForgotten
<1>1. RefreshInit => RefreshInv
  <2>1. 0 \in Nat
    OBVIOUS
  <2> QED BY Zenon, <2>1 DEF RefreshInit, RefreshInv, RefreshTypeOK, PendingIsServed, NothingForgotten
<1>2. RefreshInv /\ [RefreshNext]_refreshVars => RefreshInv'
  <2> SUFFICES ASSUME RefreshInv, [RefreshNext]_refreshVars PROVE RefreshInv'
    OBVIOUS
  <2>1. ASSUME NEW x \in Items, Changes(x) PROVE RefreshInv'
    BY <2>1, ChangesPreserves
  <2>2. ASSUME NEW x \in Items, Requests(x) PROVE RefreshInv'
    BY <2>2, RequestsPreserves
  <2>3. CASE TakesBatch
    BY <2>3, TakesBatchPreserves
  <2>4. CASE FinishesBatch
    BY <2>4, FinishesBatchPreserves
  <2>5. CASE Replaces
    BY <2>5 DEF Replaces, RefreshInv, RefreshTypeOK, PendingIsServed, NothingForgotten, Items
  <2>6. CASE LoopEnds
    BY <2>6 DEF LoopEnds, requestVars, RefreshInv, RefreshTypeOK, PendingIsServed, NothingForgotten
  <2>7. CASE UNCHANGED refreshVars
    BY <2>7 DEF refreshVars, RefreshInv, RefreshTypeOK, PendingIsServed, NothingForgotten, Covered
  <2> QED BY <2>1, <2>2, <2>3, <2>4, <2>5, <2>6, <2>7 DEF RefreshNext
<1>3. RefreshInv => NothingForgotten
  BY DEF RefreshInv
<1> QED BY <1>1, <1>2, <1>3, PTL DEF RefreshSpec

-----------------------------------------------------------------------------
(* The tabs, the windows that show them and their pane trees.               *)

WorkspaceSpec == WorkspaceInit /\ [][WorkspaceNext]_workspaceVars

TabKinds == {"ssh", "local", "sftp", "page"}
SomeTab == Tabs \cup {Nil}

WorkspaceTypeOK ==
    /\ kind \in [Tabs -> TabKinds \cup {Nil}] /\ companion \in [Tabs -> SomeTab]
    /\ active \in Open \cup {Nil}
    /\ Main \in live /\ live \subseteq Windows
    /\ owned \in [Windows -> SUBSET Tabs]
    /\ shown \in [Windows -> SomeTab] /\ wanted \in [Windows -> SomeTab]
    /\ trees \in [Windows -> [Tabs -> SUBSET Tabs]]
    /\ pending \in SomeTab /\ closing = {} /\ refreshed \in BOOLEAN /\ used \in Nat

\* The window a tab belongs to: the main one has what no other owns.
Home(w, t) == IF w = Main THEN \A d \in Windows : t \notin owned[d] ELSE t \in owned[w]

\* Detached windows share no tab, and those without a route have none.
Owners ==
    /\ owned[Main] = {}
    /\ \A w \in Windows \ live : owned[w] = {} /\ \A r \in Tabs : trees[w][r] = {}
    /\ \A w \in Windows : \A t \in owned[w] : kind[t] \notin {Nil, "page"}
    /\ \A v, w \in Windows : \A t \in owned[v] : t \in owned[w] => v = w

\* A pane tree has the tab it is named for, terminals of its window only, and no pane of
\* another tree.
Planted ==
    \A w \in Windows, r \in Tabs : \A t \in trees[w][r] :
      /\ r \in trees[w][r] /\ Terminal(t) /\ Home(w, t)
      /\ \A q \in Tabs : t \in trees[w][q] => q = r

\* Companions are a terminal and an SFTP tab of one window.
Pairs ==
    \A t \in Tabs : companion[t] # Nil =>
      /\ companion[companion[t]] = t /\ {kind[t], kind[companion[t]]} = {"ssh", "sftp"}
      /\ \A w \in Windows : t \in owned[w] => companion[t] \in owned[w]

WorkspaceInv ==
    /\ WorkspaceTypeOK /\ Owners /\ Planted /\ Pairs
    /\ \A t \in Tabs : kind[t] # Nil => t <= used
    /\ refreshed => \A w \in live : shown[w] \in Strip(w) \cup {Nil}

-----------------------------------------------------------------------------
(* Every tab has one place.                                                 *)

\* Windows share no tab.
LEMMA OneHome ==
    ASSUME WorkspaceTypeOK, Owners, NEW v \in Windows, NEW w \in Windows, NEW t, Home(v, t), Home(w, t)
    PROVE  v = w
BY DEF Home, Owners

\* Every open tab is in a window.
LEMMA HasHome ==
    ASSUME WorkspaceTypeOK, Owners, NEW t
    PROVE  \E w \in live : Home(w, t)
<1>1. CASE \A d \in Windows : t \notin owned[d]
  BY <1>1 DEF Home, WorkspaceTypeOK
<1>2. CASE \E d \in Windows : t \in owned[d]
  <2> PICK d \in Windows : t \in owned[d]
    BY <1>2
  <2>1. d # Main /\ d \in live
    BY DEF Owners
  <2> QED BY <2>1 DEF Home
<1> QED BY <1>1, <1>2

\* What the strip of a window lists.
LEMMA StripOf ==
    ASSUME WorkspaceTypeOK, Owners, NEW w \in live, NEW t
    PROVE  t \in Strip(w) <=> t \in Open /\ Home(w, t) /\ t \notin Hidden(w)
<1>1. CASE w = Main
  <2>1. (\A d \in Windows : t \notin owned[d]) <=> t \notin UNION {owned[d] : d \in live \ {Main}}
    <3>1. \A d \in Windows : t \in owned[d] => d \in live \ {Main}
      BY DEF Owners, WorkspaceTypeOK
    <3>2. live \subseteq Windows
      BY DEF WorkspaceTypeOK
    <3>3. t \in UNION {owned[d] : d \in live \ {Main}} <=> \E d \in live \ {Main} : t \in owned[d]
      OBVIOUS
    <3> QED BY <3>1, <3>2, <3>3
  <2> QED BY <1>1, <2>1 DEF Strip, Home
<1>2. CASE w # Main
  BY <1>2 DEF Strip, Home
<1> QED BY <1>1, <1>2

\* A tab is found in its own strip, or with the tab its tree is named for.
LEMMA OnePlace ==
    ASSUME WorkspaceInv, NEW t \in Open, NEW w \in live, Home(w, t)
    PROVE  \E r : Places(t) = {<<w, r>>}
<1>1. WorkspaceTypeOK /\ Owners /\ Planted /\ live \subseteq Windows /\ w \in Windows /\ t \in Tabs
  BY DEF WorkspaceInv, WorkspaceTypeOK, Open
<1>2. \A v \in live, r \in Tabs : t \in trees[v][r] => v = w
  BY <1>1, OneHome DEF Planted
<1>3. CASE t \in Hidden(w)
  <2>1. PICK r \in Tabs : t \in trees[w][r] /\ t # r
    BY <1>3 DEF Hidden, Roots
  <2>2. r \in trees[w][r] /\ r \in Open /\ Home(w, r) /\ \A q \in Tabs : r \in trees[w][q] => q = r
    BY <1>1, <2>1, WorkspaceAssumption DEF Planted, Terminal, Open
  <2>3. r \notin Hidden(w)
    BY <2>2 DEF Hidden, Roots
  <2>4. r \in Strip(w)
    BY <1>1, <2>2, <2>3, StripOf
  <2>5. \A v \in live : t \notin Strip(v)
    BY <1>1, <1>3, StripOf, OneHome
  <2>6. \A v \in live : \A q \in RootsOf(v, t) : v = w /\ q = r
    BY <1>1, <1>2, <2>1 DEF RootsOf, Roots, Planted
  <2>7. r \in RootsOf(w, t)
    BY <2>1 DEF RootsOf, Roots
  <2>8. {<<v, t>> : v \in {u \in live : t \in Strip(u)}} = {}
    BY <2>5
  <2>9. \A v \in live : {<<v, q>> : q \in (RootsOf(v, t) \cap Strip(v)) \ {t}} \subseteq {<<w, r>>}
    BY <2>6
  <2>10. <<w, r>> \in {<<w, q>> : q \in (RootsOf(w, t) \cap Strip(w)) \ {t}}
    BY <2>1, <2>4, <2>7
  <2>11. UNION {{<<v, q>> : q \in (RootsOf(v, t) \cap Strip(v)) \ {t}} : v \in live} = {<<w, r>>}
    BY <2>9, <2>10
  <2> QED BY <2>8, <2>11 DEF Places
<1>4. CASE t \notin Hidden(w)
  <2>1. \A v \in live : t \in Strip(v) <=> v = w
    BY <1>1, <1>4, StripOf, OneHome
  <2>2. \A v \in live : \A q \in RootsOf(v, t) : q = t
    BY <1>1, <1>2, <1>4 DEF RootsOf, Roots, Hidden
  <2>3. {<<v, t>> : v \in {u \in live : t \in Strip(u)}} = {<<w, t>>}
    BY <2>1
  <2>4. \A v \in live : {<<v, q>> : q \in (RootsOf(v, t) \cap Strip(v)) \ {t}} = {}
    BY <2>2
  <2>5. UNION {{<<v, q>> : q \in (RootsOf(v, t) \cap Strip(v)) \ {t}} : v \in live} = {}
    BY <2>4
  <2> QED BY <2>3, <2>5 DEF Places
<1> QED BY <1>3, <1>4

\* The invariant says what is promised.
LEMMA WorkspaceIsWhole == WorkspaceInv => WorkspaceWhole
<1> SUFFICES ASSUME WorkspaceInv PROVE WorkspaceWhole
  OBVIOUS
<1>1. WorkspaceTypeOK /\ Owners /\ Planted /\ Pairs
  BY DEF WorkspaceInv
<1>2. ASSUME NEW t \in Open PROVE Cardinality(Places(t)) = 1
  BY <1>1, HasHome, OnePlace, FS_Singleton
<1>3. ASSUME NEW t \in Open, companion[t] # Nil
      PROVE  /\ companion[companion[t]] = t
             /\ {kind[t], kind[companion[t]]} = {"ssh", "sftp"}
             /\ \A p \in Places(t), q \in Places(companion[t]) : p[1] = q[1]
  <2> DEFINE c == companion[t]
  <2>1. t \in Tabs /\ c \in Tabs /\ companion[c] = t /\ {kind[t], kind[c]} = {"ssh", "sftp"}
    BY <1>1, <1>3 DEF Open, WorkspaceTypeOK, SomeTab, Pairs
  <2>2. t # Nil /\ c \in Open
    BY <2>1, WorkspaceAssumption DEF Open
  <2>3. \A w \in Windows : t \in owned[w] <=> c \in owned[w]
    BY <1>1, <1>3, <2>1, <2>2 DEF Pairs
  <2>4. \A w \in Windows : Home(w, t) => Home(w, c)
    BY <2>3 DEF Home
  <2>5. PICK w \in live : Home(w, t)
    BY <1>1, HasHome
  <2>6. Home(w, c)
    BY <1>1, <2>4, <2>5 DEF WorkspaceTypeOK
  <2>7. (\E r : Places(t) = {<<w, r>>}) /\ \E r : Places(c) = {<<w, r>>}
    <3> HIDE DEF c
    <3> QED BY <2>2, <2>5, <2>6, OnePlace
  <2> HIDE DEF c
  <2>8. \A p \in Places(t), q \in Places(c) : p[1] = q[1]
    BY <2>7
  <2> QED BY <2>1, <2>8 DEF c
<1>4. ASSUME refreshed PROVE Valid
  <2>1. active \in Open \cup {Nil}
    BY <1>1 DEF WorkspaceTypeOK
  <2>2. \A t \in Open : companion[t] \in Open \cup {Nil}
    BY <1>1, WorkspaceAssumption DEF WorkspaceTypeOK, Pairs, Open, SomeTab
  <2>3. ASSUME NEW w \in live
        PROVE  /\ Listed(w) \subseteq Open
               /\ shown[w] \in Listed(w) \cup {Nil}
               /\ Leaves(w) \subseteq Listed(w)
    <3>1. w \in Windows
      BY <1>1 DEF WorkspaceTypeOK
    <3>2. Listed(w) \subseteq Open
      BY <1>1, <3>1 DEF Listed, Owners, WorkspaceTypeOK, Open
    <3>3. \A t \in Open : Home(w, t) => t \in Listed(w)
      BY DEF Listed, Home
    <3>4. shown[w] \in Listed(w) \cup {Nil}
      BY <1>1, <1>4, <3>3, StripOf DEF WorkspaceInv
    <3>5. Leaves(w) \subseteq Listed(w)
      <4>1. \A r \in Tabs : \A t \in trees[w][r] : t \in Open /\ Home(w, t)
        BY <1>1, <3>1, WorkspaceAssumption DEF Planted, Terminal, Open, WorkspaceTypeOK
      <4> QED BY <3>3, <4>1 DEF Leaves, Roots
    <3> QED BY <3>2, <3>4, <3>5
  <2> QED BY <2>1, <2>2, <2>3 DEF Valid
<1> QED BY <1>2, <1>3, <1>4 DEF WorkspaceWhole

-----------------------------------------------------------------------------
(* Closing tabs.                                                            *)

\* Tabs are closed and lose their companions.
LEMMA Unpaired ==
    ASSUME WorkspaceTypeOK, Pairs, NEW gone \in SUBSET Tabs,
           kind' = [t \in Tabs |-> IF t \in gone THEN Nil ELSE kind[t]], companion' = Unlinked(gone),
           \A w \in Windows : owned'[w] \in {owned[w] \ gone, {}}
    PROVE  /\ kind' \in [Tabs -> TabKinds \cup {Nil}] /\ companion' \in [Tabs -> SomeTab]
           /\ Open' = Open \ gone /\ Pairs'
<1>1. \A t \in Tabs : kind[t] \in TabKinds \cup {Nil} /\ companion[t] \in SomeTab
  BY DEF WorkspaceTypeOK
<1>2. \A t \in Tabs : kind'[t] = IF t \in gone THEN Nil ELSE kind[t]
  OBVIOUS
<1>3. kind' \in [Tabs -> TabKinds \cup {Nil}] /\ Open' = Open \ gone
  BY <1>1 DEF Open
<1>4. \A t \in Tabs : companion'[t] = IF t \in gone \/ companion[t] \in gone THEN Nil ELSE companion[t]
  BY DEF Unlinked
<1>5. companion' \in [Tabs -> SomeTab]
  BY <1>1, WorkspaceAssumption DEF Unlinked, SomeTab
<1>6. ASSUME NEW t \in Tabs, companion'[t] # Nil
      PROVE  /\ companion'[companion'[t]] = t /\ {kind'[t], kind'[companion'[t]]} = {"ssh", "sftp"}
             /\ \A w \in Windows : t \in owned'[w] => companion'[t] \in owned'[w]
  <2> DEFINE c == companion[t]
  <2>1. companion'[t] = c /\ c # Nil /\ t \notin gone /\ c \notin gone /\ c \in Tabs
    BY <1>1, <1>4, <1>6 DEF SomeTab
  <2>2. companion[c] = t /\ {kind[t], kind[c]} = {"ssh", "sftp"}
        /\ \A w \in Windows : t \in owned[w] => c \in owned[w]
    BY <2>1 DEF Pairs
  <2> HIDE DEF c
  <2>3. companion'[c] = t /\ {kind'[t], kind'[c]} = {"ssh", "sftp"}
    BY <1>2, <1>4, <2>1, <2>2
  <2> QED BY <2>1, <2>2, <2>3
<1>7. Pairs'
  BY <1>6 DEF Pairs
<1> QED BY <1>3, <1>5, <1>7

\* Tabs are closed and leave the windows and the pane trees.
LEMMA CloseStep ==
    ASSUME WorkspaceInv, NEW gone \in SUBSET Tabs,
           kind' = [t \in Tabs |-> IF t \in gone THEN Nil ELSE kind[t]], companion' = Unlinked(gone),
           active' \in (Open \ gone) \cup {Nil},
           owned' \in [Windows -> SUBSET Tabs], \A w \in Windows : owned'[w] = owned[w] \ gone,
           shown' \in [Windows -> SomeTab], wanted' \in [Windows -> SomeTab],
           trees' \in [Windows -> [Tabs -> SUBSET Tabs]],
           \A w \in Windows, r \in Tabs : trees'[w][r] \subseteq trees[w][r] \ gone,
           \A w \in Windows, r \in Tabs : trees'[w][r] # {} => r \in trees'[w][r],
           UNCHANGED <<live, pending, closing, used>>, refreshed' = FALSE
    PROVE  WorkspaceInv'
<1>1. WorkspaceTypeOK /\ Owners /\ Planted /\ Pairs
  BY DEF WorkspaceInv
<1>2. /\ kind' \in [Tabs -> TabKinds \cup {Nil}] /\ companion' \in [Tabs -> SomeTab]
      /\ Open' = Open \ gone /\ Pairs'
  BY <1>1, Unpaired
<1>3. \A t \in Tabs : kind'[t] = IF t \in gone THEN Nil ELSE kind[t]
  OBVIOUS
<1>4. WorkspaceTypeOK'
  BY <1>1, <1>2 DEF WorkspaceTypeOK
<1>5. Owners'
  <2>1. owned'[Main] = {}
    BY <1>1 DEF Owners, Windows
  <2>2. \A w \in Windows \ live' : owned'[w] = {} /\ \A r \in Tabs : trees'[w][r] = {}
    BY SMTT(40), <1>1 DEF Owners
  <2>3. \A w \in Windows : \A t \in owned'[w] : kind'[t] \notin {Nil, "page"}
    BY <1>1, <1>3 DEF Owners, WorkspaceTypeOK
  <2>4. \A v, w \in Windows : \A t \in owned'[v] : t \in owned'[w] => v = w
    BY <1>1 DEF Owners
  <2> QED BY <2>1, <2>2, <2>3, <2>4 DEF Owners
<1>6. Planted'
  <2>1. ASSUME NEW w \in Windows, NEW r \in Tabs, NEW t \in trees'[w][r]
        PROVE  /\ r \in trees'[w][r] /\ Terminal(t)' /\ Home(w, t)'
               /\ \A q \in Tabs : t \in trees'[w][q] => q = r
    <3>1. t \in trees[w][r] /\ t \notin gone /\ t \in Tabs /\ r \in trees'[w][r]
      BY <1>1, <2>1 DEF WorkspaceTypeOK
    <3>2. Terminal(t) /\ Home(w, t) /\ \A q \in Tabs : t \in trees[w][q] => q = r
      BY <1>1, <3>1 DEF Planted
    <3>3. Terminal(t)' /\ Home(w, t)'
      BY <1>3, <3>1, <3>2 DEF Terminal, Home
    <3> QED BY <3>1, <3>2, <3>3
  <2> QED BY <2>1 DEF Planted
<1>7. \A t \in Tabs : kind'[t] # Nil => t <= used'
  BY <1>3 DEF WorkspaceInv
<1> QED BY <1>2, <1>4, <1>5, <1>6, <1>7 DEF WorkspaceInv

\* close_tab leaves an open tab active.
LEMMA ClosesTabs ==
    ASSUME WorkspaceTypeOK, NEW gone, Closes(gone)
    PROVE  /\ kind' = [t \in Tabs |-> IF t \in gone THEN Nil ELSE kind[t]] /\ companion' = Unlinked(gone)
           /\ active' \in (Open \ gone) \cup {Nil}
BY DEF Closes, WorkspaceTypeOK

\* The session editor closes its own tab.
LEMMA EditorClosesKeeps == \A t \in Open : WorkspaceInv /\ EditorCloses(t) => WorkspaceInv'
<1> SUFFICES ASSUME NEW t \in Open, WorkspaceInv, EditorCloses(t) PROVE WorkspaceInv'
  OBVIOUS
<1>1. WorkspaceTypeOK /\ Owners /\ Planted /\ {t} \in SUBSET Tabs
  BY DEF WorkspaceInv, Open
<1>2. UNCHANGED <<routeVars, pending, closing, used>> /\ refreshed' = FALSE /\ Closes({t}) /\ kind[t] = "page"
  BY DEF EditorCloses
<1>3. UNCHANGED <<live, owned, wanted, shown, trees>>
  BY <1>2 DEF routeVars
<1>4. \A w \in Windows : owned'[w] = owned[w] \ {t}
  BY <1>1, <1>2, <1>3 DEF Owners
<1>5. \A w \in Windows, r \in Tabs : t \notin trees[w][r]
  BY <1>1, <1>2 DEF Planted, Terminal
<1>6. \A w \in Windows, r \in Tabs : trees'[w][r] \subseteq trees[w][r] \ {t}
      /\ (trees'[w][r] # {} => r \in trees'[w][r])
  BY <1>1, <1>3, <1>5 DEF Planted
<1>7. /\ kind' = [x \in Tabs |-> IF x \in {t} THEN Nil ELSE kind[x]] /\ companion' = Unlinked({t})
      /\ active' \in (Open \ {t}) \cup {Nil}
  BY <1>1, <1>2, ClosesTabs
<1>8. /\ owned' \in [Windows -> SUBSET Tabs] /\ shown' \in [Windows -> SomeTab]
      /\ wanted' \in [Windows -> SomeTab] /\ trees' \in [Windows -> [Tabs -> SUBSET Tabs]]
  BY <1>1, <1>3 DEF WorkspaceTypeOK
<1> QED BY <1>1, <1>2, <1>3, <1>4, <1>6, <1>7, <1>8, CloseStep

\* A tree that is taken out has no pane in common with the others.
LEMMA TakenApart ==
    ASSUME WorkspaceTypeOK, Owners, Planted, NEW t \in Tabs
    PROVE  /\ Taken(t) \in SUBSET Tabs
           /\ \A w \in Windows, r \in Tabs : t \notin trees[w][r] => trees[w][r] \cap Taken(t) = {}
<1>1. CASE ~\E w \in live : RootsOf(w, t) # {}
  <2>1. Taken(t) = {t}
    BY <1>1 DEF Taken
  <2> QED BY <2>1
<1>2. CASE \E w \in live : RootsOf(w, t) # {}
  <2>1. Taken(t) = UNION {UNION {trees[w][r] : r \in RootsOf(w, t)} : w \in live}
    BY <1>2 DEF Taken
  <2>2. \A x \in Taken(t) : \E w \in live, r \in Tabs : x \in trees[w][r] /\ t \in trees[w][r]
    BY <2>1 DEF RootsOf, Roots
  <2>3. live \subseteq Windows /\ \A w \in Windows, r \in Tabs : trees[w][r] \subseteq Tabs
    BY DEF WorkspaceTypeOK
  <2>4. ASSUME NEW w \in Windows, NEW r \in Tabs, NEW x \in Taken(t), x \in trees[w][r]
        PROVE  t \in trees[w][r]
    <3> PICK v \in live, q \in Tabs : x \in trees[v][q] /\ t \in trees[v][q]
      BY <2>2
    <3>1. v = w
      BY <2>3, <2>4, OneHome DEF Planted
    <3>2. q = r
      BY <2>4, <3>1 DEF Planted
    <3> QED BY <3>1, <3>2
  <2>5. Taken(t) \in SUBSET Tabs
    BY <2>2, <2>3
  <2> QED BY <2>4, <2>5
<1> QED BY <1>1, <1>2

\* close_workspace_tab: the tab goes with the tree it stands for.
LEMMA CloseTabKeeps == \A t \in Open : WorkspaceInv /\ CloseTab(t) => WorkspaceInv'
<1> SUFFICES ASSUME NEW t \in Open, WorkspaceInv, CloseTab(t) PROVE WorkspaceInv'
  OBVIOUS
<1>1. WorkspaceTypeOK /\ Owners /\ Planted /\ t \in Tabs
  BY DEF WorkspaceInv, Open
<1> DEFINE gone == Taken(t)
<1>2. /\ gone \in SUBSET Tabs
      /\ \A w \in Windows, r \in Tabs : t \notin trees[w][r] => trees[w][r] \cap gone = {}
  BY <1>1, TakenApart
<1>3. UNCHANGED <<pending, closing, used, live, wanted>> /\ refreshed' = FALSE /\ Closes(gone)
  BY DEF CloseTab, TakesOut
<1>4. /\ trees' = [w \in Windows |-> [r \in Tabs |-> IF t \in trees[w][r] THEN {} ELSE trees[w][r]]]
      /\ owned' = [w \in Windows |-> owned[w] \ gone]
      /\ \E stood : shown' = [w \in Windows |-> IF shown[w] \in stood THEN Nil ELSE shown[w]]
  BY DEF CloseTab, TakesOut
<1> HIDE DEF gone
<1>5. \A w \in Windows, r \in Tabs : trees'[w][r] = IF t \in trees[w][r] THEN {} ELSE trees[w][r]
  BY <1>4
<1>6. \A w \in Windows, r \in Tabs : trees'[w][r] \subseteq trees[w][r] \ gone
      /\ (trees'[w][r] # {} => r \in trees'[w][r])
  BY <1>1, <1>2, <1>5 DEF Planted
<1>7. /\ kind' = [x \in Tabs |-> IF x \in gone THEN Nil ELSE kind[x]] /\ companion' = Unlinked(gone)
      /\ active' \in (Open \ gone) \cup {Nil}
  BY <1>1, <1>3, ClosesTabs
<1>8. /\ owned' \in [Windows -> SUBSET Tabs] /\ shown' \in [Windows -> SomeTab]
      /\ wanted' \in [Windows -> SomeTab] /\ trees' \in [Windows -> [Tabs -> SUBSET Tabs]]
  <2>1. shown' \in [Windows -> SomeTab]
    BY <1>1, <1>4 DEF WorkspaceTypeOK, SomeTab
  <2>2. wanted' \in [Windows -> SomeTab] /\ owned' \in [Windows -> SUBSET Tabs]
    BY <1>1, <1>3, <1>4 DEF WorkspaceTypeOK
  <2>3. trees' \in [Windows -> [Tabs -> SUBSET Tabs]]
    BY <1>1, <1>4 DEF WorkspaceTypeOK
  <2> QED BY <2>1, <2>2, <2>3
<1>9. \A w \in Windows : owned'[w] = owned[w] \ gone
  BY <1>4
<1> QED BY <1>2, <1>3, <1>6, <1>7, <1>8, <1>9, CloseStep

\* remove_terminal_child_pane: the pane leaves its tree.
LEMMA ClosePaneKeeps ==
    ASSUME WorkspaceInv, NEW w \in live, NEW r \in Roots(w), NEW t \in trees[w][r], ClosePane(w, r, t)
    PROVE  WorkspaceInv'
<1>1. WorkspaceTypeOK /\ Owners /\ Planted /\ w \in Windows /\ r \in Tabs /\ t \in Tabs
  BY DEF WorkspaceInv, WorkspaceTypeOK, Roots
<1>2. UNCHANGED <<live, pending, closing, used>> /\ refreshed' = FALSE /\ t # r
  BY DEF ClosePane
<1>3. trees' = [trees EXCEPT ![w][r] = @ \ {t}] /\ owned' = [owned EXCEPT ![w] = @ \ {t}]
  BY DEF ClosePane
<1>4. \A v \in Windows : owned'[v] = owned[v] \ {t}
  <2>1. \A v \in Windows : t \in owned[v] => v = w
    BY <1>1 DEF Planted, Owners, Home
  <2> QED BY <1>1, <1>3, <2>1 DEF WorkspaceTypeOK
<1>5. \A v \in Windows, q \in Tabs :
        trees'[v][q] = IF v = w /\ q = r THEN trees[w][r] \ {t} ELSE trees[v][q]
  BY <1>1, <1>3 DEF WorkspaceTypeOK
<1>6. \A v \in Windows, q \in Tabs : t \in trees[v][q] => v = w /\ q = r
  BY <1>1, OneHome DEF Planted
<1>7. \A v \in Windows, q \in Tabs : trees'[v][q] \subseteq trees[v][q] \ {t}
      /\ (trees'[v][q] # {} => q \in trees'[v][q])
  BY <1>1, <1>2, <1>5, <1>6 DEF Planted
<1>8. /\ kind' = [x \in Tabs |-> IF x \in {t} THEN Nil ELSE kind[x]] /\ companion' = Unlinked({t})
      /\ active' \in (Open \ {t}) \cup {Nil}
  <2>1. kind' = [x \in Tabs |-> IF x \in {t} THEN Nil ELSE kind[x]]
    BY <1>1 DEF ClosePane, WorkspaceTypeOK
  <2>2. companion' = Unlinked({t})
    BY DEF ClosePane
  <2>3. PICK survivor \in trees[w][r] \ {t} :
          active' \in IF active # t THEN {active}
                      ELSE IF survivor \in Open THEN {survivor} ELSE (Open \ {t}) \cup {Nil}
    BY DEF ClosePane
  <2>4. active' \in (Open \ {t}) \cup {Nil}
    BY <1>1, <2>3 DEF WorkspaceTypeOK
  <2> QED BY <2>1, <2>2, <2>4
<1>9. /\ owned' \in [Windows -> SUBSET Tabs] /\ shown' \in [Windows -> SomeTab]
      /\ wanted' \in [Windows -> SomeTab] /\ trees' \in [Windows -> [Tabs -> SUBSET Tabs]]
  <2>1. shown' \in [Windows -> SomeTab]
    BY <1>1 DEF ClosePane, WorkspaceTypeOK, SomeTab
  <2>2. PICK survivor \in trees[w][r] \ {t} :
          wanted' = IF wanted[w] = t THEN [wanted EXCEPT ![w] = survivor] ELSE wanted
    BY DEF ClosePane
  <2>3. survivor \in SomeTab
    BY <1>1 DEF WorkspaceTypeOK, SomeTab
  <2>4. wanted' \in [Windows -> SomeTab]
    BY <1>1, <2>2, <2>3 DEF WorkspaceTypeOK
  <2>5. owned' \in [Windows -> SUBSET Tabs] /\ trees' \in [Windows -> [Tabs -> SUBSET Tabs]]
    BY <1>1, <1>3 DEF WorkspaceTypeOK
  <2> QED BY <2>1, <2>4, <2>5
<1>10. {t} \in SUBSET Tabs
  BY <1>1
<1> QED BY <1>2, <1>4, <1>7, <1>8, <1>9, <1>10, CloseStep

-----------------------------------------------------------------------------
(* Showing tabs.                                                            *)

\* Tabs are numbered.
LEMMA TabNumbers == Tabs \subseteq Nat
BY WorkspaceAssumption, FS_CardinalityType

\* Panes that are hidden behind the tab of their tree.
LEMMA HiddenPane ==
    ASSUME NEW w, NEW x
    PROVE  x \in Hidden(w) <=> \E r \in Tabs : x \in trees[w][r] /\ x # r
BY DEF Hidden, Roots

\* Tabs of a window get a pane tree of their own, others are shown or focused.
LEMMA ShowStep ==
    ASSUME WorkspaceInv, UNCHANGED <<kind, companion, live, owned, closing>>,
           used' \in {used, used + 1}, active' \in Open \cup {Nil}, pending' \in SomeTab, refreshed' \in BOOLEAN,
           shown' \in [Windows -> SomeTab], wanted' \in [Windows -> SomeTab],
           trees' \in [Windows -> [Tabs -> SUBSET Tabs]],
           \A w \in Windows, r \in Tabs :
             \/ trees'[w][r] = trees[w][r]
             \/ trees'[w][r] = {r} /\ trees[w][r] = {} /\ Terminal(r) /\ w \in live /\ r \in Strip(w),
           refreshed' => \A w \in live : shown'[w] \in Strip(w) \cup {Nil}
    PROVE  WorkspaceInv'
<1>1. WorkspaceTypeOK /\ Owners /\ Planted /\ Pairs
  BY DEF WorkspaceInv
<1>2. Open' = Open
  BY DEF Open
<1>3. WorkspaceTypeOK'
  BY <1>1, <1>2 DEF WorkspaceTypeOK
<1>4. Pairs'
  BY <1>1 DEF Pairs
<1>5. \A w \in Windows, r \in Tabs : trees'[w][r] \ {r} = trees[w][r] \ {r}
  OBVIOUS
<1>6. \A w \in Windows : Hidden(w)' = Hidden(w)
  <2>1. ASSUME NEW w \in Windows, NEW x
        PROVE  x \in Hidden(w) <=> x \in Hidden(w)'
    <3>1. x \in Hidden(w) <=> \E r \in Tabs : x \in trees[w][r] /\ x # r
      BY HiddenPane
    <3>2. x \in Hidden(w)' <=> \E r \in Tabs : x \in trees'[w][r] /\ x # r
      BY DEF Hidden, Roots
    <3>3. \A r \in Tabs : x \in trees[w][r] /\ x # r <=> x \in trees'[w][r] /\ x # r
      BY <1>5
    <3> QED BY <3>1, <3>2, <3>3
  <2> QED BY <2>1
<1>7. Owners'
  BY <1>1, <1>3 DEF Owners, WorkspaceTypeOK
<1>8. \A w \in live : Strip(w)' = Strip(w)
  BY <1>1, <1>2, <1>6 DEF Strip, WorkspaceTypeOK
<1>9. Planted'
  <2>1. ASSUME NEW w \in Windows, NEW r \in Tabs, r \notin Hidden(w)
        PROVE  \A q \in Tabs : r \in trees[w][q] => q = r
    <3> SUFFICES ASSUME NEW q \in Tabs, r \in trees[w][q], q # r PROVE FALSE
      OBVIOUS
    <3>1. r \in Hidden(w)
      BY HiddenPane
    <3> QED BY <2>1, <3>1
  <2>2. \A w \in live : \A r \in Strip(w) : r \notin Hidden(w) /\ Home(w, r)
    BY <1>1, StripOf
  <2>3. ASSUME NEW w \in Windows, NEW r \in Tabs, NEW t \in trees'[w][r]
        PROVE  /\ r \in trees'[w][r] /\ Terminal(t) /\ Home(w, t)
               /\ \A q \in Tabs : t \in trees'[w][q] => q = r
    <3>1. CASE t \in trees[w][r]
      <4>1. /\ r \in trees[w][r] /\ Terminal(t) /\ Home(w, t)
            /\ \A q \in Tabs : t \in trees[w][q] => q = r
        BY <1>1, <3>1 DEF Planted
      <4>2. ASSUME NEW q \in Tabs, t \in trees'[w][q], t \notin trees[w][q] PROVE q = r
        <5>1. t = q /\ w \in live /\ q \in Strip(w)
          BY <4>2
        <5> QED BY <2>1, <2>2, <3>1, <5>1
      <4>3. r \in trees'[w][r]
        BY <4>1
      <4> QED BY <4>1, <4>2, <4>3
    <3>2. CASE t \notin trees[w][r]
      <4>1. t = r /\ Terminal(r) /\ w \in live /\ r \in Strip(w) /\ trees'[w][r] = {r}
        BY <2>3, <3>2
      <4> QED BY <2>1, <2>2, <4>1
    <3> QED BY <3>1, <3>2
  <2> QED BY <2>3 DEF Planted, Terminal, Home
<1>10. \A t \in Tabs : kind'[t] # Nil => t <= used'
  BY <1>1, TabNumbers DEF WorkspaceInv, WorkspaceTypeOK
<1> QED BY <1>3, <1>4, <1>7, <1>8, <1>9, <1>10 DEF WorkspaceInv

\* The panes of a tree that a tab of a window stands for.
LEMMA LeavesOpen ==
    ASSUME WorkspaceTypeOK, Owners, Planted, NEW w \in Windows, NEW r \in Tabs
    PROVE  trees[w][r] \subseteq Open /\ \A t \in trees[w][r] : Home(w, t) /\ t \in Tabs
BY WorkspaceAssumption DEF WorkspaceTypeOK, Planted, Terminal, Open

\* activate_tab and cycle_tab.
LEMMA ActivateKeeps == ASSUME WorkspaceInv, NEW w \in live, NEW t, Activate(w, t) PROVE WorkspaceInv'
<1>1. WorkspaceTypeOK /\ Owners /\ Planted /\ w \in Windows
  BY DEF WorkspaceInv, WorkspaceTypeOK
<1>2. t \in Strip(w) /\ t \in Open /\ t \in Tabs
  BY <1>1, StripOf DEF Activate, Open
<1>3. UNCHANGED <<kind, companion, live, owned, wanted, pending, closing, used>> /\ refreshed' = FALSE
      /\ shown' = [shown EXCEPT ![w] = t] /\ trees' = Rooted(trees, w, t, Terminal(t))
      /\ active' \in AnyLeaf(w, t)
  BY DEF Activate
<1>4. active' \in Open
  BY <1>1, <1>2, <1>3, LeavesOpen DEF AnyLeaf
<1>5. \/ trees' = trees
      \/ Terminal(t) /\ trees[w][t] = {} /\ trees' = [trees EXCEPT ![w][t] = @ \cup {t}]
  BY <1>3 DEF Rooted, Grown
<1>6. /\ trees' \in [Windows -> [Tabs -> SUBSET Tabs]]
      /\ \A v \in Windows, r \in Tabs :
           \/ trees'[v][r] = trees[v][r]
           \/ trees'[v][r] = {r} /\ trees[v][r] = {} /\ Terminal(r) /\ v \in live /\ r \in Strip(v)
  <2>1. CASE trees' = trees
    BY <1>1, <2>1 DEF WorkspaceTypeOK
  <2>2. CASE Terminal(t) /\ trees[w][t] = {} /\ trees' = [trees EXCEPT ![w][t] = @ \cup {t}]
    <3>1. \A v \in Windows, r \in Tabs :
            trees'[v][r] = IF v = w /\ r = t THEN trees[w][t] \cup {t} ELSE trees[v][r]
      BY <1>1, <1>2, <2>2 DEF WorkspaceTypeOK
    <3>2. trees' \in [Windows -> [Tabs -> SUBSET Tabs]]
      BY <1>1, <1>2, <2>2 DEF WorkspaceTypeOK
    <3> QED BY <1>2, <2>2, <3>1, <3>2
  <2> QED BY <1>5, <2>1, <2>2
<1>7. shown' \in [Windows -> SomeTab] /\ wanted' \in [Windows -> SomeTab] /\ pending' \in SomeTab
  BY <1>1, <1>2, <1>3 DEF WorkspaceTypeOK, SomeTab
<1> QED BY <1>3, <1>4, <1>6, <1>7, ShowStep

\* focus_terminal_pane.
LEMMA FocusPaneKeeps ==
    ASSUME WorkspaceInv, NEW w \in live, NEW r \in Roots(w), NEW t, FocusPane(w, r, t) PROVE WorkspaceInv'
<1>1. WorkspaceTypeOK /\ Owners /\ Planted /\ w \in Windows /\ r \in Tabs
  BY DEF WorkspaceInv, WorkspaceTypeOK, Roots
<1>2. UNCHANGED <<kind, companion, live, owned, wanted, trees, pending, closing, used>> /\ refreshed' = FALSE
      /\ shown' = [shown EXCEPT ![w] = r] /\ active' \in Open
  BY DEF FocusPane
<1>3. /\ shown' \in [Windows -> SomeTab] /\ wanted' \in [Windows -> SomeTab] /\ pending' \in SomeTab
      /\ trees' \in [Windows -> [Tabs -> SUBSET Tabs]]
  BY <1>1, <1>2 DEF WorkspaceTypeOK, SomeTab
<1> QED BY <1>2, <1>3, ShowStep

\* switch_ssh_sftp_tab to the companion.
LEMMA SwitchToCompanionKeeps ==
    ASSUME WorkspaceInv, NEW w \in live, SwitchToCompanion(w) PROVE WorkspaceInv'
<1>1. WorkspaceTypeOK /\ Owners /\ Planted /\ Pairs /\ w \in Windows
  BY DEF WorkspaceInv, WorkspaceTypeOK
<1>2. UNCHANGED <<kind, companion, live, owned, wanted, trees, pending, closing, used>> /\ refreshed' = FALSE
  BY DEF SwitchToCompanion
<1>3. PICK a \in Open : /\ companion[a] # Nil /\ active' = companion[a]
                        /\ \E r \in Stands(w, companion[a]) : shown' = [shown EXCEPT ![w] = r]
  BY DEF SwitchToCompanion
<1>4. companion[a] \in Open /\ companion[a] \in Tabs
  BY <1>1, <1>3, WorkspaceAssumption DEF WorkspaceTypeOK, Pairs, Open, SomeTab
<1>5. Stands(w, companion[a]) \subseteq SomeTab
  BY <1>4 DEF Stands, RootsOf, Roots, SomeTab
<1>6. /\ shown' \in [Windows -> SomeTab] /\ wanted' \in [Windows -> SomeTab] /\ pending' \in SomeTab
      /\ trees' \in [Windows -> [Tabs -> SUBSET Tabs]]
  BY <1>1, <1>2, <1>3, <1>5 DEF WorkspaceTypeOK
<1> QED BY <1>2, <1>3, <1>4, <1>6, ShowStep

\* A detach begins or fails.
LEMMA PendingKeeps ==
    ASSUME WorkspaceInv, pending' \in SomeTab, UNCHANGED <<tabVars, routeVars, closing, refreshed, used>>
    PROVE  WorkspaceInv'
<1>1. WorkspaceTypeOK
  BY DEF WorkspaceInv
<1>2. UNCHANGED <<kind, companion, active, live, owned, wanted, shown, trees, closing, refreshed, used>>
  BY DEF tabVars, routeVars
<1>3. /\ shown' \in [Windows -> SomeTab] /\ wanted' \in [Windows -> SomeTab] /\ active' \in Open \cup {Nil}
      /\ trees' \in [Windows -> [Tabs -> SUBSET Tabs]] /\ refreshed' \in BOOLEAN
  BY <1>1, <1>2 DEF WorkspaceTypeOK
<1>4. refreshed' => \A w \in live : shown'[w] \in Strip(w) \cup {Nil}
  BY <1>2 DEF WorkspaceInv
<1> QED BY <1>2, <1>3, <1>4, ShowStep

\* The views are rebuilt.
LEMMA RefreshKeeps == ASSUME WorkspaceInv, Refresh PROVE WorkspaceInv'
<1>1. WorkspaceTypeOK /\ Owners /\ Planted /\ live \subseteq Windows
  BY DEF WorkspaceInv, WorkspaceTypeOK
<1>2. UNCHANGED <<kind, companion, active, live, owned, wanted, pending, closing, used>> /\ refreshed' = TRUE
  BY DEF Refresh, tabVars
<1>3. PICK pick \in [live -> UNION {Candidates(w) : w \in live}] :
        /\ \A w \in live : pick[w] \in Candidates(w)
        /\ shown' = [w \in Windows |-> IF w \in live THEN pick[w] ELSE shown[w]]
        /\ trees' = [w \in Windows |->
                       IF w \in live /\ pick[w] # Nil
                       THEN [r \in Tabs |-> IF r = pick[w] /\ Terminal(r) /\ trees[w][r] = {}
                                            THEN {r} ELSE trees[w][r]]
                       ELSE trees[w]]
  BY DEF Refresh
<1>4. \A w \in live : Candidates(w) \subseteq Strip(w) \cup {Nil}
  BY DEF Candidates
<1>5. \A w \in live : Strip(w) \subseteq Tabs
  BY <1>1 DEF Strip, Open
<1>6. \A w \in live : pick[w] \in Strip(w) \cup {Nil} /\ pick[w] \in SomeTab
  BY <1>3, <1>4, <1>5 DEF SomeTab
<1>7. \A w \in live : shown'[w] \in Strip(w) \cup {Nil}
  BY <1>1, <1>3, <1>6
<1>8. shown' \in [Windows -> SomeTab]
  BY <1>1, <1>3, <1>6 DEF WorkspaceTypeOK
<1>9. \A w \in Windows, r \in Tabs :
        \/ trees'[w][r] = trees[w][r]
        \/ trees'[w][r] = {r} /\ trees[w][r] = {} /\ Terminal(r) /\ w \in live /\ r \in Strip(w)
  BY <1>3, <1>6
<1>10. trees' \in [Windows -> [Tabs -> SUBSET Tabs]]
  BY <1>1, <1>3 DEF WorkspaceTypeOK
<1>11. wanted' \in [Windows -> SomeTab] /\ active' \in Open \cup {Nil} /\ pending' \in SomeTab
  BY <1>1, <1>2 DEF WorkspaceTypeOK
<1> QED BY <1>2, <1>7, <1>8, <1>9, <1>10, <1>11, ShowStep

-----------------------------------------------------------------------------
(* Opening tabs.                                                            *)

\* A fresh tab is nowhere.
LEMMA FreshTab ==
    ASSUME WorkspaceInv, NEW t \in Tabs, t = used + 1
    PROVE  /\ kind[t] = Nil /\ companion[t] = Nil
           /\ \A w \in Windows : t \notin owned[w] /\ \A r \in Tabs : t \notin trees[w][r]
           /\ \A a \in Tabs : companion[a] # t
<1>1. WorkspaceTypeOK /\ Owners /\ Planted /\ Pairs
  BY DEF WorkspaceInv
<1>2. kind[t] = Nil
  BY TabNumbers DEF WorkspaceInv, WorkspaceTypeOK
<1>3. companion[t] = Nil
  BY <1>1, <1>2, WorkspaceAssumption DEF Pairs
<1>4. \A a \in Tabs : companion[a] # t
  BY <1>1, <1>3, WorkspaceAssumption DEF Pairs
<1>5. \A w \in Windows : t \notin owned[w]
  BY <1>1, <1>2 DEF Owners
<1>6. \A w \in Windows, r \in Tabs : t \notin trees[w][r]
  BY <1>1, <1>2, WorkspaceAssumption DEF Planted, Terminal
<1> QED BY <1>2, <1>3, <1>4, <1>5, <1>6

\* A new tab belongs to the window it is opened from, mine when that is a detached one; it
\* may get a companion there, and a place in a pane tree of that window.
Opens(w, t, k, mine) ==
    /\ t = used + 1 /\ used' = t /\ active' = t /\ refreshed' = FALSE
    /\ kind' = [kind EXCEPT ![t] = k]
    /\ mine \subseteq {w} \ {Main} /\ (k = "page" => mine = {})
    /\ owned' = [v \in Windows |-> IF v \in mine THEN owned[v] \cup {t} ELSE owned[v]]
    /\ \/ companion' = companion
       \/ \E a \in Open : /\ companion[a] = Nil /\ Home(w, a) /\ {kind[a], k} = {"ssh", "sftp"}
                          /\ companion' = Linked(a, t) /\ mine = {w} \ {Main}
    /\ \/ trees' = trees
       \/ /\ k \in {"ssh", "local"} /\ mine = {w} \ {Main}
          /\ \E r \in Tabs : (r = t \/ r \in trees[w][r]) /\ trees' = [trees EXCEPT ![w][r] = @ \cup {t}]
    /\ shown' \in [Windows -> SomeTab]
    /\ UNCHANGED <<live, wanted, pending, closing>>

\* The invariant is kept by what opens a tab.
LEMMA OpenStep ==
    ASSUME WorkspaceInv, NEW w \in live, NEW t \in Tabs, NEW k \in TabKinds, NEW mine, Opens(w, t, k, mine)
    PROVE  WorkspaceInv'
<1>0. /\ t = used + 1 /\ used' = t /\ active' = t /\ refreshed' = FALSE
      /\ kind' = [kind EXCEPT ![t] = k]
      /\ mine \subseteq {w} \ {Main} /\ (k = "page" => mine = {})
      /\ owned' = [v \in Windows |-> IF v \in mine THEN owned[v] \cup {t} ELSE owned[v]]
      /\ \/ companion' = companion
         \/ \E a \in Open : /\ companion[a] = Nil /\ Home(w, a) /\ {kind[a], k} = {"ssh", "sftp"}
                            /\ companion' = Linked(a, t) /\ mine = {w} \ {Main}
      /\ \/ trees' = trees
         \/ /\ k \in {"ssh", "local"} /\ mine = {w} \ {Main}
            /\ \E r \in Tabs : (r = t \/ r \in trees[w][r]) /\ trees' = [trees EXCEPT ![w][r] = @ \cup {t}]
      /\ shown' \in [Windows -> SomeTab]
      /\ UNCHANGED <<live, wanted, pending, closing>>
  BY DEF Opens
<1> USE <1>0
<1>1. WorkspaceTypeOK /\ Owners /\ Planted /\ Pairs /\ w \in Windows
  BY DEF WorkspaceInv, WorkspaceTypeOK
<1>2. /\ kind[t] = Nil /\ companion[t] = Nil
      /\ \A v \in Windows : t \notin owned[v] /\ \A r \in Tabs : t \notin trees[v][r]
      /\ \A a \in Tabs : companion[a] # t
  BY FreshTab
<1>3. \A x \in Tabs : kind'[x] = IF x = t THEN k ELSE kind[x]
  BY <1>1 DEF WorkspaceTypeOK
<1>4. k # Nil /\ t # Nil
  BY WorkspaceAssumption DEF TabKinds
<1>5. Open' = Open \cup {t}
  BY <1>3, <1>4 DEF Open
<1>6. \A v \in Windows : owned'[v] = IF v \in mine THEN owned[v] \cup {t} ELSE owned[v]
  OBVIOUS
<1>7. \A v \in mine : v = w /\ w # Main /\ k # "page"
  OBVIOUS
<1>8. owned' \in [Windows -> SUBSET Tabs]
  BY <1>1 DEF WorkspaceTypeOK
<1>9. trees' \in [Windows -> [Tabs -> SUBSET Tabs]]
  <2>1. CASE trees' = trees
    BY <1>1, <2>1 DEF WorkspaceTypeOK
  <2>2. CASE \E r \in Tabs : trees' = [trees EXCEPT ![w][r] = @ \cup {t}]
    BY <1>1, <2>2 DEF WorkspaceTypeOK
  <2> QED BY <2>1, <2>2
<1>10. companion' \in [Tabs -> SomeTab]
  <2>1. CASE companion' = companion
    BY <1>1, <2>1 DEF WorkspaceTypeOK
  <2>2. CASE \E a \in Open : companion' = Linked(a, t)
    <3> PICK a \in Open : companion' = [companion EXCEPT ![a] = t, ![t] = a]
      BY <2>2 DEF Linked
    <3>1. a \in SomeTab /\ t \in SomeTab
      BY DEF Open, SomeTab
    <3> QED BY <1>1, <3>1 DEF WorkspaceTypeOK
  <2> QED BY <2>1, <2>2
<1>11. WorkspaceTypeOK'
  <2>1. kind' \in [Tabs -> TabKinds \cup {Nil}]
    BY <1>1 DEF WorkspaceTypeOK
  <2>2. used' \in Nat
    BY TabNumbers
  <2> QED BY <1>1, <1>5, <1>8, <1>9, <1>10, <2>1, <2>2 DEF WorkspaceTypeOK
<1>12. Owners'
  <2>1. owned'[Main] = {}
    BY <1>1, <1>6, <1>7 DEF Owners, Windows
  <2>2. \A v \in Windows \ live' : owned'[v] = {}
    BY <1>1, <1>6 DEF Owners
  <2>3. \A v \in Windows \ live' : \A r \in Tabs : trees'[v][r] = {}
    <3>1. CASE trees' = trees
      BY <1>1, <3>1 DEF Owners
    <3>2. CASE \E r \in Tabs : trees' = [trees EXCEPT ![w][r] = @ \cup {t}]
      <4>1. \A v \in Windows \ live : v # w /\ trees'[v] = trees[v]
        BY <1>1, <3>2 DEF WorkspaceTypeOK
      <4> QED BY <1>1, <4>1 DEF Owners
    <3> QED BY <3>1, <3>2
  <2>4. ASSUME NEW v \in Windows, NEW x \in owned'[v] PROVE kind'[x] \notin {Nil, "page"}
    <3>1. CASE x = t
      <4>1. v \in mine
        BY <1>2, <1>6, <2>4, <3>1
      <4> QED BY <1>3, <1>4, <1>7, <3>1, <4>1
    <3>2. CASE x # t
      <4>1. x \in owned[v] /\ x \in Tabs
        BY <1>6, <1>8, <2>4, <3>2
      <4> QED BY <1>1, <1>3, <3>2, <4>1 DEF Owners
    <3> QED BY <3>1, <3>2
  <2>5. \A v, u \in Windows : \A x \in owned'[v] : x \in owned'[u] => v = u
    BY <1>1, <1>2, <1>6 DEF Owners
  <2> QED BY <2>1, <2>2, <2>3, <2>4, <2>5 DEF Owners
<1>13. \A v \in Windows : \A x \in Tabs \ {t} : Home(v, x) => Home(v, x)'
  BY <1>6 DEF Home
<1>14. mine = {w} \ {Main} => Home(w, t)'
  BY <1>1, <1>2, <1>6 DEF Home
<1>15. Planted'
  <2>1. ASSUME NEW v \in Windows, NEW r \in Tabs, NEW x \in trees[v][r]
        PROVE  /\ x # t /\ x \in Tabs /\ r \in trees[v][r] /\ Terminal(x)' /\ Home(v, x)'
               /\ \A q \in Tabs : x \in trees[v][q] => q = r
    <3>1. x # t /\ x \in Tabs
      BY <1>1, <1>2 DEF WorkspaceTypeOK
    <3>2. r \in trees[v][r] /\ Terminal(x) /\ Home(v, x) /\ \A q \in Tabs : x \in trees[v][q] => q = r
      BY <1>1 DEF Planted
    <3>3. Terminal(x)'
      BY <1>3, <3>1, <3>2 DEF Terminal
    <3> QED BY <1>13, <3>1, <3>2, <3>3
  <2>2. CASE trees' = trees
    BY <2>1, <2>2 DEF Planted
  <2>3. CASE /\ k \in {"ssh", "local"} /\ mine = {w} \ {Main}
             /\ \E r \in Tabs : (r = t \/ r \in trees[w][r]) /\ trees' = [trees EXCEPT ![w][r] = @ \cup {t}]
    <3> PICK root \in Tabs : /\ root = t \/ root \in trees[w][root]
                             /\ trees' = [trees EXCEPT ![w][root] = @ \cup {t}]
      BY <2>3
    <3>1. \A v \in Windows, r \in Tabs :
            trees'[v][r] = IF v = w /\ r = root THEN trees[v][r] \cup {t} ELSE trees[v][r]
      BY <1>1 DEF WorkspaceTypeOK
    <3>2. Terminal(t)' /\ Home(w, t)'
      BY <1>3, <1>14, <2>3 DEF Terminal
    <3>3. ASSUME NEW v \in Windows, NEW r \in Tabs, NEW x \in trees'[v][r]
          PROVE  /\ r \in trees'[v][r] /\ Terminal(x)' /\ Home(v, x)'
                 /\ \A q \in Tabs : x \in trees'[v][q] => q = r
      <4>1. CASE x = t
        <5>1. v = w /\ r = root
          BY <1>2, <3>1, <3>3, <4>1
        <5>2. \A q \in Tabs : t \in trees'[v][q] => q = root
          BY <1>2, <3>1
        <5>3. root \in trees'[w][root]
          BY SMTT(40), <1>1, <3>1
        <5> QED BY <3>2, <4>1, <5>1, <5>2, <5>3
      <4>2. CASE x # t
        <5>1. x \in trees[v][r] /\ \A q \in Tabs : x \in trees'[v][q] => x \in trees[v][q]
          BY <3>1, <3>3, <4>2
        <5>2. r \in trees[v][r] => r \in trees'[v][r]
          BY <3>1
        <5> QED BY <2>1, <5>1, <5>2
      <4> QED BY <4>1, <4>2
    <3> QED BY <3>3 DEF Planted
  <2> QED BY <2>2, <2>3
<1>16. Pairs'
  <2>1. ASSUME NEW x \in Tabs, companion[x] # Nil
        PROVE  /\ x # t /\ companion[x] # t /\ companion[x] \in Tabs /\ companion[companion[x]] = x
               /\ {kind'[x], kind'[companion[x]]} = {"ssh", "sftp"}
               /\ \A v \in Windows : x \in owned'[v] => companion[x] \in owned'[v]
    <3>1. x # t /\ companion[x] # t /\ companion[x] \in Tabs
      BY <1>1, <1>2, <2>1 DEF WorkspaceTypeOK, SomeTab
    <3>2. /\ companion[companion[x]] = x /\ {kind[x], kind[companion[x]]} = {"ssh", "sftp"}
          /\ \A v \in Windows : x \in owned[v] => companion[x] \in owned[v]
      BY <1>1, <2>1 DEF Pairs
    <3>3. kind'[x] = kind[x] /\ kind'[companion[x]] = kind[companion[x]]
      BY <1>3, <3>1
    <3>4. \A v \in Windows : x \in owned'[v] => x \in owned[v]
      BY <1>6, <3>1
    <3>5. \A v \in Windows : owned[v] \subseteq owned'[v]
      BY <1>6
    <3> QED BY <3>1, <3>2, <3>3, <3>4, <3>5
  <2>2. CASE companion' = companion
    BY <2>1, <2>2 DEF Pairs
  <2>3. CASE \E a \in Open : /\ companion[a] = Nil /\ Home(w, a) /\ {kind[a], k} = {"ssh", "sftp"}
                             /\ companion' = Linked(a, t) /\ mine = {w} \ {Main}
    <3> PICK a \in Open : /\ companion[a] = Nil /\ Home(w, a) /\ {kind[a], k} = {"ssh", "sftp"}
                          /\ companion' = Linked(a, t) /\ mine = {w} \ {Main}
      BY <2>3
    <3>1. a \in Tabs /\ a # t
      BY <1>2 DEF Open
    <3>2. \A x \in Tabs : companion'[x] = IF x = a THEN t ELSE IF x = t THEN a ELSE companion[x]
      BY <1>1, <3>1 DEF Linked, WorkspaceTypeOK
    <3>3. {kind'[a], kind'[t]} = {"ssh", "sftp"}
      BY <1>3, <3>1
    <3>4. \A v \in Windows : a \in owned'[v] <=> t \in owned'[v]
      <4>1. Home(w, a)' /\ Home(w, t)'
        BY <1>13, <1>14, <3>1, <1>1
      <4>2. ASSUME NEW v \in Windows, NEW x, Home(w, x)' PROVE x \in owned'[v] <=> v = w /\ w # Main
        BY <1>1, <1>12, <4>2 DEF Owners, Home, Windows
      <4> QED BY <4>1, <4>2
    <3>5. ASSUME NEW x \in Tabs, companion'[x] # Nil
          PROVE  /\ companion'[companion'[x]] = x /\ {kind'[x], kind'[companion'[x]]} = {"ssh", "sftp"}
                 /\ \A v \in Windows : x \in owned'[v] => companion'[x] \in owned'[v]
      <4>1. CASE x = a
        BY <3>1, <3>2, <3>3, <3>4, <4>1
      <4>2. CASE x = t
        <5>1. companion'[x] = a /\ companion'[a] = t
          BY <3>1, <3>2, <4>2
        <5> QED BY <3>3, <3>4, <4>2, <5>1
      <4>3. CASE x # a /\ x # t
        <5>1. companion'[x] = companion[x]
          BY <3>2, <4>3
        <5>2. companion[x] # a
          BY <2>1, <3>5, <4>3, <5>1, WorkspaceAssumption
        <5> QED BY <2>1, <3>2, <3>5, <5>1, <5>2
      <4> QED BY <4>1, <4>2, <4>3
    <3> QED BY <3>5 DEF Pairs
  <2> QED BY <2>2, <2>3
<1>17. \A x \in Tabs : kind'[x] # Nil => x <= used'
  BY <1>1, <1>3, TabNumbers DEF WorkspaceInv, WorkspaceTypeOK
<1> QED BY <1>11, <1>12, <1>15, <1>16, <1>17 DEF WorkspaceInv

\* include_tab: the tab joins the tabs of a detached window.
LEMMA IncludesTab ==
    ASSUME WorkspaceTypeOK, NEW w \in Windows, NEW t
    PROVE  Includes(w, t) = [v \in Windows |-> IF v \in {w} \ {Main} THEN owned[v] \cup {t} ELSE owned[v]]
<1>1. owned = [v \in Windows |-> owned[v]]
  BY DEF WorkspaceTypeOK
<1>2. CASE w = Main
  BY <1>1, <1>2 DEF Includes
<1>3. CASE w # Main
  BY <1>1, <1>3 DEF Includes
<1> QED BY <1>2, <1>3

\* No tab is added to a window.
LEMMA IncludesNothing ==
    ASSUME WorkspaceTypeOK, NEW t
    PROVE  owned = [v \in Windows |-> IF v \in {} THEN owned[v] \cup {t} ELSE owned[v]]
BY DEF WorkspaceTypeOK

\* request_profile_connection and start_local_shell.
LEMMA OpenSessionKeeps ==
    ASSUME WorkspaceInv, NEW k \in {"ssh", "local", "sftp"}, OpenSession(k) PROVE WorkspaceInv'
<1>1. WorkspaceTypeOK /\ Main \in live /\ Main \in Windows
  BY DEF WorkspaceInv, WorkspaceTypeOK, Windows
<1>2. UNCHANGED <<companion, live, owned, wanted, pending, closing>> /\ refreshed' = FALSE
  BY DEF OpenSession
<1>3. PICK t \in Tabs :
        /\ t = used + 1 /\ used' = t
        /\ \/ /\ kind' = [kind EXCEPT ![t] = k] /\ active' = t
              /\ shown' = [shown EXCEPT ![Main] = t] /\ trees' = Rooted(trees, Main, t, k # "sftp")
           \/ /\ active' \in IF Open = {} THEN {Nil} ELSE Open
              /\ UNCHANGED <<kind, shown, trees>>
  BY DEF OpenSession, IsFresh
<1>4. CASE /\ kind' = [kind EXCEPT ![t] = k] /\ active' = t
           /\ shown' = [shown EXCEPT ![Main] = t] /\ trees' = Rooted(trees, Main, t, k # "sftp")
  <2> DEFINE mine == {}
  <2>1. owned' = [v \in Windows |-> IF v \in mine THEN owned[v] \cup {t} ELSE owned[v]]
    BY <1>1, <1>2, IncludesNothing
  <2>2. mine \in SUBSET ({Main} \ {Main}) /\ mine = {Main} \ {Main} /\ (k = "page" => mine = {})
    OBVIOUS
  <2> HIDE DEF mine
  <2>3. \/ trees' = trees
        \/ /\ k \in {"ssh", "local"} /\ mine = {Main} \ {Main}
           /\ \E r \in Tabs : (r = t \/ r \in trees[Main][r]) /\ trees' = [trees EXCEPT ![Main][r] = @ \cup {t}]
    BY <1>4, <2>2 DEF Rooted, Grown
  <2>4. shown' \in [Windows -> SomeTab]
    BY <1>1, <1>4 DEF WorkspaceTypeOK, SomeTab
  <2>5. k \in TabKinds
    BY DEF TabKinds
  <2>6. Opens(Main, t, k, mine)
    BY <1>2, <1>3, <1>4, <2>1, <2>2, <2>3, <2>4 DEF Opens
  <2> QED BY <1>1, <2>5, <2>6, OpenStep
<1>5. CASE active' \in (IF Open = {} THEN {Nil} ELSE Open) /\ UNCHANGED <<kind, shown, trees>>
  <2>1. /\ active' \in Open \cup {Nil} /\ pending' \in SomeTab /\ shown' \in [Windows -> SomeTab]
        /\ wanted' \in [Windows -> SomeTab] /\ trees' \in [Windows -> [Tabs -> SUBSET Tabs]]
    BY <1>1, <1>2, <1>5 DEF WorkspaceTypeOK
  <2> QED BY <1>2, <1>3, <1>5, <2>1, ShowStep
<1> QED BY <1>3, <1>4, <1>5

\* switch_ssh_sftp_tab to a new companion.
LEMMA SwitchToNewKeeps == ASSUME WorkspaceInv, NEW w \in live, SwitchToNew(w) PROVE WorkspaceInv'
<1>1. WorkspaceTypeOK /\ Owners /\ Planted /\ Pairs /\ w \in Windows
  BY DEF WorkspaceInv, WorkspaceTypeOK
<1>2. UNCHANGED <<live, wanted, pending, closing>> /\ refreshed' = FALSE /\ refreshed /\ shown[w] # Nil
  BY DEF SwitchToNew
<1>3. PICK a \in AnyLeaf(w, shown[w]) \cap Open, t \in Tabs :
        /\ kind[a] \in {"ssh", "sftp"} /\ companion[a] = Nil
        /\ t = used + 1 /\ used' = t
        /\ owned' = Includes(w, t)
        /\ kind' = [kind EXCEPT ![t] = IF kind[a] = "ssh" THEN "sftp" ELSE "ssh"]
        /\ companion' = Linked(a, t) /\ active' = t
        /\ shown' = [shown EXCEPT ![w] = t]
        /\ trees' = Rooted(trees, w, t, kind[a] = "sftp")
  BY DEF SwitchToNew, IsFresh
<1>4. Home(w, a)
  <2>1. shown[w] \in Strip(w) /\ shown[w] \in Tabs
    BY <1>1, <1>2 DEF WorkspaceInv, WorkspaceTypeOK, SomeTab
  <2>2. CASE trees[w][shown[w]] = {}
    BY <1>1, <1>3, <2>1, <2>2, StripOf DEF AnyLeaf
  <2>3. CASE trees[w][shown[w]] # {}
    BY <1>1, <1>3, <2>1, <2>3, LeavesOpen DEF AnyLeaf
  <2> QED BY <2>2, <2>3
<1> DEFINE k == IF kind[a] = "ssh" THEN "sftp" ELSE "ssh"
           mine == {w} \ {Main}
<1>5. k \in {"ssh", "sftp"} /\ {kind[a], k} = {"ssh", "sftp"} /\ (kind[a] = "sftp" => k = "ssh")
  <2>1. CASE kind[a] = "ssh"
    BY <2>1
  <2>2. CASE kind[a] = "sftp"
    BY <2>2
  <2> QED BY <1>3, <2>1, <2>2
<1>6. owned' = [v \in Windows |-> IF v \in mine THEN owned[v] \cup {t} ELSE owned[v]]
  <2>1. Includes(w, t) = [v \in Windows |-> IF v \in {w} \ {Main} THEN owned[v] \cup {t} ELSE owned[v]]
    BY <1>1, IncludesTab
  <2> QED BY <1>3, <2>1
<1>7. mine \in SUBSET ({w} \ {Main}) /\ mine = {w} \ {Main}
  OBVIOUS
<1>8. kind' = [kind EXCEPT ![t] = k]
  BY <1>3
<1> HIDE DEF k, mine
<1>9. \/ trees' = trees
      \/ /\ k \in {"ssh", "local"} /\ mine = {w} \ {Main}
         /\ \E r \in Tabs : (r = t \/ r \in trees[w][r]) /\ trees' = [trees EXCEPT ![w][r] = @ \cup {t}]
  <2>1. \/ trees' = trees
        \/ kind[a] = "sftp" /\ trees' = [trees EXCEPT ![w][t] = @ \cup {t}]
    BY <1>3 DEF Rooted, Grown
  <2> QED BY <1>5, <1>7, <2>1
<1>10. shown' \in [Windows -> SomeTab]
  BY <1>1, <1>3 DEF WorkspaceTypeOK, SomeTab
<1>11. \E b \in Open : /\ companion[b] = Nil /\ Home(w, b) /\ {kind[b], k} = {"ssh", "sftp"}
                       /\ companion' = Linked(b, t) /\ mine = {w} \ {Main}
  BY <1>3, <1>4, <1>5, <1>7
<1>12. k \in TabKinds /\ k # "page"
  BY <1>5 DEF TabKinds
<1>13. Opens(w, t, k, mine)
  BY <1>2, <1>3, <1>6, <1>7, <1>8, <1>9, <1>10, <1>11, <1>12 DEF Opens
<1> QED BY <1>12, <1>13, OpenStep

\* complete_pane_split: the new session is a pane beside the one it was split from.
LEMMA SplitPaneKeeps ==
    ASSUME WorkspaceInv, NEW w \in live, NEW r \in Roots(w), NEW source, SplitPane(w, r, source)
    PROVE  WorkspaceInv'
<1>1. WorkspaceTypeOK /\ Owners /\ Planted /\ w \in Windows /\ r \in Tabs
  BY DEF WorkspaceInv, WorkspaceTypeOK, Roots
<1>2. UNCHANGED <<companion, live, wanted, pending, closing>> /\ refreshed' = FALSE
      /\ source \in trees[w][r]
  BY DEF SplitPane
<1>3. PICK t \in Tabs :
        /\ t = used + 1 /\ used' = t
        /\ kind' = [kind EXCEPT ![t] = kind[source]]
        /\ trees' = [trees EXCEPT ![w][r] = @ \cup {t}]
        /\ owned' = Includes(w, t) /\ shown' = [shown EXCEPT ![w] = r] /\ active' = t
  BY DEF SplitPane, IsFresh, Grown
<1> DEFINE k == kind[source]
           mine == {w} \ {Main}
<1>4. k \in {"ssh", "local"} /\ k \in TabKinds /\ k # "page" /\ r \in trees[w][r]
  <2>1. Terminal(source) /\ r \in trees[w][r]
    BY <1>1, <1>2 DEF Planted
  <2> QED BY <2>1 DEF Terminal, TabKinds
<1>5. owned' = [v \in Windows |-> IF v \in mine THEN owned[v] \cup {t} ELSE owned[v]]
  <2>1. Includes(w, t) = [v \in Windows |-> IF v \in {w} \ {Main} THEN owned[v] \cup {t} ELSE owned[v]]
    BY <1>1, IncludesTab
  <2> QED BY <1>3, <2>1
<1>6. mine \in SUBSET ({w} \ {Main}) /\ mine = {w} \ {Main} /\ kind' = [kind EXCEPT ![t] = k]
  BY <1>3
<1> HIDE DEF k, mine
<1>7. shown' \in [Windows -> SomeTab]
  BY <1>1, <1>3 DEF WorkspaceTypeOK, SomeTab
<1>8. \E q \in Tabs : (q = t \/ q \in trees[w][q]) /\ trees' = [trees EXCEPT ![w][q] = @ \cup {t}]
  BY <1>1, <1>3, <1>4
<1>9. Opens(w, t, k, mine)
  BY <1>2, <1>3, <1>4, <1>5, <1>6, <1>7, <1>8 DEF Opens
<1> QED BY <1>4, <1>9, OpenStep

\* open_settings_tab and open_session_editor_tab: the one page, or a new one.
LEMMA OpenPageKeeps == ASSUME WorkspaceInv, NEW w \in live, OpenPage(w) PROVE WorkspaceInv'
<1>1. WorkspaceTypeOK /\ w \in Windows
  BY DEF WorkspaceInv, WorkspaceTypeOK
<1>2. UNCHANGED <<companion, live, owned, wanted, trees, pending, closing>> /\ refreshed' = FALSE
  BY DEF OpenPage
<1>3. PICK t \in Tabs :
        /\ kind[t] = "page" \/ IsFresh(t)
        /\ kind' = [kind EXCEPT ![t] = "page"] /\ used' = IF IsFresh(t) THEN t ELSE used
        /\ active' = t /\ shown' = IF w = Main THEN [shown EXCEPT ![Main] = t] ELSE shown
  BY DEF OpenPage
<1>4. shown' \in [Windows -> SomeTab]
  BY <1>1, <1>3 DEF WorkspaceTypeOK, SomeTab
<1>5. CASE IsFresh(t)
  <2> DEFINE mine == {}
  <2>1. owned' = [v \in Windows |-> IF v \in mine THEN owned[v] \cup {t} ELSE owned[v]]
    BY <1>1, <1>2, IncludesNothing
  <2>2. mine \in SUBSET ({w} \ {Main}) /\ mine = {} /\ "page" \in TabKinds
    BY DEF TabKinds
  <2>3. t = used + 1 /\ used' = t /\ companion' = companion /\ trees' = trees
    BY <1>2, <1>3, <1>5 DEF IsFresh
  <2> HIDE DEF mine
  <2>4. Opens(w, t, "page", mine)
    BY <1>2, <1>3, <1>4, <2>1, <2>2, <2>3 DEF Opens
  <2> QED BY <2>2, <2>4, OpenStep
<1>6. CASE ~IsFresh(t)
  <2>1. kind[t] = "page" /\ used' = used /\ kind' = kind /\ t \in Open
    BY <1>1, <1>3, <1>6, WorkspaceAssumption DEF WorkspaceTypeOK, Open
  <2>2. /\ active' \in Open \cup {Nil} /\ pending' \in SomeTab
        /\ wanted' \in [Windows -> SomeTab] /\ trees' \in [Windows -> [Tabs -> SUBSET Tabs]]
    BY <1>1, <1>2, <1>3, <2>1 DEF WorkspaceTypeOK
  <2> QED BY <1>2, <1>4, <2>1, <2>2, ShowStep
<1> QED BY <1>5, <1>6

-----------------------------------------------------------------------------
(* Detached windows.                                                        *)

\* The companion of a tab of the main window is in the main window.
LEMMA CompanionAtHome ==
    ASSUME WorkspaceTypeOK, Owners, Pairs, NEW t \in Tabs, companion[t] # Nil, Home(Main, t)
    PROVE  companion[t] \in Open /\ companion[t] \in Tabs /\ Home(Main, companion[t])
<1>1. companion[t] \in Tabs /\ companion[companion[t]] = t /\ {kind[t], kind[companion[t]]} = {"ssh", "sftp"}
  BY DEF WorkspaceTypeOK, SomeTab, Pairs
<1>2. companion[t] \in Open /\ companion[companion[t]] # Nil
  BY <1>1, WorkspaceAssumption DEF Open
<1>3. \A w \in Windows : companion[t] \in owned[w] => t \in owned[w]
  BY <1>1, <1>2 DEF Pairs
<1> QED BY <1>1, <1>2, <1>3 DEF Home

\* The tabs that move are in the main window, with all the panes of their trees and with
\* their companions.
LEMMA MovedTabs ==
    ASSUME WorkspaceInv, NEW d \in Detached, FinishDetach(d)
    PROVE  \E roots \in SUBSET Tabs, moved \in SUBSET Open :
             /\ \A t \in moved : kind[t] # "page" /\ Home(Main, t)
             /\ \A t \in moved : companion[t] # Nil => companion[t] \in moved
             /\ \A r \in roots : trees[Main][r] \subseteq moved
             /\ \A r \in Tabs \ roots : trees[Main][r] \cap moved = {}
             /\ owned' = [owned EXCEPT ![d] = moved]
             /\ trees' = [Uprooted(trees, Main, roots) EXCEPT
                            ![d] = [r \in Tabs |-> IF r \in roots THEN trees[Main][r] ELSE {}]]
<1>1. WorkspaceTypeOK /\ Owners /\ Planted /\ Pairs /\ Main \in Windows /\ Main \in live
  BY DEF WorkspaceInv, WorkspaceTypeOK, Windows
<1>2. pending \in Tabs /\ pending \in Open /\ Home(Main, pending)
  BY <1>1, StripOf DEF FinishDetach, Open
<1> DEFINE anchor == Anchor(pending)
           roots == IF anchor = Nil THEN {} ELSE RootsOf(Main, anchor)
           panes == IF roots = {} THEN {anchor} \ {Nil} ELSE UNION {trees[Main][r] : r \in roots}
           moved == IF panes = {} THEN {pending} ELSE panes \cup ({companion[p] : p \in panes} \ {Nil})
<1>3. /\ panes # {} \/ kind[pending] = "sftp"
      /\ \A p \in panes : p \in Open /\ Terminal(p)
      /\ owned' = [owned EXCEPT ![d] = moved]
      /\ trees' = [Uprooted(trees, Main, roots) EXCEPT
                     ![d] = [r \in Tabs |-> IF r \in roots THEN trees[Main][r] ELSE {}]]
  BY DEF FinishDetach
<1>4. anchor = Nil \/ (anchor \in Tabs /\ Home(Main, anchor))
  BY <1>1, <1>2, CompanionAtHome DEF Anchor
<1>5. anchor = Nil => companion[pending] = Nil \/ ~Terminal(companion[pending])
  BY <1>2, WorkspaceAssumption DEF Anchor
<1> HIDE DEF anchor
<1>6. roots \in SUBSET Tabs /\ \A r \in roots : anchor \in trees[Main][r] /\ anchor # Nil
  BY DEF RootsOf, Roots
<1>7. \A r \in Tabs : anchor # Nil /\ anchor \in trees[Main][r] => r \in roots
  BY DEF RootsOf, Roots
<1> HIDE DEF roots
<1>8. \A p \in panes : p \in Tabs /\ Home(Main, p) /\ Terminal(p) /\ p \in Open
  <2>1. CASE roots = {}
    BY <1>3, <1>4, <2>1
  <2>2. CASE roots # {}
    <3>1. \A p \in panes : \E r \in Tabs : p \in trees[Main][r]
      BY <1>6, <2>2
    <3> QED BY <1>1, <1>3, <3>1, LeavesOpen
  <2> QED BY <2>1, <2>2
<1>9. \A r \in roots : trees[Main][r] \subseteq panes
  OBVIOUS
<1>10. \A r \in Tabs \ roots : trees[Main][r] \cap panes = {}
  <2>1. CASE roots = {}
    BY <1>7, <2>1
  <2>2. CASE roots # {}
    <3>1. \A p \in panes : \E r \in roots : p \in trees[Main][r]
      BY <2>2
    <3> QED BY <1>1, <1>6, <3>1 DEF Planted
  <2> QED BY <2>1, <2>2
<1>11. panes = {} => anchor = Nil
  <2>1. CASE roots = {}
    BY <2>1
  <2>2. CASE roots # {}
    BY <1>6, <2>2
  <2> QED BY <2>1, <2>2
<1> HIDE DEF panes
<1>12. CASE panes = {}
  <2>1. moved = {pending} /\ kind[pending] = "sftp" /\ anchor = Nil
    BY <1>3, <1>11, <1>12
  <2>2. companion[pending] = Nil
    BY <1>1, <1>2, <1>5, <2>1 DEF Pairs, Terminal
  <2>3. \A r \in Tabs : pending \notin trees[Main][r]
    BY <1>1, <2>1 DEF Planted, Terminal
  <2>4. /\ moved \in SUBSET Open /\ \A t \in moved : kind[t] # "page" /\ Home(Main, t)
        /\ \A t \in moved : companion[t] # Nil => companion[t] \in moved
    BY <1>2, <2>1, <2>2
  <2>5. \A r \in roots : trees[Main][r] \subseteq moved
    BY <1>9, <1>12
  <2>6. \A r \in Tabs \ roots : trees[Main][r] \cap moved = {}
    BY <2>1, <2>3
  <2> HIDE DEF moved
  <2> QED BY <1>3, <1>6, <2>4, <2>5, <2>6
<1>13. CASE panes # {}
  <2>1. moved = panes \cup ({companion[p] : p \in panes} \ {Nil})
    BY <1>13
  <2> HIDE DEF moved
  <2>2. ASSUME NEW p \in panes, companion[p] # Nil
        PROVE  /\ companion[p] \in Open /\ Home(Main, companion[p]) /\ kind[companion[p]] = "sftp"
               /\ companion[companion[p]] = p
    <3>1. companion[p] \in Open /\ Home(Main, companion[p])
      BY <1>1, <1>8, <2>2, CompanionAtHome
    <3>2. {kind[p], kind[companion[p]]} = {"ssh", "sftp"} /\ companion[companion[p]] = p
      BY <1>1, <1>8, <2>2 DEF Pairs
    <3>3. kind[p] \in {"ssh", "local"}
      BY <1>8 DEF Terminal
    <3> QED BY <3>1, <3>2, <3>3
  <2>3. \A t \in moved : t \in panes \/ \E p \in panes : companion[p] # Nil /\ t = companion[p]
    BY <2>1
  <2>4. moved \in SUBSET Open /\ \A t \in moved : kind[t] # "page" /\ Home(Main, t)
    BY <1>8, <2>2, <2>3 DEF Terminal
  <2>5. \A t \in moved : companion[t] # Nil => companion[t] \in moved
    BY <2>1, <2>2, <2>3
  <2>6. \A r \in roots : trees[Main][r] \subseteq moved
    BY <1>9, <2>1
  <2>7. \A r \in Tabs \ roots : trees[Main][r] \cap moved = {}
    <3>1. \A r \in Tabs : \A t \in trees[Main][r] : kind[t] # "sftp"
      BY <1>1 DEF Planted, Terminal
    <3> QED BY <1>10, <2>2, <2>3, <3>1
  <2> QED BY <1>3, <1>6, <2>4, <2>5, <2>6, <2>7
<1> QED BY <1>12, <1>13

\* The timer's callback: tabs move to a window of their own.
LEMMA FinishDetachKeeps == ASSUME WorkspaceInv, NEW d \in Detached, FinishDetach(d) PROVE WorkspaceInv'
<1>1. /\ WorkspaceTypeOK /\ Owners /\ Planted /\ Pairs /\ Main \in Windows /\ Main \in live
      /\ d \in Windows /\ d # Main /\ d \notin live
  BY WorkspaceAssumption DEF WorkspaceInv, WorkspaceTypeOK, Windows, FinishDetach
<1>2. /\ UNCHANGED <<kind, companion, closing, used>> /\ refreshed' = FALSE /\ live' = live \cup {d}
      /\ wanted' = [wanted EXCEPT ![d] = pending] /\ shown' = [shown EXCEPT ![d] = pending]
      /\ active' = pending /\ pending' = Nil
  BY DEF FinishDetach
<1>3. pending \in Open /\ pending \in SomeTab
  BY <1>1, StripOf DEF FinishDetach, Open, SomeTab
<1>4. PICK roots \in SUBSET Tabs, moved \in SUBSET Open :
        /\ \A t \in moved : kind[t] # "page" /\ Home(Main, t)
        /\ \A t \in moved : companion[t] # Nil => companion[t] \in moved
        /\ \A r \in roots : trees[Main][r] \subseteq moved
        /\ \A r \in Tabs \ roots : trees[Main][r] \cap moved = {}
        /\ owned' = [owned EXCEPT ![d] = moved]
        /\ trees' = [Uprooted(trees, Main, roots) EXCEPT
                       ![d] = [r \in Tabs |-> IF r \in roots THEN trees[Main][r] ELSE {}]]
  BY MovedTabs
<1>5. \A v \in Windows : owned'[v] = IF v = d THEN moved ELSE owned[v]
  BY <1>1, <1>4 DEF WorkspaceTypeOK
<1>6. \A v \in Windows, r \in Tabs :
        trees'[v][r] = IF v = d THEN IF r \in roots THEN trees[Main][r] ELSE {}
                       ELSE IF v = Main /\ r \in roots THEN {} ELSE trees[v][r]
  BY <1>1, <1>4 DEF Uprooted, WorkspaceTypeOK
<1>7. moved \subseteq Tabs /\ Open' = Open
  BY <1>2 DEF Open
<1>8. WorkspaceTypeOK'
  <2>1. owned' \in [Windows -> SUBSET Tabs]
    BY <1>1, <1>4, <1>7 DEF WorkspaceTypeOK
  <2>2. trees' \in [Windows -> [Tabs -> SUBSET Tabs]]
    <3>1. [r \in Tabs |-> IF r \in roots THEN {} ELSE trees[Main][r]] \in [Tabs -> SUBSET Tabs]
      BY <1>1 DEF WorkspaceTypeOK
    <3>2. [r \in Tabs |-> IF r \in roots THEN trees[Main][r] ELSE {}] \in [Tabs -> SUBSET Tabs]
      BY <1>1 DEF WorkspaceTypeOK
    <3>3. Uprooted(trees, Main, roots) \in [Windows -> [Tabs -> SUBSET Tabs]]
      BY <1>1, <3>1 DEF Uprooted, WorkspaceTypeOK
    <3> QED BY <1>1, <1>4, <3>2, <3>3
  <2>3. shown' \in [Windows -> SomeTab] /\ wanted' \in [Windows -> SomeTab] /\ pending' \in SomeTab
    BY <1>1, <1>2, <1>3 DEF WorkspaceTypeOK, SomeTab
  <2> QED BY <1>1, <1>2, <1>3, <1>7, <2>1, <2>2, <2>3 DEF WorkspaceTypeOK
<1>9. owned[d] = {} /\ \A v \in Windows : \A t \in moved : t \notin owned[v]
  BY <1>1, <1>4 DEF Owners, Home
<1>10. Owners'
  <2>1. owned'[Main] = {}
    BY <1>1, <1>5 DEF Owners
  <2>2. \A v \in Windows \ live' : owned'[v] = {} /\ \A r \in Tabs : trees'[v][r] = {}
    BY <1>1, <1>2, <1>5, <1>6 DEF Owners
  <2>3. \A v \in Windows : \A t \in owned'[v] : kind'[t] \notin {Nil, "page"}
    BY <1>1, <1>2, <1>4, <1>5 DEF Owners, Open
  <2>4. \A u, v \in Windows : \A t \in owned'[u] : t \in owned'[v] => u = v
    BY <1>1, <1>5, <1>9 DEF Owners
  <2> QED BY <2>1, <2>2, <2>3, <2>4 DEF Owners
<1>11. Planted'
  <2>1. ASSUME NEW v \in Windows, NEW r \in Tabs, NEW t \in trees'[v][r]
        PROVE  /\ r \in trees'[v][r] /\ Terminal(t) /\ Home(v, t)'
               /\ \A q \in Tabs : t \in trees'[v][q] => q = r
    <3>1. CASE v = d
      <4>1. r \in roots /\ trees'[d][r] = trees[Main][r]
        BY <1>1, <1>6, <2>1, <3>1
      <4>2. t \in moved
        BY <1>4, <2>1, <3>1, <4>1
      <4>3. Home(d, t)'
        BY <1>1, <1>5, <4>2 DEF Home
      <4>4. \A q \in Tabs : t \in trees'[d][q] => t \in trees[Main][q]
        BY <1>1, <1>6
      <4>5. /\ r \in trees[Main][r] /\ Terminal(t)
            /\ \A q \in Tabs : t \in trees[Main][q] => q = r
        BY <1>1, <2>1, <3>1, <4>1 DEF Planted
      <4> QED BY <3>1, <4>1, <4>3, <4>4, <4>5
    <3>2. CASE v # d
      <4>1. trees'[v][r] = trees[v][r] /\ (v = Main => r \notin roots) /\ \A q \in Tabs : trees'[v][q] \subseteq trees[v][q]
        BY <1>6, <2>1, <3>2
      <4>2. r \in trees[v][r] /\ Terminal(t) /\ Home(v, t) /\ \A q \in Tabs : t \in trees[v][q] => q = r
        BY <1>1, <2>1, <4>1 DEF Planted
      <4>3. CASE v = Main
        <5>1. t \notin moved
          BY <1>4, <2>1, <4>1, <4>3
        <5>2. Home(Main, t)'
          BY <1>5, <4>2, <4>3, <5>1 DEF Home
        <5> QED BY <4>1, <4>2, <4>3, <5>2
      <4>4. CASE v # Main
        <5>1. Home(v, t)'
          BY <1>5, <3>2, <4>2, <4>4 DEF Home
        <5> QED BY <4>1, <4>2, <5>1
      <4> QED BY <4>3, <4>4
    <3> QED BY <3>1, <3>2
  <2> QED BY <1>2, <2>1 DEF Planted, Terminal
<1>12. Pairs'
  BY SMTT(40), <1>1, <1>2, <1>4, <1>5 DEF Pairs
<1>13. \A t \in Tabs : kind'[t] # Nil => t <= used'
  BY <1>2 DEF WorkspaceInv
<1> QED BY <1>2, <1>8, <1>10, <1>11, <1>12, <1>13 DEF WorkspaceInv

\* remove_detached and restore_detached: the tabs of a window are the main window's again.
LEMMA GivesBackKeeps ==
    ASSUME WorkspaceInv, NEW d \in live \ {Main}, NEW given \in SomeTab, GivesBack(d, given)
    PROVE  WorkspaceInv'
<1>1. /\ WorkspaceTypeOK /\ Owners /\ Planted /\ Pairs /\ Main \in Windows /\ Main \in live
      /\ d \in Windows /\ d # Main
  BY DEF WorkspaceInv, WorkspaceTypeOK
<1>2. PICK kept \in IF Roots(d) = {} THEN {{}} ELSE {{r} : r \in Roots(d)} :
        LET back == {r \in kept : given \in trees[d][r]}
            root == IF back = {} THEN {given} ELSE back IN
        /\ \E r \in root :
             /\ shown' = [shown EXCEPT ![Main] = r, ![d] = Nil]
             /\ active' \in LET focus == IF r \in kept THEN trees[d][r]
                                        ELSE IF r = Nil THEN {} ELSE AnyLeaf(Main, r)
                           IN IF focus \cap Open = {} THEN {active} ELSE focus \cap Open
        /\ trees' = [trees EXCEPT ![Main] = [r \in Tabs |-> IF r \in kept THEN trees[d][r] ELSE @[r]],
                                  ![d] = NoTree]
        /\ live' = live \ {d}
        /\ owned' = [owned EXCEPT ![d] = {}]
        /\ wanted' = [wanted EXCEPT ![d] = Nil]
        /\ refreshed' = FALSE
        /\ UNCHANGED <<kind, companion, pending, closing, used>>
  BY DEF GivesBack
<1>3. kept \subseteq Tabs
  BY DEF Roots
<1>4. Open' = Open
  BY <1>2 DEF Open
<1>5. active' \in Open \cup {Nil}
  BY <1>1, <1>2 DEF WorkspaceTypeOK
<1>6. shown' \in [Windows -> SomeTab]
  <2>1. PICK r \in kept \cup {given} : shown' = [shown EXCEPT ![Main] = r, ![d] = Nil]
    BY <1>2
  <2>2. r \in SomeTab /\ Nil \in SomeTab
    BY <1>3 DEF SomeTab
  <2> QED BY <1>1, <2>1, <2>2 DEF WorkspaceTypeOK
<1>7. \A v \in Windows : owned'[v] = IF v = d THEN {} ELSE owned[v]
  BY <1>1, <1>2 DEF WorkspaceTypeOK
<1>8. \A v \in Windows, r \in Tabs :
        trees'[v][r] = IF v = d THEN {} ELSE IF v = Main /\ r \in kept THEN trees[d][r] ELSE trees[v][r]
  BY <1>1, <1>2 DEF WorkspaceTypeOK, NoTree
<1>9. WorkspaceTypeOK'
  <2>1. owned' \in [Windows -> SUBSET Tabs] /\ wanted' \in [Windows -> SomeTab]
    BY <1>1, <1>2 DEF WorkspaceTypeOK, SomeTab
  <2>2. trees' \in [Windows -> [Tabs -> SUBSET Tabs]]
    <3>1. /\ NoTree \in [Tabs -> SUBSET Tabs]
          /\ [r \in Tabs |-> IF r \in kept THEN trees[d][r] ELSE trees[Main][r]] \in [Tabs -> SUBSET Tabs]
      BY <1>1 DEF WorkspaceTypeOK, NoTree
    <3> QED BY <1>1, <1>2, <3>1 DEF WorkspaceTypeOK
  <2> QED BY <1>1, <1>2, <1>4, <1>5, <1>6, <2>1, <2>2 DEF WorkspaceTypeOK
<1>10. Owners'
  <2>1. owned'[Main] = {}
    BY <1>1, <1>7 DEF Owners
  <2>2. \A v \in Windows \ live' : owned'[v] = {} /\ \A r \in Tabs : trees'[v][r] = {}
    BY <1>1, <1>2, <1>7, <1>8 DEF Owners
  <2>3. \A v \in Windows : \A t \in owned'[v] : kind'[t] \notin {Nil, "page"}
    BY <1>1, <1>2, <1>7 DEF Owners
  <2>4. \A u, v \in Windows : \A t \in owned'[u] : t \in owned'[v] => u = v
    BY <1>1, <1>7 DEF Owners
  <2> QED BY <2>1, <2>2, <2>3, <2>4 DEF Owners
<1>11. Planted'
  <2>1. ASSUME NEW v \in Windows, NEW r \in Tabs, NEW t \in trees'[v][r]
        PROVE  /\ r \in trees'[v][r] /\ Terminal(t) /\ Home(v, t)'
               /\ \A q \in Tabs : t \in trees'[v][q] => q = r
    <3>1. v # d
      BY <1>8, <2>1
    <3>2. CASE v = Main /\ r \in kept
      <4>1. trees'[Main][r] = trees[d][r] /\ t \in trees[d][r]
        BY <1>1, <1>8, <2>1, <3>2
      <4>2. r \in trees[d][r] /\ Terminal(t) /\ Home(d, t) /\ \A q \in Tabs : t \in trees[d][q] => q = r
        BY <1>1, <4>1 DEF Planted
      <4>3. Home(Main, t)'
        BY <1>1, <1>7, <4>2 DEF Home, Owners
      <4>4. \A q \in Tabs : t \notin trees[Main][q]
        BY <1>1, <4>2 DEF Planted, Home
      <4>5. \A q \in Tabs : t \in trees'[Main][q] => t \in trees[d][q]
        BY <1>1, <1>8, <4>4
      <4> QED BY <3>2, <4>1, <4>2, <4>3, <4>5
    <3>3. CASE ~(v = Main /\ r \in kept)
      <4>1. trees'[v][r] = trees[v][r] /\ t \in trees[v][r]
        BY <1>8, <2>1, <3>1, <3>3
      <4>2. r \in trees[v][r] /\ Terminal(t) /\ Home(v, t) /\ \A q \in Tabs : t \in trees[v][q] => q = r
        BY <1>1, <4>1 DEF Planted
      <4>3. Home(v, t)'
        BY <1>7, <3>1, <4>2 DEF Home
      <4>4. v = Main => \A q \in Tabs : t \notin trees[d][q]
        BY <1>1, <4>2 DEF Planted, Home
      <4>5. \A q \in Tabs : t \in trees'[v][q] => t \in trees[v][q]
        BY <1>8, <3>1, <4>4
      <4> QED BY <4>1, <4>2, <4>3, <4>5
    <3> QED BY <3>2, <3>3
  <2>2. \A t : Terminal(t)' <=> Terminal(t)
    BY <1>2 DEF Terminal
  <2> QED BY <2>1, <2>2 DEF Planted
<1>12. Pairs'
  BY <1>1, <1>2, <1>7 DEF Pairs
<1>13. \A t \in Tabs : kind'[t] # Nil => t <= used'
  BY <1>2 DEF WorkspaceInv
<1> QED BY <1>2, <1>9, <1>10, <1>11, <1>12, <1>13 DEF WorkspaceInv

\* A detached workspace is returned, or its window is closed.
LEMMA WindowGoesKeeps ==
    ASSUME WorkspaceInv, NEW d \in Detached, CloseWindow(d) \/ \E t \in owned[d] : Return(d, t)
    PROVE  WorkspaceInv'
<1>1. WorkspaceTypeOK /\ live \subseteq Windows
  BY DEF WorkspaceInv, WorkspaceTypeOK
<1>2. CASE CloseWindow(d)
  <2> DEFINE given == IF shown[d] # Nil THEN shown[d] ELSE wanted[d]
  <2>1. d \in live \ {Main} /\ GivesBack(d, given)
    BY <1>2 DEF CloseWindow
  <2>2. given \in SomeTab
    BY <1>1, <2>1 DEF WorkspaceTypeOK
  <2> HIDE DEF given
  <2> QED BY <2>1, <2>2, GivesBackKeeps
<1>3. CASE \E t \in owned[d] : Return(d, t)
  <2> PICK t \in owned[d] : Return(d, t)
    BY <1>3
  <2>1. d \in live \ {Main} /\ t \in Strip(d) /\ GivesBack(d, t)
    BY WorkspaceAssumption DEF Return, Unlocked
  <2>2. t \in SomeTab
    BY <2>1 DEF Strip, Open, SomeTab
  <2> QED BY <2>1, <2>2, GivesBackKeeps
<1> QED BY <1>2, <1>3

-----------------------------------------------------------------------------
(* The restart.                                                             *)

\* A pane tree that is restored is one that was saved, under one of its panes.
LEMMA RestoresKeeps ==
    ASSUME WorkspaceInv, NEW lost \in SUBSET Tabs, NEW recreated \in SUBSET (live \ {Main}), NEW head,
           Restores(lost, recreated, head)
    PROVE  WorkspaceInv'
<1>1. /\ WorkspaceTypeOK /\ Owners /\ Planted /\ Pairs /\ Main \in Windows /\ Main \in live
      /\ live \subseteq Windows
  BY DEF WorkspaceInv, WorkspaceTypeOK, Windows
<1> DEFINE here == Open \ lost
           Whole(tree) == tree # {} /\ tree \subseteq here
           Forest(w, roots) ==
             [t \in Tabs |-> UNION {trees[w][r] : r \in {q \in roots :
                                      Whole(trees[w][q]) /\ Replanted(trees[w][q], q, head) = t}}]
           First(w) == {r \in Roots(w) : \A q \in Roots(w) : r <= q}
           back == {w \in recreated : owned[w] \cap here # {} /\ \A r \in First(w) : Whole(trees[w][r])}
<1>2. /\ closing = {}
      /\ kind' = [t \in Tabs |-> IF t \in here THEN kind[t] ELSE Nil]
      /\ companion' = Unlinked(lost)
      /\ active' \in IF active \in here THEN {active} ELSE IF here = {} THEN {Nil} ELSE here
      /\ live' = {Main} \cup back
      /\ owned' = [w \in Windows |-> IF w \in back THEN owned[w] \cap here ELSE {}]
      /\ trees' = [w \in Windows |-> IF w = Main THEN Forest(Main, Roots(Main))
                                     ELSE IF w \in back THEN Forest(w, First(w)) ELSE NoTree]
      /\ pending' = Nil /\ refreshed' = FALSE
      /\ UNCHANGED <<closing, used>>
  BY DEF Restores
<1>3. \E pick \in (UNION {owned[w] \cap here : w \in back}) \cup {Nil} :
        LET restored == [w \in Windows |->
                  IF w = Main THEN shown[Main]
                  ELSE IF w \notin back THEN Nil
                  ELSE IF shown[w] \in owned[w] \cap here THEN shown[w] ELSE pick]
        IN shown' = restored /\ wanted' = [restored EXCEPT ![Main] = Nil]
  BY DEF Restores
<1>4. back \subseteq live \ {Main} /\ here \subseteq Tabs /\ here \subseteq Open
  BY DEF Open
<1> DEFINE From(w, r, t) ==
             \E q \in Tabs : /\ trees[w][q] \subseteq here /\ t \in trees[w][q]
                             /\ r = IF head \in trees[w][q] THEN head ELSE q
<1>5. \A w \in Windows, r \in Tabs :
        /\ \A t \in trees'[w][r] : w \in live' /\ From(w, r, t)
        /\ \A q \in Tabs, t \in trees'[w][r] :
             t \in trees[w][q] => trees[w][q] \subseteq trees'[w][r]
  <2>1. ASSUME NEW w \in Windows, NEW r \in Tabs, NEW roots \in SUBSET Roots(w),
               trees'[w] = Forest(w, roots), NEW t \in trees'[w][r]
        PROVE  From(w, r, t) /\ \A q \in Tabs : t \in trees[w][q] => trees[w][q] \subseteq trees'[w][r]
    <3>1. trees'[w][r] = UNION {trees[w][q] : q \in {p \in roots :
                                  Whole(trees[w][p]) /\ Replanted(trees[w][p], p, head) = r}}
      BY <2>1
    <3>2. PICK p \in roots : Whole(trees[w][p]) /\ Replanted(trees[w][p], p, head) = r /\ t \in trees[w][p]
      BY <2>1, <3>1
    <3>3. p \in Tabs /\ trees[w][p] \subseteq trees'[w][r]
      BY <3>1, <3>2 DEF Roots
    <3>4. \A q \in Tabs : t \in trees[w][q] => q = p
      BY <1>1, <3>2, <3>3 DEF Planted
    <3> QED BY <3>2, <3>3, <3>4 DEF Replanted
  <2> HIDE DEF Forest, From
  <2>2. ASSUME NEW w \in Windows, NEW r \in Tabs, NEW t \in trees'[w][r]
        PROVE  w \in live' /\ \E roots \in SUBSET Roots(w) : trees'[w] = Forest(w, roots)
    <3>1. CASE w = Main
      BY <1>1, <1>2, <3>1
    <3>2. CASE w # Main /\ w \in back
      <4>1. trees'[w] = Forest(w, First(w)) /\ First(w) \in SUBSET Roots(w) /\ w \in live'
        BY <1>2, <3>2
      <4> QED BY <4>1
    <3>3. CASE w # Main /\ w \notin back
      <4>1. trees'[w] = NoTree
        BY <1>2, <3>3
      <4> QED BY <2>2, <4>1 DEF NoTree
    <3> QED BY <3>1, <3>2, <3>3
  <2> QED BY <2>1, <2>2
<1>6. trees' \in [Windows -> [Tabs -> SUBSET Tabs]]
  <2>1. \A w \in Windows : \A roots \in SUBSET Tabs : Forest(w, roots) \in [Tabs -> SUBSET Tabs]
    BY <1>1 DEF WorkspaceTypeOK
  <2>2. NoTree \in [Tabs -> SUBSET Tabs] /\ \A w : Roots(w) \in SUBSET Tabs /\ First(w) \in SUBSET Tabs
    BY DEF NoTree, Roots
  <2> HIDE DEF Forest, First, back
  <2> QED BY <1>2, <2>1, <2>2
<1> HIDE DEF Forest, Whole, First, back, From
<1>7. \A w \in Windows : owned'[w] = IF w \in back THEN owned[w] \cap here ELSE {}
  BY <1>2
<1>8. \A t \in Tabs : t \in here => kind'[t] = kind[t]
  BY <1>2
<1>9. /\ kind' \in [Tabs -> TabKinds \cup {Nil}] /\ companion' \in [Tabs -> SomeTab]
      /\ Open' = here /\ Pairs'
  <2>1. kind' = [t \in Tabs |-> IF t \in lost THEN Nil ELSE kind[t]]
    BY <1>2 DEF Open
  <2>2. \A w \in Windows : owned'[w] \in {owned[w] \ lost, {}}
    BY <1>1, <1>7 DEF Owners, Open, WorkspaceTypeOK
  <2>3. companion' = Unlinked(lost)
    BY <1>2
  <2> HIDE DEF here
  <2>4. /\ kind' \in [Tabs -> TabKinds \cup {Nil}] /\ companion' \in [Tabs -> SomeTab]
        /\ Open' = Open \ lost /\ Pairs'
    BY <1>1, <2>1, <2>2, <2>3, Unpaired
  <2> QED BY <2>4 DEF here
<1>10. WorkspaceTypeOK'
  <2>1. owned' \in [Windows -> SUBSET Tabs]
    BY <1>2, <1>4
  <2>2. shown' \in [Windows -> SomeTab] /\ wanted' \in [Windows -> SomeTab]
    <3>1. PICK pick \in (UNION {owned[w] \cap here : w \in back}) \cup {Nil} :
            LET restored == [w \in Windows |->
                      IF w = Main THEN shown[Main]
                      ELSE IF w \notin back THEN Nil
                      ELSE IF shown[w] \in owned[w] \cap here THEN shown[w] ELSE pick]
            IN shown' = restored /\ wanted' = [restored EXCEPT ![Main] = Nil]
      BY <1>3
    <3>2. pick \in SomeTab /\ Nil \in SomeTab /\ \A w \in Windows : shown[w] \in SomeTab
      BY <1>1, <1>4 DEF WorkspaceTypeOK, SomeTab
    <3>3. shown' \in [Windows -> SomeTab]
      BY <1>1, <3>1, <3>2
    <3> QED BY <3>1, <3>2, <3>3
  <2>3. Main \in live' /\ live' \subseteq Windows
    BY <1>1, <1>2, <1>4
  <2>4. active' \in Open' \cup {Nil}
    BY <1>2, <1>9
  <2> QED BY <1>1, <1>2, <1>6, <1>9, <2>1, <2>2, <2>3, <2>4 DEF WorkspaceTypeOK, SomeTab
<1>11. Owners'
  <2>1. owned'[Main] = {}
    BY <1>1, <1>4, <1>7
  <2>2. \A v \in Windows \ live' : owned'[v] = {} /\ \A r \in Tabs : trees'[v][r] = {}
    BY <1>2, <1>5, <1>7
  <2>3. \A v \in Windows : \A t \in owned'[v] : kind'[t] \notin {Nil, "page"}
    BY <1>1, <1>4, <1>7, <1>8 DEF Owners
  <2>4. \A u, v \in Windows : \A t \in owned'[u] : t \in owned'[v] => u = v
    BY <1>1, <1>7 DEF Owners
  <2> QED BY <2>1, <2>2, <2>3, <2>4 DEF Owners
<1>12. Planted'
  <2>1. ASSUME NEW w \in Windows, NEW r \in Tabs, NEW t \in trees'[w][r]
        PROVE  /\ r \in trees'[w][r] /\ Terminal(t)' /\ Home(w, t)'
               /\ \A s \in Tabs : t \in trees'[w][s] => s = r
    <3>1. PICK q \in Tabs : /\ trees[w][q] \subseteq here /\ t \in trees[w][q]
                            /\ r = IF head \in trees[w][q] THEN head ELSE q
      BY <1>5, <2>1 DEF From
    <3>2. q \in trees[w][q] /\ Terminal(t) /\ Home(w, t) /\ \A p \in Tabs : t \in trees[w][p] => p = q
      BY <1>1, <3>1 DEF Planted
    <3>3. r \in trees'[w][r]
      <4>1. trees[w][q] \subseteq trees'[w][r]
        BY <1>5, <2>1, <3>1
      <4> QED BY <3>1, <3>2, <4>1
    <3>4. t \in here /\ t \in Tabs /\ w \in live'
      BY <1>4, <1>5, <2>1, <3>1
    <3>5. Terminal(t)'
      BY <1>8, <3>2, <3>4 DEF Terminal
    <3>6. Home(w, t)'
      <4>1. CASE w = Main
        BY <1>7, <3>2, <4>1 DEF Home
      <4>2. CASE w # Main
        BY <1>2, <1>7, <3>2, <3>4, <4>2 DEF Home
      <4> QED BY <4>1, <4>2
    <3>7. ASSUME NEW s \in Tabs, t \in trees'[w][s] PROVE s = r
      <4>1. PICK p \in Tabs : t \in trees[w][p] /\ s = IF head \in trees[w][p] THEN head ELSE p
        BY <1>5, <3>7 DEF From
      <4> QED BY <3>1, <3>2, <4>1
    <3> QED BY <3>3, <3>5, <3>6, <3>7
  <2> QED BY <2>1 DEF Planted
<1>13. \A t \in Tabs : kind'[t] # Nil => t <= used'
  BY <1>2, <1>4, <1>8 DEF WorkspaceInv, Open
<1> QED BY <1>2, <1>9, <1>10, <1>11, <1>12, <1>13 DEF WorkspaceInv

-----------------------------------------------------------------------------
(* The theorem.                                                             *)

\* The application starts with the main window and no tab.
LEMMA WorkspaceInitial == WorkspaceInit => WorkspaceInv
<1> SUFFICES ASSUME WorkspaceInit PROVE WorkspaceInv
  OBVIOUS
<1>1. /\ kind = [t \in Tabs |-> Nil] /\ companion = [t \in Tabs |-> Nil] /\ active = Nil
      /\ live = {Main} /\ owned = [w \in Windows |-> {}] /\ wanted = [w \in Windows |-> Nil]
      /\ shown = [w \in Windows |-> Nil] /\ trees = [w \in Windows |-> NoTree]
      /\ pending = Nil /\ closing = {} /\ refreshed = TRUE /\ used = 0 /\ Main \in Windows
  BY DEF WorkspaceInit, Windows
<1>2. WorkspaceTypeOK
  <2>1. trees \in [Windows -> [Tabs -> SUBSET Tabs]]
    BY <1>1 DEF NoTree
  <2>2. kind \in [Tabs -> TabKinds \cup {Nil}] /\ companion \in [Tabs -> SomeTab]
    BY <1>1 DEF SomeTab
  <2>3. shown \in [Windows -> SomeTab] /\ wanted \in [Windows -> SomeTab] /\ owned \in [Windows -> SUBSET Tabs]
    BY <1>1 DEF SomeTab
  <2> QED BY <1>1, <2>1, <2>2, <2>3 DEF WorkspaceTypeOK, SomeTab
<1>3. \A w \in Windows : owned[w] = {} /\ \A r \in Tabs : trees[w][r] = {}
  BY <1>1 DEF NoTree
<1>4. Owners /\ Planted
  BY <1>1, <1>3 DEF Owners, Planted
<1>5. Pairs /\ \A t \in Tabs : kind[t] # Nil => t <= used
  BY <1>1 DEF Pairs
<1>6. \A w \in live : shown[w] \in Strip(w) \cup {Nil}
  BY <1>1
<1> QED BY <1>2, <1>4, <1>5, <1>6 DEF WorkspaceInv

\* Every step of the workspace keeps it whole.
LEMMA WorkspaceStep == WorkspaceInv /\ [WorkspaceNext]_workspaceVars => WorkspaceInv'
<1> SUFFICES ASSUME WorkspaceInv, [WorkspaceNext]_workspaceVars PROVE WorkspaceInv'
  OBVIOUS
<1>1. WorkspaceTypeOK
  BY DEF WorkspaceInv
<1>2. CASE \E w \in live : OpenPage(w) \/ SwitchToCompanion(w) \/ SwitchToNew(w)
  BY <1>2, OpenPageKeeps, SwitchToCompanionKeeps, SwitchToNewKeeps
<1>3. CASE \E k \in Opened \ {"page"} : OpenSession(k)
  BY <1>3, OpenSessionKeeps, WorkspaceAssumption
<1>4. CASE \E w \in live : \E t \in Strip(w) : Activate(w, t)
  BY <1>4, ActivateKeeps
<1>5. CASE \E w \in live : \E r \in Roots(w) : \E t \in trees[w][r] :
             FocusPane(w, r, t) \/ SplitPane(w, r, t) \/ ClosePane(w, r, t)
  BY <1>5, FocusPaneKeeps, SplitPaneKeeps, ClosePaneKeeps
<1>6. CASE \E t \in Open : CloseTab(t) \/ EditorCloses(t) \/ BeginDetach(t)
  <2> PICK t \in Open : CloseTab(t) \/ EditorCloses(t) \/ BeginDetach(t)
    BY <1>6
  <2>1. CASE BeginDetach(t)
    <3>1. pending' \in SomeTab /\ UNCHANGED <<tabVars, routeVars, closing, refreshed, used>>
      BY <2>1 DEF BeginDetach, Open, SomeTab
    <3> QED BY <3>1, PendingKeeps
  <2> QED BY <2>1, CloseTabKeeps, EditorClosesKeeps
<1>7. CASE Refresh
  BY <1>7, RefreshKeeps
<1>8. CASE DetachFails
  <2>1. pending' \in SomeTab /\ UNCHANGED <<tabVars, routeVars, closing, refreshed, used>>
    BY <1>8 DEF DetachFails, SomeTab
  <2> QED BY <2>1, PendingKeeps
<1>9. CASE \E d \in Detached : FinishDetach(d) \/ CloseWindow(d) \/ \E t \in owned[d] : Return(d, t)
  BY <1>9, FinishDetachKeeps, WindowGoesKeeps
<1>10. CASE \E lost, recreated, head :
              /\ lost \in SUBSET Tabs /\ recreated \in SUBSET (live \ {Main})
              /\ Restores(lost, recreated, head)
  BY <1>10, RestoresKeeps
<1>11. \/ \E lost \in {{}, Profiled} : Restores(lost, live \ {Main}, 0)
       \/ \E head \in Restorable : Restores({}, live \ {Main}, head)
       \/ live # {Main} /\ Restores({}, {}, 0)
       => \E lost, recreated, head :
              /\ lost \in SUBSET Tabs /\ recreated \in SUBSET (live \ {Main})
              /\ Restores(lost, recreated, head)
  <2>1. {} \in SUBSET Tabs /\ Profiled \in SUBSET Tabs /\ {} \in SUBSET (live \ {Main})
        /\ live \ {Main} \in SUBSET (live \ {Main})
    BY DEF Profiled, Open
  <2> QED BY <2>1
<1>12. CASE UNCHANGED workspaceVars
  <2>1. pending' \in SomeTab /\ UNCHANGED <<tabVars, routeVars, closing, refreshed, used>>
    BY <1>1, <1>12 DEF workspaceVars, WorkspaceTypeOK
  <2> QED BY <2>1, PendingKeeps
<1> QED BY <1>2, <1>3, <1>4, <1>5, <1>6, <1>7, <1>8, <1>9, <1>10, <1>11, <1>12 DEF WorkspaceNext

\* Whatever is opened, split, moved between windows, closed or restored, every open tab is
\* found in one place, companions stay together and the workspace can be saved.
THEOREM WorkspaceStaysWhole == WorkspaceSpec => []WorkspaceWhole
<1>1. WorkspaceSpec => []WorkspaceInv
  BY WorkspaceInitial, WorkspaceStep, PTL DEF WorkspaceSpec
<1> QED BY <1>1, WorkspaceIsWhole, PTL

-----------------------------------------------------------------------------
(* Media: the one microphone and what terminals have of it.                *)

MediaSpec == MediaInit /\ [][MediaNext]_mediaVars

SomeOperation == Operations \cup {Nil}
TaskKinds == {"none", "image", "microphone", "dictation", "automatic"}
TaskPlaces ==
    {"over", "encoding", "uploading", "starting", "capturing", "finishing", "transcribing", "settling"}
TaskRec ==
    [kind : TaskKinds, tab : Terminals \cup {Nil}, generation : Nat, link : Nat, at : TaskPlaces]

MediaTypeOK ==
    /\ link \in [Terminals -> [n : Nat, generation : Nat, up : BOOLEAN]]
    /\ job \in [Terminals -> Jobs \cup {Nil}]
    /\ token \in [Terminals -> SomeOperation] /\ transcript \in [Terminals -> SomeOperation]
    /\ launching \in SomeOperation
    /\ tasks \in [Operations -> TaskRec] /\ stops \in SUBSET Operations
    /\ lease \in SomeOperation
    /\ captures \in [Operations -> {"none", "permission", "opening", "recording", "over"}]
    /\ cancelled \in SUBSET Operations
    /\ remote \in [Operations -> {"none", "starting", "ready", "over"}]
    /\ bridge \in [Terminals -> [alive : BOOLEAN, capture : SomeOperation]]
    /\ accepted \in SUBSET [id : Operations, link : Nat]

\* Whoever uses the device, or is about to, holds the lease.
Using(i) == captures[i] \in {"permission", "opening", "recording"}
LeaseHeld == \A i \in Operations : Using(i) => lease = i

\* Who uses the device, and every task of an audio job, is owned or told to stop.
DeviceOwned == \A i \in Operations : Using(i) => Owned(i) \/ i \in stops \cup cancelled
Working(i) == RunsAudio(i) /\ tasks[i].at # "over"
TasksOwned == \A i \in Operations : Working(i) => JobOf(tasks[i].tab, i) \/ i \in stops

TasksPlaced ==
    \A i \in Operations : /\ tasks[i].kind # "none" => tasks[i].tab \in Terminals
                          /\ tasks[i].at # "over" => tasks[i].kind # "none"

\* What a terminal has is of the connection it was asked on, which is up.
AskedOn(t, i) == tasks[i].tab = t /\ tasks[i].link = link[t].n /\ link[t].up
JobFits(t) == RunsAudio(job[t].id) /\ AskedOn(t, job[t].id)
TokenFits(t) == tasks[token[t]].kind = "image" /\ AskedOn(t, token[t])
TranscriptFits(t) == RunsAudio(transcript[t]) /\ AskedOn(t, transcript[t])
BridgeFits(t) ==
    /\ ~bridge[t].alive => bridge[t].capture = Nil
    /\ bridge[t].capture # Nil => tasks[bridge[t].capture].kind = "automatic"
ScreensFit ==
    \A t \in Terminals :
        /\ job[t] # Nil => JobFits(t)
        /\ token[t] # Nil => TokenFits(t)
        /\ transcript[t] # Nil => TranscriptFits(t)
        /\ BridgeFits(t)
LaunchFits == launching # Nil => RunsAudio(launching)

AcceptedFits == \A a \in accepted : tasks[a.id].link = a.link /\ tasks[a.id].kind # "none"
OneJob == \A t \in Terminals, u \in Terminals : job[t] # Nil /\ job[u] # Nil => t = u

MediaInv ==
    /\ MediaTypeOK /\ LeaseHeld /\ DeviceOwned /\ TasksOwned /\ TasksPlaced /\ ScreensFit
    /\ LaunchFits /\ AcceptedFits /\ OneJob

-----------------------------------------------------------------------------
\* Two facts about every step: what its operations and terminals have stays of the
\* connection it was asked on, and who loses an operation tells it to stop.
JobStays(t) == job[t] # Nil /\ job'[t] # Nil /\ job'[t].id = job[t].id
SameOperation(i) ==
    tasks'[i].kind = tasks[i].kind /\ tasks'[i].tab = tasks[i].tab /\ tasks'[i].link = tasks[i].link
ScreenMoves(t) ==
    /\ job'[t] # Nil => JobStays(t) \/ JobFits(t)'
    /\ token'[t] # Nil => token'[t] = token[t] \/ TokenFits(t)'
    /\ transcript'[t] # Nil => transcript'[t] = transcript[t] \/ TranscriptFits(t)'
    /\ bridge'[t] = bridge[t] \/ BridgeFits(t)'
    /\ link[t].up => \/ link'[t].n = link[t].n /\ link'[t].up
                     \/ job'[t] = Nil /\ token'[t] = Nil /\ transcript'[t] = Nil
OwnerMoves(t) ==
    /\ job[t] # Nil => JobStays(t) \/ job[t].id \in stops'
    /\ bridge[t].capture # Nil => bridge'[t].capture = bridge[t].capture \/ bridge[t].capture \in stops'
OperationMoves(i) ==
    /\ tasks[i].kind # "none" => SameOperation(i)
    /\ Using(i)' => Using(i) \/ Owned(i)'
    /\ Working(i)' => (tasks[i].kind # "none" /\ tasks[i].at # "over") \/ JobOf(tasks[i].tab, i)'
MediaMoves ==
    /\ \A t \in Terminals : ScreenMoves(t) /\ OwnerMoves(t)
    /\ \A i \in Operations : OperationMoves(i)
    /\ stops \subseteq stops' /\ cancelled \subseteq cancelled'
    /\ launching' # Nil => launching' = launching \/ RunsAudio(launching)'
    /\ \A a \in accepted' : a \in accepted \/ (tasks'[a.id].link = a.link /\ tasks'[a.id].kind # "none")

\* A step of that kind preserves what MediaInv says beyond the types and the device.
LEMMA MediaMovesKeep ==
    ASSUME MediaInv, MediaTypeOK', LeaseHeld', TasksPlaced', OneJob', MediaMoves
    PROVE  MediaInv'
<1>0. MediaTypeOK /\ ScreensFit
  BY DEF MediaInv
<1>1. \A i \in Operations : tasks[i].kind # "none" => SameOperation(i)
  BY DEF MediaMoves, OperationMoves
<1>2. ASSUME NEW t \in Terminals, job'[t] # Nil PROVE JobFits(t)'
  <2>1. ASSUME JobStays(t) PROVE JobFits(t)'
    <3>1. job[t] # Nil /\ job'[t].id = job[t].id /\ JobFits(t)
      BY <2>1, <1>0 DEF JobStays, ScreensFit
    <3>2. job[t].id \in Operations
      BY <3>1, <1>0 DEF MediaTypeOK, Jobs
    <3>3. SameOperation(job[t].id)
      BY <3>1, <3>2, <1>1 DEF JobFits, RunsAudio
    <3>4. link'[t].n = link[t].n /\ link'[t].up
      BY <3>1, <1>2 DEF MediaMoves, ScreenMoves, JobFits, AskedOn
    <3> QED
      BY <3>1, <3>3, <3>4 DEF JobFits, RunsAudio, AskedOn, SameOperation
  <2> QED
    BY <2>1, <1>2 DEF MediaMoves, ScreenMoves
<1>3. ASSUME NEW t \in Terminals, token'[t] # Nil PROVE TokenFits(t)'
  <2>1. ASSUME token'[t] = token[t] PROVE TokenFits(t)'
    <3>1. token[t] # Nil /\ TokenFits(t) /\ token[t] \in Operations
      BY <2>1, <1>3, <1>0 DEF ScreensFit, MediaTypeOK, SomeOperation
    <3>2. SameOperation(token[t])
      BY <3>1, <1>1 DEF TokenFits
    <3>3. link'[t].n = link[t].n /\ link'[t].up
      BY <3>1, <1>3 DEF MediaMoves, ScreenMoves, TokenFits, AskedOn
    <3> QED
      BY <2>1, <3>1, <3>2, <3>3 DEF TokenFits, AskedOn, SameOperation
  <2> QED
    BY <2>1, <1>3 DEF MediaMoves, ScreenMoves
<1>4. ASSUME NEW t \in Terminals, transcript'[t] # Nil PROVE TranscriptFits(t)'
  <2>1. ASSUME transcript'[t] = transcript[t] PROVE TranscriptFits(t)'
    <3>1. transcript[t] # Nil /\ TranscriptFits(t) /\ transcript[t] \in Operations
      BY <2>1, <1>4, <1>0 DEF ScreensFit, MediaTypeOK, SomeOperation
    <3>2. SameOperation(transcript[t])
      BY <3>1, <1>1 DEF TranscriptFits, RunsAudio
    <3>3. link'[t].n = link[t].n /\ link'[t].up
      BY <3>1, <1>4 DEF MediaMoves, ScreenMoves, TranscriptFits, AskedOn
    <3> QED
      BY <2>1, <3>1, <3>2, <3>3 DEF TranscriptFits, RunsAudio, AskedOn, SameOperation
  <2> QED
    BY <2>1, <1>4 DEF MediaMoves, ScreenMoves
<1>5. ASSUME NEW t \in Terminals PROVE BridgeFits(t)'
  <2>1. ASSUME bridge'[t] = bridge[t] PROVE BridgeFits(t)'
    <3>1. BridgeFits(t)
      BY <1>0 DEF ScreensFit
    <3>2. bridge[t].capture # Nil => bridge[t].capture \in Operations
      BY <1>0 DEF MediaTypeOK, SomeOperation
    <3>3. bridge[t].capture # Nil => SameOperation(bridge[t].capture)
      BY <3>1, <3>2, <1>1 DEF BridgeFits
    <3> QED
      BY <2>1, <3>1, <3>3 DEF BridgeFits, SameOperation
  <2> QED
    BY <2>1 DEF MediaMoves, ScreenMoves
<1>6. ScreensFit'
  BY <1>2, <1>3, <1>4, <1>5 DEF ScreensFit
<1>7. LaunchFits'
  <2>1. launching # Nil => launching \in Operations /\ RunsAudio(launching)
    BY <1>0 DEF MediaInv, MediaTypeOK, SomeOperation, LaunchFits
  <2>2. launching # Nil => SameOperation(launching)
    BY <2>1, <1>1 DEF RunsAudio
  <2> QED
    BY <2>1, <2>2 DEF MediaMoves, LaunchFits, RunsAudio, SameOperation
<1>8. AcceptedFits'
  <2> SUFFICES ASSUME NEW a \in accepted' PROVE tasks'[a.id].link = a.link /\ tasks'[a.id].kind # "none"
    BY DEF AcceptedFits
  <2>1. CASE a \in accepted
    <3>1. a.id \in Operations /\ tasks[a.id].link = a.link /\ tasks[a.id].kind # "none"
      BY <2>1, <1>0 DEF MediaInv, MediaTypeOK, AcceptedFits
    <3>2. SameOperation(a.id)
      BY <3>1, <1>1
    <3> QED
      BY <3>1, <3>2 DEF SameOperation
  <2> QED
    BY <2>1 DEF MediaMoves
<1>9. \A t \in Terminals : OwnerMoves(t)
  BY DEF MediaMoves
<1>10. DeviceOwned'
  <2> SUFFICES ASSUME NEW i \in Operations, Using(i)' PROVE Owned(i)' \/ i \in stops' \cup cancelled'
    BY DEF DeviceOwned
  <2>1. Owned(i)' \/ Using(i)
    BY DEF MediaMoves, OperationMoves
  <2>2. CASE Using(i)
    <3>1. Owned(i) \/ i \in stops \cup cancelled
      BY <2>2 DEF MediaInv, DeviceOwned
    <3>2. ASSUME NEW t \in Terminals, JobOf(t, i) \/ bridge[t].capture = i
          PROVE  Owned(i)' \/ i \in stops'
      <4>1. i # Nil
        BY MediaNil, MediaAssumption DEF Operations
      <4>2. CASE JobOf(t, i)
        BY <4>2, <1>9 DEF OwnerMoves, JobStays, JobOf, Owned
      <4>3. CASE bridge[t].capture = i
        BY <4>1, <4>3, <1>9 DEF OwnerMoves, Owned
      <4> QED
        BY <3>2, <4>2, <4>3
    <3> QED
      BY <3>1, <3>2 DEF Owned, MediaMoves
  <2> QED
    BY <2>1, <2>2
<1>11. TasksOwned'
  <2> SUFFICES ASSUME NEW i \in Operations, Working(i)' PROVE JobOf(tasks[i].tab, i)' \/ i \in stops'
    BY DEF TasksOwned
  <2>1. CASE tasks[i].kind # "none" /\ tasks[i].at # "over"
    <3>1. SameOperation(i) /\ tasks[i].tab \in Terminals
      BY <2>1, <1>1 DEF MediaInv, TasksPlaced
    <3>2. Working(i)
      BY <2>1, <3>1 DEF Working, RunsAudio, SameOperation
    <3>3. JobOf(tasks[i].tab, i) \/ i \in stops
      BY <3>2 DEF MediaInv, TasksOwned
    <3> QED
      BY <3>1, <3>3, <1>9 DEF SameOperation, OwnerMoves, JobStays, JobOf, MediaMoves
  <2> QED
    BY <2>1 DEF MediaMoves, OperationMoves
<1> QED
  BY <1>6, <1>7, <1>8, <1>10, <1>11 DEF MediaInv

-----------------------------------------------------------------------------
(* The parts a step is made of.                                             *)

\* A set of numbers that is not empty has a least one: identifiers are given out in order.
LEMMA LeastExists ==
    ASSUME NEW S \in SUBSET Nat, S # {}
    PROVE  \E i \in S : \A k \in S : i <= k
<1>1. PICK R : R = OpToRel(<, Nat)
  OBVIOUS
<1>2. IsWellFoundedOn(R, Nat)
  BY <1>1, NatLessThanWellFounded
<1>3. \A i \in Nat, k \in Nat : k < i => <<k, i>> \in R
  BY <1>1 DEF OpToRel
<1>4. PICK i \in S : \A k \in S : ~ (<<k, i>> \in R)
  BY <1>2, WFMin
<1>5. \A k \in S : i <= k
  <2> SUFFICES ASSUME NEW k \in S PROVE i <= k
    OBVIOUS
  <2>1. i \in Nat /\ k \in Nat
    OBVIOUS
  <2>2. ~ (<<k, i>> \in R)
    BY <1>4
  <2>3. ~ (k < i)
    BY <2>1, <2>2, <1>3
  <2> QED
    BY <2>1, <2>3
<1> QED
  BY <1>5

\* While an identifier is left, the one given out next stands for nothing yet.
LEMMA NewOperationIsNew ==
    ASSUME Unused # {}
    PROVE  /\ NewOperation \in Operations /\ tasks[NewOperation] = NoTask
           /\ captures[NewOperation] = "none" /\ tasks[NewOperation].kind = "none"
<1>1. Unused \in SUBSET Nat
  BY MediaAssumption DEF Unused, Operations
<1>2. \E i \in Unused : \A k \in Unused : i <= k
  BY <1>1, LeastExists
<1>3. NewOperation \in Unused
  BY <1>2 DEF NewOperation
<1> QED
  BY <1>3 DEF Unused, NoTask

TasksMove ==
    /\ tasks' \in [Operations -> TaskRec]
    /\ \A i \in Operations : SameOperation(i) /\ (tasks'[i].at # "over" => tasks[i].at # "over")
DevicesMove ==
    /\ lease' \in SomeOperation
    /\ captures' \in [Operations -> {"none", "permission", "opening", "recording", "over"}]
    /\ cancelled' \in SUBSET Operations /\ cancelled \subseteq cancelled'
    /\ LeaseHeld' /\ \A i \in Operations : Using(i)' => Using(i) \/ Owned(i)'
StopsMove == stops' \in SUBSET Operations /\ stops \subseteq stops'
ScreensMove ==
    /\ link' \in [Terminals -> [n : Nat, generation : Nat, up : BOOLEAN]]
    /\ job' \in [Terminals -> Jobs \cup {Nil}]
    /\ token' \in [Terminals -> SomeOperation] /\ transcript' \in [Terminals -> SomeOperation]
    /\ bridge' \in [Terminals -> [alive : BOOLEAN, capture : SomeOperation]]
    /\ OneJob' /\ \A t \in Terminals : ScreenMoves(t) /\ OwnerMoves(t)
RemoteMoves == remote' \in [Operations -> {"none", "starting", "ready", "over"}]
AcceptedMoves ==
    /\ accepted' \in SUBSET [id : Operations, link : Nat]
    /\ \A a \in accepted' : a \in accepted \/ (tasks'[a.id].link = a.link /\ tasks'[a.id].kind # "none")

\* A step of which every part moves as it may.
LEMMA PartsKeep ==
    ASSUME MediaInv, TasksMove, DevicesMove, StopsMove, ScreensMove, RemoteMoves, AcceptedMoves,
           launching' \in {launching, Nil}
    PROVE  MediaInv'
<1>1. TasksPlaced'
  BY DEF MediaInv, TasksPlaced, TasksMove, SameOperation
<1>2. MediaTypeOK'
  BY DEF MediaInv, MediaTypeOK, SomeOperation, TasksMove, DevicesMove, StopsMove, ScreensMove, RemoteMoves,
         AcceptedMoves
<1>3. \A i \in Operations : OperationMoves(i)
  BY DEF TasksMove, DevicesMove, OperationMoves, SameOperation, Working, RunsAudio, MediaInv, TasksPlaced
<1>4. launching' # Nil => launching' = launching \/ RunsAudio(launching)'
  OBVIOUS
<1>5. MediaMoves
  BY <1>3, <1>4 DEF MediaMoves, DevicesMove, StopsMove, ScreensMove, AcceptedMoves
<1> QED
  BY <1>1, <1>2, <1>5, MediaMovesKeep DEF DevicesMove, ScreensMove

\* Terminals whose handles and connection stay keep what they have.
LEMMA ScreensRest ==
    ASSUME MediaInv, UNCHANGED <<link, job, token, transcript, bridge>>
    PROVE  ScreensMove
<1>1. \A t \in Terminals : ScreenMoves(t) /\ OwnerMoves(t)
  BY DEF ScreenMoves, OwnerMoves, JobStays
<1> QED
  BY <1>1 DEF MediaInv, MediaTypeOK, OneJob, ScreensMove

\* What stays as it is has moved as it should.
LEMMA PartsRest ==
    ASSUME MediaInv
    PROVE  /\ UNCHANGED tasks => TasksMove
           /\ UNCHANGED <<lease, captures, cancelled>> => DevicesMove
           /\ UNCHANGED stops => StopsMove
           /\ UNCHANGED remote => RemoteMoves
           /\ UNCHANGED accepted => AcceptedMoves
<1>1. UNCHANGED tasks => TasksMove
  BY DEF MediaInv, MediaTypeOK, TasksMove, SameOperation
<1>2. UNCHANGED <<lease, captures, cancelled>> => DevicesMove
  BY DEF MediaInv, MediaTypeOK, DevicesMove, LeaseHeld, Using
<1> QED
  BY <1>1, <1>2 DEF MediaInv, MediaTypeOK, StopsMove, RemoteMoves, AcceptedMoves

\* A task that goes from one place to another stays the task it was.
LEMMA TaskMoves ==
    ASSUME MediaInv, NEW i \in Operations, NEW p \in TaskPlaces, tasks' = [tasks EXCEPT ![i].at = p],
           p # "over" => tasks[i].at # "over"
    PROVE  TasksMove
<1>1. tasks \in [Operations -> TaskRec] /\ tasks[i] \in TaskRec
  BY DEF MediaInv, MediaTypeOK
<1>2. [tasks[i] EXCEPT !.at = p] \in TaskRec
  BY <1>1, Zenon DEF TaskRec
<1>3. tasks' = [tasks EXCEPT ![i] = [tasks[i] EXCEPT !.at = p]]
  OBVIOUS
<1>4. tasks' \in [Operations -> TaskRec]
  BY <1>1, <1>2, <1>3
<1>5. \A k \in Operations : tasks'[k] = IF k = i THEN [tasks[i] EXCEPT !.at = p] ELSE tasks[k]
  BY <1>1, <1>3
<1> QED
  BY <1>1, <1>4, <1>5 DEF TasksMove, SameOperation, TaskRec

\* Cancelling captures frees the device of whoever held it and gives it to nobody.
LEMMA DropsKeep ==
    ASSUME MediaInv, NEW ids \in SUBSET Operations, DropsCaptures(ids)
    PROVE  DevicesMove
<1>1. MediaTypeOK /\ LeaseHeld
  BY DEF MediaInv
<1>2. \A i \in Operations :
        captures'[i] = IF i \in ids /\ captures[i] = "permission" THEN "over" ELSE captures[i]
  BY DEF DropsCaptures
<1>3. captures' \in [Operations -> {"none", "permission", "opening", "recording", "over"}]
  BY <1>1 DEF DropsCaptures, MediaTypeOK
<1>4. cancelled' \in SUBSET Operations /\ cancelled \subseteq cancelled'
  BY <1>1 DEF DropsCaptures, MediaTypeOK
<1>5. lease' \in SomeOperation
  BY <1>1 DEF DropsCaptures, ReleasesLease, MediaTypeOK, SomeOperation
<1>6. \A i \in Operations : Using(i)' => Using(i) /\ ~(i \in ids /\ captures[i] = "permission")
  BY <1>2 DEF Using
<1>7. LeaseHeld'
  BY <1>1, <1>6 DEF LeaseHeld, DropsCaptures, ReleasesLease
<1> QED
  BY <1>3, <1>4, <1>5, <1>6, <1>7 DEF DevicesMove

\* A terminal that loses its job tells it to stop.
LEMMA DropsJobKeeps ==
    ASSUME MediaInv, NEW t \in Terminals, DropsJob(t)
    PROVE  TasksMove /\ DevicesMove /\ StopsMove /\ (job[t] # Nil => job[t].id \in stops')
<1>1. MediaTypeOK
  BY DEF MediaInv
<1>2. CASE job[t] = Nil
  BY <1>2, PartsRest DEF DropsJob, deviceVars
<1>3. CASE job[t] # Nil
  <2>1. job[t].id \in Operations
    BY <1>1, <1>3 DEF MediaTypeOK, Jobs
  <2>2. stops' = stops \cup {job[t].id}
    BY <1>3 DEF DropsJob
  <2>3. StopsMove /\ job[t].id \in stops'
    BY <2>1, <2>2, <1>1 DEF StopsMove, MediaTypeOK
  <2>4. CASE job[t].task
    <3>1. tasks' = [tasks EXCEPT ![job[t].id].at = "over"] /\ DropsCaptures({job[t].id})
      BY <1>3, <2>4 DEF DropsJob
    <3>2. TasksMove
      BY <2>1, <3>1, TaskMoves DEF TaskPlaces
    <3>3. DevicesMove
      BY <2>1, <3>1, DropsKeep
    <3> QED
      BY <2>3, <3>2, <3>3
  <2>5. CASE ~job[t].task
    BY <1>3, <2>3, <2>5, PartsRest DEF DropsJob, deviceVars
  <2> QED
    BY <2>4, <2>5
<1> QED
  BY <1>2, <1>3

-----------------------------------------------------------------------------
(* The steps.                                                               *)

\* The thread of a capture uses the device only under the lease it was given.
LEMMA CaptureStepsKeep ==
    ASSUME MediaInv, NEW i \in Operations,
           PermissionGranted(i) \/ PermissionEnds(i) \/ OpensDevice(i) \/ StopSeen(i) \/ ThreadEnds(i)
    PROVE  MediaInv'
<1>1. MediaTypeOK /\ LeaseHeld
  BY DEF MediaInv
<1>2. UNCHANGED <<link, job, token, transcript, launching, tasks, stops, remote, bridge, accepted>>
  BY DEF PermissionGranted, PermissionEnds, OpensDevice, StopSeen, ThreadEnds, CaptureStep, screenVars
<1>3. captures' \in [Operations -> {"none", "permission", "opening", "recording", "over"}]
  BY <1>1 DEF PermissionGranted, PermissionEnds, OpensDevice, StopSeen, ThreadEnds, MediaTypeOK
<1>4. lease' \in SomeOperation /\ cancelled' \in SUBSET Operations /\ cancelled \subseteq cancelled'
  BY <1>1
  DEF PermissionGranted, PermissionEnds, OpensDevice, StopSeen, ThreadEnds, MediaTypeOK, SomeOperation
<1>5. \A k \in Operations : k # i => captures'[k] = captures[k]
  BY <1>1 DEF PermissionGranted, PermissionEnds, OpensDevice, StopSeen, ThreadEnds, MediaTypeOK
<1>6. Using(i) /\ lease = i
  BY <1>1
  DEF PermissionGranted, PermissionEnds, OpensDevice, StopSeen, ThreadEnds, Using, LeaseHeld
<1>7. \A k \in Operations : Using(k)' => Using(k)
  BY <1>5, <1>6 DEF Using
<1>8. Using(i)' => lease' = i
  BY <1>1, <1>6 DEF PermissionGranted, PermissionEnds, OpensDevice, StopSeen, ThreadEnds, Using, MediaTypeOK
<1>9. \A k \in Operations : Using(k)' => k = i
  BY <1>1, <1>6, <1>7 DEF LeaseHeld
<1>10. DevicesMove
  BY <1>3, <1>4, <1>7, <1>8, <1>9 DEF DevicesMove, LeaseHeld
<1> QED
  BY <1>2, <1>10, PartsRest, ScreensRest, PartsKeep

\* What a capture of the device begins with, when its operation owns it.
LEMMA BeginsKeep ==
    ASSUME MediaInv, NEW i \in Operations, BeginsCapture(i), i \notin stops => Owned(i)'
    PROVE  DevicesMove
<1>1. MediaTypeOK /\ LeaseHeld
  BY DEF MediaInv
<1>2. CASE i \notin stops /\ lease = Nil
  <2>1. lease' = i /\ captures' = [captures EXCEPT ![i] = "permission"] /\ cancelled' = cancelled
    BY <1>2 DEF BeginsCapture
  <2>2. captures' \in [Operations -> {"none", "permission", "opening", "recording", "over"}]
    BY <1>1, <2>1 DEF MediaTypeOK
  <2>3. i # Nil
    BY MediaNil, MediaAssumption DEF Operations
  <2>4. \A k \in Operations : ~Using(k)
    BY <1>1, <1>2, MediaNil, MediaAssumption DEF LeaseHeld, Operations
  <2>5. \A k \in Operations : Using(k)' => k = i
    BY <2>1, <2>4, <1>1 DEF Using, MediaTypeOK
  <2> QED
    BY <1>1, <1>2, <2>1, <2>2, <2>5 DEF DevicesMove, LeaseHeld, MediaTypeOK, SomeOperation
<1>3. CASE ~(i \notin stops /\ lease = Nil)
  <2>1. captures' = [captures EXCEPT ![i] = "over"] /\ UNCHANGED <<lease, cancelled>>
    BY <1>3 DEF BeginsCapture
  <2>2. captures' \in [Operations -> {"none", "permission", "opening", "recording", "over"}]
    BY <1>1, <2>1 DEF MediaTypeOK
  <2>3. \A k \in Operations : Using(k)' => Using(k)
    BY <2>1, <1>1 DEF Using, MediaTypeOK
  <2> QED
    BY <1>1, <2>1, <2>2, <2>3 DEF DevicesMove, LeaseHeld, MediaTypeOK
<1> QED
  BY <1>2, <1>3

\* A task waiting for its recording or its helper owns nothing new.
LEMMA TaskStepsKeep ==
    ASSUME MediaInv, NEW i \in Operations, Records(i) \/ HelperGone(i) \/ TimeLimit(i) \/ HelperReady(i) \/ HelperEnds(i)
    PROVE  MediaInv'
<1>1. MediaTypeOK
  BY DEF MediaInv
<1>2. UNCHANGED <<link, job, token, transcript, launching, bridge, accepted>>
  BY DEF Records, HelperGone, TimeLimit, HelperReady, HelperEnds, screenVars
<1>3. CASE Records(i)
  <2>1. Working(i) /\ tasks[i].kind # "none"
    BY <1>3 DEF Records, Working, RunsAudio
  <2>2. TasksMove
    BY <1>3, TaskMoves DEF Records, TaskPlaces
  <2>3. i \notin stops => Owned(i)
    <3>1. tasks[i].tab \in Terminals /\ (JobOf(tasks[i].tab, i) \/ i \in stops)
      BY <2>1 DEF MediaInv, TasksOwned, TasksPlaced
    <3> QED
      BY <3>1 DEF Owned
  <2>4. i \notin stops => Owned(i)'
    BY <2>3, <1>2 DEF Owned, JobOf
  <2>5. DevicesMove
    BY <1>3, <2>4, BeginsKeep DEF Records
  <2> QED
    BY <1>2, <1>3, <2>2, <2>5, PartsRest, ScreensRest, PartsKeep DEF Records
<1>4. CASE HelperGone(i)
  <2>1. TasksMove
    BY <1>4, TaskMoves DEF HelperGone, TaskPlaces
  <2>2. DevicesMove
    BY <1>4, DropsKeep DEF HelperGone
  <2> QED
    BY <1>2, <1>4, <2>1, <2>2, PartsRest, ScreensRest, PartsKeep DEF HelperGone
<1>5. CASE TimeLimit(i)
  <2>1. StopsMove
    BY <1>1, <1>5 DEF TimeLimit, StopsMove, MediaTypeOK
  <2> QED
    BY <1>2, <1>5, <2>1, PartsRest, ScreensRest, PartsKeep DEF TimeLimit, deviceVars
<1>6. CASE HelperReady(i) \/ HelperEnds(i)
  <2>1. RemoteMoves
    BY <1>1, <1>6 DEF HelperReady, HelperEnds, RemoteMoves, MediaTypeOK
  <2> QED
    BY <1>2, <1>6, <2>1, PartsRest, ScreensRest, PartsKeep DEF HelperReady, HelperEnds, deviceVars
<1> QED
  BY <1>3, <1>4, <1>5, <1>6

\* Screens on which nothing new appears, with what leaves them told to stop.
LEMMA ScreensShrink ==
    ASSUME MediaInv, link' = link, bridge' = bridge,
           job' \in [Terminals -> Jobs \cup {Nil}], token' \in [Terminals -> SomeOperation],
           transcript' \in [Terminals -> SomeOperation],
           \A t \in Terminals : /\ job'[t] # Nil => JobStays(t)
                                /\ job[t] # Nil => JobStays(t) \/ job[t].id \in stops'
                                /\ token'[t] # Nil => token'[t] = token[t]
                                /\ transcript'[t] # Nil => transcript'[t] = transcript[t] \/ TranscriptFits(t)'
    PROVE  ScreensMove
<1>1. \A t \in Terminals : ScreenMoves(t) /\ OwnerMoves(t)
  BY DEF ScreenMoves, OwnerMoves
<1>2. OneJob'
  BY DEF MediaInv, OneJob, JobStays
<1> QED
  BY <1>1, <1>2 DEF MediaInv, MediaTypeOK, ScreensMove

\* A recording that is over is transcribed by the same job of the same terminal.
LEMMA CaptureOverKeeps == ASSUME MediaInv, NEW i \in Operations, CaptureOver(i) PROVE MediaInv'
<1>1. MediaTypeOK
  BY DEF MediaInv
<1>2. TasksMove
  BY TaskMoves DEF CaptureOver, TaskPlaces
<1>3. \A t \in Terminals : job[t] # Nil => job[t] \in Jobs /\ [job[t] EXCEPT !.mode = "transcribing"] \in Jobs
                                         /\ [job[t] EXCEPT !.mode = "transcribing"].id = job[t].id
  BY <1>1 DEF MediaTypeOK, Jobs
<1>4. \A t \in Terminals : /\ job'[t] = job[t] \/ (job[t] # Nil /\ job'[t] = [job[t] EXCEPT !.mode = "transcribing"])
  BY DEF CaptureOver, JobOf
<1>5. job' \in [Terminals -> Jobs \cup {Nil}]
  <2>1. job' = job \/ job' = [t \in Terminals |-> IF JobOf(t, i) THEN [job[t] EXCEPT !.mode = "transcribing"] ELSE job[t]]
    BY DEF CaptureOver
  <2> QED
    BY <1>1, <1>3, <2>1 DEF MediaTypeOK, JobOf
<1>6. \A t \in Terminals : (job'[t] # Nil => JobStays(t)) /\ (job[t] # Nil => JobStays(t))
  BY ZenonT(40), <1>3, <1>4, MediaNil DEF JobStays
<1>7. ScreensMove
  BY <1>1, <1>5, <1>6, ScreensShrink DEF CaptureOver, MediaTypeOK
<1> QED
  BY <1>2, <1>7, PartsRest, PartsKeep DEF CaptureOver, deviceVars

\* The result of a task reaches the terminal that still has its job, on its connection.
LEMMA SettlesKeeps == ASSUME MediaInv, NEW i \in Operations, Settles(i) PROVE MediaInv'
<1>0. PICK t \in Terminals : t = tasks[i].tab
  BY DEF MediaInv, TasksPlaced, Settles
<1>1. MediaTypeOK /\ i # Nil
  BY MediaNil, MediaAssumption DEF MediaInv, Operations
<1>2. TasksMove
  BY TaskMoves DEF Settles, TaskPlaces
<1>3. UNCHANGED <<link, bridge, token, launching, remote, accepted, lease, captures, cancelled>>
  BY DEF Settles, deviceVars
<1>4. CASE JobOf(t, i)
  <2>1. /\ job' = [job EXCEPT ![t] = Nil] /\ stops' = stops \cup {i}
        /\ transcript' = transcript \/ transcript' = [transcript EXCEPT ![t] = i]
    BY <1>0, <1>4 DEF Settles
  <2>2. JobFits(t) /\ job[t].id = i
    BY <1>1, <1>4 DEF JobOf, MediaInv, ScreensFit
  <2>3. job' \in [Terminals -> Jobs \cup {Nil}] /\ transcript' \in [Terminals -> SomeOperation]
    BY <1>1, <2>1 DEF MediaTypeOK, SomeOperation
  <2>4. StopsMove
    BY <1>1, <2>1 DEF MediaTypeOK, StopsMove
  <2>5. \A u \in Terminals : /\ job'[u] = IF u = t THEN Nil ELSE job[u]
                             /\ transcript'[u] = transcript[u] \/ (u = t /\ transcript'[u] = i)
    BY <1>1, <2>1 DEF MediaTypeOK
  <2>6. RunsAudio(i)' /\ AskedOn(t, i)'
    BY <1>1, <1>2, <1>3, <2>2 DEF JobFits, AskedOn, RunsAudio, TasksMove, SameOperation
  <2>7. \A u \in Terminals : /\ job'[u] # Nil => JobStays(u)
                             /\ job[u] # Nil => JobStays(u) \/ job[u].id \in stops'
                             /\ transcript'[u] # Nil => transcript'[u] = transcript[u] \/ TranscriptFits(u)'
    <3> TAKE u \in Terminals
    <3>1. (job'[u] # Nil => JobStays(u)) /\ (job[u] # Nil => JobStays(u) \/ job[u].id \in stops')
      BY <2>1, <2>2, <2>5 DEF JobStays
    <3>2. ASSUME u = t, transcript'[u] = i PROVE TranscriptFits(u)'
      BY <3>2, <2>6 DEF TranscriptFits, RunsAudio, AskedOn
    <3> QED
      BY <3>1, <3>2, <2>5
  <2>8. ScreensMove
    BY <1>1, <1>3, <2>3, <2>7, ScreensShrink DEF MediaTypeOK
  <2> QED
    BY <1>2, <1>3, <2>4, <2>8, PartsRest, PartsKeep
<1>5. CASE ~JobOf(t, i)
  BY <1>0, <1>2, <1>3, <1>5, PartsRest, ScreensRest, PartsKeep DEF Settles
<1> QED
  BY <1>4, <1>5

\* A task stored after its launch belongs to the job that launched it, or is told to stop.
LEMMA StoresTaskKeeps == ASSUME MediaInv, StoresTask PROVE MediaInv'
<1>1. MediaTypeOK /\ launching \in Operations /\ RunsAudio(launching) /\ launching' = Nil
  BY DEF MediaInv, MediaTypeOK, SomeOperation, StoresTask, LaunchFits
<1>2. PICK t \in Terminals : t = tasks[launching].tab
  BY <1>1 DEF MediaInv, TasksPlaced, RunsAudio
<1>3. UNCHANGED <<link, token, transcript, stops, remote, bridge, accepted>>
  BY DEF StoresTask
<1>4. CASE JobOf(t, launching)
  <2>1. job' = [job EXCEPT ![t].task = TRUE] /\ UNCHANGED <<tasks, lease, captures, cancelled>>
    BY <1>2, <1>4 DEF StoresTask, deviceVars
  <2>2. job[t] \in Jobs /\ [job[t] EXCEPT !.task = TRUE] \in Jobs
    BY ZenonT(40), <1>1, <1>4 DEF JobOf, MediaTypeOK, Jobs
  <2>3. \A u \in Terminals : job'[u] = IF u = t THEN [job[t] EXCEPT !.task = TRUE] ELSE job[u]
    BY <1>1, <2>1 DEF MediaTypeOK
  <2>4. job' \in [Terminals -> Jobs \cup {Nil}]
    BY <1>1, <2>1, <2>2 DEF MediaTypeOK
  <2>5. \A u \in Terminals : (job'[u] # Nil => JobStays(u)) /\ (job[u] # Nil => JobStays(u))
    <3>1. [job[t] EXCEPT !.task = TRUE].id = job[t].id
      BY <2>2 DEF Jobs
    <3> QED
      BY <2>2, <2>3, <3>1, <1>4, MediaNil DEF JobStays, JobOf
  <2>6. ScreensMove
    BY <1>1, <1>3, <2>4, <2>5, ScreensShrink DEF MediaTypeOK
  <2> QED
    BY <1>1, <1>3, <2>1, <2>6, PartsRest, PartsKeep
<1>5. CASE ~JobOf(t, launching)
  <2>1. /\ tasks' = [tasks EXCEPT ![launching].at = "over"]
        /\ DropsCaptures({launching}) /\ UNCHANGED job
    BY <1>2, <1>5 DEF StoresTask
  <2>2. TasksMove
    BY <1>1, <2>1, TaskMoves DEF TaskPlaces
  <2>3. DevicesMove
    BY <1>1, <2>1, DropsKeep
  <2> QED
    BY <1>1, <1>3, <2>1, <2>2, <2>3, PartsRest, ScreensRest, PartsKeep
<1> QED
  BY <1>4, <1>5

\* Stopping a recording leaves it to its task; stopping a transcription ends the job.
LEMMA StopsAudioKeeps == ASSUME MediaInv, NEW t \in Terminals, StopsAudio(t) PROVE MediaInv'
<1>1. MediaTypeOK /\ job[t] # Nil /\ job[t].id \in Operations
  BY DEF MediaInv, MediaTypeOK, StopsAudio, Jobs
<1>2. UNCHANGED <<link, token, transcript, launching, remote, bridge, accepted>>
  BY DEF StopsAudio
<1>3. CASE job[t].mode = "transcribing"
  <2>1. DropsJob(t) /\ job' = [job EXCEPT ![t] = Nil]
    BY <1>3 DEF StopsAudio
  <2>2. TasksMove /\ DevicesMove /\ StopsMove /\ job[t].id \in stops'
    BY <1>1, <2>1, DropsJobKeeps
  <2>3. job' \in [Terminals -> Jobs \cup {Nil}] /\ \A u \in Terminals : job'[u] = IF u = t THEN Nil ELSE job[u]
    BY <1>1, <2>1 DEF MediaTypeOK
  <2>4. \A u \in Terminals : /\ job'[u] # Nil => JobStays(u)
                             /\ job[u] # Nil => JobStays(u) \/ job[u].id \in stops'
    BY <2>2, <2>3 DEF JobStays
  <2>5. ScreensMove
    BY <1>1, <1>2, <2>3, <2>4, ScreensShrink DEF MediaTypeOK
  <2> QED
    BY <1>2, <2>2, <2>5, PartsRest, PartsKeep
<1>4. CASE job[t].mode # "transcribing"
  <2>1. stops' = stops \cup {job[t].id} /\ UNCHANGED <<job, tasks, lease, captures, cancelled>>
    BY <1>4 DEF StopsAudio, deviceVars
  <2>2. StopsMove
    BY <1>1, <2>1 DEF StopsMove, MediaTypeOK
  <2> QED
    BY <1>2, <2>1, <2>2, PartsRest, ScreensRest, PartsKeep
<1> QED
  BY <1>3, <1>4

\* Taking a transcript leaves the job of the terminal alone.
LEMMA TakesTranscriptKeeps == ASSUME MediaInv, NEW t \in Terminals, TakesTranscript(t) PROVE MediaInv'
<1>1. MediaTypeOK
  BY DEF MediaInv
<1>2. transcript' \in [Terminals -> SomeOperation] /\ \A u \in Terminals : transcript'[u] \in {transcript[u], Nil}
  BY <1>1 DEF TakesTranscript, MediaTypeOK, SomeOperation
<1>3. \A u \in Terminals : job'[u] = job[u] /\ (job[u] # Nil => JobStays(u))
  BY DEF TakesTranscript, JobStays
<1>4. ScreensMove
  BY <1>1, <1>2, <1>3, ScreensShrink DEF TakesTranscript, MediaTypeOK
<1> QED
  BY <1>4, PartsRest, PartsKeep DEF TakesTranscript, deviceVars

\* An image is accepted on the connection it was pasted on, and on no other.
LEMMA ImageStepsKeep ==
    ASSUME MediaInv, NEW i \in Operations, Encodes(i) \/ Uploaded(i) \/ UploadFails(i)
    PROVE  MediaInv'
<1>1. MediaTypeOK /\ tasks[i].at # "over"
  BY DEF MediaInv, Encodes, Uploaded, UploadFails
<1>2. PICK t \in Terminals : t = tasks[i].tab
  BY <1>1 DEF MediaInv, TasksPlaced
<1>3. UNCHANGED <<link, job, transcript, launching, stops, lease, captures, cancelled, remote, bridge>>
  BY DEF Encodes, Uploaded, UploadFails, deviceVars
<1>4. TasksMove
  BY <1>1, TaskMoves DEF Encodes, Uploaded, UploadFails, TaskPlaces
<1>5. token' \in [Terminals -> SomeOperation] /\ \A u \in Terminals : token'[u] \in {token[u], Nil}
  <2>1. \/ token' = token \/ token' = [u \in Terminals |-> IF token[u] = i THEN Nil ELSE token[u]]
        \/ token' = [token EXCEPT ![t] = Nil]
    BY <1>2 DEF Encodes, Uploaded, UploadFails
  <2> QED
    BY <1>1, <2>1 DEF MediaTypeOK, SomeOperation
<1>6. \A u \in Terminals : job'[u] = job[u] /\ (job[u] # Nil => JobStays(u))
  BY <1>3 DEF JobStays
<1>7. ScreensMove
  BY <1>1, <1>3, <1>5, <1>6, ScreensShrink DEF MediaTypeOK
<1>8. AcceptedMoves
  <2>1. CASE accepted' = accepted
    BY <2>1, PartsRest
  <2>2. CASE accepted' # accepted
    <3>1. Uploaded(i) /\ Current(i) /\ accepted' = accepted \cup {[id |-> i, link |-> link[t].n]}
      BY <1>2, <2>2 DEF Encodes, Uploaded, UploadFails
    <3>2. token[t] = i /\ i # Nil
      BY <1>2, <3>1, MediaNil, MediaAssumption DEF Current, Operations
    <3>3. tasks[i].link = link[t].n /\ tasks[i].kind # "none"
      BY <3>2 DEF MediaInv, ScreensFit, TokenFits, AskedOn
    <3>4. tasks'[i].link = link[t].n /\ tasks'[i].kind # "none"
      BY <3>3, <1>4 DEF TasksMove, SameOperation
    <3>5. link[t].n \in Nat
      BY <1>1 DEF MediaTypeOK
    <3> QED
      BY <1>1, <3>1, <3>4, <3>5 DEF AcceptedMoves, MediaTypeOK
  <2> QED
    BY <2>1, <2>2
<1> QED
  BY <1>3, <1>4, <1>7, <1>8, PartsRest, PartsKeep

\* Cancelling leaves nothing of the old generation with the terminal.
LEMMA CancelsKeeps == ASSUME MediaInv, NEW t \in Terminals, NEW moves \in BOOLEAN, Cancels(t, moves) PROVE MediaInv'
<1>1. MediaTypeOK
  BY DEF MediaInv
<1>2. TasksMove /\ DevicesMove /\ StopsMove /\ (job[t] # Nil => job[t].id \in stops')
  BY DropsJobKeeps DEF Cancels
<1>3. UNCHANGED <<launching, remote, bridge, accepted>>
  BY DEF Cancels
<1> DEFINE l == [link[t] EXCEPT !.up = FALSE, !.generation = IF moves THEN @ + 1 ELSE @]
<1>4. link[t] \in [n : Nat, generation : Nat, up : BOOLEAN] /\ link' = [link EXCEPT ![t] = l]
  BY <1>1 DEF Cancels, MediaTypeOK
<1>5. l \in [n : Nat, generation : Nat, up : BOOLEAN]
  <2>1. link[t].generation + 1 \in Nat /\ link[t].generation \in Nat
    BY <1>4
  <2> QED
    BY <1>4, <2>1
<1>6. link' \in [Terminals -> [n : Nat, generation : Nat, up : BOOLEAN]]
      /\ \A u \in Terminals : u # t => link'[u] = link[u]
  BY <1>1, <1>4, <1>5 DEF MediaTypeOK
<1>7. /\ job' \in [Terminals -> Jobs \cup {Nil}] /\ token' \in [Terminals -> SomeOperation]
      /\ transcript' \in [Terminals -> SomeOperation]
      /\ job'[t] = Nil /\ token'[t] = Nil /\ transcript'[t] = Nil
      /\ \A u \in Terminals : u # t => job'[u] = job[u] /\ token'[u] = token[u] /\ transcript'[u] = transcript[u]
  BY <1>1 DEF Cancels, MediaTypeOK, SomeOperation
<1>8. \A u \in Terminals : ScreenMoves(u) /\ OwnerMoves(u)
  BY <1>2, <1>3, <1>6, <1>7 DEF ScreenMoves, OwnerMoves, JobStays
<1>9. OneJob'
  BY <1>7 DEF MediaInv, OneJob
<1>10. ScreensMove
  BY <1>1, <1>3, <1>6, <1>7, <1>8, <1>9 DEF ScreensMove, MediaTypeOK
<1> QED
  BY <1>2, <1>3, <1>10, PartsRest, PartsKeep

\* A new connection starts with no job, image or transcript of the old one.
LEMMA ReconnectsKeeps == ASSUME MediaInv, NEW t \in Terminals, Reconnects(t) PROVE MediaInv'
<1>1. MediaTypeOK
  BY DEF MediaInv
<1> DEFINE l == [link[t] EXCEPT !.up = TRUE, !.n = @ + 1]
<1>2. link[t] \in [n : Nat, generation : Nat, up : BOOLEAN] /\ link' = [link EXCEPT ![t] = l]
  BY <1>1 DEF Reconnects, MediaTypeOK
<1>3. l \in [n : Nat, generation : Nat, up : BOOLEAN]
  <2>1. link[t].n + 1 \in Nat
    BY <1>2
  <2> QED
    BY <1>2, <2>1
<1>4. link' \in [Terminals -> [n : Nat, generation : Nat, up : BOOLEAN]]
      /\ \A u \in Terminals : u # t => link'[u] = link[u]
  BY <1>1, <1>2, <1>3 DEF MediaTypeOK
<1>5. /\ bridge' \in [Terminals -> [alive : BOOLEAN, capture : SomeOperation]]
      /\ bridge'[t] = [alive |-> TRUE, capture |-> Nil]
      /\ \A u \in Terminals : u # t => bridge'[u] = bridge[u]
  BY <1>1 DEF Reconnects, MediaTypeOK, SomeOperation
<1>6. ~link[t].up /\ bridge[t].capture = Nil
  BY DEF MediaInv, ScreensFit, BridgeFits, Reconnects
<1>7. UNCHANGED <<job, token, transcript, launching, tasks, stops, lease, captures, cancelled, remote, accepted>>
  BY DEF Reconnects, screenVars, deviceVars
<1>8. \A u \in Terminals : ScreenMoves(u) /\ OwnerMoves(u)
  <2> TAKE u \in Terminals
  <2>1. CASE u = t
    <3>1. job[t] = Nil /\ token[t] = Nil /\ transcript[t] = Nil
      BY <1>6 DEF MediaInv, ScreensFit, JobFits, TokenFits, TranscriptFits, AskedOn
    <3>2. BridgeFits(t)'
      BY <1>5 DEF BridgeFits
    <3> QED
      BY <2>1, <3>1, <3>2, <1>6, <1>7 DEF ScreenMoves, OwnerMoves
  <2>2. CASE u # t
    BY <2>2, <1>4, <1>5, <1>7 DEF ScreenMoves, OwnerMoves, JobStays
  <2> QED
    BY <2>1, <2>2
<1>9. ScreensMove
  BY <1>1, <1>4, <1>5, <1>7, <1>8 DEF ScreensMove, MediaTypeOK, MediaInv, OneJob
<1> QED
  BY <1>7, <1>9, PartsRest, PartsKeep

\* The bridge of a connection stops the capture it demanded.
LEMMA BridgeStepsKeep == ASSUME MediaInv, NEW t \in Terminals, DemandEnds(t) \/ BridgeEnds(t) PROVE MediaInv'
<1>1. MediaTypeOK /\ StopsCapture(t)
  BY DEF MediaInv, DemandEnds, BridgeEnds
<1>2. UNCHANGED <<link, job, token, transcript, launching, tasks, remote, accepted>>
  BY <1>1 DEF StopsCapture, screenVars
<1>3. DevicesMove /\ StopsMove /\ (bridge[t].capture # Nil => bridge[t].capture \in stops')
  <2>1. CASE bridge[t].capture = Nil
    BY <1>1, <2>1, PartsRest DEF StopsCapture, deviceVars
  <2>2. CASE bridge[t].capture # Nil
    <3>1. bridge[t].capture \in Operations
      BY <1>1, <2>2 DEF MediaTypeOK, SomeOperation
    <3>2. stops' = stops \cup {bridge[t].capture} /\ DropsCaptures({bridge[t].capture})
      BY <1>1, <2>2 DEF StopsCapture
    <3>3. DevicesMove
      BY <3>1, <3>2, DropsKeep
    <3> QED
      BY <1>1, <3>1, <3>2, <3>3 DEF StopsMove, MediaTypeOK
  <2> QED
    BY <2>1, <2>2
<1>4. /\ bridge' \in [Terminals -> [alive : BOOLEAN, capture : SomeOperation]]
      /\ bridge'[t].capture = Nil
      /\ \A u \in Terminals : u # t => bridge'[u] = bridge[u]
  <2>1. CASE DemandEnds(t)
    <3>1. bridge' = [bridge EXCEPT ![t] = [bridge[t] EXCEPT !.capture = Nil]]
      BY <2>1 DEF DemandEnds
    <3>2. bridge[t] \in [alive : BOOLEAN, capture : SomeOperation]
      BY <1>1 DEF MediaTypeOK
    <3>3. [bridge[t] EXCEPT !.capture = Nil] \in [alive : BOOLEAN, capture : SomeOperation]
          /\ [bridge[t] EXCEPT !.capture = Nil].capture = Nil
      BY <3>2 DEF SomeOperation
    <3> QED
      BY <1>1, <3>1, <3>3 DEF MediaTypeOK
  <2>2. CASE BridgeEnds(t)
    BY <1>1, <2>2 DEF BridgeEnds, MediaTypeOK, SomeOperation
  <2> QED
    BY <2>1, <2>2
<1>5. \A u \in Terminals : ScreenMoves(u) /\ OwnerMoves(u)
  <2>1. BridgeFits(t)'
    BY <1>4 DEF BridgeFits
  <2> QED
    BY <1>2, <1>3, <1>4, <2>1 DEF ScreenMoves, OwnerMoves, JobStays
<1>6. ScreensMove
  BY <1>1, <1>2, <1>4, <1>5 DEF ScreensMove, MediaTypeOK, MediaInv, OneJob
<1> QED
  BY <1>2, <1>3, <1>6, PartsRest, PartsKeep

\* An operation begins: it is nobody's yet, and all others stay as they are.
Begins(i, r) ==
    /\ i \in Operations /\ tasks[i].kind = "none" /\ tasks' = [tasks EXCEPT ![i] = r]
    /\ r \in TaskRec /\ r.kind # "none" /\ r.tab \in Terminals

\* An operation that begins leaves all others as they were.
LEMMA BeginsFollow ==
    ASSUME MediaInv, NEW i, NEW r, Begins(i, r)
    PROVE  /\ tasks' \in [Operations -> TaskRec] /\ TasksPlaced' /\ tasks'[i] = r
           /\ \A k \in Operations : k # i => tasks'[k] = tasks[k]
           /\ \A k \in Operations : tasks[k].kind # "none" => SameOperation(k)
<1>1. tasks \in [Operations -> TaskRec]
  BY DEF MediaInv, MediaTypeOK
<1>2. tasks' \in [Operations -> TaskRec] /\ tasks'[i] = r /\ \A k \in Operations : k # i => tasks'[k] = tasks[k]
  BY <1>1 DEF Begins
<1>3. TasksPlaced'
  BY <1>2 DEF TasksPlaced, MediaInv, Begins
<1> QED
  BY <1>2, <1>3 DEF SameOperation, Begins

\* Only a terminal of a process without a job starts one, on the connection it is on.
LEMMA StartsAudioKeeps ==
    ASSUME MediaInv, NEW t \in Terminals, NEW mode \in {"microphone", "dictation"}, StartsAudio(t, mode)
    PROVE  MediaInv'
<1> DEFINE r == [kind |-> mode, tab |-> t, generation |-> link[t].generation, link |-> link[t].n, at |-> "starting"]
<1> DEFINE j == [id |-> NewOperation, mode |-> mode, task |-> FALSE]
<1>1. PICK i \in Operations : i = NewOperation /\ tasks[i].kind = "none" /\ captures[i] = "none"
  BY NewOperationIsNew DEF StartsAudio
<1>2. MediaTypeOK /\ link[t].generation \in Nat /\ link[t].n \in Nat /\ link[t].up
  BY DEF MediaInv, MediaTypeOK, StartsAudio
<1>3. r \in TaskRec /\ r.kind = mode /\ r.tab = t /\ r.link = link[t].n
  BY <1>2 DEF TaskRec, TaskKinds, TaskPlaces
<1>4. tasks' = [tasks EXCEPT ![i] = r]
  BY <1>1 DEF StartsAudio
<1>5. Begins(i, r)
  BY <1>1, <1>3, <1>4 DEF Begins
<1>6. /\ tasks' \in [Operations -> TaskRec] /\ TasksPlaced' /\ tasks'[i] = r
      /\ \A k \in Operations : k # i => tasks'[k] = tasks[k]
      /\ \A k \in Operations : tasks[k].kind # "none" => SameOperation(k)
  BY <1>5, BeginsFollow
<1>7. j \in Jobs /\ j.id = i /\ j # Nil
  <2>1. j \in Jobs /\ j.id = i
    BY <1>1 DEF Jobs
  <2> HIDE DEF j
  <2> QED
    BY <2>1, MediaNil
<1>8. /\ job' \in [Terminals -> Jobs \cup {Nil}] /\ job'[t] = j
      /\ \A u \in Terminals : u # t => job'[u] = job[u]
  BY <1>2, <1>7 DEF StartsAudio, MediaTypeOK
<1>9. \A u \in Terminals : job[u] = Nil
  BY DEF StartsAudio, MicrophoneInUse
<1>10. /\ UNCHANGED <<link, token, transcript, stops, lease, captures, cancelled, bridge, accepted>>
       /\ launching' = i
  BY <1>1 DEF StartsAudio, deviceVars
<1>11. remote' \in [Operations -> {"none", "starting", "ready", "over"}]
  BY <1>2 DEF StartsAudio, MediaTypeOK
<1>12. MediaTypeOK'
  BY <1>2, <1>6, <1>8, <1>10, <1>11 DEF MediaTypeOK, SomeOperation
<1>13. RunsAudio(i)' /\ AskedOn(t, i)' /\ JobFits(t)'
  BY <1>2, <1>3, <1>6, <1>7, <1>8, <1>10 DEF RunsAudio, AskedOn, JobFits
<1>14. ASSUME NEW u \in Terminals PROVE ScreenMoves(u) /\ OwnerMoves(u)
  BY <1>8, <1>9, <1>10, <1>13 DEF ScreenMoves, OwnerMoves
<1>15. ASSUME NEW k \in Operations PROVE OperationMoves(k)
  <2>1. Using(k)' => Using(k)
    BY <1>10 DEF Using
  <2>2. CASE k = i
    <3>1. JobOf(tasks[k].tab, k)'
      BY <2>2, <1>3, <1>6, <1>7, <1>8 DEF JobOf
    <3> QED
      BY <2>1, <2>2, <3>1, <1>1 DEF OperationMoves
  <2>3. CASE k # i
    BY <2>1, <2>3, <1>6 DEF OperationMoves, Working, RunsAudio, MediaInv, TasksPlaced
  <2> QED
    BY <2>2, <2>3
<1>16. LeaseHeld' /\ OneJob'
  BY <1>8, <1>9, <1>10 DEF LeaseHeld, Using, OneJob, MediaInv
<1>17. MediaMoves
  BY <1>10, <1>13, <1>14, <1>15 DEF MediaMoves
<1> QED
  BY <1>6, <1>12, <1>16, <1>17, MediaMovesKeep

\* An image pasted is a new operation of the connection that is up.
LEMMA PastesImageKeeps == ASSUME MediaInv, NEW t \in Terminals, PastesImage(t) PROVE MediaInv'
<1> DEFINE r == [kind |-> "image", tab |-> t, generation |-> link[t].generation, link |-> link[t].n, at |-> "encoding"]
<1>1. PICK i \in Operations : i = NewOperation /\ tasks[i].kind = "none" /\ captures[i] = "none"
  BY NewOperationIsNew DEF PastesImage
<1>2. MediaTypeOK /\ link[t].generation \in Nat /\ link[t].n \in Nat /\ link[t].up
  BY DEF MediaInv, MediaTypeOK, PastesImage
<1>3. r \in TaskRec /\ r.kind = "image" /\ r.tab = t /\ r.link = link[t].n
  BY <1>2 DEF TaskRec, TaskKinds, TaskPlaces
<1>4. tasks' = [tasks EXCEPT ![i] = r]
  BY <1>1 DEF PastesImage
<1>5. Begins(i, r)
  BY <1>1, <1>3, <1>4 DEF Begins
<1>6. /\ tasks' \in [Operations -> TaskRec] /\ TasksPlaced' /\ tasks'[i] = r
      /\ \A k \in Operations : k # i => tasks'[k] = tasks[k]
      /\ \A k \in Operations : tasks[k].kind # "none" => SameOperation(k)
  BY <1>5, BeginsFollow
<1>7. /\ token' \in [Terminals -> SomeOperation] /\ token'[t] = i
      /\ \A u \in Terminals : u # t => token'[u] = token[u]
  BY <1>1, <1>2 DEF PastesImage, MediaTypeOK, SomeOperation
<1>8. UNCHANGED <<link, job, transcript, launching, stops, lease, captures, cancelled, remote, bridge, accepted>>
  BY DEF PastesImage, deviceVars
<1>9. MediaTypeOK'
  BY <1>2, <1>6, <1>7, <1>8 DEF MediaTypeOK
<1>10. TokenFits(t)'
  BY <1>2, <1>3, <1>6, <1>7, <1>8 DEF TokenFits, AskedOn
<1>11. ASSUME NEW u \in Terminals PROVE ScreenMoves(u) /\ OwnerMoves(u)
  BY <1>7, <1>8, <1>10 DEF ScreenMoves, OwnerMoves, JobStays
<1>12. ASSUME NEW k \in Operations PROVE OperationMoves(k)
  <2>1. Using(k)' => Using(k)
    BY <1>8 DEF Using
  <2>2. k = i => ~Working(k)'
    BY <1>3, <1>6 DEF Working, RunsAudio
  <2>3. k # i /\ Working(k)' => tasks[k].kind # "none" /\ tasks[k].at # "over"
    BY <1>6 DEF Working, RunsAudio
  <2> QED
    BY <2>1, <2>2, <2>3, <1>6 DEF OperationMoves
<1>13. LeaseHeld' /\ OneJob'
  BY <1>8 DEF LeaseHeld, Using, OneJob, MediaInv
<1>14. MediaMoves
  BY <1>8, <1>11, <1>12 DEF MediaMoves
<1> QED
  BY <1>6, <1>9, <1>13, <1>14, MediaMovesKeep

\* A capture the remote host demands is owned by the bridge that asked for it.
LEMMA DemandsCaptureKeeps == ASSUME MediaInv, NEW t \in Terminals, DemandsCapture(t) PROVE MediaInv'
<1> DEFINE r == [NoTask EXCEPT !.kind = "automatic", !.tab = t]
<1>1. PICK i \in Operations : i = NewOperation /\ tasks[i].kind = "none" /\ captures[i] = "none"
  BY NewOperationIsNew DEF DemandsCapture
<1>2. MediaTypeOK
  BY DEF MediaInv
<1>3. r \in TaskRec /\ r.kind = "automatic" /\ r.tab = t
  BY DEF TaskRec, TaskKinds, TaskPlaces, NoTask
<1>4. tasks' = [tasks EXCEPT ![i] = r] /\ BeginsCapture(i)
  BY <1>1 DEF DemandsCapture
<1>5. Begins(i, r)
  BY <1>1, <1>3, <1>4 DEF Begins
<1>6. /\ tasks' \in [Operations -> TaskRec] /\ TasksPlaced' /\ tasks'[i] = r
      /\ \A k \in Operations : k # i => tasks'[k] = tasks[k]
      /\ \A k \in Operations : tasks[k].kind # "none" => SameOperation(k)
  BY <1>5, BeginsFollow
<1>7. /\ bridge' \in [Terminals -> [alive : BOOLEAN, capture : SomeOperation]]
      /\ bridge'[t].capture = i /\ bridge'[t].alive /\ bridge[t].capture = Nil
      /\ \A u \in Terminals : u # t => bridge'[u] = bridge[u]
  <2>1. bridge[t] \in [alive : BOOLEAN, capture : SomeOperation] /\ bridge[t].alive
    BY <1>2 DEF MediaTypeOK, DemandsCapture
  <2>2. bridge' = [bridge EXCEPT ![t] = [bridge[t] EXCEPT !.capture = i]]
    BY <1>1 DEF DemandsCapture
  <2>3. /\ [bridge[t] EXCEPT !.capture = i] \in [alive : BOOLEAN, capture : SomeOperation]
        /\ [bridge[t] EXCEPT !.capture = i].capture = i /\ [bridge[t] EXCEPT !.capture = i].alive
    BY <2>1 DEF SomeOperation
  <2> QED
    BY <1>2, <2>2, <2>3 DEF MediaTypeOK, DemandsCapture
<1>8. UNCHANGED <<link, job, token, transcript, launching, stops, remote, accepted>>
  BY DEF DemandsCapture, screenVars
<1>9. Owned(i)'
  BY <1>7 DEF Owned
<1>10. DevicesMove
  BY <1>4, <1>9, BeginsKeep
<1>11. MediaTypeOK'
  BY <1>2, <1>6, <1>7, <1>8, <1>10 DEF MediaTypeOK, DevicesMove
<1>12. BridgeFits(t)'
  BY <1>3, <1>6, <1>7 DEF BridgeFits
<1>13. ASSUME NEW u \in Terminals PROVE ScreenMoves(u) /\ OwnerMoves(u)
  BY <1>7, <1>8, <1>12 DEF ScreenMoves, OwnerMoves, JobStays
<1>14. ASSUME NEW k \in Operations PROVE OperationMoves(k)
  <2>1. Using(k)' => Using(k) \/ Owned(k)'
    BY <1>10 DEF DevicesMove
  <2>2. k = i => ~Working(k)'
    BY <1>3, <1>6 DEF Working, RunsAudio
  <2>3. k # i /\ Working(k)' => tasks[k].kind # "none" /\ tasks[k].at # "over"
    BY <1>6 DEF Working, RunsAudio
  <2> QED
    BY <2>1, <2>2, <2>3, <1>6 DEF OperationMoves
<1>15. LeaseHeld' /\ OneJob'
  BY <1>8, <1>10 DEF DevicesMove, OneJob, MediaInv
<1>16. MediaMoves
  BY <1>8, <1>10, <1>13, <1>14 DEF MediaMoves, DevicesMove
<1> QED
  BY <1>6, <1>11, <1>15, <1>16, MediaMovesKeep

-----------------------------------------------------------------------------
\* Nothing is recorded, owned or under way at first.
LEMMA MediaInitOK == MediaInit => MediaInv
<1> SUFFICES ASSUME MediaInit PROVE MediaInv
  OBVIOUS
<1>1. NoTask \in TaskRec /\ NoTask.kind = "none" /\ NoTask.at = "over"
  BY DEF NoTask, TaskRec, TaskKinds, TaskPlaces
<1>2. \A i \in Operations : tasks[i] = NoTask /\ captures[i] = "none"
  BY DEF MediaInit
<1>3. MediaTypeOK
  BY <1>1 DEF MediaInit, MediaTypeOK, SomeOperation
<1>4. LeaseHeld /\ DeviceOwned
  BY <1>2 DEF LeaseHeld, DeviceOwned, Using
<1>5. TasksOwned /\ TasksPlaced
  BY <1>1, <1>2 DEF TasksOwned, TasksPlaced, Working, RunsAudio
<1> QED
  BY <1>3, <1>4, <1>5
  DEF MediaInit, MediaInv, ScreensFit, BridgeFits, LaunchFits, AcceptedFits, OneJob

\* Every step of the terminals, their operations and their bridges preserves MediaInv.
LEMMA MediaStepOK == MediaInv /\ [MediaNext]_mediaVars => MediaInv'
<1> SUFFICES ASSUME MediaInv, [MediaNext]_mediaVars PROVE MediaInv'
  OBVIOUS
<1>1. CASE UNCHANGED mediaVars
  BY <1>1, PartsRest, ScreensRest, PartsKeep DEF mediaVars
<1>2. CASE MediaNext
  BY <1>2, StoresTaskKeeps, StartsAudioKeeps, StopsAudioKeeps, TakesTranscriptKeeps, PastesImageKeeps,
     ReconnectsKeeps, CancelsKeeps, DemandsCaptureKeeps, BridgeStepsKeep, ImageStepsKeep, CaptureStepsKeep,
     TaskStepsKeep, CaptureOverKeeps, SettlesKeeps
  DEF MediaNext
<1> QED
  BY <1>1, <1>2

\* The microphone is open for at most the holder of the lease, whom somebody owns or has
\* told to stop, though tasks are stored after they began, aborted anywhere, and outlived
\* by their device; and what is shown or accepted belongs to the connection it was asked on.
THEOREM MediaAreTheirs == MediaSpec => []MediaSound
<1>1. MediaInv => MediaSound
  <2> SUFFICES ASSUME MediaInv PROVE MediaSound
    OBVIOUS
  <2>1. Recording \subseteq {lease}
    BY DEF MediaInv, LeaseHeld, Using, Recording
  <2>2. \A i \in Recording : Owned(i) \/ i \in stops \cup cancelled
    BY DEF MediaInv, DeviceOwned, Using, Recording
  <2>3. \A t \in Terminals : transcript[t] # Nil =>
          tasks[transcript[t]].tab = t /\ tasks[transcript[t]].link = link[t].n
    BY DEF MediaInv, ScreensFit, TranscriptFits, AskedOn
  <2>4. \A a \in accepted : tasks[a.id].link = a.link
    BY DEF MediaInv, AcceptedFits
  <2>5. Cardinality({t \in Terminals : job[t] # Nil}) <= 1
    <3> DEFINE S == {t \in Terminals : job[t] # Nil}
    <3>1. CASE S = {}
      BY <3>1, FS_EmptySet
    <3>2. CASE S # {}
      <4>1. PICK t : S = {t}
        BY <3>2 DEF MediaInv, OneJob
      <4> QED
        BY <4>1, FS_Singleton
    <3> QED
      BY <3>1, <3>2
  <2> QED
    BY <2>1, <2>2, <2>3, <2>4, <2>5 DEF MediaSound
<1> QED
  BY <1>1, MediaInitOK, MediaStepOK, PTL DEF MediaSpec

-----------------------------------------------------------------------------
(* Latency: requests, replies and what the tab shows.                      *)

LatencySpec == LatencyInit /\ [][LatencyNext]_latencyVars

Samples == [kind : {"LatencyMeasured"}, roundTrip : Nat, at : Nat, request : Nat, reply : Nat]
Reports ==
    Samples \cup [kind : {"Connected", "LatencyTimedOut", "LatencyExpired", "LatencyUnavailable"}]
Phases == {"Measuring", "Measured", "TimedOut", "Stale", "Unavailable"}
Instants == Nat \cup {Nil}
Qualities == {"good", "moderate", "high", "poor"} \cup {Nil}

LatencyTypeOK ==
    /\ clock \in Nat /\ attempt \in 1 .. MaxAttempts
    /\ sampler \in Sampler \cup {Nil}
    /\ hint \in [foreground : BOOLEAN, unseen : BOOLEAN]
    /\ requests \in Seq([at : Nat, after : Nat]) /\ unanswered \in Seq(Nat)
    /\ reports \in [1 .. MaxAttempts -> Seq(Reports)]
    /\ latency \in [phase : Phases, smoothed : Instants, quality : Qualities, candidate : Qualities,
                    measuredAt : Instants, observedAt : Instants]

\* One request at a time is on the transport, and the next one keeps its distance.
OneRequest ==
    IF sampler = Nil THEN requests = <<>> /\ unanswered = <<>>
    ELSE IF sampler.probe = Nil
    THEN /\ unanswered = <<>>
         /\ requests # <<>> => sampler.next >= sampler.last + FOREGROUND_INTERVAL
    ELSE unanswered = <<sampler.probe>> /\ requests # <<>>

\* What was measured on the present connection is younger than its first request.
OfConnection(at) == requests # <<>> /\ at \in Nat /\ requests[1].at <= at /\ at <= clock

\* Attempts to come have reported nothing, and the present one nothing before it is up.
ReportsFollow ==
    /\ \A a \in 1 .. MaxAttempts : a > attempt => reports[a] = <<>>
    /\ sampler = Nil => reports[attempt] = <<>> /\ latency.phase = "Measuring"
    /\ \A k \in 1 .. Len(reports[attempt]) :
         reports[attempt][k].kind = "LatencyMeasured" => OfConnection(reports[attempt][k].at)
    /\ latency.phase = "Measured" => 
         latency.smoothed \in Nat /\ latency.observedAt = latency.measuredAt /\ OfConnection(latency.measuredAt)

\* No request is of the future.
RequestsInPast == requests # <<>> => requests[1].at \in Nat /\ requests[1].at <= clock

LatencyInv ==
    /\ LatencyTypeOK /\ OneRequest /\ RequestsInPast /\ ReportsFollow
    /\ RepliesArePaired /\ RequestsAreSpaced

-----------------------------------------------------------------------------
\* No interval is shorter than that of the tab in front.
LEMMA IntervalIsSpaced ==
    ASSUME NEW f \in BOOLEAN
    PROVE  Interval(f) \in Nat /\ Interval(f) >= FOREGROUND_INTERVAL
BY LatencyAssumption DEF Interval

\* A request that is over schedules the next one an interval later.
LEMMA CompletedIsSampler ==
    ASSUME LatencyTypeOK, sampler # Nil
    PROVE  /\ Completed \in Sampler /\ Completed.probe = Nil
           /\ Completed.next >= Completed.last + FOREGROUND_INTERVAL
<1>1. sampler \in Sampler /\ clock \in Nat
  BY DEF LatencyTypeOK
<1>2. sampler.foreground \in BOOLEAN
  BY <1>1 DEF Sampler
<1>3. clock + Interval(sampler.foreground) \in Nat /\ clock + SAMPLE_LIFETIME \in Nat
  BY <1>1, <1>2, IntervalIsSpaced, LatencyAssumption
<1>4. Completed \in Sampler
  BY <1>1, <1>3, ZenonT(60) DEF Completed, Sampler
<1>5. /\ Completed.probe = Nil /\ Completed.last = clock
      /\ Completed.next = clock + Interval(sampler.foreground)
  BY <1>1 DEF Completed, Sampler
<1> QED
  BY <1>1, <1>2, <1>4, <1>5, IntervalIsSpaced, LatencyAssumption

\* A report added at the end of the present attempt's channel.
LEMMA PostsKeep ==
    ASSUME LatencyInv, NEW e \in Reports, PostsReport(e), UNCHANGED <<clock, attempt, requests, latency>>,
           sampler' # Nil,
           e.kind = "LatencyMeasured" => OfConnection(e.at) /\ e.request = e.reply
    PROVE  ReportsFollow' /\ RepliesArePaired' /\ reports' \in [1 .. MaxAttempts -> Seq(Reports)]
<1>1. reports \in [1 .. MaxAttempts -> Seq(Reports)] /\ attempt \in 1 .. MaxAttempts
  BY DEF LatencyInv, LatencyTypeOK
<1>2. reports' = [reports EXCEPT ![attempt] = Append(reports[attempt], e)]
  BY DEF PostsReport
<1>3. reports[attempt] \in Seq(Reports)
  BY <1>1
<1>4. Append(reports[attempt], e) \in Seq(Reports)
  BY <1>3
<1>5. reports' \in [1 .. MaxAttempts -> Seq(Reports)]
  BY <1>1, <1>2, <1>4
<1>6. \A a \in 1 .. MaxAttempts : a # attempt => reports'[a] = reports[a]
  BY <1>1, <1>2
<1>7. reports'[attempt] = Append(reports[attempt], e)
  BY <1>1, <1>2
<1>8. \A k \in 1 .. Len(reports'[attempt]) :
         \/ k \in 1 .. Len(reports[attempt]) /\ reports'[attempt][k] = reports[attempt][k]
         \/ reports'[attempt][k] = e
  BY <1>3, <1>7
<1>9. ReportsFollow'
  <2>1. \A a \in 1 .. MaxAttempts : a > attempt => reports'[a] = <<>>
    BY <1>1, <1>6 DEF LatencyInv, ReportsFollow
  <2>2. \A k \in 1 .. Len(reports'[attempt]) :
          reports'[attempt][k].kind = "LatencyMeasured" => OfConnection(reports'[attempt][k].at)
    BY <1>8 DEF LatencyInv, ReportsFollow
  <2>3. \A at : OfConnection(at)' <=> OfConnection(at)
    BY DEF OfConnection
  <2> QED
    BY <2>1, <2>2, <2>3 DEF LatencyInv, ReportsFollow, OfConnection
<1>10. RepliesArePaired'
  <2> SUFFICES ASSUME NEW a \in 1 .. MaxAttempts, NEW k \in DOMAIN reports'[a],
                      reports'[a][k].kind = "LatencyMeasured"
               PROVE  reports'[a][k].request = reports'[a][k].reply
    BY DEF RepliesArePaired
  <2>1. CASE a = attempt
    BY <2>1, <1>3, <1>4, <1>7, <1>8 DEF LatencyInv, RepliesArePaired
  <2>2. CASE a # attempt
    BY <2>2, <1>6 DEF LatencyInv, RepliesArePaired
  <2> QED
    BY <2>1, <2>2
<1> QED
  BY <1>5, <1>9, <1>10

\* Neither the connection's reports nor what the tab shows of it change.
LEMMA ReportsKept ==
    ASSUME LatencyInv, UNCHANGED <<clock, attempt, requests, reports, latency>>, sampler' # Nil
    PROVE  ReportsFollow' /\ RepliesArePaired'
BY DEF LatencyInv, ReportsFollow, RepliesArePaired, OfConnection

\* A transport that comes up starts without requests and without results.
LEMMA TransportUpKeeps == ASSUME LatencyInv, TransportUp PROVE LatencyInv'
<1> DEFINE e == [kind |-> "Connected"]
<1>1. e \in Reports /\ e.kind # "LatencyMeasured"
  BY DEF Reports
<1>2. hint \in [foreground : BOOLEAN, unseen : BOOLEAN] /\ clock \in Nat
  BY DEF LatencyInv, LatencyTypeOK
<1>3. clock + SAMPLE_LIFETIME \in Nat
  BY <1>2, LatencyAssumption
<1>4. NewSampler \in Sampler
  BY <1>2, <1>3 DEF NewSampler, Sampler
<1>5. sampler' # Nil
  BY <1>4, LatencyNil DEF TransportUp
<1>6. ReportsFollow' /\ RepliesArePaired' /\ reports' \in [1 .. MaxAttempts -> Seq(Reports)]
  BY <1>1, <1>5, PostsKeep DEF TransportUp
<1>7. hint' \in [foreground : BOOLEAN, unseen : BOOLEAN]
  BY <1>2 DEF TransportUp
<1>8. LatencyTypeOK'
  BY <1>4, <1>6, <1>7 DEF TransportUp, LatencyInv, LatencyTypeOK
<1>9. NewSampler.probe = Nil
  BY DEF NewSampler
<1>10. OneRequest' /\ RequestsAreSpaced' /\ RequestsInPast'
  BY <1>5, <1>9 DEF TransportUp, LatencyInv, OneRequest, RequestsAreSpaced, RequestsInPast
<1> QED
  BY <1>6, <1>8, <1>10 DEF LatencyInv

\* A request starts only when none is on the transport, and at its time.
LEMMA StartsRequestKeeps == ASSUME LatencyInv, StartsRequest PROVE LatencyInv'
<1> DEFINE r == [at |-> clock, after |-> sampler.last]
<1> DEFINE n == Len(requests) + 1
<1>1. /\ sampler \in Sampler /\ clock \in Nat /\ requests \in Seq([at : Nat, after : Nat])
      /\ unanswered = <<>> /\ clock >= sampler.next
      /\ requests # <<>> => sampler.next >= sampler.last + FOREGROUND_INTERVAL
  BY DEF StartsRequest, LatencyInv, LatencyTypeOK, OneRequest
<1>2. sampler.last \in Nat /\ sampler.next \in Nat
  BY <1>1 DEF Sampler
<1>3. r \in [at : Nat, after : Nat] /\ r.at = clock /\ r.after = sampler.last
  BY <1>1, <1>2
<1>4. n \in Nat /\ clock + PROBE_TIMEOUT \in Nat
  BY <1>1, LatencyAssumption
<1>5. sampler' \in Sampler
  BY <1>1, <1>4, ZenonT(60) DEF StartsRequest, Sampler
<1>6. sampler' # Nil
  BY <1>5, LatencyNil
<1>7. requests' = Append(requests, r) /\ unanswered' = <<n>> /\ sampler'.probe = n
  BY <1>1 DEF StartsRequest, Sampler
<1>8. /\ requests' \in Seq([at : Nat, after : Nat]) /\ unanswered' \in Seq(Nat) /\ requests' # <<>>
      /\ Len(requests') = n /\ requests'[n] = r
      /\ \A k \in 1 .. Len(requests) : requests'[k] = requests[k]
  BY <1>1, <1>3, <1>4, <1>7
<1>9. LatencyTypeOK'
  BY <1>5, <1>8 DEF StartsRequest, LatencyInv, LatencyTypeOK
<1>10. OneRequest'
  BY <1>4, <1>6, <1>7, <1>8, LatencyNil DEF OneRequest
<1>11. RequestsAreSpaced'
  <2> SUFFICES ASSUME NEW k \in 2 .. Len(requests')
               PROVE  requests'[k].at >= requests'[k].after + FOREGROUND_INTERVAL
    BY DEF RequestsAreSpaced
  <2>1. CASE k = n
    <3>1. Len(requests) >= 1
      BY <2>1, <1>1
    <3>2. requests'[k].at >= requests'[k].after + FOREGROUND_INTERVAL
      <4>1. requests # <<>>
        BY <3>1
      <4>2. requests'[k].at = clock /\ requests'[k].after = sampler.last
        BY <2>1, <1>3, <1>8
      <4> QED
        BY SMTT(40), <4>1, <4>2, <1>1, <1>2, LatencyAssumption
    <3> QED
      BY <3>2
  <2>2. CASE k # n
    <3>1. k \in 2 .. Len(requests) /\ k \in 1 .. Len(requests)
      BY <2>2, <1>1, <1>8
    <3>2. requests'[k] = requests[k]
      BY <3>1, <1>8
    <3>3. requests[k].at >= requests[k].after + FOREGROUND_INTERVAL
      BY <3>1 DEF LatencyInv, RequestsAreSpaced
    <3> QED
      BY <3>2, <3>3
  <2> QED
    BY <2>1, <2>2
<1>12. \A at : OfConnection(at) => OfConnection(at)'
  <2>1. requests # <<>> => Len(requests) >= 1
    BY <1>1
  <2> QED
    BY <2>1, <1>8 DEF StartsRequest, OfConnection
<1>13. ReportsFollow' /\ RepliesArePaired'
  BY <1>6, <1>12 DEF StartsRequest, LatencyInv, ReportsFollow, RepliesArePaired, OfConnection
<1>14. RequestsInPast'
  <2>1. requests = <<>> => requests'[1] = r
    BY <1>8
  <2>2. requests # <<>> => Len(requests) >= 1
    BY <1>1
  <2> QED
    BY <2>1, <2>2, <1>1, <1>3, <1>8 DEF StartsRequest, LatencyInv, RequestsInPast
<1> QED
  BY <1>9, <1>10, <1>11, <1>13, <1>14 DEF LatencyInv

\* The reply that arrives is the answer to the one request on the transport.
LEMMA ReplyArrivesKeeps == ASSUME LatencyInv, NEW roundTrip \in RoundTrips, ReplyArrives(roundTrip) PROVE LatencyInv'
<1> DEFINE e == [kind |-> "LatencyMeasured", roundTrip |-> roundTrip, at |-> clock,
                 request |-> sampler.probe, reply |-> Head(unanswered)]
<1>1. /\ sampler \in Sampler /\ sampler # Nil /\ clock \in Nat /\ requests \in Seq([at : Nat, after : Nat])
      /\ unanswered = <<sampler.probe>> /\ sampler.probe # Nil /\ requests # <<>>
  BY DEF ReplyArrives, LatencyInv, LatencyTypeOK, OneRequest
<1>2. sampler.probe \in Nat
  BY <1>1 DEF Sampler
<1>3. Head(unanswered) = sampler.probe /\ Tail(unanswered) = <<>>
  BY <1>1, <1>2
<1>4. e \in Samples
  BY <1>1, <1>2, <1>3, LatencyAssumption DEF Samples
<1>5. e \in Reports /\ e.kind = "LatencyMeasured" /\ e.at = clock /\ e.request = e.reply
  BY <1>3, <1>4 DEF Reports
<1>6. OfConnection(clock)
  BY <1>1 DEF LatencyInv, OfConnection, RequestsInPast
<1>7. Completed \in Sampler /\ Completed.probe = Nil /\ Completed.next >= Completed.last + FOREGROUND_INTERVAL
  BY <1>1, CompletedIsSampler DEF LatencyInv
<1>8. sampler' = Completed /\ sampler' # Nil
  BY <1>7, LatencyNil DEF ReplyArrives
<1>9. ReportsFollow' /\ RepliesArePaired' /\ reports' \in [1 .. MaxAttempts -> Seq(Reports)]
  BY <1>5, <1>6, <1>8, PostsKeep DEF ReplyArrives
<1>10. unanswered' = <<>>
  BY <1>3 DEF ReplyArrives
<1>11. LatencyTypeOK'
  BY <1>7, <1>8, <1>9, <1>10 DEF ReplyArrives, LatencyInv, LatencyTypeOK
<1>12. OneRequest' /\ RequestsAreSpaced' /\ RequestsInPast'
  BY <1>7, <1>8, <1>10 DEF ReplyArrives, LatencyInv, OneRequest, RequestsAreSpaced, RequestsInPast
<1> QED
  BY <1>9, <1>11, <1>12 DEF LatencyInv

\* A request that fails ends measuring on this transport.
LEMMA RequestFailsKeeps == ASSUME LatencyInv, RequestFails PROVE LatencyInv'
<1> DEFINE e == [kind |-> "LatencyUnavailable"]
<1>1. e \in Reports /\ e.kind # "LatencyMeasured"
  BY DEF Reports
<1>2. sampler # Nil /\ LatencyTypeOK
  BY DEF RequestFails, LatencyInv
<1>3. Completed \in Sampler /\ Completed.probe = Nil /\ Completed.next >= Completed.last + FOREGROUND_INTERVAL
  BY <1>2, CompletedIsSampler
<1>4. /\ sampler' \in Sampler /\ sampler'.probe = Nil
      /\ sampler'.next >= sampler'.last + FOREGROUND_INTERVAL
  BY <1>3 DEF RequestFails, Sampler
<1>5. sampler' # Nil
  BY <1>4, LatencyNil
<1>6. ReportsFollow' /\ RepliesArePaired' /\ reports' \in [1 .. MaxAttempts -> Seq(Reports)]
  BY <1>1, <1>5, PostsKeep DEF RequestFails
<1>7. LatencyTypeOK'
  BY <1>4, <1>6 DEF RequestFails, LatencyInv, LatencyTypeOK
<1>8. OneRequest' /\ RequestsAreSpaced' /\ RequestsInPast'
  BY <1>4, <1>5 DEF RequestFails, LatencyInv, OneRequest, RequestsAreSpaced, RequestsInPast
<1> QED
  BY <1>6, <1>7, <1>8 DEF LatencyInv

\* A request that timed out stays on the transport: its reply is still to come.
LEMMA TimersKeep == ASSUME LatencyInv, RequestTimesOut \/ SampleExpires PROVE LatencyInv'
<1>1. PICK e \in Reports : e.kind # "LatencyMeasured" /\ PostsReport(e)
  <2>1. [kind |-> "LatencyTimedOut"] \in Reports /\ [kind |-> "LatencyExpired"] \in Reports
    BY DEF Reports
  <2> QED
    BY <2>1 DEF RequestTimesOut, SampleExpires
<1>2. sampler \in Sampler /\ sampler # Nil /\ clock \in Nat
  BY DEF RequestTimesOut, SampleExpires, LatencyInv, LatencyTypeOK
<1>3. clock + SAMPLE_LIFETIME \in Nat
  BY <1>2, LatencyAssumption
<1>4. sampler' \in Sampler
  BY <1>2, <1>3, ZenonT(60) DEF RequestTimesOut, SampleExpires, Sampler
<1>5. sampler' # Nil
  BY <1>4, LatencyNil
<1>6. sampler'.probe = sampler.probe /\ sampler'.next = sampler.next /\ sampler'.last = sampler.last
  BY <1>2 DEF RequestTimesOut, SampleExpires, Sampler
<1>7. ReportsFollow' /\ RepliesArePaired' /\ reports' \in [1 .. MaxAttempts -> Seq(Reports)]
  BY <1>1, <1>5, PostsKeep DEF RequestTimesOut, SampleExpires
<1>8. LatencyTypeOK'
  BY <1>4, <1>7 DEF RequestTimesOut, SampleExpires, LatencyInv, LatencyTypeOK
<1>9. OneRequest' /\ RequestsAreSpaced' /\ RequestsInPast'
  BY <1>2, <1>5, <1>6
  DEF RequestTimesOut, SampleExpires, LatencyInv, OneRequest, RequestsAreSpaced, RequestsInPast
<1> QED
  BY <1>7, <1>8, <1>9 DEF LatencyInv

\* Moving a tab to the front shortens the wait to an interval after the last request, not below.
LEMMA CadenceKeeps == ASSUME LatencyInv, CadenceChanges \/ (\E f \in BOOLEAN : TabMoves(f)) PROVE LatencyInv'
<1>1. CASE CadenceChanges
  <2>1. /\ sampler \in Sampler /\ sampler # Nil /\ hint \in [foreground : BOOLEAN, unseen : BOOLEAN]
        /\ hint.foreground \in BOOLEAN /\ sampler.last \in Nat
    BY <1>1 DEF CadenceChanges, LatencyInv, LatencyTypeOK, Sampler
  <2>2. sampler.last + Interval(hint.foreground) \in Nat
    BY <2>1, IntervalIsSpaced
  <2>3. sampler' \in Sampler
    BY <1>1, <2>1, <2>2, ZenonT(60) DEF CadenceChanges, Sampler
  <2>4. sampler' # Nil
    BY <2>3, LatencyNil
  <2>5. /\ sampler'.probe = sampler.probe /\ sampler'.last = sampler.last
        /\ sampler'.next = sampler.last + Interval(hint.foreground)
    BY <1>1, <2>1 DEF CadenceChanges, Sampler
  <2>6. sampler'.next >= sampler'.last + FOREGROUND_INTERVAL
    BY <2>1, <2>5, IntervalIsSpaced, LatencyAssumption
  <2>7. ReportsFollow' /\ RepliesArePaired'
    BY <1>1, <2>4, ReportsKept DEF CadenceChanges
  <2>8. hint' \in [foreground : BOOLEAN, unseen : BOOLEAN]
    BY <1>1, <2>1 DEF CadenceChanges
  <2>9. LatencyTypeOK'
    BY <1>1, <2>3, <2>8 DEF CadenceChanges, LatencyInv, LatencyTypeOK
  <2>10. OneRequest' /\ RequestsAreSpaced' /\ RequestsInPast'
    BY <1>1, <2>1, <2>4, <2>5, <2>6
    DEF CadenceChanges, LatencyInv, OneRequest, RequestsAreSpaced, RequestsInPast
  <2> QED
    BY <2>7, <2>9, <2>10 DEF LatencyInv
<1>2. ASSUME NEW f \in BOOLEAN, TabMoves(f) PROVE LatencyInv'
  BY <1>2
  DEF TabMoves, SetLatencyForeground, LatencyInv, LatencyTypeOK, OneRequest, ReportsFollow, OfConnection,
      RepliesArePaired, RequestsAreSpaced, RequestsInPast
<1> QED
  BY <1>1, <1>2

\* A new attempt has reported nothing, and forgets what the old one measured.
LEMMA ReattemptsKeeps == ASSUME LatencyInv, Reattempts PROVE LatencyInv'
<1>1. attempt \in 1 .. MaxAttempts /\ attempt' = attempt + 1 /\ attempt' \in 1 .. MaxAttempts
  BY LatencyAssumption DEF Reattempts, LatencyInv, LatencyTypeOK
<1>2. Measuring \in [phase : Phases, smoothed : Instants, quality : Qualities, candidate : Qualities,
                     measuredAt : Instants, observedAt : Instants]
  BY DEF Measuring, Phases, Instants, Qualities
<1>3. LatencyTypeOK'
  BY <1>1, <1>2 DEF Reattempts, LatencyInv, LatencyTypeOK
<1>4. reports' = reports /\ reports[attempt'] = <<>>
  BY <1>1, LatencyAssumption DEF Reattempts, LatencyInv, ReportsFollow
<1>5. latency'.phase = "Measuring"
  BY DEF Reattempts, Measuring
<1>6. \A a \in 1 .. MaxAttempts : a > attempt' => reports'[a] = <<>>
  BY <1>1, <1>4, LatencyAssumption DEF LatencyInv, ReportsFollow
<1>7. ReportsFollow'
  BY <1>4, <1>5, <1>6 DEF ReportsFollow
<1>8. OneRequest' /\ RequestsAreSpaced' /\ RepliesArePaired' /\ RequestsInPast'
  BY <1>4 DEF Reattempts, OneRequest, RequestsAreSpaced, LatencyInv, RepliesArePaired, RequestsInPast
<1> QED
  BY <1>3, <1>7, <1>8 DEF LatencyInv

\* Time makes no measurement younger than its connection.
LEMMA TimePassesKeeps == ASSUME LatencyInv, TimePasses PROVE LatencyInv'
<1>1. clock \in Nat /\ clock' = clock + 1 /\ clock' \in Nat
  BY DEF TimePasses, LatencyInv, LatencyTypeOK
<1>2. \A at : OfConnection(at) => OfConnection(at)'
  BY <1>1 DEF TimePasses, monitorVars, OfConnection
<1>3. RequestsInPast'
  BY <1>1 DEF TimePasses, monitorVars, RequestsInPast, LatencyInv, LatencyTypeOK
<1>4. ReportsFollow'
  BY <1>2 DEF TimePasses, monitorVars, LatencyInv, ReportsFollow
<1> QED
  BY <1>1, <1>3, <1>4
  DEF TimePasses, monitorVars, LatencyInv, LatencyTypeOK, OneRequest, RequestsAreSpaced, RepliesArePaired

LatencyRec ==
    [phase : Phases, smoothed : Instants, quality : Qualities, candidate : Qualities,
     measuredAt : Instants, observedAt : Instants]

\* What a sample makes of the latency of the tab.
LEMMA SampleRecorded ==
    ASSUME LatencyInv, NEW e \in Samples, OfConnection(e.at)
    PROVE  /\ RecordSample(e) \in LatencyRec
           /\ RecordSample(e).phase = "Measured" =>
                /\ RecordSample(e).smoothed \in Nat
                /\ RecordSample(e).observedAt = RecordSample(e).measuredAt
                /\ OfConnection(RecordSample(e).measuredAt)
<1> DEFINE fresh == latency.phase = "Measured" /\ clock - latency.observedAt < SAMPLE_LIFETIME
<1> DEFINE smoothed == IF fresh THEN (latency.smoothed * 4 + e.roundTrip) \div 5 ELSE e.roundTrip
<1> DEFINE settled == ~fresh \/ Quality(smoothed) \in {latency.quality, latency.candidate}
<1> DEFINE n == [phase |-> "Measured", smoothed |-> smoothed,
                 quality |-> IF settled THEN Quality(smoothed) ELSE latency.quality,
                 candidate |-> IF settled THEN Nil ELSE Quality(smoothed),
                 measuredAt |-> e.at, observedAt |-> e.at]
<1>1. latency \in LatencyRec /\ clock \in Nat
  BY DEF LatencyInv, LatencyTypeOK, LatencyRec
<1>2. e.roundTrip \in Nat /\ e.at \in Nat
  BY DEF Samples
<1>3. smoothed \in Nat
  <2>1. fresh => latency.smoothed \in Nat
    BY DEF LatencyInv, ReportsFollow
  <2>2. \A x \in Nat : \A y \in Nat : (x * 4 + y) \div 5 \in Nat
    OBVIOUS
  <2>3. CASE fresh
    BY <2>1, <2>2, <2>3, <1>2
  <2>4. CASE ~fresh
    BY <2>4, <1>2
  <2> QED
    BY <2>3, <2>4
<1>4. Quality(smoothed) \in Qualities /\ latency.quality \in Qualities /\ Nil \in Qualities
  BY <1>1 DEF Quality, Qualities, LatencyRec
<1>5. n \in LatencyRec
  <2> HIDE DEF smoothed, settled
  <2>1. "Measured" \in Phases /\ smoothed \in Instants /\ e.at \in Instants
    BY <1>2, <1>3 DEF Phases, Instants
  <2> QED
    BY <2>1, <1>4 DEF LatencyRec
<1>6. n.phase = "Measured" /\ n.smoothed = smoothed /\ n.measuredAt = e.at /\ n.observedAt = e.at
  OBVIOUS
<1>7. [latency EXCEPT !.phase = "Stale"] \in LatencyRec /\ [latency EXCEPT !.phase = "Stale"].phase = "Stale"
  BY <1>1 DEF LatencyRec, Phases
<1>8. RecordSample(e) \in {latency, [latency EXCEPT !.phase = "Stale"], n}
  BY DEF RecordSample
<1> HIDE DEF n
<1>9. CASE RecordSample(e) = n
  BY <1>9, <1>3, <1>5, <1>6
<1>10. CASE RecordSample(e) = latency
  BY <1>10, <1>1 DEF LatencyInv, ReportsFollow
<1>11. CASE RecordSample(e) = [latency EXCEPT !.phase = "Stale"]
  BY <1>11, <1>7
<1> QED
  BY <1>8, <1>9, <1>10, <1>11

\* What a report of the present connection makes of it.
LEMMA ReportObserved ==
    ASSUME LatencyInv, NEW e \in Reports, e.kind = "LatencyMeasured" => OfConnection(e.at)
    PROVE  /\ Observed(e) \in LatencyRec
           /\ Observed(e).phase = "Measured" =>
                /\ Observed(e).smoothed \in Nat
                /\ Observed(e).observedAt = Observed(e).measuredAt
                /\ OfConnection(Observed(e).measuredAt)
<1>1. latency \in LatencyRec /\ clock \in Nat
  BY DEF LatencyInv, LatencyTypeOK, LatencyRec
<1>2. e.kind \in {"LatencyMeasured", "Connected", "LatencyTimedOut", "LatencyExpired", "LatencyUnavailable"}
  BY DEF Reports, Samples
<1>3. CASE e.kind = "LatencyMeasured"
  <2>1. e \in Samples
    BY <1>3 DEF Reports
  <2> QED
    BY <2>1, <1>3, SampleRecorded DEF Observed
<1>4. CASE e.kind = "Connected"
  <2>1. Observed(e) = Measuring
    BY <1>4 DEF Observed
  <2> QED
    BY <2>1 DEF Measuring, LatencyRec, Phases, Instants, Qualities
<1>5. CASE e.kind = "LatencyTimedOut"
  <2> DEFINE n == [latency EXCEPT !.phase = "TimedOut", !.observedAt = clock, !.candidate = Nil]
  <2>1. Observed(e) = n
    BY <1>5 DEF Observed
  <2>2. "TimedOut" \in Phases /\ clock \in Instants /\ Nil \in Qualities
    BY <1>1 DEF Phases, Instants, Qualities
  <2>3. n \in LatencyRec
    BY <1>1, <2>2, ZenonT(60) DEF LatencyRec
  <2>4. n.phase = "TimedOut"
    BY <1>1 DEF LatencyRec
  <2> QED
    BY <2>1, <2>3, <2>4
<1>6. CASE e.kind \in {"LatencyExpired", "LatencyUnavailable"}
  <2>1. PICK p \in {"Stale", "Unavailable"} : Observed(e) = [latency EXCEPT !.phase = p]
    BY <1>6 DEF Observed
  <2>2. [latency EXCEPT !.phase = p] \in LatencyRec /\ [latency EXCEPT !.phase = p].phase = p
    BY <1>1 DEF LatencyRec, Phases
  <2> QED
    BY <2>1, <2>2
<1> QED
  BY <1>2, <1>3, <1>4, <1>5, <1>6

\* The tab applies the reports of its present attempt only, in their order.
LEMMA AppliesKeeps == ASSUME LatencyInv, NEW a \in 1 .. MaxAttempts, AppliesLatency(a) PROVE LatencyInv'
<1> DEFINE c == reports[a]
<1>1. /\ reports \in [1 .. MaxAttempts -> Seq(Reports)] /\ attempt \in 1 .. MaxAttempts
      /\ c \in Seq(Reports) /\ c # <<>>
  BY DEF AppliesLatency, LatencyInv, LatencyTypeOK
<1>2. /\ Head(c) \in Reports /\ Head(c) = c[1] /\ 1 \in 1 .. Len(c) /\ Tail(c) \in Seq(Reports)
      /\ Len(Tail(c)) = Len(c) - 1 /\ Len(c) \in Nat \ {0}
      /\ \A k \in 1 .. Len(Tail(c)) : Tail(c)[k] = c[k + 1] /\ k + 1 \in 1 .. Len(c)
  BY <1>1
<1>3. reports' = [reports EXCEPT ![a] = Tail(c)]
  BY DEF AppliesLatency
<1>4. /\ reports' \in [1 .. MaxAttempts -> Seq(Reports)] /\ reports'[a] = Tail(c)
      /\ \A b \in 1 .. MaxAttempts : b # a => reports'[b] = reports[b]
  BY <1>1, <1>2, <1>3
<1>5. UNCHANGED <<clock, attempt, sampler, hint, requests, unanswered>>
  BY DEF AppliesLatency, monitorVars
<1>6. a <= attempt
  BY <1>1, LatencyAssumption DEF LatencyInv, ReportsFollow
<1>7. a = attempt => sampler # Nil
  BY <1>1 DEF LatencyInv, ReportsFollow
<1>8. /\ latency' \in LatencyRec
      /\ latency'.phase = "Measured" =>
           latency'.smoothed \in Nat /\ latency'.observedAt = latency'.measuredAt /\ OfConnection(latency'.measuredAt)
      /\ a # attempt => latency' = latency
  <2>1. CASE a = attempt
    <3>1. Head(c).kind = "LatencyMeasured" => OfConnection(Head(c).at)
      BY <2>1, <1>2 DEF LatencyInv, ReportsFollow
    <3>2. latency' = Observed(Head(c))
      BY <2>1 DEF AppliesLatency
    <3> QED
      BY <2>1, <3>1, <3>2, <1>2, ReportObserved
  <2>2. CASE a # attempt
    BY <2>2 DEF AppliesLatency, LatencyInv, LatencyTypeOK, LatencyRec, ReportsFollow
  <2> QED
    BY <2>1, <2>2
<1>9. LatencyTypeOK'
  BY <1>4, <1>5, <1>8 DEF LatencyInv, LatencyTypeOK, LatencyRec
<1>10. \A at : OfConnection(at)' <=> OfConnection(at)
  BY <1>5 DEF OfConnection
<1>11. RepliesArePaired'
  <2> SUFFICES ASSUME NEW b \in 1 .. MaxAttempts, NEW k \in DOMAIN reports'[b],
                      reports'[b][k].kind = "LatencyMeasured"
               PROVE  reports'[b][k].request = reports'[b][k].reply
    BY DEF RepliesArePaired
  <2>1. CASE b = a
    <3>1. k \in 1 .. Len(Tail(c)) /\ reports'[b][k] = c[k + 1] /\ k + 1 \in DOMAIN c
      BY <2>1, <1>1, <1>2, <1>4
    <3> QED
      BY <3>1 DEF LatencyInv, RepliesArePaired
  <2>2. CASE b # a
    BY <2>2, <1>4 DEF LatencyInv, RepliesArePaired
  <2> QED
    BY <2>1, <2>2
<1>12. ReportsFollow'
  <2>1. \A b \in 1 .. MaxAttempts : b > attempt => reports'[b] = <<>>
    BY <1>1, <1>4, <1>6, LatencyAssumption DEF LatencyInv, ReportsFollow
  <2>2. sampler = Nil => reports'[attempt] = <<>> /\ latency'.phase = "Measuring"
    BY <1>1, <1>4, <1>7, <1>8 DEF LatencyInv, ReportsFollow
  <2>3. ASSUME NEW k \in 1 .. Len(reports'[attempt]), reports'[attempt][k].kind = "LatencyMeasured"
        PROVE  OfConnection(reports'[attempt][k].at)
    <3>1. CASE a = attempt
      <4>1. reports'[attempt][k] = c[k + 1] /\ k + 1 \in 1 .. Len(c)
        BY <2>3, <3>1, <1>2, <1>4
      <4> QED
        BY <2>3, <3>1, <4>1 DEF LatencyInv, ReportsFollow
    <3>2. CASE a # attempt
      BY <2>3, <3>2, <1>1, <1>4 DEF LatencyInv, ReportsFollow
    <3> QED
      BY <3>1, <3>2
  <2> QED
    BY <2>1, <2>2, <2>3, <1>5, <1>8, <1>10 DEF ReportsFollow, OfConnection
<1>13. OneRequest' /\ RequestsAreSpaced' /\ RequestsInPast'
  BY <1>5 DEF LatencyInv, OneRequest, RequestsAreSpaced, RequestsInPast
<1> QED
  BY <1>9, <1>11, <1>12, <1>13 DEF LatencyInv

\* Before the first transport is up nothing was asked or measured.
LEMMA LatencyInitOK == LatencyInit => LatencyInv
<1> SUFFICES ASSUME LatencyInit PROVE LatencyInv
  OBVIOUS
<1>1. 1 \in 1 .. MaxAttempts
  BY LatencyAssumption
<1>2. Measuring \in LatencyRec /\ Measuring.phase = "Measuring"
  BY DEF Measuring, LatencyRec, Phases, Instants, Qualities
<1>3. reports \in [1 .. MaxAttempts -> Seq(Reports)] /\ \A a \in 1 .. MaxAttempts : reports[a] = <<>>
  BY DEF LatencyInit
<1>4. LatencyTypeOK
  BY <1>1, <1>2, <1>3 DEF LatencyInit, LatencyTypeOK, LatencyRec
<1> QED
  BY <1>1, <1>2, <1>3, <1>4
  DEF LatencyInit, LatencyInv, OneRequest, RequestsInPast, ReportsFollow, RepliesArePaired, RequestsAreSpaced

\* Every step of the sampler, the monitor and the tab preserves LatencyInv.
LEMMA LatencyStepOK == LatencyInv /\ [LatencyNext]_latencyVars => LatencyInv'
<1> SUFFICES ASSUME LatencyInv, [LatencyNext]_latencyVars PROVE LatencyInv'
  OBVIOUS
<1>1. CASE UNCHANGED latencyVars
  BY <1>1
  DEF latencyVars, LatencyInv, LatencyTypeOK, OneRequest, RequestsInPast, ReportsFollow, OfConnection,
      RepliesArePaired, RequestsAreSpaced
<1>2. CASE LatencyNext
  BY <1>2, TransportUpKeeps, StartsRequestKeeps, ReplyArrivesKeeps, RequestFailsKeeps, TimersKeep,
     CadenceKeeps, ReattemptsKeeps, TimePassesKeeps, AppliesKeeps
  DEF LatencyNext
<1> QED
  BY <1>1, <1>2

\* One request at a time is on the transport of a connection, so that a reply, which has
\* no identity, answers the request that waits; requests keep their distance whatever the
\* tab does; and what the tab shows was measured on its present connection.
THEOREM LatencyIsTrue == LatencySpec => []LatencySound
<1>1. LatencyInv => LatencySound
  <2> SUFFICES ASSUME LatencyInv, Shown \in {"good", "moderate", "high", "poor"}
               PROVE  /\ sampler # Nil /\ requests # <<>>
                      /\ latency.measuredAt >= requests[1].at
                      /\ clock - latency.measuredAt < SAMPLE_LIFETIME
    BY DEF LatencySound, ShownIsCurrent, LatencyInv
  <2>1. latency.phase \in Phases /\ clock \in Nat /\ latency.observedAt \in Instants
    BY DEF LatencyInv, LatencyTypeOK
  <2>2. latency.phase = "Measured" /\ ~(clock - latency.observedAt >= SAMPLE_LIFETIME)
    BY <2>1 DEF Shown, Phases
  <2>3. latency.observedAt = latency.measuredAt /\ OfConnection(latency.measuredAt) /\ sampler # Nil
    BY <2>2 DEF LatencyInv, ReportsFollow
  <2>4. requests # <<>> /\ latency.measuredAt \in Nat /\ requests[1].at <= latency.measuredAt /\ requests[1].at \in Nat
    BY <2>3 DEF OfConnection, LatencyInv, RequestsInPast
  <2> QED
    BY <2>1, <2>2, <2>3, <2>4, LatencyAssumption
<1> QED
  BY <1>1, LatencyInitOK, LatencyStepOK, PTL DEF LatencySpec

\* The media of a tab and its latency share nothing, so both promises hold of the tab.
THEOREM TabDataStaysCurrent == MediaSpec /\ LatencySpec => []TabDataIsCurrent
BY MediaAreTheirs, LatencyIsTrue, PTL DEF TabDataIsCurrent
====

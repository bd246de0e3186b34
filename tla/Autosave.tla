---- MODULE Autosave ----
(***************************************************************************)
(* The automatic workspace checkpoints (src/app/workspace_autosave.rs).    *)
(*                                                                         *)
(* A timer polls the layout, decides with CheckpointSchedule when a        *)
(* checkpoint is due and hands the whole snapshot to one writer task over  *)
(* a watch channel, which keeps only the latest value.  Time is counted in *)
(* polls: an age is the number of polls since the instant the code keeps.  *)
(* A snapshot is a layout and the terminals' text; layouts return to       *)
(* earlier values, as they do when a tab is opened and closed again.       *)
(***************************************************************************)
EXTENDS Naturals, Absent

CONSTANTS
    Layouts, Texts,
    Quiet,        \* QUIET_PERIOD, in polls
    MaxDirty,     \* MAX_DIRTY_DELAY, in polls
    TextEvery     \* TEXT_CHECKPOINT_INTERVAL, in polls

ASSUME PeriodsAssumption ==
    /\ Quiet \in Nat \ {0} /\ MaxDirty \in Nat /\ TextEvery \in Nat
    /\ Quiet < MaxDirty /\ MaxDirty < TextEvery

Snapshots == [layout : Layouts, text : Texts]

ASSUME AutosaveNil == Nil \notin Nat \cup Layouts \cup Snapshots

VARIABLES
    current,      \* the workspace as it is
    schedule,     \* CheckpointSchedule: observed, and the three ages (quiet is kept while dirty)
    handed,       \* the watch channel's value
    unseen,       \* the writer has not seen that value
    writer,       \* at: waiting, writing or ended; what it is writing
    written,      \* last_written
    disk,         \* the workspace file
    stage,        \* running, finishing (the event loop has ended), over
    lag,          \* ghost: polls since the value handed over was up to date
    failed,       \* ghost: the last save failed
    doubtful      \* ghost: a save failed after it had replaced the file, and none succeeded since

autosaveVars == <<current, schedule, handed, unseen, writer, written, disk,
                  stage, lag, failed, doubtful>>
diskVars == <<writer, written, disk, failed, doubtful>>

AutosaveInit ==
    /\ current \in Snapshots
    /\ schedule = [observed |-> Nil, dirty |-> Nil, quiet |-> Nil, checkpoint |-> Nil]
    /\ handed = Nil /\ unseen = FALSE
    /\ writer = [at |-> "waiting", snapshot |-> Nil]
    /\ written = Nil
    /\ disk \in Snapshots \cup {Nil}
    /\ stage = "running"
    /\ lag = [layout |-> 0, text |-> 0]
    /\ failed = FALSE /\ doubtful = FALSE

(* The user and the sessions change the workspace between two polls. *)
Changed ==
    /\ stage = "running"
    /\ current' \in Snapshots \ {current}
    /\ UNCHANGED <<schedule, handed, unseen, diskVars, stage, lag>>

Aged(age) == IF age = Nil THEN Nil ELSE age + 1

(* The first change since the last checkpoint starts the dirty period. *)
DirtySinceLast(dirty) == 0
DirtySince(dirty) == IF dirty = Nil THEN 0 ELSE dirty

Noticed ==
    LET aged == [schedule EXCEPT !.dirty = Aged(@), !.quiet = Aged(@),
                             !.checkpoint = Aged(@)]
    IN IF schedule.observed = current.layout THEN aged
       ELSE [aged EXCEPT !.observed = current.layout, !.dirty = DirtySince(@), !.quiet = 0]

Reached(age, bound) == age # Nil /\ age >= bound

Due(s) == \/ Reached(s.dirty, MaxDirty)
          \/ s.dirty # Nil /\ Reached(s.quiet, Quiet)
          \/ Reached(s.checkpoint, TextEvery)

Behind(value, field) ==
    IF value # Nil /\ value[field] = current[field] THEN 0 ELSE lag[field] + 1

(* One tick of the timer: CheckpointSchedule::observe and, when it is due,  *)
(* send_replace of the whole snapshot.                                      *)
Poll ==
    /\ stage = "running"
    /\ LET s == Noticed IN
         IF Due(s)
         THEN /\ schedule' = [s EXCEPT !.dirty = Nil, !.quiet = Nil, !.checkpoint = 0]
              /\ handed' = current /\ unseen' = TRUE
         ELSE /\ schedule' = s
              /\ UNCHANGED <<handed, unseen>>
    /\ lag' = [f \in DOMAIN lag |-> Behind(handed', f)]
    /\ UNCHANGED <<current, diskVars, stage>>

(* write_snapshots: the latest value is taken; one equal to the last one   *)
(* written is skipped.                                                     *)
Takes ==
    /\ writer.at = "waiting" /\ unseen
    /\ unseen' = FALSE
    /\ writer' = IF written = handed THEN writer
                 ELSE [at |-> "writing", snapshot |-> handed]
    /\ failed' = IF written = handed THEN FALSE ELSE failed
    /\ UNCHANGED <<current, schedule, handed, written, disk, stage, lag, doubtful>>

(* Which saves the writer remembers: those that succeeded. *)
Remembers(snapshot, ok) == IF ok THEN snapshot ELSE written

(* save_workspace: it succeeds, fails and leaves the file alone, or        *)
(* replaces the file and fails to synchronise its directory.               *)
Writes(replaced, ok) ==
    /\ writer.at = "writing"
    /\ ok => replaced
    /\ disk' = IF replaced THEN writer.snapshot ELSE disk
    /\ written' = Remembers(writer.snapshot, ok)
    /\ writer' = [at |-> "waiting", snapshot |-> Nil]
    /\ failed' = ~ok
    /\ doubtful' = ((doubtful \/ replaced) /\ ~ok)
    /\ UNCHANGED <<current, schedule, handed, unseen, stage, lag>>

(* WorkspaceAutosave::finish: the timer stops, the final snapshot is handed *)
(* over (unless the state's lock is poisoned) and the channel closes.       *)
Finish ==
    /\ stage = "running"
    /\ stage' = "finishing"
    /\ handed' = current /\ unseen' = TRUE
    /\ UNCHANGED <<current, schedule, diskVars, lag>>

(* A closed channel ends the writer once it has seen the last value; the   *)
(* application goes on when the writer has ended.                          *)
WriterEnds ==
    /\ stage = "finishing" /\ writer.at = "waiting" /\ ~unseen
    /\ writer' = [writer EXCEPT !.at = "ended"]
    /\ stage' = "over"
    /\ UNCHANGED <<current, schedule, handed, unseen, written, disk, lag, failed, doubtful>>

AutosaveNext ==
    \/ Changed \/ Poll \/ Takes \/ Finish \/ WriterEnds
    \/ \E replaced, ok \in BOOLEAN : Writes(replaced, ok)

(* Checkpoints keep up.  However often the layout changes, the snapshot     *)
(* handed to the writer is never behind it for more than MAX_DIRTY_DELAY,   *)
(* and never behind the terminals' text for more than                       *)
(* TEXT_CHECKPOINT_INTERVAL; and whenever the writer has nothing left to do *)
(* (always so when the application goes on to exit) the file holds exactly  *)
(* that snapshot, although values were overwritten in the channel, equal    *)
(* ones skipped and saves failed.                                           *)
CheckpointsKept ==
    /\ lag.layout <= MaxDirty /\ lag.text <= TextEvery
    /\ writer.at # "writing" /\ ~unseen /\ handed # Nil /\ ~failed /\ ~doubtful => disk = handed
====

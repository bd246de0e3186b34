----------------------------- MODULE LocalShell -----------------------------
(***************************************************************************)
(* A local shell (src/local_shell.rs) and the monitor of its tab           *)
(* (src/app/terminal_bridge/local_shell.rs).                               *)
(*                                                                         *)
(* Three threads share the session: the worker that owns the child process *)
(* and the pseudo-terminal, the reader of its output, and whoever holds    *)
(* the handle (the tab, then the registry of shutdowns).  The events of    *)
(* the worker and of the reader go through one bounded channel; a send     *)
(* waits for room, gives up when a shutdown is requested and fails when    *)
(* the monitor has gone.  Input bytes and the text of errors are left out. *)
(***************************************************************************)
EXTENDS Naturals, Sequences, SequencesExt, FiniteSets, Absent

CONSTANTS
    Sizes,             \* terminal sizes; the tab opens with any of them
    EventCapacity,     \* EVENT_CAPACITY
    CommandCapacity,   \* COMMAND_CAPACITY
    MaxOutput          \* bound: chunks of output the child produces

ASSUME LocalShellAssumption ==
    /\ EventCapacity \in Nat \ {0} /\ CommandCapacity \in Nat \ {0} /\ MaxOutput \in Nat

VARIABLES
    stage,       \* where the worker thread is
    outcome,     \* what drive_local_shell returned: exited, error or stopped
    reader,      \* the reader thread: none, reading, sending, failing, flagging, ended
    child,       \* the child process: none, alive, exited
    produced,    \* chunks the child wrote
    buffered,    \* of those, the chunks the reader has not read
    events,      \* the event channel
    commands,    \* the command channel
    requested,   \* requested_resize
    slot,        \* pending_resize
    applied,     \* applied_size
    stopFlag,    \* shutdown_requested
    killable,    \* child_killer is set
    owner,       \* of the handle: tab, killing, waiting, gone
    tab,         \* what the tab shows: starting, running, failed, stopped, closed
    monitor,     \* the monitor still receives events
    displayed,   \* chunks the monitor processed
    reported     \* ghost: the terminal events that were sent, with the output ahead of them

shellVars == <<stage, outcome, reader, child, produced, buffered, events, commands, requested,
               slot, applied, stopFlag, killable, owner, tab, monitor, displayed, reported>>
processVars == <<child, produced, buffered, killable>>
sizeVars == <<requested, slot, applied>>
tabVars == <<tab, monitor, displayed>>

(* start_local_shell and LocalShellHandle::spawn. *)
ShellInit ==
    /\ stage = "opening" /\ outcome = Nil /\ reader = "none" /\ child = "none"
    /\ produced = 0 /\ buffered = 0 /\ events = <<>> /\ commands = <<>>
    /\ requested \in Sizes /\ applied = requested /\ slot = Nil
    /\ stopFlag = FALSE /\ killable = FALSE
    /\ owner = "tab" /\ tab = "starting" /\ monitor = TRUE /\ displayed = 0 /\ reported = <<>>

(* try_send of a command: a full channel drops it, which callers tolerate. *)
Queued(command) == IF Len(commands) < CommandCapacity THEN Append(commands, command) ELSE commands

Outputs(queue) == Cardinality({k \in DOMAIN queue : queue[k] = "Output"})
Reports(event) == IF event \in {"Exited", "Failed"}
                  THEN Append(reported, [event |-> event, ahead |-> displayed + Outputs(events)])
                  ELSE reported

(* send_event_with_cancellation: sent says whether the event was delivered. *)
Delivers(event, sent) ==
    IF stopFlag \/ ~monitor
    THEN ~sent /\ UNCHANGED <<events, reported>>
    ELSE /\ sent /\ Len(events) < EventCapacity
         /\ events' = Append(events, event)
         /\ reported' = Reports(event)

---------------------------------------------------------------------------
(* The handle. *)

RequestSend ==
    /\ owner = "tab" /\ Len(commands) < CommandCapacity
    /\ commands' = Append(commands, "Send")
    /\ UNCHANGED <<stage, outcome, reader, processVars, events, sizeVars, stopFlag, owner, tabVars, reported>>

(* request_resize_with_pixels: the latest size replaces one not yet taken. *)
RequestResize(size) ==
    /\ owner = "tab" /\ size # requested
    /\ requested' = size /\ slot' = size
    /\ commands' = Queued("Wake")
    /\ UNCHANGED <<stage, outcome, reader, processVars, events, applied, stopFlag, owner, tabVars, reported>>

RequestDisconnect ==
    /\ owner = "tab" /\ ~stopFlag
    /\ stopFlag' = TRUE
    /\ commands' = Queued("Wake")
    /\ UNCHANGED <<stage, outcome, reader, processVars, events, sizeVars, owner, tabVars, reported>>

(* The worker moves to the registry of shutdowns, whose task begins. *)
StartsShutdown ==
    IF owner = "tab" THEN owner' = "killing" /\ stopFlag' = TRUE /\ commands' = Queued("Wake")
    ELSE UNCHANGED <<owner, stopFlag, commands>>

(* close_tab and retain_closed_worker. *)
CloseLocalTab ==
    /\ tab # "closed"
    /\ tab' = "closed"
    /\ StartsShutdown
    /\ UNCHANGED <<stage, outcome, reader, processVars, events, sizeVars, monitor, displayed, reported>>

Killed == IF killable /\ child = "alive" THEN "exited" ELSE child

(* force_kill_child, and Drop once the wait for the thread is over; a thread *)
(* that takes longer than WORKER_SHUTDOWN_TIMEOUT is left to itself.        *)
ForceKill ==
    /\ owner = "killing"
    /\ child' = Killed
    /\ owner' = "waiting"
    /\ UNCHANGED <<stage, outcome, reader, produced, buffered, killable, events, commands, sizeVars,
                   stopFlag, tabVars, reported>>

ShutdownEnds ==
    /\ owner = "waiting"
    /\ child' = Killed
    /\ owner' = "gone"
    /\ UNCHANGED <<stage, outcome, reader, produced, buffered, killable, events, commands, sizeVars,
                   stopFlag, tabVars, reported>>

---------------------------------------------------------------------------
(* The worker thread: run_local_shell. *)

(* The shell is resolved, the terminal opened and the child spawned ... *)
Opens ==
    /\ stage = "opening"
    /\ \/ stage' = "spawned" /\ child' = "alive" /\ UNCHANGED outcome
       \/ stage' = "failing" /\ outcome' = "error" /\ UNCHANGED child
    /\ UNCHANGED <<reader, produced, buffered, killable, events, commands, sizeVars, stopFlag, owner,
                   tabVars, reported>>

(* ... then it is made known to the handle and the reader is started. *)
Registers ==
    /\ stage = "spawned"
    /\ \/ stage' = "starting" /\ killable' = TRUE /\ reader' = "reading" /\ UNCHANGED <<child, outcome>>
       \/ stage' = "failing" /\ outcome' = "error" /\ child' = "exited" /\ UNCHANGED <<reader, killable>>
    /\ UNCHANGED <<produced, buffered, events, commands, sizeVars, stopFlag, owner, tabVars, reported>>

(* drive_local_shell: the start is announced before anything else. *)
Announces ==
    /\ stage = "starting"
    /\ \E sent \in BOOLEAN :
         /\ Delivers("Started", sent)
         /\ stage' = IF sent THEN "looping" ELSE "terminating"
         /\ outcome' = IF sent THEN outcome ELSE "error"
    /\ UNCHANGED <<reader, processVars, commands, sizeVars, stopFlag, owner, tabVars>>

(* The head of the loop, and apply_pending_resize, which empties the slot   *)
(* before it uses the size.                                                 *)
TakesSize == slot' = Nil /\ applied' = IF slot = Nil THEN applied ELSE slot

Loops ==
    /\ stage = "looping"
    /\ \/ /\ stopFlag
          /\ stage' = "terminating" /\ outcome' = "stopped"
          /\ UNCHANGED <<slot, applied>>
       \/ /\ ~stopFlag
          /\ stage' = IF slot \in {Nil, applied} THEN "polling" ELSE "resized"
          /\ TakesSize
          /\ UNCHANGED outcome
    /\ UNCHANGED <<reader, processVars, events, commands, requested, stopFlag, owner, tabVars, reported>>

AnnouncesSize ==
    /\ stage = "resized"
    /\ \E sent \in BOOLEAN : Delivers("Resized", sent)
    /\ stage' = "polling"
    /\ UNCHANGED <<outcome, reader, processVars, commands, sizeVars, stopFlag, owner, tabVars>>

(* The child is polled; then a command is received, or the wait times out. *)
Polls ==
    /\ stage = "polling"
    /\ IF child = "exited" THEN stage' = "joining" /\ outcome' = "exited"
       ELSE stage' = "receiving" /\ UNCHANGED outcome
    /\ UNCHANGED <<reader, processVars, events, commands, sizeVars, stopFlag, owner, tabVars, reported>>

Receives ==
    /\ stage = "receiving"
    /\ IF commands = <<>> THEN stage' = "looping" /\ UNCHANGED commands
       ELSE /\ stage' = IF Head(commands) = "Send" THEN "writing" ELSE "looping"
            /\ commands' = Tail(commands)
    /\ UNCHANGED <<outcome, reader, processVars, events, sizeVars, stopFlag, owner, tabVars, reported>>

(* Input waits until the child reads it, and fails when the child has gone. *)
Writes ==
    /\ stage = "writing"
    /\ IF child = "alive" THEN stage' = "looping" /\ UNCHANGED outcome
       ELSE stage' = "terminating" /\ outcome' = "error"
    /\ UNCHANGED <<reader, processVars, events, commands, sizeVars, stopFlag, owner, tabVars, reported>>

(* terminate_child. *)
Terminates ==
    /\ stage = "terminating"
    /\ child' = "exited"
    /\ stage' = "joining"
    /\ UNCHANGED <<outcome, reader, produced, buffered, killable, events, commands, sizeVars, stopFlag,
                   owner, tabVars, reported>>

(* The outcome is reported once the reader has ended. *)
Joins ==
    /\ stage = "joining" /\ reader = "ended"
    /\ killable' = FALSE
    /\ stage' = CASE outcome = "exited" -> "reporting"
                  [] outcome = "error" -> "failing"
                  [] OTHER -> "ended"
    /\ UNCHANGED <<outcome, reader, child, produced, buffered, events, commands, sizeVars, stopFlag,
                   owner, tabVars, reported>>

ReportsEnd ==
    /\ stage \in {"reporting", "failing"}
    /\ \E sent \in BOOLEAN : Delivers(IF stage = "reporting" THEN "Exited" ELSE "Failed", sent)
    /\ stage' = "ended"
    /\ UNCHANGED <<outcome, reader, processVars, commands, sizeVars, stopFlag, owner, tabVars>>

---------------------------------------------------------------------------
(* The child and the reader thread: read_output. *)

ChildWrites ==
    /\ child = "alive" /\ produced < MaxOutput
    /\ produced' = produced + 1 /\ buffered' = buffered + 1
    /\ UNCHANGED <<stage, outcome, reader, child, killable, events, commands, sizeVars, stopFlag, owner,
                   tabVars, reported>>

ChildExits ==
    /\ child = "alive"
    /\ child' = "exited"
    /\ UNCHANGED <<stage, outcome, reader, produced, buffered, killable, events, commands, sizeVars,
                   stopFlag, owner, tabVars, reported>>

Reads ==
    /\ reader = "reading"
    /\ \/ /\ buffered > 0
          /\ buffered' = buffered - 1 /\ reader' = "sending"
          /\ UNCHANGED commands
       \/ /\ buffered = 0 /\ child = "exited"
          /\ reader' = "ended"
          /\ commands' = Queued("ReaderClosed")
          /\ UNCHANGED buffered
    /\ UNCHANGED <<stage, outcome, child, produced, killable, events, sizeVars, stopFlag, owner, tabVars,
                   reported>>

SendsOutput ==
    /\ reader = "sending"
    /\ \E sent \in BOOLEAN :
         /\ Delivers("Output", sent)
         /\ reader' = IF sent THEN "reading" ELSE "ended"
    /\ UNCHANGED <<stage, outcome, processVars, commands, sizeVars, stopFlag, owner, tabVars>>

(* A read error is reported, and the worker is stopped afterwards. *)
ReadFails ==
    /\ reader = "reading"
    /\ reader' = IF stopFlag THEN "ended" ELSE "failing"
    /\ UNCHANGED <<stage, outcome, processVars, events, commands, sizeVars, stopFlag, owner, tabVars,
                   reported>>

ReportsReadError ==
    /\ reader = "failing"
    /\ \E sent \in BOOLEAN : Delivers("Failed", sent)
    /\ reader' = "flagging"
    /\ UNCHANGED <<stage, outcome, processVars, commands, sizeVars, stopFlag, owner, tabVars>>

StopsWorker ==
    /\ reader = "flagging"
    /\ reader' = "ended"
    /\ stopFlag' = TRUE
    /\ commands' = Queued("Wake")
    /\ UNCHANGED <<stage, outcome, processVars, events, sizeVars, owner, tabVars, reported>>

---------------------------------------------------------------------------
(* The monitor of the tab: spawn_local_shell_monitor. *)

(* finish_local_terminal: the tab, when it is still open, gives its worker  *)
(* to the registry; an exit closes the tab as well.                         *)
Finishes(shows) ==
    /\ monitor' = FALSE /\ events' = <<>>
    /\ tab' = IF tab = "closed" THEN tab ELSE shows
    /\ StartsShutdown
    /\ UNCHANGED displayed

MonitorReceives ==
    /\ monitor /\ events # <<>>
    /\ LET event == Head(events) IN
         CASE event = "Exited" -> Finishes("closed")
           [] event = "Failed" -> Finishes("failed")
           [] OTHER -> /\ events' = Tail(events)
                       /\ tab' = IF event = "Started" /\ tab # "closed" THEN "running" ELSE tab
                       /\ displayed' = IF event = "Output" THEN displayed + 1 ELSE displayed
                       /\ UNCHANGED <<monitor, owner, stopFlag, commands>>
    /\ UNCHANGED <<stage, outcome, reader, processVars, sizeVars, reported>>

(* The channel closes with the worker's thread. *)
MonitorEnds ==
    /\ monitor /\ events = <<>> /\ stage = "ended"
    /\ Finishes("stopped")
    /\ UNCHANGED <<stage, outcome, reader, processVars, sizeVars, reported>>

(* retry_terminal_notice_tab and resume_existing_local_shell: a new shell   *)
(* for a tab whose shell is over (its threads included, for simplicity).    *)
Resumes ==
    /\ tab \in {"failed", "stopped"} /\ owner = "gone" /\ stage = "ended"
    /\ stage' = "opening" /\ outcome' = Nil /\ reader' = "none" /\ child' = "none"
    /\ produced' = 0 /\ buffered' = 0 /\ events' = <<>> /\ commands' = <<>>
    /\ requested' \in Sizes /\ applied' = requested' /\ slot' = Nil
    /\ stopFlag' = FALSE /\ killable' = FALSE
    /\ owner' = "tab" /\ tab' = "starting" /\ monitor' = TRUE /\ displayed' = 0 /\ reported' = <<>>

ShellWorker == \/ Opens \/ Registers \/ Announces \/ Loops \/ AnnouncesSize \/ Polls \/ Receives
               \/ Terminates \/ Joins \/ ReportsEnd
ShellReader == Reads \/ SendsOutput \/ ReportsReadError \/ StopsWorker
ShellMonitor == MonitorReceives \/ MonitorEnds
ShellOwner == ForceKill \/ ShutdownEnds

ShellNext ==
    \/ RequestSend \/ RequestDisconnect \/ CloseLocalTab \/ \E s \in Sizes : RequestResize(s)
    \/ ShellOwner \/ ShellWorker \/ Writes \/ ShellReader \/ ReadFails \/ ShellMonitor
    \/ ChildWrites \/ ChildExits \/ Resumes

(* Threads and tasks keep running; a child need not read its input, write   *)
(* or exit, so a write is only certain to end once the child has gone.      *)
WriteEnds == child = "exited" /\ Writes

(* However the child, the reader and a shutdown interleave: a shell reports *)
(* its end at most once, an exit only after all the output of the child,    *)
(* no child outlives its worker, and while the worker serves the shell the  *)
(* last size asked for is the terminal's or waits in the slot.              *)
ShellSound ==
    /\ Len(reported) <= 1
    /\ \A r \in Range(reported) : r.event = "Exited" => r.ahead = produced
    /\ stage = "ended" => child # "alive" /\ reader \in {"none", "ended"}
    /\ stage # "ended" => requested = applied \/ slot = requested

(* A handle that was given up always gets rid of its threads and process,   *)
(* also with both channels full and input that the child does not read.     *)
ShellSettled == owner # "tab" => stage = "ended" /\ child # "alive" /\ ~monitor
=============================================================================

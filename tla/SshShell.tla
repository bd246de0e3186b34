------------------------------ MODULE SshShell ------------------------------
(***************************************************************************)
(* The worker of an SSH terminal (src/ssh/worker.rs run_session,           *)
(* src/ssh/worker/shell.rs), from its start to its end: the connection, the *)
(* set-up of X11 and of the automatic microphone, the shell, and the tasks *)
(* the worker starts beside it: X11 relays, microphones, uploads of        *)
(* clipboard images and the probe of the remote system.                    *)
(*                                                                         *)
(* `outbox` holds the events the worker is about to send: while it is not  *)
(* empty the worker waits for room in the event channel.  Output is        *)
(* counted.  The samples of the latency monitor are in Latency.            *)
(***************************************************************************)
EXTENDS Naturals, Sequences, SequencesExt, FiniteSets, Absent

CONSTANTS
    ShellSizes,      \* terminal sizes
    ShellEvents,     \* EVENT_CAPACITY
    ShellOrders,     \* COMMAND_CAPACITY
    ShellBatch,      \* MAX_OUTPUT_BATCH_BYTES, in chunks
    MaxRelays,       \* MAX_X11_RELAYS
    MaxX11Requests,  \* X11_CHANNEL_CAPACITY
    MaxMedia,        \* media tasks beyond which an image is refused: 3
    MaxDirectories,  \* MAX_ATTACHMENTS
    Images,          \* clipboard images, each uploaded once
    MaxRead          \* bound: chunks the shell puts out

ASSUME SshShellAssumption ==
    /\ ShellEvents \in Nat \ {0} /\ ShellOrders \in Nat \ {0} /\ ShellBatch \in Nat \ {0}
    /\ MaxRelays \in Nat \ {0} /\ MaxX11Requests \in Nat \ {0} /\ MaxMedia \in Nat \ {0}

VARIABLES
    run,         \* where the worker is; see the actions
    outbox,      \* events it is about to send
    carry,       \* chunks of output among them
    postbox,     \* the event channel
    jobs,        \* the command channel
    wanted, granted,   \* the size watched and not seen; the size the remote has
    outputs,     \* [read, held, sent, awaiting]: chunks; input was written since the last output
    x11,         \* [wanted, prepared, status, on, open, queue, relays, told]
    media,       \* [automatic, microphone, stop]: tasks and their stop signal
    images,      \* Images -> the state of its upload
    directories, \* [listed, made]: attachment_directories, and those that exist
    probe,       \* none, reading, sending, over
    verdict,     \* [failed, exited]
    halting,     \* shutdown: no, asked, over
    finale       \* ghost: terminal events sent, with the output ahead and the events behind them

sshVars == <<run, outbox, carry, postbox, jobs, wanted, granted, outputs, x11, media, images,
             directories, probe, verdict, halting, finale>>
taskVars == <<x11, media, images, directories, probe>>
callerVars == <<jobs, wanted, halting>>

EndEvents == {"Disconnected", "ShellExited", "Failed"}

SshInit ==
    /\ run = "connecting" /\ outbox = <<>> /\ carry = 0 /\ postbox = <<>> /\ jobs = <<>>
    /\ wanted \in [size : ShellSizes, unseen : {FALSE}] /\ granted = Nil
    /\ outputs = [read |-> 0, held |-> 0, sent |-> 0, awaiting |-> FALSE]
    /\ x11 \in [wanted : BOOLEAN, prepared : {FALSE}, status : {"NotRequested"}, on : {FALSE},
                open : {TRUE}, queue : {0}, relays : {0}, told : {FALSE}]
    /\ media = [automatic |-> FALSE, microphone |-> FALSE, stop |-> FALSE]
    /\ images = [i \in Images |-> "free"]
    /\ directories = [listed |-> {}, made |-> {}]
    /\ probe = "none" /\ verdict = [failed |-> FALSE, exited |-> FALSE]
    /\ halting = "no" /\ finale = <<>>

(* What the event channel takes; the ghost remembers what came behind a     *)
(* terminal event.                                                          *)
Posts(event) ==
    /\ Len(postbox) < ShellEvents
    /\ postbox' = Append(postbox, event)
    /\ finale' =
         IF event \in EndEvents
         THEN Append(finale, [event |-> event, ahead |-> outputs.sent, behind |-> 0])
         ELSE [k \in DOMAIN finale |-> [finale[k] EXCEPT !.behind = @ + 1]]

NothingPosted == UNCHANGED <<postbox, finale>>

Uploading == {i \in Images : images[i] \in {"opening", "listed", "made"}}
MediaTasks == Cardinality(Uploading) + (IF media.automatic THEN 1 ELSE 0)
                                     + (IF media.microphone THEN 1 ELSE 0)

---------------------------------------------------------------------------
(* The handle: SshSessionHandle. *)

Orders(job) ==
    /\ halting = "no" /\ run # "ended" /\ Len(jobs) < ShellOrders
    /\ jobs' = Append(jobs, job)
    /\ UNCHANGED <<run, outbox, carry, wanted, granted, outputs, taskVars, verdict, halting>>
    /\ NothingPosted

ResizesTerminal(size) ==
    /\ halting = "no" /\ run # "ended" /\ size # wanted.size
    /\ wanted' = [size |-> size, unseen |-> TRUE]
    /\ UNCHANGED <<run, outbox, carry, jobs, granted, outputs, taskVars, verdict, halting>>
    /\ NothingPosted

ShutsSsh ==
    /\ halting = "no"
    /\ halting' = "asked"
    /\ jobs' = IF Len(jobs) < ShellOrders /\ run # "ended" THEN Append(jobs, "Disconnect") ELSE jobs
    /\ UNCHANGED <<run, outbox, carry, wanted, granted, outputs, taskVars, verdict>>
    /\ NothingPosted

(* The worker is joined, or aborted after WORKER_SHUTDOWN_TIMEOUT: what it  *)
(* owns is dropped, and its tasks with it.                                  *)
SshJoined ==
    /\ halting = "asked" /\ run = "ended"
    /\ halting' = "over"
    /\ UNCHANGED <<run, outbox, carry, jobs, wanted, granted, outputs, taskVars, verdict>>
    /\ NothingPosted

SshAborted ==
    /\ halting = "asked" /\ run # "ended"
    /\ halting' = "over" /\ run' = "ended"
    /\ x11' = [x11 EXCEPT !.open = FALSE, !.queue = 0, !.relays = 0]
    /\ media' = [media EXCEPT !.automatic = FALSE, !.microphone = FALSE]
    /\ images' = [i \in Images |-> IF i \in Uploading THEN "over" ELSE images[i]]
    /\ probe' = IF probe = "none" THEN "none" ELSE "over"
    /\ UNCHANGED <<outbox, carry, jobs, wanted, granted, outputs, directories, verdict>>
    /\ NothingPosted

SshShut == SshJoined \/ SshAborted

---------------------------------------------------------------------------
(* Connecting and setting up. *)

SendsEvent ==
    /\ run # "ended" /\ outbox # <<>>
    /\ Posts(Head(outbox))
    /\ outbox' = Tail(outbox)
    /\ IF Head(outbox) = "Output"
       THEN outputs' = [outputs EXCEPT !.sent = @ + carry] /\ carry' = 0
       ELSE UNCHANGED <<outputs, carry>>
    /\ UNCHANGED <<run, callerVars, granted, taskVars, verdict>>

At(where) == run = where /\ outbox = <<>>

Connects ==
    /\ At("connecting")
    /\ \/ run' = "preparing" /\ UNCHANGED <<outbox, verdict>>
       \/ /\ run' = "returning" /\ outbox' = <<"Failed">>
          /\ verdict' = [verdict EXCEPT !.failed = TRUE]
    /\ UNCHANGED <<carry, callerVars, granted, outputs, taskVars>>
    /\ NothingPosted

(* X11Forwarding::prepare and the start of the automatic microphone. *)
Prepares ==
    /\ At("preparing")
    /\ \E ok \in IF x11.wanted THEN BOOLEAN ELSE {FALSE} :
          x11' = [x11 EXCEPT !.prepared = ok, !.open = ok]
    /\ media' = [media EXCEPT !.automatic = TRUE]
    /\ run' = "sourcing"
    /\ UNCHANGED <<outbox, carry, callerVars, granted, outputs, images, directories, probe, verdict>>
    /\ NothingPosted

(* Before the shell is open only a disconnect is obeyed. *)
EarlyOrder ==
    /\ run \in {"connecting", "sourcing"} /\ outbox = <<>> /\ jobs # <<>>
    /\ jobs' = Tail(jobs)
    /\ IF Head(jobs) # "Disconnect" THEN UNCHANGED <<run, outbox>>
       ELSE IF run = "connecting" THEN run' = "returning" /\ outbox' = <<"Disconnected">>
       ELSE run' = "leaving" /\ UNCHANGED outbox
    /\ UNCHANGED <<carry, wanted, granted, outputs, taskVars, verdict, halting>>
    /\ NothingPosted

(* The audio source, its failure, or five seconds; the shell is opened with *)
(* the size of this moment.                                                 *)
Sources ==
    /\ At("sourcing")
    /\ run' = "opening" /\ granted' = wanted.size /\ wanted' = [wanted EXCEPT !.unseen = FALSE]
    /\ UNCHANGED <<outbox, carry, jobs, outputs, taskVars, verdict, halting>>
    /\ NothingPosted

OpensShell ==
    /\ At("opening")
    /\ \E status \in IF x11.prepared THEN {"Enabled", "Rejected"} ELSE {"NotRequested"} :
          /\ x11' = [x11 EXCEPT !.status = status, !.on = status = "Enabled",
                                !.open = status = "Enabled"]
          /\ outbox' = <<"Connected">> \o
                       CASE status = "Enabled" -> <<"X11ForwardingEnabled">>
                         [] x11.wanted /\ status # "Enabled" -> <<"X11ForwardingUnavailable">>
                         [] OTHER -> <<>>
    /\ run' = "open"
    /\ UNCHANGED <<carry, callerVars, granted, outputs, media, images, directories, probe, verdict>>
    /\ NothingPosted

(* Failures: the event is sent and the worker leaves, from the loop through *)
(* the flush of what is held.                                               *)
Breaks(next) ==
    /\ run' = next /\ outbox' = <<"Failed">> /\ verdict' = [verdict EXCEPT !.failed = TRUE]
    /\ UNCHANGED <<carry, granted, outputs, taskVars>>
    /\ NothingPosted

ShellNotOpened == At("opening") /\ Breaks("leaving") /\ UNCHANGED callerVars

---------------------------------------------------------------------------
(* The loop. *)

TakesJob ==
    /\ At("open") /\ jobs # <<>>
    /\ jobs' = Tail(jobs)
    /\ run' = CASE Head(jobs) = "Send" -> "writing"
                [] Head(jobs) = "Disconnect" -> "flushing"
                [] OTHER -> "open"
    /\ media' = IF Head(jobs) = "Microphone" /\ ~media.microphone
                THEN [media EXCEPT !.microphone = TRUE] ELSE media
    /\ probe' = IF Head(jobs) = "ReadSystemRelease" /\ probe = "none" THEN "reading" ELSE probe
    /\ images' = IF Head(jobs) \notin Images THEN images
                 ELSE [images EXCEPT ![Head(jobs)] = IF MediaTasks >= MaxMedia THEN "over" ELSE "opening"]
    /\ UNCHANGED <<outbox, carry, wanted, granted, outputs, x11, directories, verdict, halting>>
    /\ NothingPosted

(* A write ends when the remote takes the input. *)
ShellWrites ==
    /\ At("writing")
    /\ run' = "open" /\ outputs' = [outputs EXCEPT !.awaiting = TRUE]
    /\ UNCHANGED <<outbox, carry, callerVars, granted, taskVars, verdict>>
    /\ NothingPosted

ShellWriteFails == At("writing") /\ Breaks("flushing") /\ UNCHANGED callerVars

SendsResize ==
    /\ At("open") /\ wanted.unseen
    /\ wanted' = [wanted EXCEPT !.unseen = FALSE] /\ granted' = wanted.size
    /\ outbox' = <<"Resized">>
    /\ UNCHANGED <<run, carry, jobs, outputs, taskVars, verdict, halting>>
    /\ NothingPosted

ResizeFails ==
    /\ At("open") /\ wanted.unseen
    /\ wanted' = [wanted EXCEPT !.unseen = FALSE]
    /\ Breaks("flushing") /\ UNCHANGED <<jobs, halting>>

(* flush_output: what is held goes into the outbox. *)
FlushesHeld(held) ==
    IF held = 0 THEN UNCHANGED <<outbox, carry>> ELSE outbox' = <<"Output">> /\ carry' = held

(* Output is sent at once when it is the first after input, or the batch is *)
(* full.                                                                    *)
ReadsShell ==
    /\ At("open") /\ outputs.read < MaxRead
    /\ LET held == outputs.held + 1
           now == outputs.awaiting \/ held >= ShellBatch
       IN  /\ outputs' = [outputs EXCEPT !.read = @ + 1, !.held = IF now THEN 0 ELSE held,
                                         !.awaiting = FALSE]
           /\ IF now THEN FlushesHeld(held) ELSE UNCHANGED <<outbox, carry>>
    /\ UNCHANGED <<run, callerVars, granted, taskVars, verdict>>
    /\ NothingPosted

FlushTimer ==
    /\ At("open") /\ outputs.held > 0
    /\ FlushesHeld(outputs.held) /\ outputs' = [outputs EXCEPT !.held = 0]
    /\ UNCHANGED <<run, callerVars, granted, taskVars, verdict>>
    /\ NothingPosted

(* The shell exits, the transport is closed, or receiving fails. *)
ShellOver(exits) ==
    /\ At("open")
    /\ run' = "flushing" /\ verdict' = [verdict EXCEPT !.exited = exits]
    /\ UNCHANGED <<outbox, carry, callerVars, granted, outputs, taskVars>>
    /\ NothingPosted

ReceiveFails == At("open") /\ Breaks("flushing") /\ UNCHANGED callerVars

---------------------------------------------------------------------------
(* X11: the server opens a channel (X11Dispatcher::dispatch), and the loop  *)
(* starts a relay for it unless there are too many.                         *)

X11Dispatched ==
    /\ run # "ended" /\ x11.on /\ x11.open /\ x11.queue < MaxX11Requests
    /\ x11' = [x11 EXCEPT !.queue = @ + 1]
    /\ UNCHANGED <<run, outbox, carry, callerVars, granted, outputs, media, images, directories,
                   probe, verdict>>
    /\ NothingPosted

TakesX11 ==
    /\ At("open") /\ x11.queue > 0
    /\ x11' = [x11 EXCEPT !.queue = @ - 1, !.relays = IF @ >= MaxRelays THEN @ ELSE @ + 1]
    /\ UNCHANGED <<run, outbox, carry, callerVars, granted, outputs, media, images, directories,
                   probe, verdict>>
    /\ NothingPosted

(* A local X server that cannot be prepared is reported once. *)
RelayEnds(unprepared) ==
    /\ At("open") /\ x11.relays > 0
    /\ x11' = [x11 EXCEPT !.relays = @ - 1, !.told = @ \/ unprepared]
    /\ outbox' = IF unprepared /\ ~x11.told THEN <<"X11ForwardingUnavailable">> ELSE <<>>
    /\ UNCHANGED <<run, carry, callerVars, granted, outputs, media, images, directories, probe, verdict>>
    /\ NothingPosted

---------------------------------------------------------------------------
(* The other tasks. *)

TaskStep == UNCHANGED <<run, outbox, carry, callerVars, granted, outputs, x11, verdict>>

(* upload_image: its directory is listed before it is created. *)
ListsDirectory(i) ==
    /\ run # "ended" /\ images[i] = "opening"
    /\ images' = [images EXCEPT ![i] = IF Cardinality(directories.listed) < MaxDirectories
                                       THEN "listed" ELSE "over"]
    /\ directories' = IF Cardinality(directories.listed) < MaxDirectories
                      THEN [directories EXCEPT !.listed = @ \cup {i}] ELSE directories
    /\ UNCHANGED <<media, probe>> /\ TaskStep /\ NothingPosted

MakesDirectory(i) ==
    /\ run # "ended" /\ images[i] = "listed"
    /\ images' = [images EXCEPT ![i] = "made"]
    /\ directories' = [directories EXCEPT !.made = @ \cup {i}]
    /\ UNCHANGED <<media, probe>> /\ TaskStep /\ NothingPosted

(* An upload is over, completed, failed or timed out. *)
UploadEnds(i) ==
    /\ run # "ended" /\ i \in Uploading
    /\ images' = [images EXCEPT ![i] = "over"]
    /\ UNCHANGED <<media, directories, probe>> /\ TaskStep /\ NothingPosted

AutomaticEnds ==
    /\ run # "ended" /\ media.automatic
    /\ media' = [media EXCEPT !.automatic = FALSE]
    /\ UNCHANGED <<images, directories, probe>> /\ TaskStep /\ NothingPosted

MicrophoneEnds ==
    /\ run # "ended" /\ media.microphone
    /\ media' = [media EXCEPT !.microphone = FALSE]
    /\ UNCHANGED <<images, directories, probe>> /\ TaskStep /\ NothingPosted

ProbeReads ==
    /\ run # "ended" /\ probe = "reading"
    /\ probe' = "sending"
    /\ UNCHANGED <<media, images, directories>> /\ TaskStep /\ NothingPosted

ProbeSends ==
    /\ run # "ended" /\ probe = "sending"
    /\ Posts("SystemRelease")
    /\ probe' = "over"
    /\ UNCHANGED <<media, images, directories>> /\ TaskStep

---------------------------------------------------------------------------
(* The end. *)

FlushesLast ==
    /\ At("flushing")
    /\ FlushesHeld(outputs.held) /\ outputs' = [outputs EXCEPT !.held = 0]
    /\ run' = "stopping"
    /\ UNCHANGED <<callerVars, granted, taskVars, verdict>>
    /\ NothingPosted

(* The dispatcher is disabled, relays and the probe are aborted and joined. *)
ProbeLeft == probe
ProbeJoined == IF probe = "none" THEN "none" ELSE "over"

StopsTasks ==
    /\ At("stopping")
    /\ x11' = [x11 EXCEPT !.on = FALSE, !.open = FALSE, !.queue = 0, !.relays = 0]
    /\ probe' = ProbeJoined
    /\ run' = "leaving"
    /\ UNCHANGED <<outbox, carry, callerVars, granted, outputs, media, images, directories, verdict>>
    /\ NothingPosted

(* shutdown_media_tasks: the tasks are told to stop, and aborted after five *)
(* seconds.                                                                 *)
StopsMedia ==
    /\ At("leaving") /\ ~media.stop
    /\ media' = [media EXCEPT !.stop = TRUE]
    /\ UNCHANGED <<run, outbox, carry, callerVars, granted, outputs, x11, images, directories, probe, verdict>>
    /\ NothingPosted

MediaOver ==
    /\ At("leaving") /\ media.stop
    /\ media' = [media EXCEPT !.automatic = FALSE, !.microphone = FALSE]
    /\ images' = [i \in Images |-> IF i \in Uploading THEN "over" ELSE images[i]]
    /\ run' = "cleaning"
    /\ UNCHANGED <<outbox, carry, callerVars, granted, outputs, x11, directories, probe, verdict>>
    /\ NothingPosted

(* cleanup_attachments removes what is listed, or fails; then the shell and *)
(* the transport are closed and the end is reported.                        *)
Cleans(removed) ==
    /\ At("cleaning")
    /\ directories' = [listed |-> {}, made |-> IF removed THEN directories.made \ directories.listed
                                               ELSE directories.made]
    /\ outbox' = IF verdict.failed THEN <<>>
                 ELSE IF verdict.exited THEN <<"ShellExited">> ELSE <<"Disconnected">>
    /\ run' = IF removed \/ directories.made = {} THEN "returning" ELSE "littering"
    /\ UNCHANGED <<carry, callerVars, granted, outputs, x11, media, images, probe, verdict>>
    /\ NothingPosted

(* Returning drops what is left, the receiver of the X11 requests too. *)
Returns ==
    /\ run \in {"returning", "littering"} /\ outbox = <<>>
    /\ run' = "ended"
    /\ x11' = [x11 EXCEPT !.open = FALSE]
    /\ UNCHANGED <<outbox, carry, callerVars, granted, outputs, media, images, directories, probe, verdict>>
    /\ NothingPosted

(* The monitor of the tab receives until the channel is closed. *)
ReceivesEvent ==
    /\ postbox # <<>>
    /\ postbox' = Tail(postbox)
    /\ UNCHANGED <<run, outbox, carry, callerVars, granted, outputs, taskVars, verdict, finale>>

---------------------------------------------------------------------------
NewImage(i) == images[i] = "free" /\ i \notin Range(jobs)

SshCaller ==
    \/ \E job \in {"Send", "Microphone", "ReadSystemRelease", "Disconnect"} : Orders(job)
    \/ \E i \in Images : NewImage(i) /\ Orders(i)
    \/ \E size \in ShellSizes : ResizesTerminal(size)
    \/ ShutsSsh

SshWorker ==
    \/ SendsEvent \/ Prepares \/ EarlyOrder \/ Sources \/ OpensShell \/ TakesJob \/ SendsResize
    \/ FlushTimer \/ TakesX11 \/ FlushesLast \/ StopsTasks \/ StopsMedia \/ MediaOver
    \/ Cleans(TRUE) \/ Returns

SshOthers ==
    \/ Connects \/ ShellNotOpened \/ ShellWrites \/ ShellWriteFails \/ ResizeFails \/ ReadsShell
    \/ \E exits \in BOOLEAN : ShellOver(exits)
    \/ ReceiveFails \/ X11Dispatched \/ \E unprepared \in BOOLEAN : RelayEnds(unprepared)
    \/ \E i \in Images : ListsDirectory(i) \/ MakesDirectory(i) \/ UploadEnds(i)
    \/ AutomaticEnds \/ MicrophoneEnds \/ ProbeReads \/ ProbeSends \/ Cleans(FALSE)

SshNext == SshCaller \/ SshShut \/ SshWorker \/ SshOthers \/ ReceivesEvent

(* However commands, sizes, output, X11 channels and the tasks interleave:   *)
(* an end is reported once, an orderly one is the last event and follows all *)
(* the output that was read; the shell has the size of the terminal unless   *)
(* the worker has yet to look at a newer one; relays exist only for a shell  *)
(* that was granted X11, within their limit; no task outlives the worker;    *)
(* and a remote directory that was made for an image is known to the clean-  *)
(* up, or was removed by it.                                                 *)
SshSound ==
    /\ Len(finale) <= 1
    /\ \A r \in Range(finale) : r.event # "Failed" => r.ahead = outputs.read /\ r.behind = 0
    /\ run \in {"open", "writing"} /\ ~wanted.unseen => granted = wanted.size
    /\ x11.relays <= MaxRelays /\ (x11.relays > 0 => x11.status = "Enabled")
    /\ MediaTasks <= MaxMedia + 1
    /\ run = "ended" => /\ MediaTasks = 0 /\ x11.relays = 0 /\ ~x11.open
                        /\ probe \notin {"reading", "sending"}
    /\ run \in {"open", "writing", "flushing", "stopping", "leaving"} =>
          directories.made \subseteq directories.listed
    /\ run = "returning" => directories.made = {}

(* A worker that was shut down ends, also when the remote takes no input,    *)
(* the microphone does not stop, and the disconnect found the channel full.  *)
SshSettled == halting # "no" => run = "ended"
=============================================================================

---------------------------- MODULE DirectSession ----------------------------
(***************************************************************************)
(* The worker of a Telnet or a Serial connection (src/telnet.rs,           *)
(* src/serial.rs), from its start to its end, with the controller that     *)
(* sends it input, sizes and the disconnect.                               *)
(*                                                                         *)
(* Input, output and events are counted; a chunk of output stands for its  *)
(* bytes.  A Telnet worker collects output and flushes it after a delay,   *)
(* before it ends, or when the batch is full; a Serial worker sends what   *)
(* it reads at once and knows no size.                                     *)
(***************************************************************************)
EXTENDS Naturals, Sequences, SequencesExt, Absent

CONSTANTS
    Protocols,       \* {"telnet", "serial"}
    LineSizes,       \* terminal sizes
    LineEvents,      \* EVENT_CAPACITY
    LineCommands,    \* COMMAND_CAPACITY
    Batch,           \* MAX_OUTPUT_BATCH_BYTES, in chunks
    MaxReceived      \* bound: chunks the peer sends

ASSUME DirectSessionAssumption ==
    /\ Protocols \subseteq {"telnet", "serial"}
    /\ LineEvents \in Nat \ {0} /\ LineCommands \in Nat \ {0} /\ Batch \in Nat \ {0}

VARIABLES
    protocol,
    line,        \* the worker: connecting, announcing, open, writing, emitting, failing,
                 \* flushing, closing, ended
    failed,      \* a Failed event was sent, or is to be sent before returning
    orders,      \* the command channel
    watch,       \* the watch channel of the size
    unseen,      \* its value has not been seen by the worker
    naws,        \* naws_enabled
    peerSize,    \* the last size the peer was told
    held,        \* output collected and not yet sent
    received,    \* chunks read
    channel,     \* the event channel
    sent,        \* ghost: chunks put into the channel
    ending,      \* shutdown: no, asked, over
    log          \* ghost: the terminal events sent, with the output ahead of them

lineVars == <<protocol, line, failed, orders, watch, unseen, naws, peerSize, held, received,
              channel, sent, ending, log>>
handleVars == <<protocol, orders, watch, unseen, ending>>
wireVars == <<naws, peerSize, received>>

LineInit ==
    /\ protocol \in Protocols /\ line = "connecting" /\ failed = FALSE /\ orders = <<>>
    /\ watch \in LineSizes /\ unseen = FALSE /\ naws = FALSE /\ peerSize = Nil
    /\ held = 0 /\ received = 0 /\ channel = <<>> /\ sent = 0 /\ ending = "no" /\ log = <<>>

(* send_event waits for room in the channel. *)
Emits(event) ==
    /\ Len(channel) < LineEvents
    /\ channel' = Append(channel, event)
    /\ log' = IF event \in {"Disconnected", "Failed"}
              THEN Append(log, [event |-> event, ahead |-> sent]) ELSE log
Silent == UNCHANGED <<channel, log>>

---------------------------------------------------------------------------
(* The handle. *)

SendInput ==
    /\ ending = "no" /\ Len(orders) < LineCommands
    /\ orders' = Append(orders, "Send")
    /\ UNCHANGED <<protocol, line, failed, watch, unseen, wireVars, held, sent, ending>> /\ Silent

ResizeLine(size) ==
    /\ protocol = "telnet" /\ ending = "no" /\ line # "ended" /\ size # watch
    /\ watch' = size /\ unseen' = TRUE
    /\ UNCHANGED <<protocol, line, failed, orders, wireVars, held, sent, ending>> /\ Silent

(* request_disconnect and shutdown: a full channel refuses the command. *)
QueuesDisconnect ==
    orders' = IF Len(orders) < LineCommands /\ line # "ended" THEN Append(orders, "Disconnect") ELSE orders

DisconnectLine ==
    /\ ending = "no"
    /\ QueuesDisconnect
    /\ UNCHANGED <<protocol, line, failed, watch, unseen, wireVars, held, sent, ending>> /\ Silent

ShutsLine ==
    /\ ending = "no"
    /\ QueuesDisconnect
    /\ ending' = "asked"
    /\ UNCHANGED <<protocol, line, failed, watch, unseen, wireVars, held, sent>> /\ Silent

(* The worker ended, or WORKER_SHUTDOWN_TIMEOUT sent and it is aborted. *)
LineShut ==
    /\ ending = "asked"
    /\ line' = "ended" /\ ending' = "over"
    /\ UNCHANGED <<protocol, failed, orders, watch, unseen, wireVars, held, sent>> /\ Silent

---------------------------------------------------------------------------
(* The worker: run_telnet_session, run_serial_session. *)

(* Connecting or opening, and the first negotiations of Telnet; bounded by  *)
(* CONNECT_TIMEOUT.  A failure is reported and ends the worker at once.     *)
ConnectsLine ==
    /\ line = "connecting"
    /\ \/ line' = "announcing" /\ UNCHANGED failed
       \/ line' = "failing" /\ failed' = TRUE
    /\ UNCHANGED <<handleVars, wireVars, held, sent>> /\ Silent

AnnouncesLine ==
    /\ line = "announcing"
    /\ Emits("Connected")
    /\ line' = "open"
    /\ UNCHANGED <<failed, handleVars, wireVars, held, sent>>

TakesCommand ==
    /\ line = "open" /\ orders # <<>>
    /\ line' = IF Head(orders) = "Send" THEN "writing" ELSE "flushing"
    /\ orders' = Tail(orders)
    /\ UNCHANGED <<protocol, failed, watch, unseen, wireVars, held, sent, ending>> /\ Silent

(* A write ends when the peer takes the input. *)
WritesInput ==
    /\ line = "writing"
    /\ \/ line' = "open" /\ UNCHANGED failed
       \/ line' = "failing" /\ failed' = TRUE
    /\ UNCHANGED <<handleVars, wireVars, held, sent>> /\ Silent

(* resize_rx.changed(): the peer is told once it accepted NAWS. *)
TellsSize ==
    /\ line = "open" /\ unseen
    /\ unseen' = FALSE
    /\ peerSize' = IF naws THEN watch ELSE peerSize
    /\ UNCHANGED <<protocol, line, failed, orders, watch, naws, received, held, sent, ending>> /\ Silent

(* DO NAWS: the size of this moment is sent, also when a change of it was   *)
(* seen before the peer accepted.                                           *)
Negotiates(accepts) ==
    /\ line = "open" /\ protocol = "telnet" /\ naws # accepts
    /\ naws' = accepts
    /\ peerSize' = IF accepts THEN watch ELSE peerSize
    /\ UNCHANGED <<line, failed, handleVars, received, held, sent>> /\ Silent

(* Output is collected (append_output) or sent at once. *)
ReadsLine ==
    /\ line = "open" /\ received < MaxReceived
    /\ received' = received + 1 /\ held' = held + 1
    /\ line' = IF protocol = "serial" \/ held + 1 = Batch THEN "emitting" ELSE "open"
    /\ UNCHANGED <<failed, handleVars, naws, peerSize, sent>> /\ Silent

FlushDue ==
    /\ line = "open" /\ held > 0
    /\ line' = "emitting"
    /\ UNCHANGED <<failed, handleVars, wireVars, held, sent>> /\ Silent

EmitsOutput ==
    /\ line = "emitting"
    /\ Emits("Output") /\ sent' = sent + held /\ held' = 0
    /\ line' = "open"
    /\ UNCHANGED <<failed, handleVars, wireVars>>

(* The end of the stream, or an error of it (or of a negotiation's answer). *)
StreamEnds ==
    /\ line = "open"
    /\ \/ line' = "flushing" /\ UNCHANGED failed
       \/ line' = "failing" /\ failed' = TRUE
    /\ UNCHANGED <<handleVars, wireVars, held, sent>> /\ Silent

SendsFailure ==
    /\ line = "failing"
    /\ Emits("Failed")
    /\ line' = "flushing"
    /\ UNCHANGED <<failed, handleVars, wireVars, held, sent>>

(* The rest of the output, the end of the connection and, when no failure   *)
(* was reported, Disconnected.                                              *)
FlushesRest ==
    /\ line = "flushing"
    /\ line' = "closing"
    /\ IF held = 0 THEN UNCHANGED <<held, sent>> /\ Silent
       ELSE Emits("Output") /\ sent' = sent + held /\ held' = 0
    /\ UNCHANGED <<failed, handleVars, wireVars>>

ClosesLine ==
    /\ line = "closing"
    /\ IF failed THEN Silent ELSE Emits("Disconnected")
    /\ line' = "ended"
    /\ UNCHANGED <<failed, handleVars, wireVars, held, sent>>

(* The monitor of the tab receives until the channel is closed. *)
PassesEvent ==
    /\ channel # <<>>
    /\ channel' = Tail(channel)
    /\ UNCHANGED <<line, failed, handleVars, wireVars, held, sent, log>>

LineWorker == \/ ConnectsLine \/ AnnouncesLine \/ TakesCommand \/ TellsSize \/ FlushDue
              \/ EmitsOutput \/ SendsFailure \/ FlushesRest \/ ClosesLine

LineNext ==
    \/ SendInput \/ DisconnectLine \/ ShutsLine \/ LineShut \/ \E s \in LineSizes : ResizeLine(s)
    \/ LineWorker \/ WritesInput \/ ReadsLine \/ StreamEnds \/ PassesEvent
    \/ \E accepts \in BOOLEAN : Negotiates(accepts)

(* However input, sizes, negotiations, output and the disconnect interleave: *)
(* an end is reported at most once, a disconnection after all the output     *)
(* that was read, and a peer that accepted NAWS knows the size of the        *)
(* terminal unless the worker has yet to look at a newer one.                *)
LineSound ==
    /\ Len(log) <= 1
    /\ \A r \in Range(log) : r.event = "Disconnected" => r.ahead = received
    /\ line \in {"open", "writing", "emitting"} /\ naws /\ ~unseen => peerSize = watch

(* A worker that was shut down ends, also when the peer takes no input and  *)
(* the disconnect found the channel full.                                   *)
LineSettled == ending # "no" => line = "ended"
=============================================================================

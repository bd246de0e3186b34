-------------------------------- MODULE Media --------------------------------
(***************************************************************************)
(* The media of the terminals (src/app/terminal_media.rs, src/audio.rs,    *)
(* src/ssh/worker/media.rs, src/ssh/worker/media/automatic.rs): clipboard  *)
(* images, the remote microphone, dictation, and the automatic microphone  *)
(* of every SSH worker.  All of them but the images want the one           *)
(* microphone of the machine.                                              *)
(*                                                                         *)
(* An operation is a number.  Its task runs beside the user interface,     *)
(* which may have cancelled it meanwhile: a task may be aborted at every   *)
(* await.  The device is opened, read and closed by a blocking thread      *)
(* that outlives the task that asked for it.                               *)
(***************************************************************************)
EXTENDS Naturals, FiniteSets, Absent

CONSTANTS
    Terminals,       \* connected SSH terminals
    MaxOperations,   \* bound: operations
    MaxLinks,        \* bound: connections of a terminal
    Steady           \* bound: terminals that stay connected

ASSUME MediaAssumption == MaxOperations \in Nat \ {0} /\ MaxLinks \in Nat \ {0}

Operations == 1..MaxOperations

\* MediaJob: its task is stored only after it was spawned.
Jobs == [id : Operations, mode : {"microphone", "dictation", "transcribing"}, task : BOOLEAN]

ASSUME MediaNil == Nil \notin Nat /\ Nil \notin Jobs

VARIABLES
    link,        \* Terminals -> [n, generation, up]: its connection, reconnect_generation, connected
    job,         \* Terminals -> MediaState.job: [id, mode, task], or Nil
    token,       \* Terminals -> MediaState.image_token, or Nil
    transcript,  \* Terminals -> the dictation whose transcript is shown, or Nil
    launching,   \* start_audio spawned this task and has not stored it yet, or Nil
    tasks,       \* Operations -> [kind, tab, generation, at]
    stops,       \* operations whose stop signal is set
    lease,       \* the holder of the semaphore, or Nil
    captures,    \* Operations -> none, permission, opening, recording, over
    cancelled,   \* captures whose guard was dropped
    remote,      \* Operations -> the helper of the worker: none, starting, ready, over
    bridge,      \* Terminals -> the automatic microphone: [alive, capture]
    accepted     \* ghost: images whose path was accepted, with the connection it was for

mediaVars == <<link, job, token, transcript, launching, tasks, stops, lease, captures, cancelled,
               remote, bridge, accepted>>
deviceVars == <<lease, captures, cancelled>>
screenVars == <<job, token, transcript>>

NoTask == [kind |-> "none", tab |-> Nil, generation |-> 0, link |-> 0, at |-> "over"]

MediaInit ==
    /\ link = [t \in Terminals |-> [n |-> 1, generation |-> 0, up |-> TRUE]]
    /\ job = [t \in Terminals |-> Nil] /\ token = [t \in Terminals |-> Nil]
    /\ transcript = [t \in Terminals |-> Nil] /\ launching = Nil
    /\ tasks = [i \in Operations |-> NoTask] /\ stops = {}
    /\ lease = Nil /\ captures = [i \in Operations |-> "none"] /\ cancelled = {}
    /\ remote = [i \in Operations |-> "none"]
    /\ bridge = [t \in Terminals |-> [alive |-> TRUE, capture |-> Nil]]
    /\ accepted = {}

(* Operations are numbered as they begin. *)
Unused == {i \in Operations : tasks[i] = NoTask /\ captures[i] = "none"}
NewOperation == CHOOSE i \in Unused : \A k \in Unused : i <= k

JobOf(t, i) == job[t] # Nil /\ job[t].id = i

(* The future of a capture is dropped.  Before its thread was spawned the   *)
(* semaphore is released with it; afterwards the thread holds it.           *)
ReleasesLease(ids) == IF lease \in {i \in ids : captures[i] = "permission"} THEN Nil ELSE lease
DropsCaptures(ids) ==
    /\ lease' = ReleasesLease(ids)
    /\ captures' = [i \in Operations |-> IF i \in ids /\ captures[i] = "permission"
                                         THEN "over" ELSE captures[i]]
    /\ cancelled' = cancelled \cup {i \in ids : captures[i] \in {"opening", "recording"}}

(* A job that is dropped signals its stop and aborts its task, if stored. *)
DropsJob(t) ==
    LET id == job[t].id
    IN  IF job[t] = Nil THEN UNCHANGED <<tasks, stops, deviceVars>>
        ELSE /\ stops' = stops \cup {id}
             /\ IF job[t].task
                THEN tasks' = [tasks EXCEPT ![id].at = "over"] /\ DropsCaptures({id})
                ELSE UNCHANGED <<tasks, deviceVars>>

---------------------------------------------------------------------------
(* The user interface. *)

(* start_audio: one microphone job in all terminals.  The remote microphone *)
(* is asked of the worker first.                                            *)
MicrophoneInUse == \E u \in Terminals : job[u] # Nil

StartsAudio(t, mode) ==
    /\ launching = Nil /\ ~MicrophoneInUse /\ link[t].up /\ Unused # {}
    /\ job' = [job EXCEPT ![t] = [id |-> NewOperation, mode |-> mode, task |-> FALSE]]
    /\ tasks' = [tasks EXCEPT ![NewOperation] = [kind |-> mode, tab |-> t, generation |-> link[t].generation,
                                          link |-> link[t].n, at |-> "starting"]]
    /\ remote' = IF mode = "microphone" THEN [remote EXCEPT ![NewOperation] = "starting"] ELSE remote
    /\ launching' = NewOperation
    /\ UNCHANGED <<link, token, transcript, stops, deviceVars, bridge, accepted>>

(* The task is stored in its job; when the job is gone it is aborted. *)
StoresTask ==
    /\ launching # Nil
    /\ LET t == tasks[launching].tab
       IN  IF JobOf(t, launching)
           THEN /\ job' = [job EXCEPT ![t].task = TRUE]
                /\ UNCHANGED <<tasks, deviceVars>>
           ELSE /\ tasks' = [tasks EXCEPT ![launching].at = "over"]
                /\ DropsCaptures({launching})
                /\ UNCHANGED job
    /\ launching' = Nil
    /\ UNCHANGED <<link, token, transcript, stops, remote, bridge, accepted>>

(* The command again: the microphone is told to stop, a transcription is    *)
(* dropped.                                                                 *)
StopsAudio(t) ==
    /\ launching = Nil /\ job[t] # Nil
    /\ IF job[t].mode = "transcribing"
       THEN DropsJob(t) /\ job' = [job EXCEPT ![t] = Nil]
       ELSE stops' = stops \cup {job[t].id} /\ UNCHANGED <<job, tasks, deviceVars>>
    /\ UNCHANGED <<link, token, transcript, launching, remote, bridge, accepted>>

(* discard-transcript, insert-transcript. *)
TakesTranscript(t) ==
    /\ transcript[t] # Nil
    /\ transcript' = [transcript EXCEPT ![t] = Nil]
    /\ UNCHANGED <<link, job, token, launching, tasks, stops, deviceVars, remote, bridge, accepted>>

PastesImage(t) ==
    /\ link[t].up /\ token[t] = Nil /\ Unused # {}
    /\ token' = [token EXCEPT ![t] = NewOperation]
    /\ tasks' = [tasks EXCEPT ![NewOperation] = [kind |-> "image", tab |-> t, generation |-> link[t].generation,
                                          link |-> link[t].n, at |-> "encoding"]]
    /\ UNCHANGED <<link, job, transcript, launching, stops, deviceVars, remote, bridge, accepted>>

(* MediaState::cancel, with the end of a connection (the generation stays)  *)
(* or its cancellation (it moves on).  The worker stops its microphones.    *)
Cancels(t, moves) ==
    /\ link[t].up /\ t \notin Steady
    /\ link' = [link EXCEPT ![t] = [link[t] EXCEPT !.up = FALSE, !.generation = IF moves THEN @ + 1 ELSE @]]
    /\ job' = [job EXCEPT ![t] = Nil] /\ token' = [token EXCEPT ![t] = Nil]
    /\ transcript' = [transcript EXCEPT ![t] = Nil]
    /\ DropsJob(t)
    /\ UNCHANGED <<launching, remote, bridge, accepted>>

Reconnects(t) ==
    /\ ~link[t].up /\ link[t].n < MaxLinks /\ ~bridge[t].alive
    /\ link' = [link EXCEPT ![t] = [link[t] EXCEPT !.up = TRUE, !.n = @ + 1]]
    /\ bridge' = [bridge EXCEPT ![t] = [alive |-> TRUE, capture |-> Nil]]
    /\ UNCHANGED <<screenVars, launching, tasks, stops, deviceVars, remote, accepted>>

---------------------------------------------------------------------------
(* The task of an image. *)

(* The connection that asked is still there. *)
SameGeneration(i) ==
    LET t == tasks[i].tab IN link[t].up /\ link[t].generation = tasks[i].generation
Current(i) == SameGeneration(i) /\ token[tasks[i].tab] = i

(* Encoded: the worker is asked to upload it, or the operation is over. *)
Encodes(i) ==
    /\ tasks[i].at = "encoding"
    /\ IF Current(i)
       THEN tasks' = [tasks EXCEPT ![i].at = "uploading"] /\ UNCHANGED token
       ELSE /\ tasks' = [tasks EXCEPT ![i].at = "over"]
            /\ token' = [t \in Terminals |-> IF token[t] = i THEN Nil ELSE token[t]]
    /\ UNCHANGED <<link, job, transcript, launching, stops, deviceVars, remote, bridge, accepted>>

(* The answer of the worker: its path is accepted if nothing changed. *)
Uploaded(i) ==
    /\ tasks[i].at = "uploading"
    /\ tasks' = [tasks EXCEPT ![i].at = "over"]
    /\ IF Current(i)
       THEN /\ token' = [token EXCEPT ![tasks[i].tab] = Nil]
            /\ accepted' = accepted \cup {[id |-> i, link |-> link[tasks[i].tab].n]}
       ELSE UNCHANGED <<token, accepted>>
    /\ UNCHANGED <<link, job, transcript, launching, stops, deviceVars, remote, bridge>>

UploadFails(i) ==
    /\ tasks[i].at = "uploading"
    /\ tasks' = [tasks EXCEPT ![i].at = "over"]
    /\ token' = [t \in Terminals |-> IF token[t] = i THEN Nil ELSE token[t]]
    /\ UNCHANGED <<link, job, transcript, launching, stops, deviceVars, remote, bridge, accepted>>

---------------------------------------------------------------------------
(* The capture of the device: capture_with, capture_worker. *)

(* The start of a capture: over at once when it is stopped already, or      *)
(* another one holds the microphone.                                        *)
BeginsCapture(i) ==
    IF i \notin stops /\ lease = Nil
    THEN lease' = i /\ captures' = [captures EXCEPT ![i] = "permission"] /\ UNCHANGED cancelled
    ELSE captures' = [captures EXCEPT ![i] = "over"] /\ UNCHANGED <<lease, cancelled>>

CaptureStep == UNCHANGED <<link, screenVars, launching, tasks, stops, remote, bridge, accepted>>

PermissionGranted(i) ==
    /\ captures[i] = "permission"
    /\ captures' = [captures EXCEPT ![i] = "opening"]
    /\ UNCHANGED <<lease, cancelled>> /\ CaptureStep

(* Denied, or stopped while the user was asked. *)
PermissionEnds(i) ==
    /\ captures[i] = "permission"
    /\ captures' = [captures EXCEPT ![i] = "over"] /\ lease' = Nil
    /\ UNCHANGED cancelled /\ CaptureStep

OpensDevice(i) ==
    /\ captures[i] = "opening" /\ i \notin cancelled
    /\ captures' = [captures EXCEPT ![i] = "recording"]
    /\ UNCHANGED <<lease, cancelled>> /\ CaptureStep

(* The stop signal drops the guard. *)
StopSeen(i) ==
    /\ captures[i] \in {"opening", "recording"} /\ i \in stops /\ i \notin cancelled
    /\ cancelled' = cancelled \cup {i}
    /\ UNCHANGED <<lease, captures>> /\ CaptureStep

(* The thread closes the device and returns: cancelled, or by an error. *)
ThreadEnds(i) ==
    /\ captures[i] \in {"opening", "recording"}
    /\ captures' = [captures EXCEPT ![i] = "over"]
    /\ lease' = IF lease = i THEN Nil ELSE lease
    /\ UNCHANGED cancelled /\ CaptureStep

---------------------------------------------------------------------------
(* The task of an audio job: run_remote_audio, run_dictation. *)

RunsAudio(i) == tasks[i].kind \in {"microphone", "dictation"}

(* Dictation records at once; the remote microphone when its helper is up.  *)
Records(i) ==
    /\ RunsAudio(i) /\ tasks[i].at = "starting"
    /\ tasks[i].kind = "microphone" => remote[i] = "ready"
    /\ tasks' = [tasks EXCEPT ![i].at = "capturing"]
    /\ BeginsCapture(i)
    /\ UNCHANGED <<link, screenVars, launching, stops, remote, bridge, accepted>>

HelperGone(i) ==
    /\ tasks[i].kind = "microphone" /\ tasks[i].at \in {"starting", "capturing", "finishing"}
    /\ remote[i] = "over"
    /\ tasks' = [tasks EXCEPT ![i].at = "settling"]
    /\ DropsCaptures({i})
    /\ UNCHANGED <<link, screenVars, launching, stops, remote, bridge, accepted>>

(* The end of the capture: the remote microphone waits for its helper, a    *)
(* dictation with something recorded is transcribed.                        *)
CaptureOver(i) ==
    /\ RunsAudio(i) /\ tasks[i].at = "capturing" /\ captures[i] = "over"
    /\ \/ tasks[i].kind = "microphone" /\ tasks' = [tasks EXCEPT ![i].at = "finishing"] /\ UNCHANGED job
       \/ /\ tasks[i].kind = "dictation"
          /\ tasks' = [tasks EXCEPT ![i].at = "transcribing"]
          /\ job' = [t \in Terminals |-> IF JobOf(t, i) THEN [job[t] EXCEPT !.mode = "transcribing"]
                                         ELSE job[t]]
       \/ tasks' = [tasks EXCEPT ![i].at = "settling"] /\ UNCHANGED job
    /\ UNCHANGED <<link, token, transcript, launching, stops, deviceVars, remote, bridge, accepted>>

(* A dictation of sixty seconds stops itself. *)
TimeLimit(i) ==
    /\ tasks[i].kind = "dictation" /\ tasks[i].at = "capturing" /\ i \notin stops
    /\ stops' = stops \cup {i}
    /\ UNCHANGED <<link, screenVars, launching, tasks, deviceVars, remote, bridge, accepted>>

(* The result is applied to the job it belongs to. *)
Settles(i) ==
    /\ tasks[i].at \in {"transcribing", "settling"}
    /\ LET t == tasks[i].tab
       IN  IF JobOf(t, i)
           THEN /\ job' = [job EXCEPT ![t] = Nil]
                /\ stops' = stops \cup {i}
                /\ \/ UNCHANGED transcript
                   \/ tasks[i].at = "transcribing" /\ transcript' = [transcript EXCEPT ![t] = i]
           ELSE UNCHANGED <<job, stops, transcript>>
    /\ tasks' = [tasks EXCEPT ![i].at = "over"]
    /\ UNCHANGED <<link, token, launching, deviceVars, remote, bridge, accepted>>

(* forward_microphone in the worker: ready when the remote source exists,   *)
(* over when it is stopped, the packets end, or the channel breaks.         *)
HelperReady(i) ==
    /\ remote[i] = "starting" /\ i \notin stops /\ link[tasks[i].tab].n = tasks[i].link
    /\ remote' = [remote EXCEPT ![i] = "ready"]
    /\ UNCHANGED <<link, screenVars, launching, tasks, stops, deviceVars, bridge, accepted>>

HelperEnds(i) ==
    /\ remote[i] \in {"starting", "ready"}
    /\ remote' = [remote EXCEPT ![i] = "over"]
    /\ UNCHANGED <<link, screenVars, launching, tasks, stops, deviceVars, bridge, accepted>>

---------------------------------------------------------------------------
(* forward_automatic_microphone: the remote says when it records. *)

DemandsCapture(t) ==
    /\ bridge[t].alive /\ link[t].up /\ bridge[t].capture = Nil /\ Unused # {}
    /\ BeginsCapture(NewOperation)
    /\ tasks' = [tasks EXCEPT ![NewOperation] = [NoTask EXCEPT !.kind = "automatic", !.tab = t]]
    /\ bridge' = [bridge EXCEPT ![t].capture = NewOperation]
    /\ UNCHANGED <<link, screenVars, launching, stops, remote, accepted>>

(* stop_capture: the stop signal, and after a second the abort. *)
StopsCapture(t) ==
    /\ IF bridge[t].capture = Nil THEN UNCHANGED <<stops, deviceVars>>
       ELSE stops' = stops \cup {bridge[t].capture} /\ DropsCaptures({bridge[t].capture})
    /\ UNCHANGED <<link, screenVars, launching, tasks, remote, accepted>>

DemandEnds(t) ==
    /\ bridge[t].alive /\ bridge[t].capture # Nil
    /\ StopsCapture(t)
    /\ bridge' = [bridge EXCEPT ![t].capture = Nil]

(* The helper exits, the capture ends by itself, the worker shuts down. *)
BridgeEnds(t) ==
    /\ bridge[t].alive
    /\ StopsCapture(t)
    /\ bridge' = [bridge EXCEPT ![t] = [alive |-> FALSE, capture |-> Nil]]

---------------------------------------------------------------------------
MediaNext ==
    \/ StoresTask
    \/ \E t \in Terminals :
          \/ \E mode \in {"microphone", "dictation"} : StartsAudio(t, mode)
          \/ StopsAudio(t) \/ TakesTranscript(t) \/ PastesImage(t) \/ Reconnects(t)
          \/ \E moves \in BOOLEAN : Cancels(t, moves)
          \/ DemandsCapture(t) \/ DemandEnds(t) \/ BridgeEnds(t)
    \/ \E i \in Operations :
          \/ Encodes(i) \/ Uploaded(i) \/ UploadFails(i) \/ PermissionGranted(i) \/ PermissionEnds(i)
          \/ OpensDevice(i) \/ StopSeen(i) \/ ThreadEnds(i) \/ Records(i) \/ HelperGone(i)
          \/ CaptureOver(i) \/ TimeLimit(i) \/ Settles(i) \/ HelperReady(i) \/ HelperEnds(i)

Recording == {i \in Operations : captures[i] = "recording"}
Owned(i) == \E t \in Terminals : JobOf(t, i) \/ bridge[t].capture = i

(* However starts, stops, cancellations, reconnections and late answers      *)
(* interleave: the device is open for at most one operation, the one that    *)
(* holds the lease; an operation nobody owns any more has been told to stop; *)
(* a transcript is shown, and the path of an image accepted, only on the     *)
(* connection it was asked on.                                               *)
MediaSound ==
    /\ Recording \subseteq {lease}
    /\ \A i \in Recording : Owned(i) \/ i \in stops \cup cancelled
    /\ \A t \in Terminals : transcript[t] # Nil =>
          tasks[transcript[t]].tab = t /\ tasks[transcript[t]].link = link[t].n
    /\ \A a \in accepted : tasks[a.id].link = a.link
    /\ Cardinality({t \in Terminals : job[t] # Nil}) <= 1
=============================================================================

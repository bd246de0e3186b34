------------------------------ MODULE MCWorkers ------------------------------
(***************************************************************************)
(* The workers behind the terminals - local shell, Telnet and Serial line, *)
(* SSH shell - with the X server the SSH shell's channels use, and the tab *)
(* of a Telnet or Serial connection: a behaviour exercises one of them,    *)
(* chosen at the start.  The SSH shell is exercised                        *)
(* in three parts: its output with sizes and the probe, its X11 channels,  *)
(* and its media.                                                          *)
(***************************************************************************)
EXTENDS DirectConnection, Terminals

VARIABLE focus

mcVars == <<focus, shellVars, lineVars, directVars, sshVars, x11Vars>>

SshParts == {"output", "x11", "media"}

Init ==
    /\ focus \in {"local", "line", "tab", "display"} \cup SshParts
    /\ ShellInit /\ LineInit /\ DirectInit /\ SshInit /\ X11Init
    /\ focus # "local" => requested = CHOOSE s \in Sizes : TRUE
    /\ focus # "line" => protocol = "telnet" /\ watch = CHOOSE s \in LineSizes : TRUE
    /\ focus # "tab" => kindOf = "telnet"
    /\ focus # "output" => wanted.size = CHOOSE s \in ShellSizes : TRUE
    /\ x11.wanted <=> focus = "x11"
    /\ focus # "display" => /\ ~cookies /\ xserver = "absent"
                            /\ plan = [launches |-> FALSE, installed |-> FALSE, allowNoAuth |-> FALSE]

\* What a part of the SSH shell leaves out.
InPart ==
    /\ focus # "media" => "Microphone" \notin Range(jobs') /\ Range(jobs') \cap Images = {}
    /\ focus # "output" => /\ outputs'.read = 0 /\ wanted'.size = wanted.size
                           /\ "ReadSystemRelease" \notin Range(jobs')

LocalOnly == focus = "local" /\ UNCHANGED <<focus, lineVars, directVars, sshVars, x11Vars>>
LineOnly == focus = "line" /\ UNCHANGED <<focus, shellVars, directVars, sshVars, x11Vars>>
TabOnly == focus = "tab" /\ UNCHANGED <<focus, shellVars, lineVars, sshVars, x11Vars>>
SshOnly == focus \in SshParts /\ UNCHANGED <<focus, shellVars, lineVars, directVars, x11Vars>>
DisplayOnly == focus = "display" /\ UNCHANGED <<focus, shellVars, lineVars, directVars, sshVars>>

Next ==
    \/ LocalOnly /\ ShellNext
    \/ LineOnly /\ LineNext
    \/ TabOnly /\ DirectNext
    \/ SshOnly /\ SshNext /\ InPart
    \/ DisplayOnly /\ X11Next

(* Threads and tasks are scheduled, and shutdowns bounded by their timeouts. *)
Fairness ==
    /\ WF_mcVars(\/ LocalOnly /\ ShellWorker
                 \/ LineOnly /\ LineWorker
                 \/ TabOnly /\ DirectTasks
                 \/ SshOnly /\ SshWorker
                 \/ DisplayOnly /\ \E c \in Clients : ClientStep(c))
    /\ WF_mcVars(\/ LocalOnly /\ ShellReader
                 \/ LineOnly /\ PassesEvent
                 \/ TabOnly /\ BoundedPeers
                 \/ SshOnly /\ ReceivesEvent)
    /\ WF_mcVars(\/ LocalOnly /\ ShellMonitor
                 \/ LineOnly /\ LineShut
                 \/ SshOnly /\ SshShut)
    /\ WF_mcVars(LocalOnly /\ ShellOwner) /\ WF_mcVars(LocalOnly /\ WriteEnds)

Spec == Init /\ [][Next]_mcVars /\ Fairness

\* What was shut down ends, whatever its peer does and however full its channels are; a
\* direct connection that is starting gets connected or is given up, and so is an X11 relay.
WorkersEnd == []<>(ShellSettled /\ LineSettled /\ SshSettled /\ DirectSettled /\ X11Settled)
=============================================================================

----------------------------- MODULE MCWorkspace -----------------------------
(***************************************************************************)
(* The tabs and windows of the workspace, its automatic checkpoints, the   *)
(* refreshes of its display, the media of its terminals and the latency of *)
(* their connections: a behaviour exercises one of them, chosen at the     *)
(* start.                                                                  *)
(***************************************************************************)
EXTENDS Workspace, Autosave, UiRefresh, TabData

VARIABLE focus

mcVars == <<focus, workspaceVars, autosaveVars, refreshVars, mediaVars, latencyVars>>

Init ==
    /\ focus \in {"windows", "checkpoints", "refreshes", "media", "latency"}
    /\ WorkspaceInit /\ AutosaveInit /\ RefreshInit /\ MediaInit /\ LatencyInit
    /\ focus # "checkpoints" => disk = Nil /\ current = [layout |-> 1, text |-> 1]

WindowsOnly ==
    focus = "windows" /\ UNCHANGED <<focus, autosaveVars, refreshVars, mediaVars, latencyVars>>
\* The one page, which has neither panes nor a companion, is among the first tabs.
EarlyPage == \A t \in Open : kind[t] = "page" => t <= 2

CheckpointsOnly ==
    focus = "checkpoints" /\ UNCHANGED <<focus, workspaceVars, refreshVars, mediaVars, latencyVars>>
RefreshesOnly ==
    focus = "refreshes" /\ UNCHANGED <<focus, workspaceVars, autosaveVars, mediaVars, latencyVars>>
MediaOnly ==
    focus = "media" /\ UNCHANGED <<focus, workspaceVars, autosaveVars, refreshVars, latencyVars>>
LatencyOnly ==
    focus = "latency" /\ UNCHANGED <<focus, workspaceVars, autosaveVars, refreshVars, mediaVars>>

Next ==
    \/ WindowsOnly /\ WorkspaceNext /\ EarlyPage'
    \/ CheckpointsOnly /\ AutosaveNext
    \/ RefreshesOnly /\ RefreshNext
    \/ MediaOnly /\ MediaNext
    \/ LatencyOnly /\ LatencyNext

Spec == Init /\ [][Next]_mcVars
=============================================================================

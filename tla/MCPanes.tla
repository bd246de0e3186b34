------------------------------- MODULE MCPanes -------------------------------
(***************************************************************************)
(* The remote pane, the local pane and the remote edits of an SFTP tab: a  *)
(* behaviour exercises one of them, chosen at the start.                   *)
(***************************************************************************)
EXTENDS TabPanes, RemoteEdit

VARIABLE focus

mcVars == <<focus, paneVars, folderVars, editVars>>

MCResolved == [n \in {"r", "a", "link"} |-> IF n = "link" THEN "a" ELSE n]
MCParent == [d \in {"r", "a"} |-> IF d = "a" THEN "r" ELSE Nil]
MCBudgets == {[moves |-> 1, closes |-> 1, writes |-> 0], [moves |-> 0, closes |-> 3, writes |-> 0],
              [moves |-> 0, closes |-> 1, writes |-> 1], [moves |-> 2, closes |-> 0, writes |-> 1],
              [moves |-> 3, closes |-> 0, writes |-> 0]}
MCLocalBudgets == {[steps |-> 3, edits |-> 0], [steps |-> 2, edits |-> 1]}

Init ==
  /\ focus \in {"remote", "local", "edit"}
  /\ PaneInit /\ FolderInit /\ EditInit
  /\ focus # "remote" => budget.closes = 3 /\ session.path = "r"
  /\ focus # "local" => allowance.edits = 0

Next ==
  \/ focus = "remote" /\ PaneNext /\ UNCHANGED <<focus, folderVars, editVars>>
  \/ focus = "local" /\ FolderNext /\ UNCHANGED <<focus, paneVars, editVars>>
  \/ focus = "edit" /\ EditNext /\ UNCHANGED <<focus, paneVars, folderVars>>

Fairness ==
  /\ WF_mcVars(focus = "remote" /\ PaneSystem /\ UNCHANGED <<focus, folderVars, editVars>>)
  /\ WF_mcVars(focus = "edit" /\ EditWorker /\ UNCHANGED <<focus, paneVars, folderVars>>)
  /\ WF_mcVars(focus = "edit" /\ EditTasks /\ UNCHANGED <<focus, paneVars, folderVars>>)

Spec == Init /\ [][Next]_mcVars /\ Fairness

\* The remote pane never waits forever: a listing ends with a page, with an error or with
\* the end of the browser or of the attempt (apply_sftp_event, run_sftp_session).
LoadingEnds == []<>(focus = "remote" => ~pane.loading)
=============================================================================

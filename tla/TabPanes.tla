------------------------------ MODULE TabPanes ------------------------------
(***************************************************************************)
(* The two directory panes of an SFTP tab, the remote one and the local    *)
(* one.                                                                    *)
(***************************************************************************)
EXTENDS RemoteBrowser, LocalFolder

\* Both panes show what this tab knows to have changed in their directory.
ChangesShown == NoticedChangeShown /\ WatchedChangeShown

\* Going back and forward, in either pane, retraces the directories visited and loses none
\* of them, also when listings fail, change or answer late in between
\* (complete_directory_history).
TimelineKept == LocalTimelineKept /\ RemoteTimelineKept
=============================================================================

----------------------------- MODULE MCTransfers -----------------------------
(***************************************************************************)
(* The transfers of an SFTP worker, or the transfer list of its tab: a     *)
(* behaviour exercises one of them, chosen at the start. In a "calm" one   *)
(* nobody cancels or disconnects and every step the code owes is fair.     *)
(***************************************************************************)
EXTENDS SftpTransfers, TransferRows

VARIABLE focus

mcVars == <<focus, transferVars, rowVars>>

MCContents == [r \in {"d"} |-> <<"k1", "k2">>]

Init ==
  /\ focus \in {"worker", "calm worker", "list", "calm list"}
  /\ SftpInit /\ RowsInit
  /\ IF focus \in {"worker", "calm worker"} THEN wanted \in {{"d", "f"}, {"u", "v"}, {"f", "u"}} ELSE wanted = {}
  /\ IF focus \in {"list", "calm list"} THEN asked \in {{"F"}, {"U"}, {"D"}} ELSE asked = {}

CalmList == RowSystem \/ RowUser \/ TransportCloses

Next ==
  \/ focus = "worker" /\ SftpNext /\ UNCHANGED <<focus, rowVars>>
  \/ focus = "calm worker" /\ (LoopStep \/ UserStep) /\ UNCHANGED <<focus, rowVars>>
  \/ focus = "list" /\ RowsNext /\ UNCHANGED <<focus, transferVars>>
  \/ focus = "calm list" /\ CalmList /\ UNCHANGED <<focus, transferVars>>

Fairness ==
  /\ WF_mcVars(focus = "calm worker" /\ LoopStep /\ UNCHANGED <<focus, rowVars>>)
  /\ WF_mcVars(focus = "calm list" /\ (RowSystem \/ RowUser) /\ UNCHANGED <<focus, transferVars>>)

Spec == Init /\ [][Next]_mcVars /\ Fairness

\* While nobody cancels, every transfer the worker took comes to its end or to a question
\* for the user, through discovery, the queue window, the channel limit and the upload
\* permits (run_sftp_session); and so does every row of the list, over any number of lost
\* connections: what was under way is submitted again (requeue_transfer_intents).
TransfersEnd ==
  /\ []<>(focus = "calm worker" => \A i \in Ids : Known(x, i) => x.place[i] = "conflict")
  /\ []<>(focus = "calm list" => \A i \in Rows : a.row[i] \in Final \cup {Nil, "AwaitingConflict"})
=============================================================================

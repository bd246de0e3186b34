----------------------------- MODULE AtomicFile -----------------------------
(***************************************************************************)
(* What a transfer of one file promises at its destination, whatever it    *)
(* does on the way: the destination has nothing, or the whole file, or a   *)
(* file of somebody else; the whole file appears in one step; a transfer   *)
(* reported as completed is whole and stays so; somebody else's file is    *)
(* never touched.                                                          *)
(***************************************************************************)
CONSTANT Nil

VARIABLES
  file,      \* "absent", "whole" or "foreign"
  outcome    \* Nil, "Completed" or "other": what the transfer reported

vars == <<file, outcome>>

Init ==
  /\ file \in {"absent", "foreign"}
  /\ outcome = Nil

Appear ==
  /\ file = "absent"
  /\ outcome # "Completed"
  /\ file' = "whole"
  /\ UNCHANGED outcome

Withdraw ==
  /\ file = "whole"
  /\ outcome # "Completed"
  /\ file' = "absent"
  /\ UNCHANGED outcome

SomebodyCreates ==
  /\ file = "absent"
  /\ file' = "foreign"
  /\ UNCHANGED outcome

Report(o) ==
  /\ outcome = Nil
  /\ o = "Completed" => file = "whole"
  /\ outcome' = o
  /\ UNCHANGED file

Next ==
  \/ Appear
  \/ Withdraw
  \/ SomebodyCreates
  \/ \E o \in {"Completed", "other"} : Report(o)

Spec == Init /\ [][Next]_vars
=============================================================================

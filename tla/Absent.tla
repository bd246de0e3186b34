------------------------------- MODULE Absent -------------------------------
(* The value of an Option that is None, common to all components.          *)
CONSTANT Nil
=============================================================================

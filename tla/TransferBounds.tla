--------------------------- MODULE TransferBounds ---------------------------
(* Constants common to the two directions of a file transfer.              *)
EXTENDS Naturals, Absent

CONSTANT MaxRetries    \* retries of run_download and run_upload on the same connection

ASSUME TransferConstants == MaxRetries \in Nat /\ Nil \notin Nat
=============================================================================

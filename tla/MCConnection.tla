---- MODULE MCConnection ----
EXTENDS Connection, TLC
Symmetry == Permutations(Attempts) \cup Permutations(TaskIds)
====

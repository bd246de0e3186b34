SPECIFICATION Spec
CONSTANTS
  Attempts = {a1, a2}
  TaskIds = {t1, t2}
  None = None
  Auths = {"agent"}
  MaxReconnect = 1
  MaxGen = 1
  MaxEdits = 0
SYMMETRY Symmetry
INVARIANT UserDisconnectIsFinal
CHECK_DEADLOCK FALSE

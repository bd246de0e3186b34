SPECIFICATION FairSpec
CONSTANTS
  Attempts = {a1, a2}
  TaskIds = {t1, t2}
  None = None
  Auths = {"keyring"}
  MaxReconnect = 1
  MaxGen = 1
  MaxEdits = 0
PROPERTIES
  AttemptsDrain
  
CHECK_DEADLOCK FALSE

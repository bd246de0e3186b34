SPECIFICATION Spec
CONSTANTS
  Attempts = {a1, a2}
  TaskIds = {t1, t2}
  None = None
  Auths = {"vault"}
  MaxReconnect = 1
  MaxGen = 1
  MaxEdits = 1
SYMMETRY Symmetry
INVARIANTS
  TypeOK
  TransportCoherent
  AttachedWorkerIsMonitored
  NoStrayWorker
  OneTimeSecretIsSingleUse

  
CHECK_DEADLOCK FALSE

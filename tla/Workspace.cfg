SPECIFICATION Spec
CONSTANTS
  Nil = Nil
  Tabs = {1, 2, 3, 4}
  Main = Main
  Detached = {d1}
  Opened = {"ssh", "page"}
  MaxPanes = 2
  Layouts = {1, 2}
  Texts = {1, 2}
  Quiet = 2
  MaxDirty = 3
  TextEvery = 4
  Screens = {"s1", "s2"}
  MaxScheduled = 2
  Terminals = {t1, t2}
  MaxOperations = 2
  MaxLinks = 2
  Steady = {t2}
  FOREGROUND_INTERVAL = 1
  BACKGROUND_INTERVAL = 2
  PROBE_TIMEOUT = 1
  SAMPLE_LIFETIME = 3
  RoundTrips = {1, 12}
  LatencyEvents = 1
  MaxClock = 4
  MaxAttempts = 2
INVARIANTS
  
  CheckpointsKept
  NothingForgotten
  TabDataIsCurrent
CHECK_DEADLOCK FALSE

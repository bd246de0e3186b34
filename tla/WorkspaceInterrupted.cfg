SPECIFICATION Spec
CONSTANTS
  Nil = Nil
  Tabs = {1, 2}
  Main = Main
  Detached = {d1}
  Opened = {"ssh"}
  MaxPanes = 2
INVARIANT SnapshotStaysValid
CHECK_DEADLOCK FALSE

SPECIFICATION Spec
CONSTANTS
  Nil = Nil
  Names = {"r", "a", "link"}
  Resolved <- MCResolved
  Parent <- MCParent
  HistoryLimit = 2
  MaxReopen = 2
  Budgets <- MCBudgets
  LocalBudgets <- MCLocalBudgets
  EditPaths = {"p"}
  MaxTabEdits = 1
  MaxEditIds = 2
  MaxContents = 2
  MaxOrders = 1
INVARIANTS
  OneDirectoryShown
  ChangesShown
PROPERTIES
  TimelineKept
  ReplacesOnlyBaseline
  LoadingEnds
  SavesReachRemote
CHECK_DEADLOCK FALSE

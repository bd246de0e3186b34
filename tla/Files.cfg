SPECIFICATION Spec
CONSTANTS
  Sizes = {1, 2}
  Window = 2
  WriterQueue = 1
  MaxRetries = 1
  MaxTouch = 1
  MaxPauses = 1
  Copies = 2
  Chunks = 2
  MaxForeign = 2
  MaxLocal = 1
  MaxAsks = 2
  Nil = Nil
INVARIANTS
  
  NothingLeftBehind
  PublishedOnceAsQueued
  
PROPERTIES
  FilesAreAtomic
  CancelEnds
CHECK_DEADLOCK FALSE

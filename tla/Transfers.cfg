SPECIFICATION Spec
CONSTANTS
  Nil = Nil
  FileRoots = {"f"}
  DirRoots = {"d"}
  Contents <- MCContents
  Uploads = {"u", "v"}
  PerTab = 1
  QueueWindow = 2
  FoundSpace = 1
  GlobalUploads = 1
  Files = {"F"}
  Ups = {"U"}
  Folder = "D"
  Inside = {"K"}
  MaxEvents = 2
  MaxDrops = 2
INVARIANTS
  ChannelsReserved
  DirectoryEndsLast
  
  NoStrandedRow
  NothingTwice

  
CHECK_DEADLOCK FALSE

SPECIFICATION Spec
CONSTANTS
  Nil = Nil
  Sizes = {1, 2}
  EventCapacity = 1
  CommandCapacity = 1
  MaxOutput = 2
  Protocols = {"telnet", "serial"}
  LineSizes = {1, 2}
  LineEvents = 1
  LineCommands = 1
  Batch = 2
  MaxReceived = 3
  Lines = {"telnet", "serial"}
  MaxTried = 3
  MaxChanges = 1
  MaxAgain = 2
  MaxCancels = 1
  ShellSizes = {1, 2}
  ShellEvents = 1
  ShellOrders = 1
  ShellBatch = 2
  MaxRelays = 1
  MaxX11Requests = 1
  MaxMedia = 2
  MaxDirectories = 1
  Images = {"i1", "i2"}
  MaxRead = 2
  Trusted = {"t1"}
  Untrusted = {"u1"}
  Preparation = "p"
  MaxLaunches = 2
INVARIANTS
  
  DirectSound

  
CHECK_DEADLOCK FALSE

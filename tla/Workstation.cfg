SPECIFICATION Spec
CONSTANTS
  Attempts = 2
  MaxReleases = 2
  MaxRollbacks = 1
  Nodes = {"n3", "n4"}
  OwnNodes = {"n1", "n2"}
  ReportsInternal = TRUE
  BootsExternal = FALSE
  PollAttempts = 2
  MaxCommands = 2
  Addrs = {a1, a2}
  Aliases = {"pibot", "raspberrypi"}
  HostName <- SameName
  MaxCalls = 1
INVARIANTS
  TypeOK
  ExitZeroMeansDone
PROPERTIES
  NothingUnasked
  WaitsEnd
CHECK_DEADLOCK FALSE

\* Deploys only matter: no rollback, one probe of the new agent.
SPECIFICATION Spec
CONSTANTS
  Attempts = 1
  MaxReleases = 2
  MaxRollbacks = 0
  Nodes = {"n3", "n4"}
  OwnNodes = {"n1", "n2"}
  ReportsInternal = TRUE
  BootsExternal = FALSE
  PollAttempts = 2
  MaxCommands = 1
  Addrs = {a1, a2}
  Aliases = {"pibot", "raspberrypi"}
  HostName <- SameName
  MaxCalls = 1
INVARIANT
  HalfSyncedNeverCurrent
CHECK_DEADLOCK FALSE

\* Two operators of the arm on one link.
CONSTANTS
  Asked = {"link"}
  Jobs = {j1}
  Destructive = {j1}
  Handlers = {h1}
  Readers = {}
  MaxLog = 0
  MaxRuns = 1
  Servers = {s1}
  Clients = {}
  TuneRuns = {}
  NoServer = NoServer
  NoRun = NoRun
  FlushSize = 1
  MaxRows = 0
  MaxAge = 0
  Requests = {}
  MaxClock = 0
  MaxWrites = 0
  MaxStarts = 0
  MaxSteps = 0
  MaxFailures = 0
  Robots = {r1}
  Unknown = {}
  Switchers = {q1}
  Operators = {p1, p2}
  Viewers = {}
  NoRobot = NoRobot
  NoOne = NoOne
  MaxLinks = 1
  MaxSockets = 2
  MaxFrames = 1
  MaxShots = 0
  MaxUnread = 0
  QueueSize = 1
  MaxWire = 1
SPECIFICATION Spec
CHECK_DEADLOCK FALSE
INVARIANT
  ArmAnswerIsOwn

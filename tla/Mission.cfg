\* Two confirmations of one destructive job, one client of the policy server, a
\* few snapshots, recordings and sessions; one switcher, two operators of the
\* arm and one webview over two links; the relay of the drive, and video.
CONSTANTS
  Asked = {"ops", "policy", "metrics", "demos", "sessions", "link", "telemetry", "control", "video"}
  Jobs = {j1}
  Destructive = {j1}
  Handlers = {h1, h2}
  Readers = {d1}
  MaxLog = 2
  MaxRuns = 2
  Servers = {s1, s2}
  Clients = {c1}
  TuneRuns = {t1}
  NoServer = NoServer
  NoRun = NoRun
  FlushSize = 2
  MaxRows = 2
  MaxAge = 1
  Requests = {q1, q2}
  MaxClock = 2
  MaxWrites = 4
  MaxStarts = 2
  MaxSteps = 2
  MaxFailures = 2
  Robots = {r1, r2}
  Unknown = {r2}
  Switchers = {w1}
  Operators = {p1, p2}
  Viewers = {v1}
  NoRobot = NoRobot
  NoOne = NoOne
  MaxLinks = 2
  MaxSockets = 2
  MaxFrames = 3
  MaxShots = 4
  MaxUnread = 3
  QueueSize = 2
  MaxWire = 2
SPECIFICATION Spec
CHECK_DEADLOCK FALSE
INVARIANTS
  TypeOK
  StreamComplete
  StatusTruthful
  ServedWasHanded
  SnapshotsKept
  OnlyLateStepsStray
  SessionsBounded
  LinkSettled
  RepliesInTurn
  RepeatsLastWord
PROPERTIES
  KeepsPromise
  StreamsEnd
  RequestsAndRunsSettle
  RetentionKeepsNewest
  LinkSettles
  StopGetsThrough
  LastFrameShown

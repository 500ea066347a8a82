\* Two run requests that overlap while their files load.
CONSTANTS
  NumBoards = 1
  NumJoints = 1
  BoardOf <- OneOnOne
  ToolBoard = 1
  ArmWindow = 1
  Far = 3
  Clients = {c1}
  Requests = {"home"}
  MaxInbox = 2
  Runs = {r1, r2}
  NoRun = NoRun
  Program <- MoveAndTool
  Frames = 1
SPECIFICATION ArmSpec
PROPERTIES
  InterruptedHalts

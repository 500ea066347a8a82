\* The serial port of one of two boards fails.
CONSTANTS
  NumBoards = 2
  NumJoints = 2
  BoardOf <- OnePerBoard
  ToolBoard = 1
  ArmWindow = 1
  Far = 3
  Clients = {c1}
  Requests = {"estop"}
  MaxInbox = 2
  Runs = {}
  NoRun = NoRun
  Program <- MoveAndTool
  Frames = 1
SPECIFICATION ArmSpec
PROPERTIES
  EstopReachesAll

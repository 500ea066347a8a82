\* One joint, two clients, one program runner, every fault.
CONSTANTS
  NumBoards = 1
  NumJoints = 1
  BoardOf <- OneOnOne
  ToolBoard = 1
  ArmWindow = 1
  Far = 1
  Clients = {c1, c2}
  Requests = {"estop", "clear_estop", "home"}
  MaxInbox = 1
  Runs = {r1}
  NoRun = NoRun
  Program <- MoveAndTool
  Frames = 1
SPECIFICATION ArmSpec
SYMMETRY ClientSymmetry
INVARIANTS
  ArmTypeOK
  EstopHolds
PROPERTIES
  InterruptedHalts

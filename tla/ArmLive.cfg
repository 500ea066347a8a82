\* One joint, every request and every fault; the arm comes to rest.
CONSTANTS
  NumBoards = 1
  NumJoints = 1
  BoardOf <- OneOnOne
  ToolBoard = 1
  ArmWindow = 1
  Far = 2
  Clients = {c1}
  Requests = {"estop", "clear_estop", "enable", "grip", "tool", "jvel", "jstop", "jpos", "jmove", "home", "move"}
  MaxInbox = 1
  Runs = {}
  NoRun = NoRun
  Program <- MoveAndTool
  Frames = 1
SPECIFICATION ArmFairSpec
INVARIANT
  MovesAreReferenced
PROPERTY
  ArmRests

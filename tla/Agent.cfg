\* One operator, three runs; sequences of three commands.
CONSTANTS
  Callers = {p1}
  MaxRuns = 3
  Names = {"drive", "stop", "estop", "servo"}
  MaxSteps = 3
  Ways = {"autonomy", "shared", "play", "teleop", "oneshot"}
SPECIFICATION Spec
CHECK_DEADLOCK FALSE
INVARIANTS
  TypeOK
  PolicyIsKnown
  EndsAtRest
PROPERTY
  AutonomySettles

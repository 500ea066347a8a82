\* One caller, every fault; the safety layer sends the plain stops itself.
CONSTANTS
  Callers = {c1}
  Names = {"drive", "estop", "garbled", "set_param"}
  SeqMod = 2
  Safety = Safety
  NoCaller = NoCaller
  Deadman = 2
  RateInterval = 1
  TickInterval = 1
  FwWindow = 1
  MaxWire = 2
SPECIFICATION FairSpec
INVARIANTS
  TypeOK
  StopsPreempt
  DeadmanPunctual
  FirmwareLatchHolds
PROPERTIES
  ImplementsGate
  QuietRobotRests
  EstopRests

\* Two callers sharing the wire with the safety layer.
CONSTANTS
  Callers = {c1, c2}
  Names = {"drive", "ping"}
  SeqMod = 3
  Safety = Safety
  NoCaller = NoCaller
  Deadman = 1
  RateInterval = 0
  TickInterval = 1
  FwWindow = 1
  MaxWire = 2
SPECIFICATION Spec
SYMMETRY CallerSymmetry
INVARIANTS
  ReplyComing
  NoReplyOfAnother

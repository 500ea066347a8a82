------------------------------ MODULE DriveGate -----------------------------
(***************************************************************************)
(* What whoever steers through the agent sees of its gate (agent/safety.py *)
(* behind TransportController.submit): a drive moves the robot unless the  *)
(* gate refuses it, a stop halts it, and the deadman halts it once no      *)
(* frame came for its window.  The wire, the replies' numbers and the      *)
(* failures of the link are the matter of RobotDrive, which implements     *)
(* this as long as its link works (GateImplemented).                       *)
(***************************************************************************)
EXTENDS Naturals

VARIABLES
  wheels,   \* the frames sent leave the robot driven
  quiet,    \* the deadman's window has passed since a frame was sent
  latched   \* the e-stop latch; no handler resets it

gateVars == <<wheels, quiet, latched>>

GateTypeOK == wheels \in BOOLEAN /\ quiet \in BOOLEAN /\ latched \in BOOLEAN

GateInit == wheels = FALSE /\ quiet = FALSE /\ latched = FALSE

\* MOTION_COMMANDS
Moves == {"drive", "motor", "servo"}

\* submit() lets the frame through: only motion is ever refused.
Passes(name) ==
  /\ name \in Moves => ~latched
  /\ wheels' = (name \notin {"stop", "estop"} /\ (wheels \/ name \in {"drive", "motor"}))
  /\ quiet' = FALSE
  /\ UNCHANGED latched

\* submit() raises ControlRejected: latched, or sooner than max_rate_hz allows.
Refused(name) == name \in Moves /\ UNCHANGED gateVars

\* POST /estop
GateEstop == latched' = TRUE /\ wheels' = FALSE /\ quiet' = FALSE

\* Time passes without a frame.
Quieten == ~quiet /\ quiet' = TRUE /\ UNCHANGED <<wheels, latched>>

\* The ticker finds the window passed; the stop it sends feeds the deadman.
DeadmanStops == quiet /\ wheels' = FALSE /\ quiet' = FALSE /\ UNCHANGED latched

\* The firmware's own guards stop the robot: its latch refuses a drive the gate
\* let through, its watchdog fires, or it finds its client gone.
RobotRests == wheels /\ wheels' = FALSE /\ UNCHANGED <<quiet, latched>>

\* What can happen at the gate when commands with these names are sent.
GateNext(names) ==
  \/ \E name \in names : Passes(name) \/ Refused(name)
  \/ GateEstop \/ Quieten \/ DeadmanStops \/ RobotRests
=============================================================================

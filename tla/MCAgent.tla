------------------------------ MODULE MCAgent -------------------------------
(* What steers through the agent, composed, for TLC and for the proofs.    *)
EXTENDS Autonomy, Driving

CONSTANT Ways  \* what the behaviours exercise

\* Each way to steer has the robot to itself; "shared" is autonomy, started
\* while others drive over the control socket.
ASSUME WaysAssumption == Ways \subseteq {"autonomy", "shared", "play", "teleop", "oneshot"}

VARIABLE asked  \* what this behaviour exercises

vars == <<gateVars, autonomyVars, drivingVars, asked>>

Init ==
  /\ GateInit /\ AutonomyInit /\ DrivingInit /\ asked \in Ways
  /\ asked # "play" => steps = <<"estop">>
  /\ asked # "oneshot" => ~served

\* Somebody's command over WS /control.
OthersDrive == LoopFree /\ Passes("drive") /\ UNCHANGED autonomyVars

AutonomyTurn ==
  /\ \/ asked \in {"autonomy", "shared"} /\ AutonomyNext
     \/ asked = "shared" /\ OthersDrive
  /\ UNCHANGED drivingVars

DrivingTurn ==
  /\ \/ asked = "play" /\ PlayNext
     \/ asked = "teleop" /\ TeleopNext
     \/ asked = "oneshot" /\ OneShotNext
     \/ asked \in {"play", "teleop"} /\ DrivingTime
  /\ UNCHANGED autonomyVars

Next == (AutonomyTurn \/ DrivingTurn) /\ UNCHANGED asked

\* One robot's clock: it is fair to the way that is taken.
Fair ==
  /\ asked \in {"autonomy", "shared"} => AutonomyFair
  /\ asked \in {"play", "teleop"} => DrivingFair

Spec == Init /\ [][Next]_vars /\ Fair

TypeOK == GateTypeOK /\ AutonomyTypeOK /\ DrivingTypeOK

\* A robot the policy alone may drive is driven by a run that is known.
PolicyIsKnown == asked = "autonomy" => RunnerIsKnown
=============================================================================

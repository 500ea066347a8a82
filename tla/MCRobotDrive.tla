---------------------------- MODULE MCRobotDrive ----------------------------
(* Instances of RobotDrive for TLC. *)
EXTENDS RobotDrive, TLC

CallerSymmetry == Permutations(Callers)
=============================================================================

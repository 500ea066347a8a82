------------------------------- MODULE MCArm -------------------------------
(* Instances of ArmSystem for TLC. *)
EXTENDS ArmSystem, TLC

OneOnOne == <<1>>
OnePerBoard == <<1, 2>>
BothOnOne == <<1, 1>>
ClientSymmetry == Permutations(Clients)
MoveAndTool == <<"move", "tool">>
=============================================================================

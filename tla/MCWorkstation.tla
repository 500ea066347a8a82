---------------------------- MODULE MCWorkstation ----------------------------
(* Instances of the commands given at the operator's workstation for TLC.    *)
EXTENDS Deploy, Provision, Fleet

VARIABLE asked  \* the family of commands this behaviour gives

vars == <<deployVars, provisionVars, fleetVars, asked>>

\* Both robots come up with the host name of the stock image.
SameName == [a \in Addrs |-> CHOOSE x \in Aliases : TRUE]

(* Each behaviour gives the commands of one family instead of interleaving *)
(* all.  The robot's agents are what two families share: Deploy's, which   *)
(* `pibot agent start` and `stop` also act on.                             *)
Init ==
  /\ DeployInit /\ ProvisionInit /\ FleetInit
  /\ asked \in {"deploy", "provision", "fleet"}
  /\ asked # "provision" => at["stick"] = "none"
  /\ asked # "fleet" => inventory = Empty /\ config.settings /\ ~keypair /\ files[Here] = "new"
  /\ asked = "provision" => ~byHand

DeployTurn == asked = "deploy" /\ DeployNext /\ UNCHANGED <<provisionVars, fleetVars>>
ProvisionTurn == asked = "provision" /\ ProvisionNext /\ UNCHANGED <<deployVars, fleetVars>>

\* The scripts of `pibot agent`, when the robot they reach is the deployed one.
AgentScript ==
  \/ call.name = "start" /\ StartByHand
  \/ call.name = "stop" /\ StopAgents

FleetTurn ==
  /\ asked = "fleet" /\ UNCHANGED provisionVars
  /\ \/ FleetNext /\ UNCHANGED deployVars
     \/ RunRemote /\ LoggedIn /\ AgentScript

Next == (DeployTurn \/ ProvisionTurn \/ FleetTurn) /\ UNCHANGED asked

Spec == Init /\ [][Next]_vars /\ DeployFair /\ ProvisionFair

TypeOK == DeployTypeOK /\ ProvisionTypeOK /\ FleetTypeOK

\* A command of the workstation that exits 0 has done what it says: a deploy
\* or rollback has an agent that answers, its own or one started by hand, a
\* flash leaves its image and configuration on the disk, an edit its record, a
\* verified transfer the file, and a key installation the key.
ExitZeroMeansDone == GatePassed /\ FlashedWhole /\ SaidWasDone

\* What is counted ends: the health gate of a deploy, whatever the agents do,
\* and the wait for the Pi's drive, whatever is plugged in.
WaitsEnd ==
  /\ job.step = "health" ~> job.step # "health"
  /\ cmd.step = "poll" ~> cmd.step # "poll"
=============================================================================

----------------------------- MODULE MCMission ------------------------------
(* Instances of the parts of Mission Control for TLC: its background       *)
(* services, and what runs over its link to a robot.                       *)
EXTENDS OpsJobs, PolicyServer, Recording, MissionLink, ControlRelay, VideoPath

CONSTANT Asked  \* the parts a run looks at

VARIABLE asked  \* the part this behaviour's requests go to

serviceVars == <<opsVars, polVars, recordingVars>>
robotVars == <<missionVars, controlVars, videoVars>>
vars == <<serviceVars, robotVars, asked>>

(* The parts share nothing that is modelled but the event loop: a control  *)
(* socket keeps the address it opened, a relay its own queues.  Each       *)
(* behaviour exercises one of them instead of the product of all.          *)
ASSUME AskedAssumption ==
  Asked \subseteq {"ops", "policy", "metrics", "demos", "sessions",
                   "link", "telemetry", "control", "video"}

Init ==
  /\ OpsInit /\ PolicyInit /\ RecordingInit
  /\ MissionInit /\ ControlInit /\ VideoInit
  /\ asked \in Asked

OpsTurn == asked = "ops" /\ OpsNext /\ UNCHANGED <<polVars, recordingVars>>

PolicyTurn == asked = "policy" /\ PolicyNext /\ UNCHANGED <<opsVars, recordingVars>>

RecordingTurn ==
  /\ \/ asked = "metrics" /\ MetricsNext
     \/ asked = "demos" /\ DemoNext
     \/ asked = "sessions" /\ SessionNext
  /\ UNCHANGED <<opsVars, polVars>>

LinkTurn ==
  /\ \/ asked = "link" /\ MissionNext /\ UNCHANGED viewer
     \/ asked = "telemetry" /\ MissionNext /\ UNCHANGED askVars
  /\ UNCHANGED <<controlVars, videoVars>>

ControlTurn == asked = "control" /\ ControlNext /\ UNCHANGED <<missionVars, videoVars>>

VideoTurn == asked = "video" /\ VideoNext /\ UNCHANGED <<missionVars, controlVars>>

Next ==
  /\ \/ (OpsTurn \/ PolicyTurn \/ RecordingTurn) /\ UNCHANGED robotVars
     \/ (LinkTurn \/ ControlTurn \/ VideoTurn) /\ UNCHANGED serviceVars
  /\ UNCHANGED asked

Spec ==
  /\ Init /\ [][Next]_vars
  /\ OpsFair /\ PolicyFair /\ MissionFair /\ ControlFair /\ VideoFair

TypeOK ==
  /\ OpsTypeOK /\ PolicyTypeOK /\ RecordingTypeOK
  /\ MissionTypeOK /\ ControlTypeOK /\ VideoTypeOK
=============================================================================

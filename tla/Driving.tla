------------------------------ MODULE Driving -------------------------------
(***************************************************************************)
(* Steering from the command line: `pibot play` (control/sequence.py) and  *)
(* `pibot teleop` (control/teleop.py) over the agent's control socket, and *)
(* `pibot cmd` and `pibot estop` (control/oneshot.py) over a transport of  *)
(* their own, which waits in the backlog of the single-client firmware as  *)
(* long as the agent is connected.                                         *)
(***************************************************************************)
EXTENDS DriveGate, Sequences, SequencesExt, FiniteSets

CONSTANTS
  Names,     \* commands a sequence may hold, "estop" among them
  MaxSteps   \* bound: steps of a sequence, and keys of a session

ASSUME DrivingAssumption == MaxSteps \in Nat /\ Names # {}

VARIABLES
  steps,    \* play: the sequence, sorted by time
  idx,      \* play: steps sent
  player,   \* play: see PlayerAt
  keys,     \* teleop: keys read
  driver,   \* teleop: "ready", "waits", "quits", "left", "broken"
  oneshot,  \* cmd: "idle", "sent", "acked", "refused", "failed", "late"
  served    \* the firmware serves the client of the one-shot command

drivingVars == <<steps, idx, player, keys, driver, oneshot, served>>

\* "next": between two dispatches; "waits", "holds", "stops": a step, the held
\* motion, the final stop is sent; "done", "aborted": play returned 0, 1.
PlayerAt == {"next", "waits", "holds", "stops", "done", "aborted", "broken"}

DrivingTypeOK ==
  /\ steps \in Seq(Names) /\ idx \in 0 .. Len(steps)
  /\ player \in PlayerAt
  /\ keys \in 0 .. MaxSteps
  /\ driver \in {"ready", "waits", "quits", "left", "broken"}
  /\ oneshot \in {"idle", "sent", "acked", "refused", "failed", "late"}
  /\ served \in BOOLEAN

\* load_sequence refused what is no list of {at, cmd, args}.
DrivingInit ==
  /\ steps \in BoundedSeq(Names, MaxSteps) \ {<<>>} /\ idx = 0 /\ player = "next"
  /\ keys = 0 /\ driver = "ready"
  /\ oneshot = "idle" /\ served \in BOOLEAN

-----------------------------------------------------------------------------
(* play *)

Player == UNCHANGED <<steps, keys, driver, oneshot, served>>

\* _dispatch: an e-stop has its own endpoint and ends the sequence.
Dispatch(name, then) ==
  \/ name = "estop" /\ GateEstop /\ player' = "aborted"
  \/ name # "estop" /\ Passes(name) /\ player' = then
  \/ /\ name # "estop" /\ Refused(name)  \* {"rejected": reason}
     /\ player' = IF latched THEN "aborted" ELSE "next"

PlayStep ==
  /\ player = "next" /\ idx < Len(steps)
  /\ idx' = idx + 1
  /\ Dispatch(steps[idx + 1], "waits")
  /\ Player

\* Until the next step is due, the current motion is sent again.
PlayHold ==
  /\ player = "next" /\ idx \in 1 .. Len(steps) - 1
  /\ steps[idx] \in Moves
  /\ Dispatch(steps[idx], "holds")
  /\ UNCHANGED idx /\ Player

PlayReplyCounts ==
  /\ player \in {"waits", "holds"} /\ player' = "next"
  /\ idx' = idx + 1
  /\ UNCHANGED gateVars /\ Player

\* The reply: an acknowledgement, a NAK or "no ack" all go on.
PlayReply ==
  /\ player \in {"waits", "holds"} /\ player' = "next"
  /\ UNCHANGED <<gateVars, idx>> /\ Player

PlayLeaves ==
  /\ player = "next" /\ idx = Len(steps)
  /\ player' = "done"
  /\ UNCHANGED <<gateVars, idx>> /\ Player

\* The last step was sent: final_stop, answered or not.
PlayEnds ==
  /\ \/ player = "next" /\ idx = Len(steps) /\ player' = "stops" /\ Passes("stop")
     \/ player = "stops" /\ player' = "done" /\ UNCHANGED gateVars
  /\ UNCHANGED idx /\ Player

\* Ctrl-C or a lost socket: the exception ends play where it waits.
PlayBreaks ==
  /\ player \in {"next", "waits", "holds", "stops"} /\ player' = "broken"
  /\ UNCHANGED <<gateVars, idx>> /\ Player

-----------------------------------------------------------------------------
(* teleop *)

Teleop == UNCHANGED <<steps, idx, player, oneshot, served>>

\* key_to_action and apply_action; a rejection is only shown.
TeleopKey ==
  /\ driver = "ready" /\ keys < MaxSteps
  /\ keys' = keys + 1
  /\ \/ driver' = "waits" /\ Passes("drive")
     \/ driver' = "waits" /\ Refused("drive")
     \/ driver' = "waits" /\ Passes("stop")
     \/ driver' = "waits" /\ GateEstop
     \/ driver' = "quits" /\ Passes("stop")
  /\ Teleop

TeleopReply ==
  /\ \/ driver = "waits" /\ driver' = "ready"
     \/ driver = "quits" /\ driver' = "left"
  /\ UNCHANGED <<gateVars, keys>> /\ Teleop

\* The terminal or the socket is gone; the `finally` sends nothing.
TeleopBreaks ==
  /\ driver \in {"ready", "waits", "quits"} /\ driver' = "broken"
  /\ UNCHANGED <<gateVars, keys>> /\ Teleop

-----------------------------------------------------------------------------
(* cmd and estop *)

OneShot == UNCHANGED <<steps, idx, player, keys, driver>>

\* The connection is made in either case: the backlog takes it.
CommandSent ==
  /\ oneshot = "idle" /\ oneshot' = "sent"
  /\ UNCHANGED <<gateVars, served>> /\ OneShot

\* The firmware reads the command and answers; its own latch may refuse motion.
\* The agent's gate sees nothing of it, its deadman neither.  It may be read
\* when the connection it came on is closed already.
CommandAnswered ==
  /\ oneshot \in {"sent", "failed"} /\ served
  /\ \E answer \in {"acked", "refused"} :
        /\ wheels' \in IF answer = "acked" THEN BOOLEAN ELSE {wheels}
        /\ oneshot' = IF oneshot = "failed" THEN "late" ELSE answer
  /\ UNCHANGED <<quiet, latched, served>> /\ OneShot

\* send_command: the deadline passes, and the connection is closed.
CommandTimesOut ==
  /\ oneshot = "sent" /\ oneshot' = "failed"
  /\ UNCHANGED <<gateVars, served>> /\ OneShot

\* The agent's connection goes, or comes back.
ServerTurns == served' = ~served /\ UNCHANGED <<gateVars, oneshot>> /\ OneShot

\* Somebody else at POST /estop.
DrivingEstop == GateEstop /\ ~latched /\ UNCHANGED drivingVars

DrivingQuieten == Quieten /\ UNCHANGED drivingVars
DrivingDeadman == DeadmanStops /\ UNCHANGED drivingVars
DrivingRests == RobotRests /\ UNCHANGED drivingVars

PlayNext == PlayStep \/ PlayHold \/ PlayReply \/ PlayEnds \/ PlayBreaks

TeleopNext == TeleopKey \/ TeleopReply \/ TeleopBreaks

\* Only the firmware's own guards end the motion of a one-shot command.
OneShotNext ==
  CommandSent \/ CommandAnswered \/ CommandTimesOut \/ ServerTurns \/ DrivingRests

DrivingTime == DrivingQuieten \/ DrivingDeadman \/ DrivingRests \/ DrivingEstop

DrivingFair ==
  /\ WF_<<gateVars, drivingVars>>(DrivingQuieten)
  /\ WF_<<gateVars, drivingVars>>(wheels /\ DrivingDeadman)

-----------------------------------------------------------------------------
\* A sequence or a session that ends of itself leaves the robot at rest,
\* whatever was refused, unanswered or interrupted on its way.
EndsAtRest ==
  /\ player \in {"done", "aborted"} => ~wheels
  /\ driver = "left" => ~wheels
=============================================================================

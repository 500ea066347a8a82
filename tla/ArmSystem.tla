----------------------------- MODULE ArmSystem -----------------------------
(***************************************************************************)
(* The arm end to end: operators on /arm/control, program runs, the        *)
(* agent's worker threads, the serial ports and the joint controllers.     *)
(***************************************************************************)
EXTENDS ArmProgram

armVars == <<boardVars, hostVars, programVars>>

ArmTypeOK == BoardTypeOK /\ HostTypeOK /\ ProgramTypeOK

ArmInit == BoardInit /\ HostInit /\ ProgramInit

\* pibotd is killed and started again: every handler, thread and task is gone,
\* the ports are opened afresh and the boards know nothing of it.
AgentRestart ==
  /\ armLatched' = FALSE
  /\ armHomed' = {}
  /\ seen' = {}
  /\ abort' = FALSE
  /\ portOpen' = [b \in Boards |-> TRUE]
  /\ call' = [c \in Clients |-> Idle]
  /\ slot' = NoRun
  /\ run' = [r \in Runs |-> Off]
  /\ status' = "none"
  /\ interrupted' = {}
  /\ UNCHANGED <<held, boardVars>>

\* A board that restarts has forgotten its latch.
Reboot(b) ==
  /\ BoardReboot(b)
  /\ held' = held \ {b}
  /\ UNCHANGED <<armLatched, armHomed, seen, abort, portOpen, call, programVars>>

Estop(c) == AskEstop(c) /\ Interrupt /\ UNCHANGED <<slot, run, status, boardVars>>

Operator ==
  \/ \E c \in Clients : \/ Estop(c)
                        \/ Ask(c) /\ UNCHANGED <<boardVars, programVars>>
  \/ \E r \in Runs : RunRequest(r)
  \/ StopProgram

HostStep ==
  \/ \E c \in Clients : (SendNext(c) \/ SendFails(c) \/ Ack(c))
                        /\ UNCHANGED programVars
  \/ \E b \in Boards : (Drain(b) \/ PortFails(b)) /\ UNCHANGED programVars
  \/ \E r \in Runs : RunStep(r)
  \/ AgentRestart

BoardStep ==
  \/ \E b \in Boards : BoardRead(b) \/ BoardWatchdog(b)
  \/ \E j \in Joints : RunJoint(j)
  \/ BoardTime

AgentWaits == UNCHANGED <<hostVars, programVars>>

ArmNext ==
  \/ Operator
  \/ HostStep
  \/ BoardStep /\ AgentWaits
  \/ \E b \in Boards : Reboot(b)

ArmSpec == ArmInit /\ [][ArmNext]_armVars

(***************************************************************************)
(* Fairness: a board's loop never stops, and the clock goes on.  Nobody on *)
(* the agent's side is obliged to do anything.                             *)
(***************************************************************************)
ArmFairSpec ==
  /\ ArmSpec
  /\ WF_armVars(BoardTime /\ AgentWaits)
  /\ \A b \in Boards : /\ WF_armVars(BoardRead(b) /\ AgentWaits)
                       /\ WF_armVars(BoardWatchdog(b) /\ AgentWaits)
  /\ \A j \in Joints : /\ WF_armVars(MoveArrives(j) /\ AgentWaits)
                       /\ WF_armVars(SeekFaults(j) /\ AgentWaits)
                       /\ WF_armVars(BackoffEnds(j) /\ AgentWaits)

-----------------------------------------------------------------------------
Rests(b) == \A j \in JointsOf(b) : jmode[j] = "idle"

\* The places in a board's stream of the commands with a name.
At(b, name) == {i \in DOMAIN inbox[b] : inbox[b][i].name = name}

\* Once the board has read everything in flight its latch is set.
Latching(b) ==
  \/ estopped[b] /\ At(b, "set") = {}
  \/ \E i \in At(b, "estop") : \A k \in At(b, "set") : k < i

(***************************************************************************)
(* An e-stop sent to a board holds until the board restarts or somebody    *)
(* asks to clear it: commands and trajectory frames whose threads passed   *)
(* the gate before it, and a restart of the agent after it, change nothing *)
(* (agent/app.py _arm_command, ArmManager.estop, dispatch).                *)
(***************************************************************************)
EstopHolds == \A b \in held : Latching(b) /\ (estopped[b] => Rests(b))

(***************************************************************************)
(* No joint makes an absolute move without a homed reference, and no       *)
(* joint that is homing counts as homed (cmd_jpos, start_home, run_joint). *)
(***************************************************************************)
MovesAreReferenced ==
  \A j \in Joints : /\ jmode[j] = "position" => jhomed[j]
                    /\ jmode[j] \in {"seek", "backoff"} => ~jhomed[j]

Proceeds(r) ==
  \/ run[r].at = "ready" /\ run'[r].at \in {"move", "wait", "tool"}
  \/ run[r].at = "move" /\ run'[r].frames < run[r].frames /\ run'[r].at = "move"

(***************************************************************************)
(* "program-stop or an arm e-stop halts playback mid-run before the next   *)
(* frame or step is sent" (docs/runbooks/arm-operation.md:97): a run that  *)
(* was stopped, or met an e-stop, begins neither, cleared or not.          *)
(***************************************************************************)
InterruptedHalts == [][\A r \in interrupted : ~Proceeds(r)]_armVars

(***************************************************************************)
(* An arm that keeps moving has operators who keep asking: jogs end by the *)
(* watchdog, moves by arriving, homing by its travel guard, whatever fails.*)
(***************************************************************************)
ArmRests == []<>(\E j \in Joints : jmode[j] # "idle") => []<><<Operator>>_armVars

(***************************************************************************)
(* "An autonomous home is bounded by its own travel guard, so a quiet host *)
(* won't abort a legitimate home"                                          *)
(* (firmware/pibot_arm_stm32/pibot_arm_stm32.ino:417).                     *)
(***************************************************************************)
WatchdogSparesHoming ==
  [][\A b \in Boards : BoardWatchdog(b) =>
       \A j \in JointsOf(b) : jmode[j] \in {"seek", "backoff"} => jmode'[j] = jmode[j]]_armVars

(***************************************************************************)
(* "Move several joints so they all arrive together after `seconds`"       *)
(* (pibot/arm/manager.py:126): no watchdog cuts a move short.              *)
(***************************************************************************)
WatchdogSparesMoves ==
  [][\A b \in Boards : BoardWatchdog(b) =>
       \A j \in JointsOf(b) : jmode[j] # "position"]_armVars

(***************************************************************************)
(* "Latch e-stop on **every** board" (pibot/arm/manager.py:203): a board   *)
(* whose port works is sent the estop even if another board's send fails.  *)
(***************************************************************************)
EstopReachesAll ==
  [][\A c \in Clients : SendFails(c) /\ call[c].request = "estop" =>
       \A i \in DOMAIN call[c].todo : ~portOpen[call[c].todo[i].board]]_armVars
=============================================================================

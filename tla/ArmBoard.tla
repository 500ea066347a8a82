------------------------------ MODULE ArmBoard ------------------------------
(***************************************************************************)
(* The arm's joint controllers: the STM32 boards running                   *)
(* firmware/pibot_arm_stm32/pibot_arm_stm32.ino, each with a serial stream *)
(* of command frames from the agent, a latched e-stop, a watchdog on       *)
(* host-commanded motion, and a homing sequence per joint.                 *)
(*                                                                         *)
(* Angles are abstracted to the time a motion still needs.  The agent      *)
(* never reads a board's replies, so they are left out.                    *)
(***************************************************************************)
EXTENDS Integers, Sequences, FiniteSets

CONSTANTS
  NumBoards,  \* boards, in the order the agent broadcasts to them
  NumJoints,  \* logical joints
  BoardOf,    \* the board that drives each joint
  ToolBoard,  \* the board that carries the gripper and the tool
  ArmWindow,  \* WATCHDOG_MS, in time units
  Far         \* the longest motion, in time units: a move, or a whole seek

Boards == 1 .. NumBoards
Joints == 1 .. NumJoints

ASSUME BoardAssumption ==
  /\ NumBoards \in Nat \ {0}
  /\ NumJoints \in Nat \ {0}
  /\ BoardOf \in [Joints -> Boards]
  /\ ToolBoard \in Boards
  /\ ArmWindow \in Nat \ {0}
  /\ Far \in Nat \ {0}

Moves  == {"jpos", "jmove"}
Motion == Moves \cup {"jvel", "home"}
JointCommands == Motion \cup {"jstop"}
BoardCommands == {"estop", "set", "enable", "tool", "grip"}

JointsOf(b) == {j \in Joints : BoardOf[j] = b}

\* What the agent sends to a board: `on` is a jvel other than zero, or the
\* argument of enable and tool.
CommandOf(b) == [name : JointCommands, joint : JointsOf(b), on : BOOLEAN]
                \cup [name : BoardCommands, on : BOOLEAN]
Command == UNION {CommandOf(b) : b \in Boards}

VARIABLES
  inbox,      \* commands sent to each board and not yet read
  estopped,   \* each board's e-stop latch
  enabled,    \* each board's drivers are energized
  tool,       \* each board's tool output
  quiet,      \* time since last_cmd_ms, saturating at ArmWindow + 1
  jmode,      \* each joint's JMode
  jhomed,     \* each joint has a homed reference
  left        \* time each joint's motion still needs

boardVars == <<inbox, estopped, enabled, tool, quiet, jmode, jhomed, left>>

JMode == {"idle", "position", "velocity", "seek", "backoff"}

BoardTypeOK ==
  /\ inbox \in [Boards -> Seq(Command)]
  /\ \A b \in Boards : inbox[b] \in Seq(CommandOf(b))
  /\ estopped \in [Boards -> BOOLEAN]
  /\ enabled \in [Boards -> BOOLEAN]
  /\ tool \in [Boards -> BOOLEAN]
  /\ quiet \in [Boards -> 0 .. ArmWindow + 1]
  /\ jmode \in [Joints -> JMode]
  /\ jhomed \in [Joints -> BOOLEAN]
  /\ left \in [Joints -> 0 .. Far]

BoardInit ==
  /\ inbox = [b \in Boards |-> <<>>]
  /\ estopped = [b \in Boards |-> FALSE]
  /\ enabled = [b \in Boards |-> TRUE]
  /\ tool = [b \in Boards |-> FALSE]
  /\ quiet = [b \in Boards |-> 0]
  /\ jmode = [j \in Joints |-> "idle"]
  /\ jhomed = [j \in Joints |-> FALSE]
  /\ left = [j \in Joints |-> 0]

HostMotionMoves(b) == \E j \in JointsOf(b) : jmode[j] = "position"

\* any_host_motion: homing does not count.
HostMotion(b) == \E j \in JointsOf(b) : jmode[j] \in {"position", "velocity"}

OverdueLate(b) == quiet[b] > ArmWindow + 1

\* The watchdog's window has passed since the last valid command.
Overdue(b) == quiet[b] > ArmWindow

\* A joint takes up a motion that needs t time units, or rests.
Sets(j, mode, t) ==
  /\ jmode' = [jmode EXCEPT ![j] = mode]
  /\ left' = [left EXCEPT ![j] = t]

\* stop_all: every joint of the board holds where it is.
StopAll(b) ==
  /\ jmode' = [j \in Joints |-> IF BoardOf[j] = b THEN "idle" ELSE jmode[j]]
  /\ left' = [j \in Joints |-> IF BoardOf[j] = b THEN 0 ELSE left[j]]

-----------------------------------------------------------------------------
DispatchEstopMotors(b, cmd) ==
  /\ cmd.name = "estop"
  /\ StopAll(b)
  /\ UNCHANGED <<estopped, enabled, tool, jhomed>>

(* dispatch, one disjunct for each way a command ends.                     *)
DispatchEstop(b, cmd) ==
  /\ cmd.name = "estop"
  /\ estopped' = [estopped EXCEPT ![b] = TRUE]
  /\ StopAll(b)
  /\ UNCHANGED <<enabled, tool, jhomed>>

\* set, whose value the agent always sends as 0: the latch is cleared.
DispatchSet(b, cmd) ==
  /\ cmd.name = "set"
  /\ estopped' = [estopped EXCEPT ![b] = FALSE]
  /\ UNCHANGED <<enabled, tool, jmode, jhomed, left>>

DispatchEnable(b, cmd) ==
  /\ cmd.name = "enable"
  /\ enabled' = [enabled EXCEPT ![b] = cmd.on]
  /\ UNCHANGED <<estopped, tool, jmode, jhomed, left>>

\* The gripper's angle is not modelled; the tool is refused under the latch.
DispatchEffector(b, cmd) ==
  /\ cmd.name \in {"grip", "tool"}
  /\ tool' = IF cmd.name = "tool" /\ ~estopped[b]
             THEN [tool EXCEPT ![b] = cmd.on] ELSE tool
  /\ UNCHANGED <<estopped, enabled, jmode, jhomed, left>>

\* Refused: no such command (jstop is not dispatched), the latch, or an
\* absolute move of a joint that is not homed.
DispatchRefused(b, cmd) ==
  /\ \/ cmd.name = "jstop"
     \/ cmd.name \in Motion /\ estopped[b]
     \/ cmd.name \in Moves /\ ~jhomed[cmd.joint]
  /\ UNCHANGED <<estopped, enabled, tool, jmode, jhomed, left>>

DispatchMoveUnhomed(b, cmd) ==
  /\ cmd.name \in Moves /\ ~estopped[b]
  /\ \E t \in 0 .. Far : Sets(cmd.joint, "position", t)
  /\ UNCHANGED <<estopped, enabled, tool, jhomed>>

\* cmd_jpos of a homed joint, whose target may be any distance away.
DispatchMove(b, cmd) ==
  /\ cmd.name \in Moves /\ ~estopped[b] /\ jhomed[cmd.joint]
  /\ \E t \in 0 .. Far : Sets(cmd.joint, "position", t)
  /\ UNCHANGED <<estopped, enabled, tool, jhomed>>

DispatchJog(b, cmd) ==
  /\ cmd.name = "jvel" /\ ~estopped[b]
  /\ Sets(cmd.joint, IF cmd.on THEN "velocity" ELSE "idle", 0)
  /\ UNCHANGED <<estopped, enabled, tool, jhomed>>

\* start_home: the reference is gone until the seek has ended well.
DispatchHome(b, cmd) ==
  /\ cmd.name = "home" /\ ~estopped[b]
  /\ Sets(cmd.joint, "seek", Far)
  /\ jhomed' = [jhomed EXCEPT ![cmd.joint] = FALSE]
  /\ UNCHANGED <<estopped, enabled, tool>>

Dispatch(b, cmd) ==
  \/ DispatchEstop(b, cmd) \/ DispatchSet(b, cmd) \/ DispatchEnable(b, cmd)
  \/ DispatchEffector(b, cmd) \/ DispatchRefused(b, cmd)
  \/ DispatchMove(b, cmd) \/ DispatchJog(b, cmd) \/ DispatchHome(b, cmd)

\* loop(): one whole line is read, feeds the watchdog and is dispatched.
BoardRead(b) ==
  /\ inbox[b] # <<>>
  /\ inbox' = [inbox EXCEPT ![b] = Tail(@)]
  /\ quiet' = [quiet EXCEPT ![b] = 0]
  /\ Dispatch(b, Head(inbox[b]))

\* loop(): the host went quiet, host-commanded motion halts; and with it any
\* homing of the same board.
BoardWatchdog(b) ==
  /\ Overdue(b) /\ HostMotion(b)
  /\ StopAll(b)
  /\ UNCHANGED <<inbox, estopped, enabled, tool, quiet, jhomed>>

-----------------------------------------------------------------------------
(* run_joint.                                                              *)
MoveArrives(j) ==
  /\ jmode[j] = "position" /\ left[j] = 0
  /\ Sets(j, "idle", 0)
  /\ UNCHANGED <<inbox, estopped, enabled, tool, quiet, jhomed>>

\* A jog of a homed joint stops at a soft limit.
JogAtLimit(j) ==
  /\ jmode[j] = "velocity" /\ jhomed[j]
  /\ Sets(j, "idle", 0)
  /\ UNCHANGED <<inbox, estopped, enabled, tool, quiet, jhomed>>

SeekHits(j) ==
  /\ jmode[j] = "seek"
  /\ Sets(j, "backoff", 1)
  /\ UNCHANGED <<inbox, estopped, enabled, tool, quiet, jhomed>>

\* The whole range was searched and no endstop found: a home fault.
SeekFaults(j) ==
  /\ jmode[j] = "seek" /\ left[j] = 0
  /\ Sets(j, "idle", 0)
  /\ UNCHANGED <<inbox, estopped, enabled, tool, quiet, jhomed>>

BackoffEnds(j) ==
  /\ jmode[j] = "backoff" /\ left[j] = 0
  /\ Sets(j, "idle", 0)
  /\ jhomed' = [jhomed EXCEPT ![j] = TRUE]
  /\ UNCHANGED <<inbox, estopped, enabled, tool, quiet>>

RunJoint(j) ==
  \/ MoveArrives(j) \/ JogAtLimit(j)
  \/ SeekHits(j) \/ SeekFaults(j) \/ BackoffEnds(j)

\* setup() after a reset.
BoardReboot(b) ==
  /\ inbox' = [inbox EXCEPT ![b] = <<>>]
  /\ estopped' = [estopped EXCEPT ![b] = FALSE]
  /\ enabled' = [enabled EXCEPT ![b] = TRUE]
  /\ tool' = [tool EXCEPT ![b] = FALSE]
  /\ quiet' = [quiet EXCEPT ![b] = 0]
  /\ jhomed' = [j \in Joints |-> jhomed[j] /\ BoardOf[j] # b]
  /\ StopAll(b)

\* One time unit; the loop runs far more often, so what it owes comes first.
BoardTime ==
  /\ \A b \in Boards : ~(Overdue(b) /\ HostMotion(b))
  /\ quiet' = [b \in Boards |-> IF Overdue(b) THEN quiet[b] ELSE quiet[b] + 1]
  /\ left' = [j \in Joints |-> IF left[j] = 0 THEN 0 ELSE left[j] - 1]
  /\ UNCHANGED <<inbox, estopped, enabled, tool, jmode, jhomed>>
=============================================================================

----------------------------- MODULE RobotWire -----------------------------
(***************************************************************************)
(* The link between the agent and the robot's microcontroller: the TCP     *)
(* connection of pibot/transport/tcp.py to the single-client server of     *)
(* firmware/pibot_esp32, and the two FIFO streams of frames it carries.    *)
(*                                                                         *)
(* A frame is abstracted to its command name, its 8-bit sequence number    *)
(* and, as a history variable, the party that sent it.  A reply carries    *)
(* the sequence number it echoes and the sender of the frame it answers.   *)
(***************************************************************************)
EXTENDS Integers, Sequences, FiniteSets

CONSTANTS
  Callers,   \* coroutines that submit commands: /control sockets, autonomy
  Names,     \* the command names the callers use
  SeqMod,    \* size of the sequence number space (256 in the code)
  Safety     \* the safety layer, as the sender of its own stop frames

Motion == {"drive", "motor", "servo"}
Drives == {"drive", "motor"}
Halts  == {"stop", "estop"}
SetNames == {"set_estop", "set_param"}

\* "garbled" stands for a line the firmware cannot parse: one with an empty
\* name, or too long for its buffers.
CommandNames == Motion \cup Halts \cup SetNames \cup {"ping", "garbled"}

ASSUME WireAssumption ==
  /\ Names \subseteq CommandNames
  /\ SeqMod \in Nat \ {0}
  /\ Safety \notin Callers

SeqNo  == 0 .. SeqMod - 1
Sender == Callers \cup {Safety}
Frame  == [name : CommandNames, seq : SeqNo, from : Sender]
Reply  == [ack : BOOLEAN, seq : SeqNo, from : Sender]

VARIABLES
  conn,       \* the agent's connection: see ConnState
  oldClient,  \* the firmware still holds an earlier, dead connection
  toRobot,    \* frames sent by the agent, not yet read by the firmware
  toHost      \* replies sent by the firmware, not yet read by the agent

wireVars == <<conn, oldClient, toRobot, toHost>>

(***************************************************************************)
(* "closed": the agent has no socket.  "queued": connected, waiting in the *)
(* firmware's listen backlog.  "served": the firmware's current client.    *)
(* "dead": the firmware has dropped it and the agent has not noticed yet.  *)
(***************************************************************************)
ConnState == {"closed", "queued", "served", "dead"}

WireTypeOK ==
  /\ conn \in ConnState
  /\ oldClient \in BOOLEAN
  /\ toRobot \in Seq(Frame)
  /\ toHost \in Seq(Reply)

\* The agent connects before the firmware serves it.
WireInit ==
  /\ conn = "queued"
  /\ oldClient = FALSE
  /\ toRobot = <<>>
  /\ toHost = <<>>

IsOpen == conn # "closed"

\* Frames the agent writes now will reach the firmware unless the link breaks.
Connected == conn \in {"queued", "served"}

\* One frame handed to the socket; a dead peer never sees it.
Send(f) == toRobot' = IF Connected THEN Append(toRobot, f) ELSE toRobot

\* What the firmware can still read: its current client, or what an earlier
\* connection delivered before it broke.
Readable == conn = "served" \/ (oldClient /\ conn = "closed")

\* The agent's side closes or notices that the link is gone.  The firmware may
\* still read what its client had delivered.
CloseSocket ==
  /\ IsOpen
  /\ conn' = "closed"
  /\ oldClient' = (oldClient \/ conn = "served")
  /\ toHost' = <<>>
  /\ toRobot' = IF conn = "served" THEN toRobot ELSE <<>>

\* A fresh connection: an empty stream each way.
OpenSocket ==
  /\ conn = "closed"
  /\ conn' = "queued"
  /\ toRobot' = <<>>
  /\ toHost' = <<>>
  /\ UNCHANGED oldClient
=============================================================================

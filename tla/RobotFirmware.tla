--------------------------- MODULE RobotFirmware ---------------------------
(***************************************************************************)
(* The ESP32 controller, firmware/pibot_esp32/pibot_esp32.ino: it serves   *)
(* one TCP client, dispatches its commands to the motors, and guards them  *)
(* with a latched e-stop, a watchdog and a link-loss stop.                 *)
(***************************************************************************)
EXTENDS RobotWire

CONSTANT FwWindow   \* WATCHDOG_MS, in time units

ASSUME FirmwareAssumption == FwWindow \in Nat \ {0}

VARIABLES
  estopped,   \* the firmware's own e-stop latch
  moving,     \* a wheel is driven
  cmdAge      \* time since last_cmd_ms, saturating at FwWindow + 1

fwVars == <<estopped, moving, cmdAge>>

FwTypeOK ==
  /\ estopped \in BOOLEAN
  /\ moving \in BOOLEAN
  /\ cmdAge \in 0 .. FwWindow + 1

FwInit ==
  /\ estopped = FALSE
  /\ moving = FALSE
  /\ cmdAge = 0

FwOverdue == cmdAge > FwWindow

-----------------------------------------------------------------------------
(* A `set` frame's first argument goes through atof, which yields 0 for    *)
(* every word, so (int)args[0] == 0 holds whatever parameter is named.     *)
ClearsLatch(name) == name \in SetNames

DispatchIgnoresLatch(f) ==
  /\ estopped' = ((estopped \/ f.name = "estop") /\ ~ClearsLatch(f.name))
  /\ moving' = CASE f.name \in Halts -> FALSE
                 [] f.name \in Drives -> TRUE
                 [] OTHER -> moving
  /\ toHost' = IF conn = "served"
               THEN Append(toHost, [ack |-> TRUE, seq |-> f.seq, from |-> f.from])
               ELSE toHost

(* One command: what it does to the latch, to the motors, and its reply.   *)
Dispatch(f) ==
  /\ estopped' = ((estopped \/ f.name = "estop") /\ ~ClearsLatch(f.name))
  /\ moving' = CASE f.name \in Halts -> FALSE
                 [] f.name \in Drives /\ ~estopped -> TRUE
                 [] OTHER -> moving
  /\ toHost' = IF conn = "served"
               THEN Append(toHost, [ack |-> ~(f.name \in Motion /\ estopped),
                                    seq |-> f.seq, from |-> f.from])
               ELSE toHost

(* A line that does not parse has no number to answer: its NAK bears 0.    *)
Unparsed(f) ==
  /\ toHost' = IF conn = "served"
               THEN Append(toHost, [ack |-> FALSE, seq |-> 0, from |-> f.from])
               ELSE toHost
  /\ UNCHANGED <<estopped, moving, cmdAge>>

\* handle_byte: a whole valid line feeds the watchdog and is dispatched.
FwRead ==
  /\ Readable
  /\ toRobot # <<>>
  /\ \/ Head(toRobot).name # "garbled" /\ Dispatch(Head(toRobot)) /\ cmdAge' = 0
     \/ Head(toRobot).name = "garbled" /\ Unparsed(Head(toRobot))
  /\ toRobot' = Tail(toRobot)
  /\ UNCHANGED <<conn, oldClient>>

\* loop(): an earlier client turns out to be gone and no other waits, so the
\* motors stop.
FwLinkLoss ==
  /\ oldClient
  /\ conn # "queued"
  /\ oldClient' = FALSE
  /\ moving' = FALSE
  /\ toRobot' = <<>>
  /\ UNCHANGED <<conn, toHost, estopped, cmdAge>>

\* loop(): the firmware loses the client the agent still believes in.
FwDropsClient ==
  /\ conn = "served"
  /\ conn' = "dead"
  /\ moving' = FALSE
  /\ toRobot' = <<>>
  /\ UNCHANGED <<oldClient, toHost, estopped, cmdAge>>

\* loop(): no live client and one waits: it is served, the watchdog restarts.
FwAccept ==
  /\ conn = "queued"
  /\ conn' = "served"
  /\ oldClient' = FALSE
  /\ cmdAge' = 0
  /\ UNCHANGED <<toRobot, toHost, estopped, moving>>

\* loop(): deadman watchdog backstop.
FwWatchdogRearms ==
  /\ FwOverdue
  /\ moving
  /\ cmdAge' = 0
  /\ UNCHANGED <<wireVars, estopped, moving>>

FwWatchdog ==
  /\ FwOverdue
  /\ moving
  /\ moving' = FALSE
  /\ UNCHANGED <<wireVars, estopped, cmdAge>>

\* setup() after a reset: motors off, latch cleared, every connection gone.
FwReboot ==
  /\ estopped' = FALSE
  /\ moving' = FALSE
  /\ cmdAge' = 0
  /\ conn' = IF Connected THEN "dead" ELSE conn
  /\ oldClient' = FALSE
  /\ toRobot' = <<>>
  /\ UNCHANGED toHost
=============================================================================

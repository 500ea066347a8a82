----------------------------- MODULE RobotDrive -----------------------------
(***************************************************************************)
(* The drive path end to end: callers, the agent's controller and safety   *)
(* gate, the TCP link, and the ESP32 firmware.  Time is discrete; Time     *)
(* advances every clock by one unit and waits for the firmware's loop and  *)
(* the agent's ticker when they are due, since both run far more often     *)
(* than the deadlines they watch.                                          *)
(***************************************************************************)
EXTENDS AgentControl, RobotFirmware

vars == <<wireVars, fwVars, safetyVars, controlVars>>

TypeOK == WireTypeOK /\ FwTypeOK /\ SafetyTypeOK /\ ControlTypeOK

Init == WireInit /\ FwInit /\ SafetyInit /\ ControlInit

Older(age, cap) == IF age < cap THEN age + 1 ELSE cap

Time ==
  /\ ~(moving /\ FwOverdue)
  /\ agent = "up" /\ ticking => tickAge < TickInterval
  /\ cmdAge' = Older(cmdAge, FwWindow + 1)
  /\ IF agent = "up"
     THEN /\ feedAge' = Older(feedAge, FeedCap)
          /\ motionAge' = Older(motionAge, RateInterval)
          /\ tickAge' = Older(tickAge, TickInterval)
     ELSE UNCHANGED <<feedAge, motionAge, tickAge>>
  /\ UNCHANGED <<wireVars, estopped, moving, latched, stopped, safetySeq>>
  /\ UNCHANGED <<agent, ticking, reading, nextSeq, acks, status, seqOf, replyFrom>>

Submit(c, name) ==
  \/ SubmitRefused(c, name)
  \/ SubmitRaises(c, name)
  \/ SubmitSent(c, name)

Operator == \E c \in Callers, name \in Names : Submit(c, name)

AgentStep ==
  \/ \E c \in Callers : Return(c) \/ GiveUp(c)
  \/ ReadReply \/ ReaderDies
  \/ Ticker
  \/ Estop
  \/ AgentHangs \/ AgentStop \/ AgentStart
  \/ LinkDrops

RobotStep ==
  \/ FwRead \/ FwAccept \/ FwLinkLoss \/ FwDropsClient \/ FwWatchdog \/ FwReboot

Next ==
  \/ Operator /\ UNCHANGED fwVars
  \/ AgentStep /\ UNCHANGED fwVars
  \/ RobotStep /\ UNCHANGED <<safetyVars, controlVars>>
  \/ Time

Spec == Init /\ [][Next]_vars

(***************************************************************************)
(* Fairness: both loops keep running, timers fire, and the firmware finds  *)
(* out in the end that a broken TCP connection is gone.  No one is obliged *)
(* to send a command, and no fault is obliged to happen.                   *)
(***************************************************************************)
FwFair ==
  /\ WF_vars(FwRead /\ UNCHANGED <<safetyVars, controlVars>>)
  /\ WF_vars(FwAccept /\ UNCHANGED <<safetyVars, controlVars>>)
  /\ WF_vars(FwLinkLoss /\ UNCHANGED <<safetyVars, controlVars>>)
  /\ WF_vars(FwWatchdog /\ UNCHANGED <<safetyVars, controlVars>>)

AgentFair ==
  /\ WF_vars(Ticker /\ UNCHANGED fwVars)
  /\ WF_vars(ReadReply /\ UNCHANGED fwVars)
  /\ \A c \in Callers : WF_vars((Return(c) \/ GiveUp(c)) /\ UNCHANGED fwVars)

FairSpec == Spec /\ FwFair /\ AgentFair /\ WF_vars(Time)

-----------------------------------------------------------------------------
\* A frame that stops the wheels is in flight.
HaltComing(s) == \E i \in DOMAIN s : s[i].name \in Halts

\* Once the firmware has read everything in flight, no wheel is driven.
Quiesces ==
  /\ moving => HaltComing(toRobot)
  /\ \A i \in DOMAIN toRobot :
        toRobot[i].name \in Drives =>
           \E j \in DOMAIN toRobot : j > i /\ toRobot[j].name \in Halts

(***************************************************************************)
(* Stops preempt: while the agent believes the robot stopped, which makes  *)
(* its deadman skip the stop, or has its latch set, every motion frame in  *)
(* flight on a working link is followed by a stop that is not lost,        *)
(* whatever else is sent (agent/safety.py _stopped and trip_estop,         *)
(* agent/control.py estop; the firmware's dispatch).                       *)
(***************************************************************************)
StopsPreempt == agent # "down" /\ (stopped \/ latched) /\ Connected => Quiesces

(***************************************************************************)
(* On a working link the drive path is the gate that autonomy and the      *)
(* command line steer through: whatever is in flight, a frame that passes  *)
(* has the effect DriveGate says, a latched gate lets no wheel turn again, *)
(* and each stop feeds the deadman (agent/safety.py, the firmware).        *)
(***************************************************************************)
Working == agent # "down" /\ Connected

Gate == INSTANCE DriveGate WITH wheels <- ~Quiesces, quiet <- Expired

ImplementsGate ==
  [][Working /\ Working' => [Gate!GateNext(Names)]_(Gate!gateVars)]_vars

(***************************************************************************)
(* The host deadman is punctual: while its ticker lives, an agent that has *)
(* not stopped the robot was fed at most a window and one tick ago.        *)
(***************************************************************************)
DeadmanPunctual ==
  agent = "up" /\ ticking /\ ~stopped => feedAge <= Deadman + tickAge

(***************************************************************************)
(* No reply is lost on a working link: a caller still waiting has its      *)
(* command or the reply to it in flight, and its future registered.        *)
(***************************************************************************)
ReplyComing ==
  agent # "down" /\ Connected =>
    \A c \in Callers :
      status[c] = "waiting" =>
        /\ acks[seqOf[c]] = c
        /\ \E f \in {toRobot[i] : i \in DOMAIN toRobot}
                  \cup {toHost[i] : i \in DOMAIN toHost} :
              f.seq = seqOf[c] /\ f.from = c

(***************************************************************************)
(* A reply is never handed to a caller for a command of another caller:    *)
(* late replies of commands given up on find no future (_reader, submit).  *)
(***************************************************************************)
NoReplyOfAnother ==
  \A c \in Callers : status[c] = "resolved" => replyFrom[c] \in {c, Safety}

(***************************************************************************)
(* "Send one command (serialized + safety-gated) and return its ACK/NAK    *)
(* reply" (agent/control.py:87): the reply answers the caller's command.   *)
(***************************************************************************)
ReplyIsOwn ==
  \A c \in Callers : status[c] = "resolved" => replyFrom[c] = c

(***************************************************************************)
(* The firmware's latch holds: whatever is read, dropped or reconnected    *)
(* after an estop command, no wheel is driven while it is set.             *)
(***************************************************************************)
FirmwareLatchHolds == estopped => ~moving

(***************************************************************************)
(* "`estop` latches; motion refused until `set,estop,0`"                   *)
(* (firmware/pibot_esp32/pibot_esp32.ino:11): no other command clears it.  *)
(***************************************************************************)
LatchClearedByNameOnly ==
  [][estopped /\ ~estopped' /\ FwRead => Head(toRobot).name = "set_estop"]_vars

(***************************************************************************)
(* A robot that keeps moving has an operator who keeps commanding, or an   *)
(* agent that keeps restarting, since every connection the firmware        *)
(* accepts restarts its watchdog: otherwise, whatever breaks, the robot    *)
(* comes to rest for good.                                                 *)
(***************************************************************************)
QuietRobotRests == []<>moving => []<><<Operator \/ AgentStart>>_vars

(***************************************************************************)
(* E-stop stops: if the latch stays set, the wheels come to rest for good, *)
(* whatever else the callers keep sending.                                 *)
(***************************************************************************)
EstopRests == <>[]latched => <>[]~moving
=============================================================================

---------------------------- MODULE AgentSafety ----------------------------
(***************************************************************************)
(* The agent's safety gate, agent/safety.py over pibot/control/safety.py:  *)
(* the latched e-stop, the rate limit and the deadman watchdog every       *)
(* command passes before the transport.  Clamping bounds a speed and does  *)
(* not change which frames are sent, so a motion frame here is any speed   *)
(* other than zero.  `send` raises when the transport is closed; the code  *)
(* after it does not run then, which is what Raised says.                  *)
(***************************************************************************)
EXTENDS RobotWire

CONSTANTS
  Deadman,       \* deadman_ms, in time units
  RateInterval   \* 1 / max_rate_hz, in time units; 0 for no limit

ASSUME SafetyAssumption ==
  /\ Deadman \in Nat \ {0}
  /\ RateInterval \in Nat

VARIABLES
  latched,     \* EStop._latched
  stopped,     \* AgentSafety._stopped
  feedAge,     \* time since the watchdog was fed, saturating
  motionAge,   \* time since the last motion command, saturating
  safetySeq    \* the next number of AgentSafety._seq

safetyVars == <<latched, stopped, feedAge, motionAge, safetySeq>>

\* The watchdog's age may pass Deadman only until the next tick; the bound
\* leaves room to see it late.
FeedCap == 2 * Deadman + 1

SafetyTypeOK ==
  /\ latched \in BOOLEAN
  /\ stopped \in BOOLEAN
  /\ feedAge \in 0 .. FeedCap
  /\ motionAge \in 0 .. RateInterval
  /\ safetySeq \in SeqNo

\* __init__: the watchdog counts from construction, no motion was sent yet.
SafetyInit ==
  /\ latched = FALSE
  /\ stopped = FALSE
  /\ feedAge = 0
  /\ motionAge = RateInterval
  /\ safetySeq = 0

SafetyReset ==
  /\ latched' = FALSE
  /\ stopped' = FALSE
  /\ feedAge' = 0
  /\ motionAge' = RateInterval
  /\ safetySeq' = 0

NextSeqNoWrap(n) == n + 1

\* SeqTracker.next
NextSeq(n) == (n + 1) % SeqMod

-----------------------------------------------------------------------------
AllowsAlways(name) == TRUE

\* EStop.allows
Allows(name) == ~latched \/ name \notin Motion

RateLimited(name) == name \in Motion /\ motionAge < RateInterval

\* submit() refuses the command before the wire.
Refuses(name) == ~Allows(name) \/ RateLimited(name)

AllButMotion(name) == name \notin Motion

\* The commands after which submit() takes the robot to be stopped.
LeavesStopped(name) == name \in Halts

\* submit() past its gates, with the transport open.
SafetySubmit(f) ==
  /\ Send(f)
  /\ feedAge' = 0
  /\ motionAge' = IF f.name \in Motion THEN 0 ELSE motionAge
  /\ stopped' = LeavesStopped(f.name)
  /\ UNCHANGED <<latched, safetySeq>>

StopFrame == [name |-> "stop", seq |-> safetySeq, from |-> Safety]

\* _emit_stop: the frame is numbered before send, so a raise keeps the number.
EmitStop ==
  /\ safetySeq' = NextSeq(safetySeq)
  /\ IF IsOpen
     THEN /\ Send(StopFrame)
          /\ stopped' = TRUE
          /\ feedAge' = 0
     ELSE UNCHANGED <<toRobot, stopped, feedAge>>

TripOnly ==
  /\ latched' = TRUE
  /\ UNCHANGED <<motionAge, safetySeq, toRobot, stopped, feedAge>>

\* trip_estop
TripEstop ==
  /\ latched' = TRUE
  /\ EmitStop
  /\ UNCHANGED motionAge

ExpiredTwice == feedAge > 2 * Deadman

\* tick() would emit a stop.
Expired == feedAge > Deadman
StopDue == Expired /\ ~stopped
=============================================================================

-------------------------- MODULE RobotDriveProofs --------------------------
(***************************************************************************)
(* Theorems about RobotDrive, for every set of callers, every sequence     *)
(* space and every choice of the deadlines.                                *)
(***************************************************************************)
EXTENDS RobotDrive, TLAPS

USE WireAssumption, FirmwareAssumption, SafetyAssumption, ControlAssumption

\* A member of a stream of frames is a frame, and reading or adding one frame
\* leaves a stream of frames (FIFO streams of RobotWire).
LEMMA StreamType ==
  ASSUME NEW S, NEW s \in Seq(S)
  PROVE  /\ \A x \in S : Append(s, x) \in Seq(S)
         /\ s # <<>> => Head(s) \in S /\ Tail(s) \in Seq(S)
  OBVIOUS

\* The initial clocks and numbers are in their ranges.
LEMMA ZeroInRanges ==
  /\ 0 \in 0 .. FeedCap
  /\ 0 \in SeqNo
  /\ RateInterval \in 0 .. RateInterval
  /\ TickInterval \in 0 .. TickInterval
  /\ 0 \in 0 .. TickInterval
  /\ 0 \in 0 .. FwWindow + 1
  BY DEF FeedCap, SeqNo

\* Sequence numbers wrap within their space (SeqTracker.next).
LEMMA NextSeqType ==
  ASSUME NEW n \in SeqNo
  PROVE  NextSeq(n) \in SeqNo
  BY DEF SeqNo, NextSeq

\* The safety layer's own frame is a frame.
LEMMA StopFrameType ==
  ASSUME safetySeq \in SeqNo
  PROVE  StopFrame \in Frame
  BY DEF StopFrame, Frame, CommandNames, Halts, Sender

\* A caller's frame is a frame.
LEMMA CallerFrameType ==
  ASSUME nextSeq \in SeqNo, NEW c \in Callers, NEW name \in Names
  PROVE  CallerFrame(c, name) \in Frame
  BY DEF CallerFrame, Frame, Sender

\* Sending any frame keeps the stream to the robot well typed.
LEMMA SendType ==
  ASSUME toRobot \in Seq(Frame), NEW f \in Frame, Send(f)
  PROVE  toRobot' \in Seq(Frame)
  BY StreamType DEF Send

\* Closing or opening the socket keeps the wire well typed.
LEMMA SocketType ==
  ASSUME WireTypeOK, CloseSocket \/ OpenSocket
  PROVE  WireTypeOK'
<1>1. conn' \in ConnState
  BY DEF CloseSocket, OpenSocket, ConnState
<1>2. oldClient' \in BOOLEAN
  BY DEF WireTypeOK, CloseSocket, OpenSocket
<1>3. toRobot' \in Seq(Frame) /\ toHost' \in Seq(Reply)
  <2>1. <<>> \in Seq(Frame) /\ <<>> \in Seq(Reply)
    OBVIOUS
  <2>2. QED
    BY <2>1 DEF WireTypeOK, CloseSocket, OpenSocket
<1>4. QED
  BY <1>1, <1>2, <1>3 DEF WireTypeOK

-----------------------------------------------------------------------------
(* Type correctness, one step per action.                                  *)

\* A submitted command, in each of its outcomes, keeps the types.
LEMMA SubmitTypeOK ==
  ASSUME TypeOK, NEW c \in Callers, NEW name \in Names,
         Submit(c, name), UNCHANGED fwVars
  PROVE  TypeOK'
<1>. USE DEF TypeOK
<1>1. FwTypeOK'
  BY DEF FwTypeOK, fwVars
<1>2. CASE SubmitRefused(c, name) \/ SubmitRaises(c, name)
  <2>1. ControlTypeOK'
    BY <1>2, NextSeqType DEF SubmitRefused, SubmitRaises, ControlTypeOK
  <2>2. WireTypeOK' /\ SafetyTypeOK'
    BY <1>2 DEF SubmitRefused, SubmitRaises, WireTypeOK, SafetyTypeOK, wireVars, safetyVars
  <2>3. QED
    BY <1>1, <2>1, <2>2
<1>3. CASE SubmitSent(c, name)
  <2>1. ControlTypeOK'
    BY <1>3, NextSeqType DEF SubmitSent, ControlTypeOK, Status
  <2>2. SafetySubmit(CallerFrame(c, name)) /\ CallerFrame(c, name) \in Frame
    BY <1>3, CallerFrameType DEF SubmitSent, ControlTypeOK
  <2>3. WireTypeOK'
    BY <1>3, <2>2, SendType DEF SubmitSent, SafetySubmit, WireTypeOK
  <2>4. SafetyTypeOK'
    BY <2>2 DEF SafetySubmit, SafetyTypeOK, LeavesStopped, FeedCap
  <2>5. QED
    BY <1>1, <2>1, <2>3, <2>4
<1>4. QED
  BY <1>2, <1>3 DEF Submit

\* The safety layer's stop keeps the types of what it changes.
LEMMA EmitStopType ==
  ASSUME TypeOK, EmitStop
  PROVE  /\ toRobot' \in Seq(Frame)
         /\ stopped' \in BOOLEAN
         /\ feedAge' \in 0 .. FeedCap
         /\ safetySeq' \in SeqNo
<1>1. safetySeq \in SeqNo /\ toRobot \in Seq(Frame) /\ StopFrame \in Frame
  BY StopFrameType DEF TypeOK, SafetyTypeOK, WireTypeOK
<1>2. safetySeq' \in SeqNo
  BY <1>1, NextSeqType DEF EmitStop
<1>3. toRobot' \in Seq(Frame)
  BY <1>1, SendType DEF EmitStop
<1>4. stopped' \in BOOLEAN
  BY DEF EmitStop, TypeOK, SafetyTypeOK
<1>5. feedAge' \in 0 .. FeedCap
  BY ZeroInRanges DEF EmitStop, TypeOK, SafetyTypeOK
<1>6. QED
  BY <1>2, <1>3, <1>4, <1>5

\* Every step of the agent keeps the types.
LEMMA AgentTypeOK ==
  ASSUME TypeOK, AgentStep, UNCHANGED fwVars
  PROVE  TypeOK'
<1>. USE DEF TypeOK
<1>0. FwTypeOK'
  BY DEF FwTypeOK, fwVars
<1>1. ASSUME NEW c \in Callers, Return(c) \/ GiveUp(c)
      PROVE  TypeOK'
  <2>1. ControlTypeOK'
    BY <1>1, ZeroInRanges DEF Return, GiveUp, Leave, Pop, ControlTypeOK, Status
  <2>2. WireTypeOK' /\ SafetyTypeOK'
    BY <1>1 DEF Return, GiveUp, Leave, WireTypeOK, SafetyTypeOK, wireVars, safetyVars
  <2>3. QED
    BY <1>0, <2>1, <2>2
<1>2. CASE ReadReply
  <2>1. Head(toHost) \in Reply /\ toHost' \in Seq(Reply)
    BY <1>2, StreamType DEF ReadReply, WireTypeOK
  <2>2. Head(toHost).from \in Sender
    BY <2>1 DEF Reply
  <2>3. ControlTypeOK'
    BY <1>2, <2>2 DEF ReadReply, ControlTypeOK, Status
  <2>4. WireTypeOK' /\ SafetyTypeOK'
    BY <1>2, <2>1 DEF ReadReply, WireTypeOK, SafetyTypeOK, safetyVars
  <2>5. QED
    BY <1>0, <2>3, <2>4
<1>3. CASE ReaderDies
  BY <1>0, <1>3 DEF ReaderDies, WireTypeOK, SafetyTypeOK, ControlTypeOK, wireVars, safetyVars
<1>4. CASE Ticker
  <2>1. /\ toRobot' \in Seq(Frame) /\ stopped' \in BOOLEAN
        /\ feedAge' \in 0 .. FeedCap /\ safetySeq' \in SeqNo
    BY <1>4, EmitStopType DEF Ticker, WireTypeOK, SafetyTypeOK
  <2>2. WireTypeOK' /\ SafetyTypeOK'
    BY <1>4, <2>1 DEF Ticker, WireTypeOK, SafetyTypeOK
  <2>3. ControlTypeOK'
    <3>1. tickAge' \in 0 .. TickInterval
      BY <1>4 DEF Ticker
    <3>2. ticking' \in BOOLEAN
      BY <1>4 DEF Ticker, ControlTypeOK, IsOpen
    <3>3. QED
      BY <1>4, <3>1, <3>2 DEF Ticker, ControlTypeOK
  <2>4. QED
    BY <1>0, <2>2, <2>3
<1>5. CASE Estop
  <2>1. /\ toRobot' \in Seq(Frame) /\ stopped' \in BOOLEAN
        /\ feedAge' \in 0 .. FeedCap /\ safetySeq' \in SeqNo
    BY <1>5, EmitStopType DEF Estop, TripEstop
  <2>2. WireTypeOK' /\ SafetyTypeOK'
    BY <1>5, <2>1 DEF Estop, TripEstop, WireTypeOK, SafetyTypeOK
  <2>3. ControlTypeOK'
    BY <1>5 DEF Estop, ControlTypeOK, controlVars
  <2>4. QED
    BY <1>0, <2>2, <2>3
<1>6. CASE AgentHangs
  BY <1>0, <1>6 DEF AgentHangs, WireTypeOK, SafetyTypeOK, ControlTypeOK, Process, wireVars, safetyVars
<1>7. CASE LinkDrops
  BY <1>0, <1>7, SocketType DEF LinkDrops, SafetyTypeOK, ControlTypeOK, safetyVars, controlVars
<1>8. CASE AgentStop \/ AgentStart
  <2>1. WireTypeOK'
    <3>1. CASE UNCHANGED wireVars
      BY <3>1 DEF WireTypeOK, wireVars
    <3>2. CASE CloseSocket \/ OpenSocket
      BY <3>2, SocketType
    <3>3. QED
      BY <1>8, <3>1, <3>2 DEF AgentStop, AgentStart
  <2>2. SafetyTypeOK'
    BY <1>8, ZeroInRanges DEF AgentStop, AgentStart, SafetyReset, SafetyTypeOK
  <2>3. ControlTypeOK'
    <3>1. ControlReset /\ agent' \in Process
      BY <1>8 DEF AgentStop, AgentStart, Process
    <3>2. /\ ticking' \in BOOLEAN /\ reading' \in BOOLEAN
          /\ tickAge' \in 0 .. TickInterval /\ nextSeq' \in SeqNo
      BY <3>1, ZeroInRanges DEF ControlReset
    <3>3. acks' \in [SeqNo -> Callers \cup {NoCaller}]
      BY <3>1 DEF ControlReset, NoAcks
    <3>4. /\ status' \in [Callers -> Status]
          /\ replyFrom' \in [Callers -> Sender \cup {NoCaller}]
      BY <3>1 DEF ControlReset, Status
    <3>5. seqOf' \in [Callers -> SeqNo]
      BY <3>1, ZeroInRanges DEF ControlReset
    <3>6. QED
      BY <3>1, <3>2, <3>3, <3>4, <3>5 DEF ControlTypeOK
  <2>4. QED
    BY <1>0, <2>1, <2>2, <2>3
<1>9. QED
  BY <1>1, <1>2, <1>3, <1>4, <1>5, <1>6, <1>7, <1>8 DEF AgentStep

\* What the firmware answers is a reply, and its guards stay Boolean.
LEMMA DispatchType ==
  ASSUME TypeOK, NEW f \in Frame, Dispatch(f)
  PROVE  /\ estopped' \in BOOLEAN
         /\ moving' \in BOOLEAN
         /\ toHost' \in Seq(Reply)
<1>. USE DEF TypeOK
<1>1. estopped' \in BOOLEAN
  BY DEF Dispatch
<1>2. moving' \in BOOLEAN
  BY DEF Dispatch, FwTypeOK
<1>3. toHost' \in Seq(Reply)
  <2>. DEFINE r == [ack |-> ~(f.name \in Motion /\ estopped),
                    seq |-> f.seq, from |-> f.from]
  <2>1. r \in Reply
    BY DEF Reply, Frame
  <2>2. Append(toHost, r) \in Seq(Reply) /\ toHost \in Seq(Reply)
    BY <2>1, StreamType DEF WireTypeOK
  <2>3. QED
    BY <2>2 DEF Dispatch
<1>4. QED
  BY <1>1, <1>2, <1>3

\* So is what it answers to a line that does not parse.
LEMMA UnparsedType ==
  ASSUME TypeOK, NEW f \in Frame, Unparsed(f)
  PROVE  /\ estopped' \in BOOLEAN
         /\ moving' \in BOOLEAN
         /\ toHost' \in Seq(Reply)
<1>1. [ack |-> FALSE, seq |-> 0, from |-> f.from] \in Reply
  BY ZeroInRanges DEF Reply, Frame
<1>2. toHost \in Seq(Reply)
  BY DEF TypeOK, WireTypeOK
<1>3. QED
  BY <1>1, <1>2, StreamType DEF Unparsed, TypeOK, FwTypeOK

\* Every step of the firmware keeps the types.
LEMMA RobotTypeOK ==
  ASSUME TypeOK, RobotStep, UNCHANGED <<safetyVars, controlVars>>
  PROVE  TypeOK'
<1>. USE DEF TypeOK
<1>0. SafetyTypeOK' /\ ControlTypeOK'
  BY DEF SafetyTypeOK, ControlTypeOK, safetyVars, controlVars
<1>1. CASE FwRead
  <2>1. Head(toRobot) \in Frame /\ toRobot' \in Seq(Frame)
    BY <1>1, StreamType DEF FwRead, WireTypeOK
  <2>2. estopped' \in BOOLEAN /\ moving' \in BOOLEAN /\ toHost' \in Seq(Reply)
    BY <1>1, <2>1, DispatchType, UnparsedType DEF FwRead
  <2>3. cmdAge' \in 0 .. FwWindow + 1
    BY <1>1, ZeroInRanges DEF FwRead, Unparsed, FwTypeOK
  <2>4. QED
    BY <1>0, <1>1, <2>1, <2>2, <2>3 DEF FwRead, WireTypeOK, FwTypeOK
<1>2. CASE FwAccept \/ FwLinkLoss \/ FwDropsClient \/ FwReboot
  <2>1. <<>> \in Seq(Frame)
    OBVIOUS
  <2>2. WireTypeOK'
    BY <1>2, <2>1 DEF FwAccept, FwLinkLoss, FwDropsClient, FwReboot, WireTypeOK, ConnState
  <2>3. FwTypeOK'
    BY <1>2, ZeroInRanges DEF FwAccept, FwLinkLoss, FwDropsClient, FwReboot, FwTypeOK
  <2>4. QED
    BY <1>0, <2>2, <2>3
<1>3. CASE FwWatchdog
  BY <1>0, <1>3 DEF FwWatchdog, WireTypeOK, FwTypeOK, wireVars
<1>4. QED
  BY <1>1, <1>2, <1>3 DEF RobotStep

\* A saturating clock stays in its range.
LEMMA OlderType ==
  ASSUME NEW cap \in Nat, NEW age \in 0 .. cap
  PROVE  Older(age, cap) \in 0 .. cap
  BY DEF Older

\* The passage of time keeps the types: every clock saturates.
LEMMA TimeTypeOK ==
  ASSUME TypeOK, Time
  PROVE  TypeOK'
<1>. USE DEF TypeOK
<1>1. /\ FeedCap \in Nat /\ FwWindow + 1 \in Nat
      /\ RateInterval \in Nat /\ TickInterval \in Nat
  BY DEF FeedCap
<1>2. /\ cmdAge' \in 0 .. FwWindow + 1
      /\ feedAge' \in 0 .. FeedCap
      /\ motionAge' \in 0 .. RateInterval
      /\ tickAge' \in 0 .. TickInterval
  BY <1>1, OlderType, SMTT(30) DEF Time, FwTypeOK, SafetyTypeOK, ControlTypeOK
<1>3. WireTypeOK' /\ FwTypeOK' /\ SafetyTypeOK'
  BY <1>2 DEF Time, WireTypeOK, FwTypeOK, SafetyTypeOK, wireVars
<1>4. ControlTypeOK'
  BY <1>2 DEF Time, ControlTypeOK
<1>5. QED
  BY <1>3, <1>4

\* The initial states are typed.
LEMMA InitTypeOK == Init => TypeOK
<1>. SUFFICES ASSUME Init PROVE TypeOK
  OBVIOUS
<1>. USE DEF Init
<1>1. WireTypeOK
  <2>1. <<>> \in Seq(Frame) /\ <<>> \in Seq(Reply)
    OBVIOUS
  <2>2. QED
    BY <2>1 DEF WireInit, WireTypeOK, ConnState
<1>2. FwTypeOK
  BY ZeroInRanges DEF FwInit, FwTypeOK
<1>3. SafetyTypeOK
  BY ZeroInRanges DEF SafetyInit, SafetyTypeOK
<1>4. ControlTypeOK
  <2>1. acks \in [SeqNo -> Callers \cup {NoCaller}]
    BY DEF ControlInit, NoAcks
  <2>2. seqOf \in [Callers -> SeqNo]
    BY ZeroInRanges DEF ControlInit
  <2>3. QED
    BY <2>1, <2>2, ZeroInRanges DEF ControlInit, ControlTypeOK, Process, Status
<1>5. QED
  BY <1>1, <1>2, <1>3, <1>4 DEF TypeOK

\* Every step keeps the types.
LEMMA NextTypeOK == TypeOK /\ [Next]_vars => TypeOK'
<1>. SUFFICES ASSUME TypeOK, [Next]_vars PROVE TypeOK'
  OBVIOUS
<1>1. CASE Operator /\ UNCHANGED fwVars
  BY <1>1, SubmitTypeOK DEF Operator
<1>2. CASE AgentStep /\ UNCHANGED fwVars
  BY <1>2, AgentTypeOK
<1>3. CASE RobotStep /\ UNCHANGED <<safetyVars, controlVars>>
  BY <1>3, RobotTypeOK
<1>4. CASE Time
  BY <1>4, TimeTypeOK
<1>5. CASE UNCHANGED vars
  BY <1>5 DEF vars, wireVars, fwVars, safetyVars, controlVars, TypeOK,
              WireTypeOK, FwTypeOK, SafetyTypeOK, ControlTypeOK
<1>6. QED
  BY <1>1, <1>2, <1>3, <1>4, <1>5 DEF Next

(***************************************************************************)
(* Every variable of the drive path keeps its type, whatever the callers   *)
(* send and whatever breaks.                                               *)
(***************************************************************************)
THEOREM TypeCorrect == Spec => []TypeOK
<1>1. QED
  BY InitTypeOK, NextTypeOK, PTL DEF Spec

-----------------------------------------------------------------------------
(***************************************************************************)
(* The host deadman is punctual (DeadmanPunctual), by itself inductive     *)
(* over the typed states: only time makes feedAge grow, tickAge grows with *)
(* it, and the round that resets tickAge stops an expired robot or ends.   *)
(***************************************************************************)
LEMMA DeadmanInit == Init => DeadmanPunctual
  BY DEF Init, SafetyInit, ControlInit, DeadmanPunctual

\* Arithmetic of the deadline.
LEMMA DeadlineArith ==
  ASSUME NEW t \in Nat
  PROVE  /\ 0 <= Deadman + t
         /\ \A f \in Nat : f <= Deadman => f <= Deadman + t
  OBVIOUS

\* Every step keeps the deadman punctual.
LEMMA DeadmanStep == TypeOK /\ DeadmanPunctual /\ [Next]_vars => DeadmanPunctual'
<1>. SUFFICES ASSUME TypeOK, DeadmanPunctual, [Next]_vars,
                     agent' = "up", ticking', ~stopped'
              PROVE  feedAge' <= Deadman + tickAge'
  BY DEF DeadmanPunctual
<1>. DEFINE Kept == UNCHANGED <<agent, ticking, stopped, feedAge, tickAge>>
<1>0. /\ feedAge \in Nat /\ tickAge \in 0 .. TickInterval
      /\ tickAge' \in Nat /\ FeedCap \in Nat
  <2>1. TypeOK'
    BY NextTypeOK
  <2>2. QED
    BY <2>1 DEF TypeOK, SafetyTypeOK, ControlTypeOK, FeedCap
<1>1. CASE Kept
  BY <1>1 DEF DeadmanPunctual
<1>2. ASSUME feedAge' = 0
      PROVE  feedAge' <= Deadman + tickAge'
  BY <1>0, <1>2, DeadlineArith
<1>3. CASE Operator
  <2>1. PICK c \in Callers, name \in Names : Submit(c, name)
    BY <1>3 DEF Operator
  <2>2. CASE SubmitSent(c, name)
    BY <1>2, <2>2 DEF SubmitSent, SafetySubmit
  <2>3. CASE SubmitRefused(c, name) \/ SubmitRaises(c, name)
    BY <1>1, <2>3 DEF SubmitRefused, SubmitRaises, safetyVars
  <2>4. QED
    BY <2>1, <2>2, <2>3 DEF Submit
<1>4. CASE Ticker
  <2>1. CASE StopDue
    BY <1>4, <2>1 DEF Ticker, EmitStop
  <2>2. CASE ~StopDue
    <3>1. feedAge' = feedAge /\ stopped' = stopped
      BY <1>4, <2>2 DEF Ticker
    <3>2. feedAge <= Deadman
      BY <1>0, <2>2, <3>1 DEF StopDue, Expired
    <3>3. QED
      BY <1>0, <3>1, <3>2, DeadlineArith
  <2>3. QED
    BY <2>1, <2>2
<1>5. CASE Estop
  <2>1. CASE IsOpen
    BY <1>5, <2>1 DEF Estop, TripEstop, EmitStop
  <2>2. CASE ~IsOpen
    BY <1>1, <1>5, <2>2 DEF Estop, TripEstop, EmitStop, controlVars
  <2>3. QED
    BY <2>1, <2>2
<1>6. CASE AgentStep
  <2>1. ASSUME NEW c \in Callers, Return(c) \/ GiveUp(c)
        PROVE  Kept
    BY <2>1 DEF Return, GiveUp, Leave, safetyVars
  <2>2. CASE ReadReply \/ ReaderDies \/ LinkDrops
    BY <1>1, <2>2 DEF ReadReply, ReaderDies, LinkDrops, safetyVars, controlVars
  <2>3. CASE AgentHangs
    BY <2>3 DEF AgentHangs
  <2>4. CASE AgentStop \/ AgentStart
    BY <1>2, <2>4 DEF AgentStop, AgentStart, SafetyReset
  <2>5. QED
    BY <1>1, <1>4, <1>5, <1>6, <2>1, <2>2, <2>3, <2>4 DEF AgentStep
<1>7. CASE RobotStep /\ UNCHANGED <<safetyVars, controlVars>>
  BY <1>1, <1>7 DEF safetyVars, controlVars
<1>8. CASE Time
  <2>1. /\ agent = "up" /\ ticking /\ ~stopped
        /\ tickAge < TickInterval
        /\ feedAge' = Older(feedAge, FeedCap)
        /\ tickAge' = Older(tickAge, TickInterval)
    BY <1>8 DEF Time
  <2>2. tickAge' = tickAge + 1
    BY <2>1 DEF Older
  <2>3. feedAge' <= feedAge + 1
    BY <1>0, <2>1 DEF Older, TypeOK, SafetyTypeOK
  <2>4. feedAge <= Deadman + tickAge
    BY <2>1 DEF DeadmanPunctual
  <2>5. feedAge' \in Nat
    BY <1>0, <2>1 DEF Older
  <2>6. QED
    BY <1>0, <2>2, <2>3, <2>4, <2>5
<1>9. CASE UNCHANGED vars
  BY <1>1, <1>9 DEF vars, safetyVars, controlVars
<1>10. QED
  BY <1>3, <1>6, <1>7, <1>8, <1>9 DEF Next

(***************************************************************************)
(* While its ticker lives, the agent stops a robot whose commands ended    *)
(* within a window and one tick, for every deadline and tick.              *)
(***************************************************************************)
THEOREM DeadmanIsPunctual == Spec => []DeadmanPunctual
<1>1. QED
  BY DeadmanInit, DeadmanStep, TypeCorrect, PTL DEF Spec

-----------------------------------------------------------------------------
(***************************************************************************)
(* The wire quiesces.  StopsPreempt is inductive because it looks through  *)
(* the wire: a frame added to a quiescing stream keeps it so unless it     *)
(* drives, a halt makes any stream quiesce, and reading the head moves the *)
(* obligation from the stream to the wheels.                               *)
(***************************************************************************)

\* A command that is not a motion is not a drive.
LEMMA NotMotionNotDrive ==
  ASSUME NEW name, name \notin Motion
  PROVE  name \notin Drives
  BY DEF Motion, Drives

\* A halt at the end makes any stream quiesce.
LEMMA HaltQuiesces ==
  ASSUME toRobot \in Seq(Frame), NEW f \in Frame, f.name \in Halts,
         toRobot' = Append(toRobot, f)
  PROVE  Quiesces'
<1>1. /\ toRobot' \in Seq(Frame)
      /\ Len(toRobot') = Len(toRobot) + 1
      /\ toRobot'[Len(toRobot) + 1] = f
      /\ DOMAIN toRobot' = 1 .. Len(toRobot) + 1
      /\ Len(toRobot) \in Nat
  OBVIOUS
<1>2. HaltComing(toRobot')
  BY <1>1 DEF HaltComing
<1>3. f.name \notin Drives
  BY DEF Halts, Drives
<1>4. ASSUME NEW i \in DOMAIN toRobot', toRobot'[i].name \in Drives
      PROVE  \E j \in DOMAIN toRobot' : j > i /\ toRobot'[j].name \in Halts
  <2>1. i # Len(toRobot) + 1
    BY <1>1, <1>3, <1>4
  <2>2. Len(toRobot) + 1 > i /\ Len(toRobot) + 1 \in DOMAIN toRobot'
    BY <1>1, <2>1
  <2>3. QED
    BY <1>1, <2>2
<1>5. QED
  BY <1>2, <1>4 DEF Quiesces

\* Adding a frame that does not drive keeps a quiescing stream so.
LEMMA AppendQuiesces ==
  ASSUME toRobot \in Seq(Frame), NEW f \in Frame, f.name \notin Drives,
         toRobot' = Append(toRobot, f), UNCHANGED moving, Quiesces
  PROVE  Quiesces'
<1>1. /\ DOMAIN toRobot = 1 .. Len(toRobot) /\ Len(toRobot) \in Nat
      /\ DOMAIN toRobot' = 1 .. Len(toRobot) + 1
      /\ toRobot'[Len(toRobot) + 1] = f
      /\ \A i \in DOMAIN toRobot : toRobot'[i] = toRobot[i]
  OBVIOUS
<1>2. DOMAIN toRobot \subseteq DOMAIN toRobot'
  BY <1>1
<1>3. HaltComing(toRobot) => HaltComing(toRobot')
  BY <1>1, <1>2 DEF HaltComing
<1>4. ASSUME NEW i \in DOMAIN toRobot', toRobot'[i].name \in Drives
      PROVE  \E j \in DOMAIN toRobot' : j > i /\ toRobot'[j].name \in Halts
  <2>1. i \in DOMAIN toRobot /\ toRobot[i].name \in Drives
    BY <1>1, <1>4
  <2>2. PICK j \in DOMAIN toRobot : j > i /\ toRobot[j].name \in Halts
    BY <2>1 DEF Quiesces
  <2>3. QED
    BY <1>1, <1>2, <2>2
<1>5. QED
  BY <1>3, <1>4 DEF Quiesces

\* Reading the head of a quiescing stream leaves a quiescing stream.
LEMMA ReadQuiesces ==
  ASSUME toRobot \in Seq(Frame), toRobot # <<>>, toRobot' = Tail(toRobot), Quiesces,
         Dispatch(Head(toRobot)) \/ (Head(toRobot).name = "garbled" /\ Unparsed(Head(toRobot)))
  PROVE  Quiesces'
<1>1. /\ DOMAIN toRobot = 1 .. Len(toRobot) /\ Len(toRobot) \in Nat \ {0}
      /\ DOMAIN toRobot' = 1 .. Len(toRobot) - 1
      /\ \A i \in DOMAIN toRobot' : toRobot'[i] = toRobot[i + 1]
      /\ Head(toRobot) = toRobot[1]
  OBVIOUS
<1>2. ASSUME NEW k \in DOMAIN toRobot, k > 1
      PROVE  k - 1 \in DOMAIN toRobot' /\ toRobot'[k - 1] = toRobot[k]
  BY <1>1, <1>2
<1>3. ASSUME moving'
      PROVE  HaltComing(toRobot')
  <2>1. toRobot[1].name \notin Halts
    BY <1>1, <1>3 DEF Dispatch, Unparsed, Halts, Drives
  <2>2. \E k \in DOMAIN toRobot : k > 1 /\ toRobot[k].name \in Halts
    <3>1. CASE toRobot[1].name \in Drives
      <4>1. 1 \in DOMAIN toRobot
        BY <1>1
      <4>2. QED
        BY <3>1, <4>1 DEF Quiesces
    <3>2. CASE toRobot[1].name \notin Drives
      <4>1. moving
        BY <1>1, <1>3, <2>1, <3>2 DEF Dispatch, Unparsed
      <4>2. PICK k \in DOMAIN toRobot : toRobot[k].name \in Halts
        BY <4>1 DEF Quiesces, HaltComing
      <4>3. k > 1
        BY <1>1, <2>1, <4>2
      <4>4. QED
        BY <4>2, <4>3
    <3>3. QED
      BY <3>1, <3>2
  <2>3. QED
    BY <1>2, <2>2 DEF HaltComing
<1>4. ASSUME NEW i \in DOMAIN toRobot', toRobot'[i].name \in Drives
      PROVE  \E j \in DOMAIN toRobot' : j > i /\ toRobot'[j].name \in Halts
  <2>1. i + 1 \in DOMAIN toRobot /\ toRobot[i + 1].name \in Drives /\ i \in Nat \ {0}
    BY <1>1, <1>4
  <2>2. PICK k \in DOMAIN toRobot : k > i + 1 /\ toRobot[k].name \in Halts
    BY <2>1 DEF Quiesces
  <2>3. k > 1 /\ k - 1 > i
    BY <1>1, <2>1, <2>2
  <2>4. QED
    BY <1>2, <2>2, <2>3
<1>5. QED
  BY <1>3, <1>4 DEF Quiesces

\* A still robot with nothing in flight quiesces.
LEMMA EmptyQuiesces ==
  ASSUME toRobot' = <<>>, moving' = FALSE
  PROVE  Quiesces'
  BY DEF Quiesces

\* The wire quiesces initially, nothing being latched or stopped.
LEMMA QuietInit == Init => StopsPreempt
  BY DEF Init, SafetyInit, StopsPreempt

\* Every step keeps the wire quiescing.
LEMMA QuietStep == TypeOK /\ StopsPreempt /\ [Next]_vars => StopsPreempt'
<1>. SUFFICES ASSUME TypeOK, StopsPreempt, [Next]_vars,
                     agent' # "down", stopped' \/ latched', Connected'
              PROVE  Quiesces'
  BY DEF StopsPreempt
<1>0. /\ toRobot \in Seq(Frame) /\ safetySeq \in SeqNo /\ nextSeq \in SeqNo
      /\ latched \in BOOLEAN /\ stopped \in BOOLEAN
  BY DEF TypeOK, WireTypeOK, SafetyTypeOK, ControlTypeOK
<1>. DEFINE Kept == UNCHANGED <<conn, toRobot, moving, latched, stopped>>
<1>1. ASSUME Kept, agent # "down"
      PROVE  Quiesces'
  <2>1. Connected /\ (stopped \/ latched)
    BY <1>1 DEF Connected
  <2>2. Quiesces
    BY <1>1, <2>1 DEF StopsPreempt
  <2>3. QED
    BY <1>1, <2>2 DEF Quiesces, HaltComing
<1>2. ASSUME EmitStop, IsOpen, conn' = conn
      PROVE  Quiesces'
  <2>1. StopFrame \in Frame /\ StopFrame.name \in Halts
    BY <1>0, StopFrameType DEF StopFrame, Halts
  <2>2. toRobot' = Append(toRobot, StopFrame)
    BY <1>2 DEF EmitStop, Send, Connected
  <2>3. QED
    BY <1>0, <2>1, <2>2, HaltQuiesces
<1>3. CASE Operator /\ UNCHANGED fwVars
  <2>1. PICK c \in Callers, name \in Names : Submit(c, name)
    BY <1>3 DEF Operator
  <2>2. CASE SubmitSent(c, name)
    <3>. DEFINE f == CallerFrame(c, name)
    <3>1. /\ f \in Frame /\ f.name = name /\ Connected /\ UNCHANGED moving
          /\ agent # "down"
      BY <1>0, <1>3, <2>2, CallerFrameType
         DEF SubmitSent, CallerFrame, Connected, fwVars
    <3>2. /\ toRobot' = Append(toRobot, f)
          /\ stopped' = LeavesStopped(f.name) /\ latched' = latched
      BY <2>2, <3>1 DEF SubmitSent, SafetySubmit, Send
    <3>3. CASE name \in Halts
      BY <1>0, <3>1, <3>2, <3>3, HaltQuiesces
    <3>4. CASE name \notin Halts
      <4>1. latched
        BY <3>1, <3>2, <3>4 DEF LeavesStopped
      <4>2. name \notin Drives
        BY <2>2, <4>1, NotMotionNotDrive DEF SubmitSent, Refuses, Allows
      <4>3. Quiesces
        BY <3>1, <4>1 DEF StopsPreempt
      <4>4. QED
        BY <1>0, <3>1, <3>2, <4>2, <4>3, AppendQuiesces
    <3>5. QED
      BY <3>3, <3>4
  <2>3. CASE SubmitRefused(c, name) \/ SubmitRaises(c, name)
    BY <1>1, <1>3, <2>3
       DEF SubmitRefused, SubmitRaises, wireVars, safetyVars, fwVars
  <2>4. QED
    BY <2>1, <2>2, <2>3 DEF Submit
<1>4. CASE AgentStep /\ UNCHANGED fwVars
  <2>1. ASSUME NEW c \in Callers, Return(c) \/ GiveUp(c)
        PROVE  Kept /\ agent # "down"
    BY <1>4, <2>1 DEF Return, GiveUp, Leave, wireVars, safetyVars, fwVars
  <2>2. CASE ReadReply \/ ReaderDies \/ AgentHangs
    BY <1>1, <1>4, <2>2
       DEF ReadReply, ReaderDies, AgentHangs, wireVars, safetyVars, fwVars
  <2>3. CASE Ticker
    <3>1. IsOpen /\ conn' = conn /\ agent # "down"
      BY <2>3 DEF Ticker, IsOpen, Connected
    <3>2. CASE StopDue
      BY <1>2, <2>3, <3>1, <3>2 DEF Ticker
    <3>3. CASE ~StopDue
      BY <1>1, <1>4, <2>3, <3>1, <3>3 DEF Ticker, fwVars
    <3>4. QED
      BY <3>2, <3>3
  <2>4. CASE Estop
    <3>1. IsOpen /\ conn' = conn
      BY <2>4 DEF Estop, IsOpen, Connected
    <3>2. QED
      BY <1>2, <2>4, <3>1 DEF Estop, TripEstop
  <2>5. CASE LinkDrops
    BY <2>5 DEF LinkDrops, CloseSocket, Connected
  <2>6. CASE AgentStop \/ AgentStart
    BY <2>6 DEF AgentStop, AgentStart, SafetyReset
  <2>7. QED
    BY <1>1, <1>4, <2>1, <2>2, <2>3, <2>4, <2>5, <2>6 DEF AgentStep
<1>5. CASE RobotStep /\ UNCHANGED <<safetyVars, controlVars>>
  <2>1. UNCHANGED <<latched, stopped, agent>>
    BY <1>5 DEF safetyVars, controlVars
  <2>2. CASE FwRead
    <3>1. Quiesces
      BY <2>1, <2>2 DEF FwRead, StopsPreempt, Connected
    <3>2. QED
      BY <1>0, <2>2, <3>1, ReadQuiesces DEF FwRead
  <2>3. CASE FwAccept
    <3>1. Quiesces /\ UNCHANGED <<toRobot, moving>>
      BY <2>1, <2>3 DEF FwAccept, StopsPreempt, Connected
    <3>2. QED
      BY <3>1 DEF Quiesces, HaltComing
  <2>4. CASE FwLinkLoss
    BY <2>4, EmptyQuiesces DEF FwLinkLoss
  <2>5. CASE FwDropsClient \/ FwReboot
    BY <2>5, EmptyQuiesces DEF FwDropsClient, FwReboot
  <2>6. CASE FwWatchdog
    <3>1. Quiesces
      BY <2>1, <2>6 DEF FwWatchdog, StopsPreempt, Connected, wireVars
    <3>2. QED
      BY <2>6, <3>1 DEF FwWatchdog, Quiesces, HaltComing, wireVars
  <2>7. QED
    BY <1>5, <2>2, <2>3, <2>4, <2>5, <2>6 DEF RobotStep
<1>6. CASE Time
  BY <1>1, <1>6 DEF Time, wireVars
<1>7. CASE UNCHANGED vars
  BY <1>1, <1>7 DEF vars, wireVars, fwVars, safetyVars, controlVars
<1>8. QED
  BY <1>3, <1>4, <1>5, <1>6, <1>7 DEF Next

(***************************************************************************)
(* Stops preempt the queue: the agent never believes a moving robot        *)
(* stopped, and once its latch is set no drive in flight has the last      *)
(* word, as long as its link works.                                        *)
(***************************************************************************)
THEOREM StopsArePreemptive == Spec => []StopsPreempt
<1>1. QED
  BY QuietInit, QuietStep, TypeCorrect, PTL DEF Spec

-----------------------------------------------------------------------------
(* The drive path implements the gate *)

\* A drive at the end makes no stream quiesce.
LEMMA DriveDisturbs ==
  ASSUME toRobot \in Seq(Frame), NEW f \in Frame, f.name \in Drives,
         toRobot' = Append(toRobot, f)
  PROVE  ~Quiesces'
<1>1. /\ DOMAIN toRobot' = 1 .. Len(toRobot) + 1 /\ Len(toRobot) \in Nat
      /\ toRobot'[Len(toRobot) + 1] = f
  OBVIOUS
<1>2. \A j \in DOMAIN toRobot' : ~(j > Len(toRobot) + 1)
  BY <1>1
<1>3. Len(toRobot) + 1 \in DOMAIN toRobot' /\ toRobot'[Len(toRobot) + 1].name \in Drives
  BY <1>1
<1>4. QED
  BY <1>2, <1>3 DEF Quiesces

\* A frame that neither drives nor halts leaves the stream as disturbed as it is.
LEMMA AppendDisturbed ==
  ASSUME toRobot \in Seq(Frame), NEW f \in Frame, f.name \notin Halts,
         toRobot' = Append(toRobot, f), UNCHANGED moving, Quiesces'
  PROVE  Quiesces
<1>1. /\ DOMAIN toRobot = 1 .. Len(toRobot) /\ Len(toRobot) \in Nat
      /\ DOMAIN toRobot' = 1 .. Len(toRobot) + 1
      /\ toRobot'[Len(toRobot) + 1] = f
      /\ \A i \in DOMAIN toRobot : toRobot'[i] = toRobot[i]
  OBVIOUS
<1>2. ASSUME NEW j \in DOMAIN toRobot', toRobot'[j].name \in Halts
      PROVE  j \in DOMAIN toRobot /\ toRobot[j].name \in Halts
  <2>1. j # Len(toRobot) + 1
    BY <1>1, <1>2
  <2>2. j \in DOMAIN toRobot
    BY <1>1, <2>1
  <2>3. QED
    BY <1>1, <1>2, <2>2
<1>3. moving => HaltComing(toRobot)
  BY <1>2 DEF Quiesces, HaltComing
<1>4. ASSUME NEW i \in DOMAIN toRobot, toRobot[i].name \in Drives
      PROVE  \E j \in DOMAIN toRobot : j > i /\ toRobot[j].name \in Halts
  <2>1. i \in DOMAIN toRobot' /\ toRobot'[i].name \in Drives
    BY <1>1, <1>4
  <2>2. PICK j \in DOMAIN toRobot' : j > i /\ toRobot'[j].name \in Halts
    BY <2>1 DEF Quiesces
  <2>3. QED
    BY <1>2, <2>2
<1>5. QED
  BY <1>3, <1>4 DEF Quiesces

\* What the gate sees are truth values.
LEMMA GateSeesTruths == {Quiesces, Expired, Quiesces', Expired'} \subseteq BOOLEAN
<1>1. Quiesces \in BOOLEAN /\ Quiesces' \in BOOLEAN
  BY DEF Quiesces
<1>2. Expired \in BOOLEAN /\ Expired' \in BOOLEAN
  BY DEF Expired
<1>3. QED
  BY <1>1, <1>2

\* What touches neither the wire nor the gate is nothing to the gate; what only
\* the firmware does may bring the robot to rest, and no more.
LEMMA BehindGate ==
  /\ UNCHANGED <<toRobot, moving, feedAge, latched>> => UNCHANGED Gate!gateVars
  /\ UNCHANGED <<feedAge, latched>> /\ (Quiesces => Quiesces') =>
       Gate!RobotRests \/ UNCHANGED Gate!gateVars
<1>1. UNCHANGED <<toRobot, moving>> => (Quiesces <=> Quiesces')
  BY DEF Quiesces, HaltComing
<1>2. UNCHANGED feedAge => (Expired <=> Expired')
  BY DEF Expired
<1>3. QED
  BY <1>1, <1>2, GateSeesTruths DEF Gate!gateVars, Gate!RobotRests

\* A command that is sent passes the gate.
LEMMA SentPasses ==
  ASSUME TypeOK, NEW c \in Callers, NEW name \in Names, SubmitSent(c, name),
         Connected, UNCHANGED moving
  PROVE  Gate!Passes(name)
<1>. DEFINE f == CallerFrame(c, name)
<1>1. /\ toRobot \in Seq(Frame) /\ nextSeq \in SeqNo /\ latched \in BOOLEAN
  BY DEF TypeOK, WireTypeOK, ControlTypeOK, SafetyTypeOK
<1>2. f \in Frame /\ f.name = name
  BY <1>1, CallerFrameType DEF CallerFrame
<1>3. toRobot' = Append(toRobot, f) /\ feedAge' = 0 /\ latched' = latched
  BY DEF SubmitSent, SafetySubmit, Send
<1>4. name \in Motion => ~latched
  BY DEF SubmitSent, Refuses, Allows
<1>5. ~Expired'
  BY <1>3, SafetyAssumption DEF Expired
<1>6. Quiesces' <=> (name \in Halts \/ (Quiesces /\ name \notin Drives))
  <2>1. CASE name \in Halts
    BY <1>1, <1>2, <1>3, <2>1, HaltQuiesces
  <2>2. CASE name \in Drives
    BY <1>1, <1>2, <1>3, <2>2, DriveDisturbs DEF Halts, Drives
  <2>3. CASE name \notin Halts \cup Drives
    BY <1>1, <1>2, <1>3, <2>3, AppendQuiesces, AppendDisturbed
  <2>4. QED
    BY <2>1, <2>2, <2>3
<1>7. QED
  BY <1>3, <1>4, <1>5, <1>6 DEF Gate!Passes, Gate!Moves, Motion, Drives, Halts

\* A stop of the safety layer halts the robot and feeds the deadman.
LEMMA EmittedHalts ==
  ASSUME TypeOK, Connected, EmitStop
  PROVE  Quiesces' /\ ~Expired'
<1>1. toRobot \in Seq(Frame) /\ StopFrame \in Frame /\ StopFrame.name \in Halts
  BY StopFrameType DEF TypeOK, WireTypeOK, SafetyTypeOK, StopFrame, Halts
<1>2. toRobot' = Append(toRobot, StopFrame) /\ feedAge' = 0
  BY DEF EmitStop, Send, Connected, IsOpen
<1>3. QED
  BY <1>1, <1>2, HaltQuiesces, SafetyAssumption DEF Expired

\* Every step on a working link is one of the gate's, or none of its business.
LEMMA StepsAtGate ==
  ASSUME TypeOK, [Next]_vars, Working, Working'
  PROVE  [Gate!GateNext(Names)]_(Gate!gateVars)
<1>. USE DEF Working
<1>1. /\ toRobot \in Seq(Frame) /\ latched \in BOOLEAN /\ Connected /\ IsOpen
  BY DEF TypeOK, WireTypeOK, SafetyTypeOK, Connected, IsOpen
<1>2. CASE Operator /\ UNCHANGED fwVars
  <2>1. PICK c \in Callers, name \in Names : Submit(c, name)
    BY <1>2 DEF Operator
  <2>2. CASE SubmitSent(c, name)
    BY <1>1, <1>2, <2>2, SentPasses DEF Gate!GateNext, fwVars
  <2>3. CASE SubmitRefused(c, name) \/ SubmitRaises(c, name)
    BY <1>2, <2>3, BehindGate DEF SubmitRefused, SubmitRaises, wireVars, safetyVars, fwVars
  <2>4. QED
    BY <2>1, <2>2, <2>3 DEF Submit
<1>3. CASE AgentStep /\ UNCHANGED fwVars
  <2>1. ASSUME NEW c \in Callers, Return(c) \/ GiveUp(c)
        PROVE  UNCHANGED Gate!gateVars
    BY <1>3, <2>1, BehindGate DEF Return, GiveUp, Leave, wireVars, safetyVars, fwVars
  <2>2. CASE ReadReply \/ ReaderDies \/ AgentHangs
    BY <1>3, <2>2, BehindGate
       DEF ReadReply, ReaderDies, AgentHangs, wireVars, safetyVars, fwVars
  <2>3. CASE Ticker /\ StopDue
    BY <1>1, <2>3, EmittedHalts DEF Ticker, StopDue, Gate!GateNext, Gate!DeadmanStops
  <2>4. CASE Ticker /\ ~StopDue
    BY <1>3, <2>4, BehindGate DEF Ticker, fwVars
  <2>5. CASE Estop
    BY <1>1, <2>5, EmittedHalts DEF Estop, TripEstop, Gate!GateNext, Gate!GateEstop
  <2>6. CASE LinkDrops \/ AgentStop \/ AgentStart
    BY <2>6 DEF LinkDrops, AgentStop, AgentStart, CloseSocket, Connected
  <2>7. QED
    BY <1>3, <2>1, <2>2, <2>3, <2>4, <2>5, <2>6 DEF AgentStep
<1>4. CASE RobotStep /\ UNCHANGED <<safetyVars, controlVars>>
  <2>1. UNCHANGED <<feedAge, latched>>
    BY <1>4 DEF safetyVars
  <2>2. Quiesces => Quiesces'
    <3>1. CASE FwRead
      BY <1>1, <3>1, ReadQuiesces DEF FwRead
    <3>2. CASE FwAccept \/ FwWatchdog
      BY <3>2 DEF FwAccept, FwWatchdog, wireVars, Quiesces, HaltComing
    <3>3. CASE FwLinkLoss \/ FwDropsClient \/ FwReboot
      BY <3>3, EmptyQuiesces DEF FwLinkLoss, FwDropsClient, FwReboot
    <3>4. QED
      BY <1>4, <3>1, <3>2, <3>3 DEF RobotStep
  <2>3. QED
    BY <2>1, <2>2, BehindGate DEF Gate!GateNext
<1>5. CASE Time
  <2>1. UNCHANGED <<toRobot, moving, latched>>
    BY <1>5 DEF Time, wireVars
  <2>2. (Quiesces <=> Quiesces') /\ (Expired => Expired')
    <3>1. Quiesces <=> Quiesces'
      BY <2>1 DEF Quiesces, HaltComing
    <3>2. feedAge \in Nat /\ feedAge <= FeedCap /\ Deadman \in Nat /\ FeedCap \in Nat
      BY SafetyAssumption DEF TypeOK, SafetyTypeOK, FeedCap
    <3>3. feedAge' = feedAge \/ feedAge' = feedAge + 1
      BY <1>5, <3>2 DEF Time, Older
    <3>4. QED
      BY <3>1, <3>2, <3>3 DEF Expired
  <2>3. QED
    BY <2>1, <2>2, GateSeesTruths DEF Gate!GateNext, Gate!Quieten, Gate!gateVars
<1>6. CASE UNCHANGED vars
  BY <1>6, BehindGate DEF vars, wireVars, fwVars, safetyVars
<1>7. QED
  BY <1>2, <1>3, <1>4, <1>5, <1>6 DEF Next

(***************************************************************************)
(* The drive path implements DriveGate on a working link, for any callers, *)
(* frames in flight, windows and rates (agent/safety.py, agent/control.py, *)
(* the firmware's dispatch and watchdog): what is shown of those who steer *)
(* through the gate holds over the wire as well.                           *)
(***************************************************************************)
THEOREM GateImplemented == Spec => ImplementsGate
<1>1. TypeOK /\ [Next]_vars =>
        (Working /\ Working' => [Gate!GateNext(Names)]_(Gate!gateVars))
  BY StepsAtGate
<1>2. QED
  BY <1>1, TypeCorrect, PTL DEF Spec, ImplementsGate

-----------------------------------------------------------------------------
(* The firmware's own latch.                                               *)

\* Every step of the system keeps a latched firmware from driving.
LEMMA LatchStep == FirmwareLatchHolds /\ [Next]_vars => FirmwareLatchHolds'
<1>. SUFFICES ASSUME FirmwareLatchHolds, [Next]_vars, estopped' PROVE ~moving'
  BY DEF FirmwareLatchHolds
<1>1. CASE UNCHANGED fwVars
  BY <1>1 DEF fwVars, FirmwareLatchHolds
<1>2. CASE FwRead
  BY <1>2 DEF FwRead, Dispatch, Unparsed, FirmwareLatchHolds, Halts, Drives
<1>3. CASE FwAccept \/ FwLinkLoss \/ FwDropsClient \/ FwWatchdog \/ FwReboot
  BY <1>3 DEF FwAccept, FwLinkLoss, FwDropsClient, FwWatchdog, FwReboot,
              FirmwareLatchHolds
<1>4. CASE Time
  BY <1>4 DEF Time, FirmwareLatchHolds
<1>5. QED
  BY <1>1, <1>2, <1>3, <1>4 DEF Next, RobotStep, vars

(***************************************************************************)
(* While the firmware's latch is set no wheel is driven, whichever command *)
(* is read and whatever happens to the connection.                         *)
(***************************************************************************)
THEOREM FirmwareLatch == Spec => []FirmwareLatchHolds
<1>1. Init => FirmwareLatchHolds
  BY DEF Init, FwInit, FirmwareLatchHolds
<1>2. QED
  BY <1>1, LatchStep, PTL DEF Spec

-----------------------------------------------------------------------------
(* Replies and the callers that wait for them.                             *)

\* Whatever in a stream bears the number n belongs to caller c, or to the
\* safety layer, whose numbers are its own.
Clean(s, n, c) == \A i \in 1 .. Len(s) : s[i].seq = n => s[i].from \in {c, Safety}

\* The stream holds an item of caller c with the number n.
Has(s, n, c) == \E i \in 1 .. Len(s) : s[i].seq = n /\ s[i].from = c

\* Adding to a stream, reading from it and emptying it.
LEMMA StreamItems ==
  ASSUME NEW S, NEW s \in Seq(S), NEW n, NEW c
  PROVE  /\ \A x \in S : /\ Clean(s, n, c) /\ (x.seq = n => x.from \in {c, Safety})
                              => Clean(Append(s, x), n, c)
                         /\ Has(s, n, c) \/ (x.seq = n /\ x.from = c) => Has(Append(s, x), n, c)
         /\ s # <<>> =>
              /\ Clean(s, n, c) => /\ Clean(Tail(s), n, c)
                                   /\ Head(s).seq = n => Head(s).from \in {c, Safety}
              /\ Has(s, n, c) => \/ Has(Tail(s), n, c)
                                 \/ Head(s).seq = n /\ Head(s).from = c
         /\ Clean(<<>>, n, c)
<1>1. ASSUME NEW x \in S PROVE
        /\ Append(s, x) \in Seq(S) /\ Len(Append(s, x)) = Len(s) + 1
        /\ \A i \in 1 .. Len(s) : Append(s, x)[i] = s[i]
        /\ Append(s, x)[Len(s) + 1] = x
  OBVIOUS
<1>2. ASSUME NEW x \in S, Clean(s, n, c), x.seq = n => x.from \in {c, Safety}
      PROVE  Clean(Append(s, x), n, c)
  <2>1. \A i \in 1 .. Len(s) + 1 : i \in 1 .. Len(s) \/ i = Len(s) + 1
    OBVIOUS
  <2>2. QED
    BY <1>1, <1>2, <2>1 DEF Clean
<1>3. ASSUME NEW x \in S, Has(s, n, c) \/ (x.seq = n /\ x.from = c)
      PROVE  Has(Append(s, x), n, c)
  <2>1. Len(s) + 1 \in 1 .. Len(s) + 1 /\ \A i \in 1 .. Len(s) : i \in 1 .. Len(s) + 1
    OBVIOUS
  <2>2. QED
    BY <1>1, <1>3, <2>1 DEF Has
<1>4. ASSUME s # <<>> PROVE
        /\ Tail(s) \in Seq(S) /\ Len(Tail(s)) = Len(s) - 1
        /\ \A i \in 1 .. Len(s) - 1 : Tail(s)[i] = s[i + 1] /\ i + 1 \in 1 .. Len(s)
        /\ Head(s) = s[1] /\ 1 \in 1 .. Len(s)
        /\ \A i \in 1 .. Len(s) : i = 1 \/ (i - 1 \in 1 .. Len(s) - 1 /\ (i - 1) + 1 = i)
  BY <1>4
<1>5. ASSUME s # <<>>, Clean(s, n, c)
      PROVE  Clean(Tail(s), n, c) /\ (Head(s).seq = n => Head(s).from \in {c, Safety})
  BY <1>4, <1>5 DEF Clean
<1>6. ASSUME s # <<>>, Has(s, n, c)
      PROVE  Has(Tail(s), n, c) \/ (Head(s).seq = n /\ Head(s).from = c)
  <2>1. PICK i \in 1 .. Len(s) : s[i].seq = n /\ s[i].from = c
    BY <1>6 DEF Has
  <2>2. CASE i = 1
    BY <1>4, <1>6, <2>1, <2>2
  <2>3. CASE i # 1
    <3>1. i - 1 \in 1 .. Len(s) - 1 /\ Tail(s)[i - 1] = s[i]
      BY <1>4, <1>6, <2>3
    <3>2. QED
      BY <1>4, <1>6, <2>1, <3>1 DEF Has
  <2>4. QED
    BY <2>2, <2>3
<1>7. Clean(<<>>, n, c)
  BY DEF Clean
<1>8. QED
  BY <1>2, <1>3, <1>5, <1>6, <1>7

\* What is in flight under a waiting caller's number is its own.
Owned ==
  \A c \in Callers : status[c] = "waiting" =>
     Clean(toRobot, seqOf[c], c) /\ Clean(toHost, seqOf[c], c)

\* Callers in submit() have different numbers.
Distinct ==
  \A c, d \in Callers :
     c # d /\ status[c] # "idle" /\ status[d] # "idle" => seqOf[c] # seqOf[d]

\* On a working link a waiting caller has its future, and its command or its
\* reply in flight; the firmware serves no earlier client beside it.
Coming ==
  agent # "down" /\ Connected =>
    \A c \in Callers : status[c] = "waiting" =>
      /\ acks[seqOf[c]] = c
      /\ Has(toRobot, seqOf[c], c) \/ Has(toHost, seqOf[c], c)

OneClient == conn = "served" => ~oldClient

ReplyInv == Owned /\ Distinct /\ Coming /\ OneClient /\ NoReplyOfAnother

\* The streams, as sequences.
LEMMA Streams ==
  ASSUME TypeOK
  PROVE  /\ toRobot \in Seq(Frame) /\ toHost \in Seq(Reply)
         /\ status \in [Callers -> Status] /\ seqOf \in [Callers -> SeqNo]
         /\ acks \in [SeqNo -> Callers \cup {NoCaller}]
         /\ \A c \in Callers : seqOf[c] \in SeqNo
         /\ nextSeq \in SeqNo /\ NoCaller \notin Callers
  BY DEF TypeOK, WireTypeOK, ControlTypeOK, Sender

\* The commands' lines parse: none without a name, none too long.
LinesParse == "garbled" \notin Names

\* What is sent: the callers' commands and the safety layer's stops.
Sent == {f \in Frame : f.name \in Names \cup {"stop"}}

OnlySent == toRobot \in Seq(Sent)

\* Nothing else ever comes to be in flight.
LEMMA SentStep == TypeOK /\ OnlySent /\ [Next]_vars => OnlySent'
<1>. SUFFICES ASSUME TypeOK, OnlySent, [Next]_vars PROVE OnlySent'
  OBVIOUS
<1>0. /\ <<>> \in Seq(Sent)
      /\ toRobot # <<>> => Tail(toRobot) \in Seq(Sent)
      /\ \A f \in Sent : Append(toRobot, f) \in Seq(Sent)
  BY StreamType DEF OnlySent
<1>1. ASSUME toRobot' \in {toRobot, <<>>} \/ (toRobot # <<>> /\ toRobot' = Tail(toRobot))
      PROVE  OnlySent'
  BY <1>0, <1>1 DEF OnlySent
<1>2. ASSUME NEW f \in Sent, Send(f)
      PROVE  OnlySent'
  BY <1>0, <1>2 DEF Send, OnlySent
<1>3. CASE Operator
  <2>1. PICK c \in Callers, name \in Names : Submit(c, name)
    BY <1>3 DEF Operator
  <2>2. CASE SubmitSent(c, name)
    <3>1. CallerFrame(c, name) \in Sent
      BY CallerFrameType, Streams DEF CallerFrame, Sent
    <3>2. QED
      BY <1>2, <2>2, <3>1 DEF SubmitSent, SafetySubmit
  <2>3. CASE SubmitRefused(c, name) \/ SubmitRaises(c, name)
    BY <1>1, <2>3 DEF SubmitRefused, SubmitRaises, wireVars
  <2>4. QED
    BY <2>1, <2>2, <2>3 DEF Submit
<1>4. CASE AgentStep
  <2>1. StopFrame \in Sent
    BY StopFrameType DEF StopFrame, Sent, TypeOK, SafetyTypeOK
  <2>2. CASE Ticker \/ Estop
    BY <1>1, <1>2, <2>1, <2>2 DEF Ticker, Estop, TripEstop, EmitStop
  <2>3. ASSUME NEW c \in Callers, Return(c) \/ GiveUp(c) PROVE OnlySent'
    BY <1>1, <2>3 DEF Return, GiveUp, Leave, wireVars
  <2>4. CASE ReadReply \/ ReaderDies \/ AgentHangs
    BY <1>1, <2>4 DEF ReadReply, ReaderDies, AgentHangs, wireVars
  <2>5. CASE LinkDrops \/ AgentStop \/ AgentStart
    BY <1>1, <2>5 DEF LinkDrops, AgentStop, AgentStart, CloseSocket, OpenSocket, wireVars
  <2>6. QED
    BY <1>4, <2>2, <2>3, <2>4, <2>5 DEF AgentStep
<1>5. CASE RobotStep
  BY <1>1, <1>5 DEF RobotStep, FwRead, FwAccept, FwLinkLoss, FwDropsClient, FwWatchdog,
                    FwReboot, wireVars
<1>6. CASE Time \/ UNCHANGED vars
  BY <1>1, <1>6 DEF Time, vars, wireVars
<1>7. QED
  BY <1>3, <1>4, <1>5, <1>6 DEF Next

\* A command is sent under a number nothing in flight bears.
LEMMA SubmitReplies ==
  ASSUME TypeOK, ReplyInv, NEW c \in Callers, NEW name \in Names, Submit(c, name)
  PROVE  ReplyInv'
<1>1. NotLapped /\ \A d \in Callers : status[d] # "idle" => seqOf[d] # nextSeq
  BY DEF Submit, SubmitRefused, SubmitRaises, SubmitSent, NotLapped
<1>2. CASE SubmitRefused(c, name) \/ SubmitRaises(c, name)
  <2>1. UNCHANGED <<wireVars, agent, status, seqOf, replyFrom>>
    BY <1>2 DEF SubmitRefused, SubmitRaises
  <2>2. \A n \in SeqNo : n # nextSeq => acks'[n] = acks[n]
    BY <1>2, Streams DEF SubmitRefused, SubmitRaises
  <2>3. \A d \in Callers : status[d] = "waiting" => acks'[seqOf[d]] = acks[seqOf[d]]
    BY <1>1, <2>2, Streams
  <2>4. QED
    BY <2>1, <2>3 DEF wireVars, ReplyInv, Owned, Distinct, Coming, Connected, OneClient,
                      NoReplyOfAnother
<1>3. CASE SubmitSent(c, name)
  <2>. DEFINE f == CallerFrame(c, name)
  <2>1. f \in Frame /\ f.seq = nextSeq /\ f.from = c
    BY CallerFrameType, Streams DEF CallerFrame
  <2>2. /\ toRobot' = IF Connected THEN Append(toRobot, f) ELSE toRobot
        /\ UNCHANGED <<conn, oldClient, toHost, agent, replyFrom>>
        /\ status' = [status EXCEPT ![c] = "waiting"]
        /\ seqOf' = [seqOf EXCEPT ![c] = nextSeq]
        /\ acks' = [acks EXCEPT ![nextSeq] = c]
        /\ status[c] = "idle"
    BY <1>3 DEF SubmitSent, SafetySubmit, Send
  <2>. HIDE DEF f
  <2>3. /\ status'[c] = "waiting" /\ seqOf'[c] = nextSeq /\ acks'[nextSeq] = c
        /\ \A d \in Callers : d # c => status'[d] = status[d] /\ seqOf'[d] = seqOf[d]
        /\ \A n \in SeqNo : n # nextSeq => acks'[n] = acks[n]
    BY <2>2, Streams
  <2>4. Clean(toRobot, nextSeq, c) /\ Clean(toHost, nextSeq, c)
    BY <1>1, Streams DEF NotLapped, Carries, Clean
  <2>5. Owned'
    <3>1. ASSUME NEW d \in Callers, status'[d] = "waiting"
          PROVE  Clean(toRobot, seqOf'[d], d) /\ Clean(toHost, seqOf'[d], d)
                 /\ (f.seq = seqOf'[d] => f.from \in {d, Safety})
      BY <1>1, <2>1, <2>3, <2>4, <3>1 DEF ReplyInv, Owned
    <3>2. ASSUME NEW d \in Callers, status'[d] = "waiting"
          PROVE  Clean(toRobot', seqOf'[d], d)
      BY <2>1, <2>2, <3>1, <3>2, Streams, StreamItems
    <3>3. QED
      BY <2>2, <3>1, <3>2 DEF Owned
  <2>6. Distinct'
    BY <1>1, <2>3 DEF ReplyInv, Distinct
  <2>7. Coming'
    <3>1. SUFFICES ASSUME agent # "down", Connected, NEW d \in Callers, status'[d] = "waiting"
                   PROVE  /\ acks'[seqOf'[d]] = d
                          /\ Has(toRobot', seqOf'[d], d) \/ Has(toHost, seqOf'[d], d)
      BY <2>2 DEF Coming, Connected
    <3>2. toRobot' = Append(toRobot, f)
      BY <2>2, <3>1
    <3>3. CASE d = c
      BY <2>1, <2>3, <3>2, <3>3, Streams, StreamItems
    <3>4. CASE d # c
      <4>1. status[d] = "waiting" /\ seqOf'[d] = seqOf[d]
        BY <2>3, <3>1, <3>4
      <4>2. acks[seqOf[d]] = d /\ (Has(toRobot, seqOf[d], d) \/ Has(toHost, seqOf[d], d))
        BY <3>1, <4>1 DEF ReplyInv, Coming
      <4>3. seqOf[d] # nextSeq /\ seqOf[d] \in SeqNo
        BY <1>1, <4>1, Streams
      <4>4. Has(toRobot, seqOf[d], d) => Has(toRobot', seqOf[d], d)
        BY <2>1, <3>2, Streams, StreamItems
      <4>5. QED
        BY <2>3, <4>1, <4>2, <4>3, <4>4
    <3>5. QED
      BY <3>3, <3>4
  <2>8. OneClient' /\ NoReplyOfAnother'
    BY <2>2, <2>3 DEF ReplyInv, OneClient, NoReplyOfAnother
  <2>9. QED
    BY <2>5, <2>6, <2>7, <2>8 DEF ReplyInv
<1>4. QED
  BY <1>2, <1>3 DEF Submit

\* The callers stay as they are and the streams change: nothing comes under a
\* waiting caller's number but its own reply, and nothing of a waiting caller
\* is lost while the link works.
LEMMA CallersStay ==
  ASSUME ReplyInv, UNCHANGED <<agent, status, seqOf, acks, replyFrom>>,
         OneClient', Connected' => Connected,
         \A c \in Callers : status[c] = "waiting" =>
           /\ Clean(toRobot, seqOf[c], c) /\ Clean(toHost, seqOf[c], c) =>
                Clean(toRobot', seqOf[c], c) /\ Clean(toHost', seqOf[c], c)
           /\ Connected' /\ (Has(toRobot, seqOf[c], c) \/ Has(toHost, seqOf[c], c)) =>
                Has(toRobot', seqOf[c], c) \/ Has(toHost', seqOf[c], c)
  PROVE  ReplyInv'
<1>1. Owned'
  BY DEF ReplyInv, Owned
<1>2. Distinct' /\ NoReplyOfAnother'
  BY DEF ReplyInv, Distinct, NoReplyOfAnother
<1>3. Coming'
  BY DEF ReplyInv, Coming, Connected
<1>4. QED
  BY <1>1, <1>2, <1>3 DEF ReplyInv

\* A caller that leaves withdraws its own number only.
LEMMA LeaveReplies ==
  ASSUME TypeOK, ReplyInv, NEW c \in Callers, Return(c) \/ GiveUp(c)
  PROVE  ReplyInv'
<1>1. /\ status' = [status EXCEPT ![c] = "idle"] /\ status[c] # "idle"
      /\ acks' = [acks EXCEPT ![seqOf[c]] = NoCaller]
      /\ seqOf' = [seqOf EXCEPT ![c] = 0]
      /\ replyFrom' = [replyFrom EXCEPT ![c] = NoCaller]
      /\ UNCHANGED <<wireVars, agent>>
  BY DEF Return, GiveUp, Leave, Pop
<1>2. /\ status'[c] = "idle"
      /\ \A d \in Callers : d # c => /\ status'[d] = status[d] /\ seqOf'[d] = seqOf[d]
                                     /\ replyFrom'[d] = replyFrom[d]
  BY <1>1, Streams DEF TypeOK, ControlTypeOK
<1>3. \A d \in Callers : d # c /\ status[d] # "idle" => acks'[seqOf[d]] = acks[seqOf[d]]
  BY <1>1, Streams DEF ReplyInv, Distinct
<1>4. Owned' /\ OneClient'
  BY <1>1, <1>2 DEF wireVars, ReplyInv, Owned, OneClient
<1>5. Distinct'
  BY <1>2 DEF ReplyInv, Distinct
<1>6. Coming'
  BY <1>1, <1>2, <1>3 DEF wireVars, ReplyInv, Coming, Connected
<1>7. NoReplyOfAnother'
  BY <1>2 DEF ReplyInv, NoReplyOfAnother
<1>8. QED
  BY <1>4, <1>5, <1>6, <1>7 DEF ReplyInv

\* A reply is handed to the caller it belongs to, or to nobody.
LEMMA ReadReplies ==
  ASSUME TypeOK, ReplyInv, ReadReply
  PROVE  ReplyInv'
<1>. DEFINE r == Head(toHost)
            woken == PendingFor(r)
<1>1. /\ toHost # <<>> /\ toHost' = Tail(toHost)
      /\ status' = [c \in Callers |-> IF c \in woken THEN "resolved" ELSE status[c]]
      /\ replyFrom' = [c \in Callers |-> IF c \in woken THEN r.from ELSE replyFrom[c]]
      /\ UNCHANGED <<conn, oldClient, toRobot, agent, acks, seqOf>>
  BY DEF ReadReply
<1>2. \A c \in Callers : c \in woken <=>
        acks[r.seq] = c /\ status[c] = "waiting" /\ seqOf[c] = r.seq
  BY DEF PendingFor
<1>. HIDE DEF r, woken
<1>3. ASSUME NEW c \in Callers, status[c] = "waiting"
      PROVE  /\ Clean(toRobot, seqOf[c], c) /\ Clean(Tail(toHost), seqOf[c], c)
             /\ r.seq = seqOf[c] => r.from \in {c, Safety}
             /\ Has(toHost, seqOf[c], c) =>
                  Has(Tail(toHost), seqOf[c], c) \/ r.seq = seqOf[c]
  BY <1>1, <1>3, Streams, StreamItems DEF ReplyInv, Owned, r
<1>4. Owned'
  BY <1>1, <1>3 DEF Owned
<1>5. Distinct'
  BY <1>1, <1>2 DEF ReplyInv, Distinct
<1>6. Coming'
  <2>1. SUFFICES ASSUME agent # "down", Connected, NEW c \in Callers, status'[c] = "waiting"
                 PROVE  /\ acks[seqOf[c]] = c
                        /\ Has(toRobot, seqOf[c], c) \/ Has(Tail(toHost), seqOf[c], c)
    BY <1>1 DEF Coming, Connected
  <2>2. status[c] = "waiting" /\ c \notin woken
    BY <1>1, <2>1
  <2>3. acks[seqOf[c]] = c /\ (Has(toRobot, seqOf[c], c) \/ Has(toHost, seqOf[c], c))
    BY <2>1, <2>2 DEF ReplyInv, Coming
  <2>4. r.seq # seqOf[c]
    BY <1>2, <2>2, <2>3
  <2>5. QED
    BY <1>3, <2>2, <2>3, <2>4
<1>7. OneClient' /\ NoReplyOfAnother'
  BY <1>1, <1>2, <1>3 DEF ReplyInv, OneClient, NoReplyOfAnother
<1>8. QED
  BY <1>4, <1>5, <1>6, <1>7 DEF ReplyInv

\* The rest of the agent's steps: its own stops, and a link or a process that
\* ends.
LEMMA AgentReplies ==
  ASSUME TypeOK, ReplyInv, AgentStep
  PROVE  ReplyInv'
<1>1. CASE Ticker \/ Estop
  <2>1. toRobot' \in {toRobot, Append(toRobot, StopFrame)}
        /\ UNCHANGED <<conn, oldClient, toHost, agent, status, seqOf, acks, replyFrom>>
    BY <1>1 DEF Ticker, Estop, TripEstop, EmitStop, Send, controlVars
  <2>2. StopFrame \in Frame /\ StopFrame.from = Safety
    BY StopFrameType DEF StopFrame, TypeOK, SafetyTypeOK
  <2>3. ASSUME NEW c \in Callers
        PROVE  /\ Clean(toRobot, seqOf[c], c) => Clean(toRobot', seqOf[c], c)
               /\ Has(toRobot, seqOf[c], c) => Has(toRobot', seqOf[c], c)
    <3>. DEFINE sent == Append(toRobot, StopFrame)
    <3>1. /\ Clean(toRobot, seqOf[c], c) => Clean(sent, seqOf[c], c)
          /\ Has(toRobot, seqOf[c], c) => Has(sent, seqOf[c], c)
      BY <2>2, Streams, StreamItems
    <3>. HIDE DEF sent
    <3>2. CASE toRobot' = sent
      BY <3>1, <3>2
    <3>3. CASE toRobot' = toRobot
      BY <3>3
    <3>4. QED
      BY <2>1, <3>2, <3>3 DEF sent
  <2>4. OneClient' /\ (Connected' => Connected)
    BY <2>1 DEF ReplyInv, OneClient, Connected
  <2>5. QED
    BY <2>1, <2>3, <2>4, CallersStay
<1>2. CASE ReaderDies
  <2>1. UNCHANGED <<wireVars, agent, status, seqOf, acks, replyFrom>>
    BY <1>2 DEF ReaderDies
  <2>2. QED
    BY <2>1, CallersStay DEF wireVars, ReplyInv, OneClient, Connected
<1>3. CASE AgentHangs
  <2>1. agent # "down" /\ UNCHANGED <<wireVars, status, seqOf, acks, replyFrom>>
    BY <1>3 DEF AgentHangs
  <2>2. QED
    BY <2>1 DEF wireVars, ReplyInv, Owned, Distinct, Coming, Connected, OneClient,
                NoReplyOfAnother
<1>4. CASE LinkDrops
  <2>1. /\ toRobot' \in {toRobot, <<>>} /\ toHost' = <<>> /\ conn' = "closed"
        /\ UNCHANGED <<agent, status, seqOf, acks, replyFrom>>
    BY <1>4 DEF LinkDrops, CloseSocket, controlVars
  <2>2. ASSUME NEW c \in Callers, Clean(toRobot, seqOf[c], c)
        PROVE  Clean(toRobot', seqOf[c], c) /\ Clean(toHost', seqOf[c], c)
    BY <2>1, <2>2, Streams, StreamItems
  <2>3. ~Connected' /\ OneClient'
    BY <2>1 DEF Connected, OneClient
  <2>4. QED
    BY <2>1, <2>2, <2>3, CallersStay
<1>5. CASE AgentStop \/ AgentStart
  <2>1. \A c \in Callers : status'[c] = "idle"
    BY <1>5 DEF AgentStop, AgentStart, ControlReset
  <2>2. OneClient'
    BY <1>5 DEF AgentStop, AgentStart, CloseSocket, OpenSocket, wireVars, ReplyInv, OneClient
  <2>3. QED
    BY <2>1, <2>2 DEF ReplyInv, Owned, Distinct, Coming, NoReplyOfAnother
<1>6. QED
  BY <1>1, <1>2, <1>3, <1>4, <1>5, LeaveReplies, ReadReplies DEF AgentStep

\* The firmware answers a frame with its number, to the agent it came from.
LEMMA RobotReplies ==
  ASSUME LinesParse, TypeOK, OnlySent, ReplyInv, RobotStep, UNCHANGED controlVars
  PROVE  ReplyInv'
<1>0. UNCHANGED <<agent, status, seqOf, acks, replyFrom>>
  BY DEF controlVars
<1>1. CASE FwRead
  <2>. DEFINE f == Head(toRobot)
              r == [ack |-> ~(f.name \in Motion /\ estopped), seq |-> f.seq, from |-> f.from]
  <2>1. /\ toRobot # <<>> /\ toRobot' = Tail(toRobot) /\ UNCHANGED <<conn, oldClient>>
        /\ toHost' = IF conn = "served" THEN Append(toHost, r) ELSE toHost
        /\ Readable
    <3>1. toRobot # <<>> => Head(toRobot) \in Sent
      BY StreamType DEF OnlySent
    <3>2. toRobot # <<>> => Head(toRobot).name # "garbled"
      BY <3>1 DEF LinesParse, Sent
    <3>3. QED
      BY <1>1, <3>2 DEF FwRead, Dispatch
  <2>2. f \in Frame
    BY <2>1, Streams, StreamType
  <2>3. r \in Reply /\ r.seq = f.seq /\ r.from = f.from
    BY <2>2 DEF Reply, Frame
  <2>. HIDE DEF f, r
  <2>4. ASSUME NEW c \in Callers, Clean(toRobot, seqOf[c], c), Clean(toHost, seqOf[c], c)
        PROVE  Clean(toRobot', seqOf[c], c) /\ Clean(toHost', seqOf[c], c)
    <3>1. Clean(Tail(toRobot), seqOf[c], c) /\ (f.seq = seqOf[c] => f.from \in {c, Safety})
      BY <2>1, <2>4, Streams, StreamItems DEF f
    <3>2. Clean(Append(toHost, r), seqOf[c], c)
      BY <2>3, <2>4, <3>1, Streams, StreamItems
    <3>3. QED
      BY <2>1, <2>4, <3>1, <3>2
  <2>5. ASSUME NEW c \in Callers, Connected',
               Has(toRobot, seqOf[c], c) \/ Has(toHost, seqOf[c], c)
        PROVE  Has(toRobot', seqOf[c], c) \/ Has(toHost', seqOf[c], c)
    <3>1. toHost' = Append(toHost, r)
      BY <2>1, <2>5 DEF Connected, Readable
    <3>2. Has(toRobot, seqOf[c], c) =>
            Has(Tail(toRobot), seqOf[c], c) \/ (f.seq = seqOf[c] /\ f.from = c)
      BY <2>1, Streams, StreamItems DEF f
    <3>3. Has(toHost, seqOf[c], c) \/ (r.seq = seqOf[c] /\ r.from = c)
            => Has(Append(toHost, r), seqOf[c], c)
      BY <2>3, Streams, StreamItems
    <3>4. QED
      BY <2>1, <2>3, <2>5, <3>1, <3>2, <3>3
  <2>6. OneClient' /\ (Connected' => Connected)
    BY <2>1 DEF ReplyInv, OneClient, Connected
  <2>7. QED
    BY <1>0, <2>4, <2>5, <2>6, CallersStay
<1>2. CASE FwAccept \/ FwWatchdog
  <2>1. UNCHANGED <<toRobot, toHost>> /\ OneClient' /\ (Connected' => Connected)
    BY <1>2 DEF FwAccept, FwWatchdog, wireVars, ReplyInv, OneClient, Connected
  <2>2. QED
    BY <1>0, <2>1, CallersStay
<1>3. CASE FwLinkLoss \/ FwDropsClient \/ FwReboot
  <2>1. toRobot' = <<>> /\ toHost' = toHost /\ OneClient' /\ ~Connected'
    BY <1>3 DEF FwLinkLoss, FwDropsClient, FwReboot, ReplyInv, OneClient, Connected
  <2>2. ASSUME NEW c \in Callers, Clean(toHost, seqOf[c], c)
        PROVE  Clean(toRobot', seqOf[c], c) /\ Clean(toHost', seqOf[c], c)
    BY <2>1, <2>2, Streams, StreamItems
  <2>3. QED
    BY <1>0, <2>1, <2>2, CallersStay
<1>4. QED
  BY <1>1, <1>2, <1>3 DEF RobotStep

\* Every step keeps the replies and their callers together.
LEMMA ReplyStep == LinesParse /\ TypeOK /\ OnlySent /\ ReplyInv /\ [Next]_vars => ReplyInv'
<1>. SUFFICES ASSUME LinesParse, TypeOK, OnlySent, ReplyInv, [Next]_vars PROVE ReplyInv'
  OBVIOUS
<1>1. CASE Time \/ UNCHANGED vars
  <2>1. UNCHANGED <<wireVars, agent, status, seqOf, acks, replyFrom>>
    BY <1>1 DEF Time, vars, controlVars
  <2>2. QED
    BY <2>1, CallersStay DEF wireVars, ReplyInv, OneClient, Connected
<1>2. CASE Operator
  BY <1>2, SubmitReplies DEF Operator
<1>3. CASE AgentStep
  BY <1>3, AgentReplies
<1>4. CASE RobotStep /\ UNCHANGED controlVars
  BY <1>4, RobotReplies
<1>5. QED
  BY <1>1, <1>2, <1>3, <1>4 DEF Next

\* Nobody waits at the start.
LEMMA ReplyInit == Init => ReplyInv
  BY DEF Init, WireInit, ControlInit, ReplyInv, Owned, Distinct, Coming, OneClient,
         NoReplyOfAnother

\* The invariant of the replies holds throughout.
LEMMA ReplyAlways == LinesParse => (Spec => []ReplyInv)
<1>. SUFFICES ASSUME LinesParse PROVE Spec => []ReplyInv
  OBVIOUS
<1>1. Init => OnlySent
  BY DEF Init, WireInit, OnlySent
<1>2. TypeOK /\ OnlySent /\ ReplyInv /\ [Next]_vars => ReplyInv'
  BY ReplyStep
<1>3. QED
  BY <1>1, <1>2, ReplyInit, SentStep, TypeCorrect, PTL DEF Spec

(***************************************************************************)
(* No reply is lost on a working link, for any callers and sequence space: *)
(* a caller still waiting has its future registered under its number, and  *)
(* its command or the reply to it in flight (submit, _reader), as long as  *)
(* the commands' lines parse.                                              *)
(***************************************************************************)
THEOREM RepliesCome == LinesParse => (Spec => []ReplyComing)
<1>. SUFFICES ASSUME LinesParse PROVE Spec => []ReplyComing
  OBVIOUS
<1>1. TypeOK /\ ReplyInv => ReplyComing
  <2>1. SUFFICES ASSUME TypeOK, ReplyInv PROVE ReplyComing
    OBVIOUS
  <2>2. DOMAIN toRobot = 1 .. Len(toRobot) /\ DOMAIN toHost = 1 .. Len(toHost)
    BY <2>1, Streams
  <2>3. QED
    BY <2>1, <2>2 DEF ReplyInv, Coming, Has, ReplyComing
<1>2. QED
  BY <1>1, ReplyAlways, TypeCorrect, PTL

(***************************************************************************)
(* A reply is never handed to a caller for another caller's command, for   *)
(* any callers and sequence space: late replies of commands given up on    *)
(* find no future (submit, _reader), as long as the commands' lines parse: *)
(* the NAK of one that does not bears the number 0, whoever waits under it.*)
(***************************************************************************)
THEOREM RepliesAreOwn == LinesParse => (Spec => []NoReplyOfAnother)
<1>. SUFFICES ASSUME LinesParse PROVE Spec => []NoReplyOfAnother
  OBVIOUS
<1>1. ReplyInv => NoReplyOfAnother
  BY DEF ReplyInv
<1>2. QED
  BY <1>1, ReplyAlways, PTL
=============================================================================

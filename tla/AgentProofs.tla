----------------------------- MODULE AgentProofs -----------------------------
(***************************************************************************)
(* Theorems about what steers through the agent, for any number of runs,   *)
(* steps and keys: autonomy, `play`, `teleop` and the one-shot commands.   *)
(***************************************************************************)
EXTENDS MCAgent, TLAPS

USE AutonomyAssumption, DrivingAssumption

-----------------------------------------------------------------------------
(* Types *)

CallRecord == [at: {"idle", "body", "open", "join", "halt"}, of: 0 .. MaxRuns]

\* A run is a number of its own, and Goes moves that run only.
LEMMA GoesMoves ==
  ASSUME AutonomyTypeOK, NEW n \in Runs, NEW to \in Awaits, Goes(n, to)
  PROVE  /\ task' \in [Runs -> Awaits] /\ task'[n] = to
         /\ \A m \in Runs \ {n} : task'[m] = task[m]
  BY DEF AutonomyTypeOK, Goes

\* All that happens at the gate, whoever steers.
GateStep ==
  \/ \E name : Passes(name) \/ Refused(name)
  \/ GateEstop \/ Quieten \/ DeadmanStops \/ RobotRests \/ UNCHANGED gateVars

\* The gate keeps its types and its latch, whatever passes it.
LEMMA GateKept ==
  ASSUME GateTypeOK, GateStep
  PROVE  GateTypeOK' /\ ((latched => ~wheels) => (latched => ~wheels)')
<1>1. ASSUME NEW name, Passes(name)
      PROVE  GateTypeOK' /\ ((latched => ~wheels) => (latched => ~wheels)')
  <2>1. wheels' \in BOOLEAN /\ quiet' \in BOOLEAN /\ latched' = latched
    BY <1>1 DEF Passes
  <2>2. latched /\ ~wheels => ~wheels'
    BY <1>1 DEF Passes, Moves
  <2>3. QED
    BY <2>1, <2>2 DEF GateTypeOK
<1>2. CASE GateEstop \/ DeadmanStops \/ RobotRests
  BY <1>2 DEF GateTypeOK, GateEstop, DeadmanStops, RobotRests
<1>3. CASE Quieten
  BY <1>3 DEF GateTypeOK, Quieten
<1>4. CASE UNCHANGED gateVars
  BY <1>4 DEF GateTypeOK, gateVars
<1>5. QED
  BY <1>1, <1>2, <1>3, <1>4 DEF GateStep, Refused

\* A stop that passes halts the robot, and none is refused.
LEMMA StopHalts == Passes("stop") => ~wheels'
  BY DEF Passes

\* Autonomy steers through the gate only.
LEMMA AutonomyAtGate == AutonomyNext => GateStep
<1>. USE DEF GateStep, Finally, runVars
<1>1. ASSUME NEW n \in Runs, TaskStep(n) \/ Inferred(n) \/ InferFails(n) PROVE GateStep
  BY <1>1 DEF TaskStep, Begin, Replied, TimesOut, Observes, Ends, Cancelled, Inferred,
              Applies, InferFails
<1>2. ASSUME NEW q \in Callers, StartAsked(q) \/ StopAsked(q) \/ CallStep(q) \/ Started(q)
      PROVE  GateStep
  BY <1>2 DEF StartAsked, StopAsked, Stops, CallStep, Opens, Started, Joined, Halted
<1>3. QED
  BY <1>1, <1>2 DEF AutonomyNext, AutonomyQuieten, AutonomyRests, AutonomyEstop, AutonomyDeadman

\* So do the tools of the command line.
LEMMA DrivingAtGate ==
  PlayNext \/ TeleopNext \/ DrivingTime => GateStep
  BY DEF GateStep, PlayNext, PlayStep, PlayHold, Dispatch, PlayReply, PlayEnds, PlayBreaks,
         TeleopNext, TeleopKey, TeleopReply, TeleopBreaks,
         DrivingTime, DrivingQuieten, DrivingDeadman, DrivingRests, DrivingEstop

\* A one-shot command passes no gate; all it may change there is the wheels.
LEMMA OneShotAtWheels ==
  OneShotNext => UNCHANGED <<quiet, latched>> /\ wheels' \in {wheels} \cup BOOLEAN
  BY DEF OneShotNext, CommandSent, CommandAnswered, CommandTimesOut, ServerTurns,
         DrivingRests, RobotRests, gateVars

\* Every variable of autonomy keeps its type.
LEMMA AutonomyTyped ==
  ASSUME AutonomyTypeOK, AutonomyNext
  PROVE  AutonomyTypeOK'
<1>. USE DEF Awaits, Finally, Same, runVars
<1>1. ASSUME NEW n \in Runs, TaskStep(n) \/ Inferred(n) \/ InferFails(n)
      PROVE  AutonomyTypeOK'
  <2>1. CASE Begin(n)
    BY <2>1, GoesMoves DEF Begin, Wakes, AutonomyTypeOK
  <2>2. CASE Replied(n)
    BY <2>2, GoesMoves DEF Replied, Wakes, AutonomyTypeOK
  <2>3. CASE TimesOut(n)
    BY <2>3, GoesMoves DEF TimesOut, Wakes, AutonomyTypeOK
  <2>4. CASE Observes(n)
    BY <2>4, GoesMoves DEF Observes, Wakes, AutonomyTypeOK
  <2>5. CASE Ends(n)
    BY <2>5, GoesMoves DEF Ends, Wakes, AutonomyTypeOK
  <2>6. CASE Cancelled(n)
    BY <2>6, GoesMoves DEF Cancelled, AutonomyTypeOK
  <2>7. CASE Inferred(n)
    BY <2>7, GoesMoves DEF Inferred, Applies, Wakes, AutonomyTypeOK
  <2>8. CASE InferFails(n)
    BY <2>8, GoesMoves DEF InferFails, Wakes, AutonomyTypeOK
  <2>9. QED
    BY <1>1, <2>1, <2>2, <2>3, <2>4, <2>5, <2>6, <2>7, <2>8 DEF TaskStep
<1>2. ASSUME NEW q \in Callers, StartAsked(q) \/ StopAsked(q) \/ CallStep(q) \/ Started(q)
      PROVE  AutonomyTypeOK'
  <2>. USE DEF AutonomyTypeOK, Runs
  <2>1. CASE StartAsked(q)
    BY <2>1 DEF StartAsked
  <2>2. CASE StopAsked(q)
    <3>1. autonomy \in Runs /\ Stops(q, autonomy)
      BY <2>2 DEF StopAsked
    <3>2. CASE autonomy \in joined
      <4>1. call' = [call EXCEPT ![q] = [at |-> "halt", of |-> autonomy]]
        BY <3>1, <3>2 DEF Stops
      <4>2. UNCHANGED <<task, doomed, broken, joined, autonomy, policy>>
        BY <3>1, <3>2 DEF Stops
      <4>3. QED
        BY <3>1, <4>1, <4>2
    <3>3. CASE autonomy \notin joined
      <4>1. call' = [call EXCEPT ![q] = [at |-> "join", of |-> autonomy]]
        BY <3>1, <3>3 DEF Stops
      <4>2. UNCHANGED <<task, broken, joined, autonomy, policy>>
        BY <3>1, <3>3 DEF Stops
      <4>3. doomed' \subseteq Runs /\ \A n \in doomed' : task[n] # "none"
        BY <3>1, <3>3 DEF Stops, Running
      <4>4. QED
        BY <3>1, <4>1, <4>2, <4>3
    <3>4. QED
      BY <3>2, <3>3
  <2>3. CASE Started(q)
    <3>1. call' = [call EXCEPT ![q] = NoCall]
      BY <2>3 DEF Started
    <3>2. CASE UNCHANGED <<task, autonomy>>
      BY <2>3, <3>1, <3>2 DEF Started, NoCall
    <3>3. ASSUME NEW n \in Runs, task[n] = "none", Goes(n, "created"), autonomy' = n
          PROVE  AutonomyTypeOK'
      <4>1. /\ task' \in [Runs -> Awaits]
            /\ \A m \in doomed \cup broken : task'[m] # "none"
        BY <3>3, GoesMoves
      <4>2. QED
        BY <2>3, <3>1, <3>3, <4>1 DEF Started, NoCall
    <3>4. QED
      BY <2>3, <3>1, <3>2, <3>3 DEF Started
  <2>4. CASE Joined(q)
    <3>1. /\ call' \in [Callers -> CallRecord]
          /\ \A p \in Callers : call'[p].at \in {"join", "halt"} => call'[p].of # 0
      <4>1. call[q].of \in 1 .. MaxRuns
        BY <2>4 DEF Joined
      <4>2. call' \in {[call EXCEPT ![q] = NoCall],
                       [call EXCEPT ![q] = [at |-> "halt", of |-> call[q].of]]}
        BY <2>4 DEF Joined
      <4>3. ASSUME NEW new \in CallRecord, new.at \in {"join", "halt"} => new.of # 0,
                   call' = [call EXCEPT ![q] = new]
            PROVE  /\ call' \in [Callers -> CallRecord]
                   /\ \A p \in Callers :
                        call'[p].at \in {"join", "halt"} => call'[p].of # 0
        BY <4>3 DEF CallRecord
      <4>4. NoCall \in CallRecord /\ NoCall.at = "idle"
        BY DEF NoCall, CallRecord
      <4>5. [at |-> "halt", of |-> call[q].of] \in CallRecord
        BY <4>1 DEF CallRecord
      <4>6. QED
        BY <4>1, <4>2, <4>3, <4>4, <4>5
    <3>2. joined' \subseteq Runs
      <4>1. call[q].of \in Runs /\ joined' \in {joined, joined \cup {call[q].of}}
        BY <2>4 DEF Joined
      <4>2. QED
        BY <4>1
    <3>3. QED
      BY <2>4, <3>1, <3>2 DEF Joined, CallRecord
  <2>5. CASE Halted(q)
    BY <2>5 DEF Halted, NoCall
  <2>6. CASE Opens(q)
    <3>1. call \in [Callers -> CallRecord]
      BY DEF CallRecord
    <3>2. PICK new \in {[call[q] EXCEPT !.at = "open"], NoCall} : call' = [call EXCEPT ![q] = new]
      BY <2>6 DEF Opens
    <3>3. new \in CallRecord /\ new.at \notin {"join", "halt"}
      BY <3>1 DEF NoCall, CallRecord
    <3>4. call' \in [Callers -> CallRecord]
      BY <3>1, <3>2, <3>3
    <3>5. \A p \in Callers : call'[p].at \in {"join", "halt"} => call'[p].of # 0
      BY <3>2, <3>3
    <3>6. QED
      BY <2>6, <3>4, <3>5 DEF Opens, CallRecord
  <2>7. QED
    BY <1>2, <2>1, <2>2, <2>3, <2>4, <2>5, <2>6 DEF CallStep
<1>3. CASE AutonomyQuieten \/ AutonomyRests \/ AutonomyEstop \/ AutonomyDeadman
  BY <1>3
     DEF AutonomyQuieten, AutonomyRests, AutonomyEstop, AutonomyDeadman, autonomyVars,
         AutonomyTypeOK
<1>4. QED
  BY <1>1, <1>2, <1>3 DEF AutonomyNext

-----------------------------------------------------------------------------
(* The run that goes on is known *)

\* One request at a time, as the command line and Mission Control make them.
OneCaller == \A p, q \in Callers : p = q

\* A task that is told to end has not ended, and one that was joined has.
TasksEnd ==
  /\ \A n \in doomed : Running(n)
  /\ \A n \in joined : task[n] = "done"

\* Whatever goes on is the run of AgentState, also while a request is served;
\* once that run has ended, or none is known, the robot is at rest.
KnownInv ==
  /\ \A n \in Runs : Running(n) => n = autonomy
  /\ autonomy = 0 => ~wheels
  /\ \A q \in Callers :
       /\ call[q].at \in {"body", "open"} => autonomy = 0 \/ ~Running(autonomy)
       /\ call[q].at \in {"join", "halt"} => call[q].of = autonomy
       /\ call[q].at = "halt" => ~wheels /\ ~Running(autonomy)

\* A task that ends is no longer doomed, and one that has ended stays so.
LEMMA TasksEndKept ==
  ASSUME AutonomyTypeOK, TasksEnd, AutonomyNext
  PROVE  TasksEnd'
<1>. USE DEF Awaits, Finally, Same, runVars, Running, TasksEnd
<1>1. ASSUME NEW n \in Runs, TaskStep(n) \/ Inferred(n) \/ InferFails(n)
      PROVE  TasksEnd'
  <2>1. task[n] # "done" /\ joined' = joined
    BY <1>1 DEF TaskStep, Begin, Wakes, Replied, TimesOut, Observes, Ends, Cancelled,
                Inferred, InferFails
  <2>2. CASE Cancelled(n)
    <3>1. doomed' = doomed \ {n} /\ \E to \in Awaits \ {"none"} : Goes(n, to)
      BY <2>2 DEF Cancelled
    <3>2. QED
      BY <2>1, <3>1, GoesMoves DEF AutonomyTypeOK
  <2>3. CASE ~Cancelled(n)
    <3>1. /\ doomed' = doomed
          /\ \E to \in Awaits \ {"none"} : Goes(n, to) /\ (to = "done" => n \notin doomed)
      BY <1>1, <2>3 DEF TaskStep, Begin, Wakes, Replied, TimesOut, Observes, Ends,
                        Inferred, InferFails, Applies
    <3>2. QED
      BY <2>1, <3>1, GoesMoves DEF AutonomyTypeOK
  <2>4. QED
    BY <2>2, <2>3
<1>2. ASSUME NEW q \in Callers, StartAsked(q) \/ StopAsked(q) \/ CallStep(q) \/ Started(q)
      PROVE  TasksEnd'
  <2>1. CASE Started(q)
    <3>1. UNCHANGED <<doomed, joined>>
      BY <2>1 DEF Started
    <3>2. UNCHANGED task \/ \E n \in Runs : task[n] = "none" /\ Goes(n, "created")
      BY <2>1 DEF Started
    <3>3. QED
      BY <3>1, <3>2, GoesMoves DEF AutonomyTypeOK
  <2>2. CASE StartAsked(q) \/ Opens(q) \/ Halted(q)
    BY <2>2 DEF StartAsked, Opens, Halted
  <2>3. CASE StopAsked(q)
    BY <2>3 DEF StopAsked, Stops
  <2>4. CASE Joined(q)
    BY <2>4 DEF Joined
  <2>5. QED
    BY <1>2, <2>1, <2>2, <2>3, <2>4 DEF CallStep
<1>3. CASE AutonomyQuieten \/ AutonomyRests \/ AutonomyEstop \/ AutonomyDeadman
  BY <1>3 DEF AutonomyQuieten, AutonomyRests, AutonomyEstop, AutonomyDeadman, autonomyVars
<1>4. QED
  BY <1>1, <1>2, <1>3 DEF AutonomyNext

\* With one request at a time every step keeps the run within reach.
LEMMA KnownKept ==
  ASSUME OneCaller, AutonomyTypeOK, TasksEnd, KnownInv, AutonomyNext
  PROVE  KnownInv'
<1>. USE DEF Awaits, Finally, Same, runVars, Running
<1>1. ASSUME NEW n \in Runs, TaskStep(n) \/ Inferred(n) \/ InferFails(n)
      PROVE  KnownInv'
  <2>1. n = autonomy /\ autonomy # 0 /\ Running(n)
    BY <1>1 DEF TaskStep, Begin, Wakes, Replied, TimesOut, Observes, Ends, Cancelled,
                Inferred, InferFails, KnownInv, Runs, TasksEnd
  <2>2. UNCHANGED <<autonomy, call>> /\ \E to \in Awaits : Goes(n, to)
    BY <1>1 DEF TaskStep, Begin, Wakes, Replied, TimesOut, Observes, Ends, Cancelled,
                Inferred, InferFails, Applies
  <2>3. QED
    BY <2>1, <2>2, GoesMoves DEF KnownInv
<1>2. ASSUME NEW q \in Callers, StartAsked(q) \/ StopAsked(q) \/ CallStep(q) \/ Started(q)
      PROVE  KnownInv'
  <2>1. \A p \in Callers : p = q
    BY DEF OneCaller
  <2>2. CASE StartAsked(q)
    BY <2>1, <2>2 DEF StartAsked, MayStart, KnownInv, AutonomyTypeOK, gateVars
  <2>3. CASE StopAsked(q)
    <3>1. autonomy # 0 /\ UNCHANGED <<task, autonomy>>
      BY <2>3 DEF StopAsked, Stops
    <3>2. CASE autonomy \in joined
      <4>1. call' = [call EXCEPT ![q] = [at |-> "halt", of |-> autonomy]] /\ ~wheels'
        BY <2>3, <3>2 DEF StopAsked, Stops, Passes
      <4>2. task[autonomy] = "done"
        BY <3>2 DEF TasksEnd
      <4>3. QED
        BY <2>1, <3>1, <4>1, <4>2 DEF KnownInv, AutonomyTypeOK
    <3>3. CASE autonomy \notin joined
      <4>1. call' = [call EXCEPT ![q] = [at |-> "join", of |-> autonomy]]
        BY <2>3, <3>3 DEF StopAsked, Stops
      <4>2. QED
        BY <2>1, <3>1, <4>1 DEF KnownInv, AutonomyTypeOK
    <3>4. QED
      BY <3>2, <3>3
  <2>4. CASE Started(q)
    <3>1. \/ UNCHANGED <<task, autonomy>>
          \/ \E n \in Runs : Goes(n, "created") /\ autonomy' = n
      BY <2>4 DEF Started
    <3>2. call' = [call EXCEPT ![q] = NoCall] /\ UNCHANGED gateVars
      BY <2>4 DEF Started
    <3>3. \A n \in Runs : ~Running(n)
      BY <2>4 DEF Started, KnownInv, Runs
    <3>4. QED
      BY <2>1, <3>1, <3>2, <3>3, GoesMoves
         DEF KnownInv, NoCall, AutonomyTypeOK, gateVars, Runs
  <2>5. CASE Joined(q)
    <3>1. /\ call[q].of = autonomy /\ task[autonomy] = "done" /\ autonomy # 0
          /\ UNCHANGED <<task, autonomy>>
      BY <2>5 DEF Joined, KnownInv, AutonomyTypeOK
    <3>2. CASE autonomy \in broken
      <4>1. call' = [call EXCEPT ![q] = NoCall] /\ UNCHANGED gateVars
        BY <2>5, <3>1, <3>2 DEF Joined
      <4>2. QED
        BY <2>1, <3>1, <4>1 DEF KnownInv, AutonomyTypeOK, NoCall
    <3>3. CASE autonomy \notin broken
      <4>1. call' = [call EXCEPT ![q] = [at |-> "halt", of |-> autonomy]] /\ ~wheels'
        BY <2>5, <3>1, <3>3 DEF Joined, Passes
      <4>2. QED
        BY <2>1, <3>1, <4>1 DEF KnownInv, AutonomyTypeOK
    <3>4. QED
      BY <3>2, <3>3
  <2>6. CASE Halted(q)
    BY <2>1, <2>6 DEF Halted, NoCall, KnownInv, AutonomyTypeOK, gateVars
  <2>7. CASE Opens(q)
    BY <2>1, <2>7 DEF Opens, NoCall, KnownInv, AutonomyTypeOK, gateVars
  <2>8. QED
    BY <1>2, <2>2, <2>3, <2>4, <2>5, <2>6, <2>7 DEF CallStep
<1>3. CASE AutonomyQuieten \/ AutonomyRests \/ AutonomyEstop \/ AutonomyDeadman
  BY <1>3 DEF AutonomyQuieten, AutonomyRests, AutonomyEstop, AutonomyDeadman, autonomyVars,
              KnownInv, Quieten, RobotRests, GateEstop, DeadmanStops
<1>4. QED
  BY <1>1, <1>2, <1>3 DEF AutonomyNext

-----------------------------------------------------------------------------
(* What ends by itself ends at rest *)

\* A player or driver that has sent its last stop, or been ended by the latch,
\* has a robot at rest; the one that is not used has not begun.  A one-shot
\* command is none of the latch's business.
RestInv ==
  /\ asked # "oneshot" => (latched => ~wheels)
  /\ player \in {"stops", "done", "aborted"} => ~wheels
  /\ driver \in {"quits", "left"} => ~wheels
  /\ asked # "play" => player = "next"
  /\ asked # "teleop" => driver = "ready"

\* A step of the player, of teleop or of a one-shot command keeps their types.
LEMMA DrivingTyped ==
  ASSUME DrivingTypeOK, PlayNext \/ TeleopNext \/ OneShotNext \/ DrivingTime
  PROVE  DrivingTypeOK'
<1>. USE DEF DrivingTypeOK, PlayerAt
<1>1. CASE PlayNext
  BY <1>1 DEF PlayNext, PlayStep, PlayHold, Dispatch, PlayReply, PlayEnds, PlayBreaks, Player
<1>2. CASE TeleopNext
  BY <1>2 DEF TeleopNext, TeleopKey, TeleopReply, TeleopBreaks, Teleop
<1>3. CASE OneShotNext
  BY <1>3 DEF OneShotNext, CommandSent, CommandAnswered, CommandTimesOut, ServerTurns, DrivingRests,
              OneShot, drivingVars
<1>4. CASE DrivingTime
  BY <1>4 DEF DrivingTime, DrivingQuieten, DrivingDeadman, DrivingRests, DrivingEstop, drivingVars
<1>5. QED
  BY <1>1, <1>2, <1>3, <1>4

\* Others' commands pass the gate like those of autonomy.
LEMMA OthersAtGate == OthersDrive => GateStep
  BY DEF OthersDrive, GateStep

\* Nothing moves the robot after the last stop: a refusal is for the latch.
LEMMA RestKept ==
  ASSUME TypeOK, RestInv, Next
  PROVE  RestInv'
<1>. USE DEF TypeOK
<1>1. (asked # "oneshot" => (latched => ~wheels))'
  <2>1. asked' = asked
    BY DEF Next
  <2>2. asked # "oneshot" => GateStep
    BY AutonomyAtGate, OthersAtGate, DrivingAtGate DEF Next, AutonomyTurn, DrivingTurn
  <2>3. QED
    BY <2>1, <2>2, GateKept DEF RestInv
<1>2. CASE AutonomyTurn
  BY <1>1, <1>2 DEF Next, AutonomyTurn, RestInv, drivingVars
<1>3. CASE asked = "play" /\ PlayNext
  <2>. USE DEF RestInv, Player
  <2>1. CASE PlayStep \/ PlayHold
    <3>1. PICK name : Dispatch(name, "waits") \/ Dispatch(name, "holds")
      BY <2>1 DEF PlayStep, PlayHold
    <3>2. player' \in {"stops", "done", "aborted"} => ~wheels'
      <4>1. CASE GateEstop
        BY <4>1 DEF GateEstop
      <4>2. CASE player' \in {"waits", "holds"}
        BY <4>2
      <4>3. CASE Refused(name) /\ player' = IF latched THEN "aborted" ELSE "next"
        BY <1>3, <4>3 DEF Refused, gateVars
      <4>4. QED
        BY <3>1, <4>1, <4>2, <4>3 DEF Dispatch
    <3>3. QED
      BY <1>1, <1>3, <2>1, <3>2 DEF PlayStep, PlayHold, Next
  <2>2. CASE PlayReply \/ PlayEnds \/ PlayBreaks
    BY <1>1, <1>3, <2>2, StopHalts DEF PlayReply, PlayEnds, PlayBreaks, gateVars, Next
  <2>3. QED
    BY <1>3, <2>1, <2>2 DEF PlayNext
<1>4. CASE asked = "teleop" /\ TeleopNext
  <2>1. driver' \in {"quits", "left"} => ~wheels'
    BY <1>4, StopHalts DEF TeleopNext, TeleopKey, TeleopReply, TeleopBreaks, RestInv, gateVars
  <2>2. UNCHANGED <<player, asked>>
    BY <1>4 DEF TeleopNext, TeleopKey, TeleopReply, TeleopBreaks, Teleop, Next
  <2>3. QED
    BY <1>1, <1>4, <2>1, <2>2 DEF RestInv
<1>5. CASE asked = "oneshot" /\ OneShotNext
  BY <1>1, <1>5 DEF OneShotNext, CommandSent, CommandAnswered, CommandTimesOut, ServerTurns,
                    DrivingRests, OneShot, drivingVars, RobotRests, RestInv, Next
<1>6. CASE asked \in {"play", "teleop"} /\ DrivingTime
  BY <1>1, <1>6 DEF DrivingTime, DrivingQuieten, DrivingDeadman, DrivingRests, DrivingEstop,
                    drivingVars, Quieten, RobotRests, DeadmanStops, GateEstop, RestInv, Next
<1>7. QED
  BY <1>2, <1>3, <1>4, <1>5, <1>6 DEF Next, DrivingTurn

-----------------------------------------------------------------------------
(* The composition *)

\* The composition starts in its types.
LEMMA InitTyped == Init => TypeOK
<1>1. Init => GateTypeOK /\ AutonomyTypeOK
  <2>1. GateInit => GateTypeOK
    BY DEF GateInit, GateTypeOK
  <2>2. AutonomyInit => AutonomyTypeOK
    BY DEF AutonomyInit, AutonomyTypeOK, NoCall, Awaits
  <2>3. QED
    BY <2>1, <2>2 DEF Init
<1>2. Init => DrivingTypeOK
  <2>1. BoundedSeq(Names, MaxSteps) \subseteq Seq(Names)
    BY DEF BoundedSeq, SeqOf
  <2>2. DrivingInit => DrivingTypeOK
    BY <2>1 DEF DrivingInit, DrivingTypeOK, PlayerAt
  <2>3. QED
    BY <2>2 DEF Init
<1>3. QED
  BY <1>1, <1>2 DEF TypeOK

\* Every step of the composition keeps every type.
LEMMA NextTyped == TypeOK /\ [Next]_vars => TypeOK'
<1>1. TypeOK /\ Next => GateTypeOK'
  <2>1. Next => GateStep \/ OneShotNext
    BY AutonomyAtGate, OthersAtGate, DrivingAtGate DEF Next, AutonomyTurn, DrivingTurn
  <2>2. GateTypeOK /\ OneShotNext => GateTypeOK'
    BY OneShotAtWheels DEF GateTypeOK
  <2>3. QED
    BY <2>1, <2>2, GateKept DEF TypeOK
<1>2. TypeOK /\ AutonomyTurn => AutonomyTypeOK' /\ DrivingTypeOK'
  <2>1. AutonomyTypeOK /\ OthersDrive => AutonomyTypeOK'
    BY DEF OthersDrive, AutonomyTypeOK, autonomyVars, runVars
  <2>2. QED
    BY <2>1, AutonomyTyped DEF TypeOK, AutonomyTurn, DrivingTypeOK, drivingVars
<1>3. TypeOK /\ DrivingTurn => AutonomyTypeOK' /\ DrivingTypeOK'
  BY DrivingTyped DEF TypeOK, DrivingTurn, AutonomyTypeOK, autonomyVars, runVars
<1>4. TypeOK /\ UNCHANGED vars => TypeOK'
  BY DEF TypeOK, GateTypeOK, AutonomyTypeOK, DrivingTypeOK, vars, gateVars, autonomyVars,
         runVars, drivingVars
<1>5. QED
  BY <1>1, <1>2, <1>3, <1>4 DEF Next, TypeOK

(***************************************************************************)
(* Every variable keeps its type, whatever steers.                         *)
(***************************************************************************)
THEOREM AgentTypeCorrect == Spec => []TypeOK
<1>1. QED
  BY InitTyped, NextTyped, PTL DEF Spec

(***************************************************************************)
(* A sequence or session that ends of itself leaves the robot at rest      *)
(* (sequence.py, teleop.py), whatever was refused, unanswered, latched or  *)
(* stopped by the deadman on its way, for sequences of any length.         *)
(***************************************************************************)
THEOREM EndsSafely == Spec => []EndsAtRest
<1>1. Init => RestInv
  BY DEF Init, GateInit, DrivingInit, RestInv
<1>2. TypeOK /\ RestInv /\ [Next]_vars => RestInv'
  <2>1. RestInv /\ UNCHANGED vars => RestInv'
    BY DEF RestInv, vars, gateVars, drivingVars
  <2>2. QED
    BY <2>1, RestKept
<1>3. RestInv => EndsAtRest
  BY DEF RestInv, EndsAtRest
<1>4. QED
  BY <1>1, <1>2, <1>3, AgentTypeCorrect, PTL DEF Spec

(***************************************************************************)
(* With one request at a time, the run that goes on is the one AgentState  *)
(* knows and no robot moves with none known (autonomy.py, app.py): a stop  *)
(* always reaches what drives, after any timeouts, cancellations, failing  *)
(* cameras and policies, and any number of runs before.                    *)
(***************************************************************************)
THEOREM RunWithinReach == OneCaller => (Spec => []PolicyIsKnown)
<1>. SUFFICES ASSUME OneCaller PROVE Spec => []PolicyIsKnown
  OBVIOUS
<1>. DEFINE Inv == asked = "autonomy" => TasksEnd /\ KnownInv
<1>1. Init => Inv
  BY DEF Init, GateInit, AutonomyInit, TasksEnd, KnownInv, Running, NoCall
<1>2. TypeOK /\ Inv /\ [Next]_vars => Inv'
  <2>1. Inv /\ UNCHANGED vars => Inv'
    BY DEF TasksEnd, KnownInv, Running, vars, gateVars, autonomyVars, runVars
  <2>2. TypeOK /\ Inv /\ AutonomyTurn /\ UNCHANGED asked => Inv'
    BY TasksEndKept, KnownKept DEF AutonomyTurn, TypeOK
  <2>3. DrivingTurn /\ UNCHANGED asked => Inv'
    BY DEF DrivingTurn
  <2>4. QED
    BY <2>1, <2>2, <2>3 DEF Next
<1>3. Inv => PolicyIsKnown
  BY DEF PolicyIsKnown, RunnerIsKnown, KnownInv
<1>4. QED
  BY <1>1, <1>2, <1>3, AgentTypeCorrect, PTL DEF Spec

=============================================================================

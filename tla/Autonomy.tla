------------------------------ MODULE Autonomy ------------------------------
(***************************************************************************)
(* The policy drives through the agent (agent/autonomy.py, its handlers in *)
(* agent/app.py).  A run is one AutonomyController and its task; handlers, *)
(* tasks and the ticker share one event loop, so an action goes from one   *)
(* await to the next.  The policy is asked in a thread, whose answer       *)
(* nobody takes once the task is cancelled; but its client is made on the  *)
(* loop, and waits there for the policy's server.                          *)
(***************************************************************************)
EXTENDS DriveGate, FiniteSets

CONSTANTS
  Callers,  \* HTTP requests at once
  MaxRuns   \* bound: runs started

ASSUME AutonomyAssumption == MaxRuns \in Nat

Runs == 1 .. MaxRuns

VARIABLES
  task,      \* what each run awaits: see Awaits
  doomed,    \* tasks cancel() was called on and has not reached yet
  broken,    \* tasks that ended in CancelledError, which stop() re-raises
  joined,    \* runs whose stop() has set _task to None
  autonomy,  \* AgentState.autonomy, 0 for None
  call,      \* what each request awaits, and the run it is about
  policy     \* PolicyLink._connected

runVars == <<task, doomed, broken, joined, policy>>
autonomyVars == <<runVars, autonomy, call>>

Awaits == {"none", "created", "reset", "infer", "drive", "sleep", "final", "done"}

AutonomyTypeOK ==
  /\ task \in [Runs -> Awaits]
  /\ doomed \subseteq Runs /\ broken \subseteq Runs /\ joined \subseteq Runs
  /\ \A n \in Runs : n \in doomed \cup broken => task[n] # "none"
  /\ autonomy \in 0 .. MaxRuns
  /\ call \in [Callers -> [at: {"idle", "body", "open", "join", "halt"}, of: 0 .. MaxRuns]]
  /\ \A q \in Callers : call[q].at \in {"join", "halt"} => call[q].of # 0
  /\ policy \in {"none", "up", "down"}

NoCall == [at |-> "idle", of |-> 0]

AutonomyInit ==
  /\ task = [n \in Runs |-> "none"]
  /\ doomed = {} /\ broken = {} /\ joined = {}
  /\ autonomy = 0
  /\ call = [q \in Callers |-> NoCall]
  /\ policy = "none"

Running(n) == task[n] \notin {"none", "done"}

\* A start that builds its policy holds the event loop: no task, no other
\* handler and no ticker gets on.
Opening == \E q \in Callers : call[q].at = "open"

LoopFreeUnlessInferring == ~Opening /\ \A n \in Runs : task[n] # "infer"

LoopFree == ~Opening

-----------------------------------------------------------------------------
(* The task: _run and step *)

Goes(n, to) == task' = [task EXCEPT ![n] = to]

\* Every step but the end of the task, the awaited thing having happened.
Wakes(n, at) == task[n] = at /\ n \notin doomed

\* The `finally`: a stop is sent and its reply awaited.
Finally(n) == Goes(n, "final") /\ Passes("stop")

Same == UNCHANGED <<broken, joined, autonomy, call>>

\* _run begins with reset() and its drain.
Begin(n) ==
  /\ Wakes(n, "created")
  /\ Goes(n, "reset") /\ Passes("stop")
  /\ UNCHANGED <<doomed, policy>> /\ Same

\* The reply to a drive.
Replied(n) ==
  /\ Wakes(n, "drive") /\ Goes(n, "sleep")
  /\ UNCHANGED <<gateVars, doomed, policy>> /\ Same

\* After the reply to the first stop, or a sleep: the newest frame the broker
\* has handed over goes to the policy, and CameraError ends it before the first.
Observes(n) ==
  /\ Wakes(n, "reset") \/ Wakes(n, "sleep")
  /\ \/ Goes(n, "infer") /\ UNCHANGED gateVars
     \/ Finally(n)
  /\ UNCHANGED <<doomed, policy>> /\ Same

\* No reply: TimeoutError is not what _drain passes over.
TimesOut(n) ==
  /\ Wakes(n, "reset") \/ Wakes(n, "drive")
  /\ Finally(n)
  /\ UNCHANGED <<doomed, policy>> /\ Same

\* apply_action: a drive is sent or refused; an action too short is none.
Applies(n) ==
  \/ Goes(n, "drive") /\ Passes("drive")
  \/ Goes(n, "sleep") /\ Refused("drive")
  \/ Goes(n, "sleep") /\ UNCHANGED gateVars

\* The thread answers.
Inferred(n) ==
  /\ Wakes(n, "infer")
  /\ policy' = "up"
  /\ Applies(n)
  /\ UNCHANGED doomed /\ Same

\* infer raises: the server is gone.
InferFails(n) ==
  /\ Wakes(n, "infer")
  /\ Finally(n)
  /\ UNCHANGED <<doomed, policy>> /\ Same

\* The final stop is answered, or is not: both are suppressed.
Ends(n) ==
  /\ Wakes(n, "final")
  /\ Goes(n, "done") /\ policy' = "down"
  /\ UNCHANGED <<gateVars, doomed>> /\ Same

\* CancelledError lands: in the loop it leads to the `finally`; a task that has
\* not begun, or is in its `finally`, ends with it.
Cancelled(n) ==
  /\ n \in doomed
  /\ doomed' = doomed \ {n}
  /\ IF task[n] \in {"created", "final"}
     THEN Goes(n, "done") /\ broken' = broken \cup {n} /\ UNCHANGED gateVars
     ELSE Finally(n) /\ UNCHANGED broken
  /\ UNCHANGED <<joined, policy, autonomy, call>>

-----------------------------------------------------------------------------
(* The handlers *)

StartUnchecked == TRUE

\* POST /autonomy goes on to read the body, or answers 409.
MayStart == autonomy # 0 => ~Running(autonomy)

StartAsked(q) ==
  /\ call[q] = NoCall
  /\ MayStart
  /\ Cardinality({n \in Runs : task[n] = "none"}) >
       Cardinality({p \in Callers : call[p].at = "body"})  \* bound
  /\ call' = [call EXCEPT ![q] = [at |-> "body", of |-> 0]]
  /\ UNCHANGED <<gateVars, runVars, autonomy>>

\* The body is read; the broker takes a subscriber, or a camera is opened.
Opens(q) ==
  /\ call[q].at = "body"
  /\ call' \in {[call EXCEPT ![q].at = "open"], [call EXCEPT ![q] = NoCall]}
  /\ UNCHANGED <<gateVars, runVars, autonomy>>

\* The policy's server answers the client that waits for it, or the start
\* raises; AgentState takes the run.
Started(q) ==
  /\ call[q].at = "open"
  /\ call' = [call EXCEPT ![q] = NoCall]
  /\ \/ UNCHANGED <<task, autonomy>>
     \/ \E n \in Runs :
          /\ task[n] = "none" /\ \A m \in Runs : m < n => task[m] # "none"
          /\ Goes(n, "created")
          /\ autonomy' = n
  /\ UNCHANGED <<gateVars, doomed, broken, joined, policy>>

\* stop(): the task is cancelled and joined; with no task left, a stop is sent.
Stops(q, n) ==
  \/ /\ n \notin joined
     /\ doomed' = IF Running(n) THEN doomed \cup {n} ELSE doomed
     /\ call' = [call EXCEPT ![q] = [at |-> "join", of |-> n]]
     /\ UNCHANGED <<gateVars, task, broken, joined, policy, autonomy>>
  \/ /\ n \in joined
     /\ Passes("stop")
     /\ call' = [call EXCEPT ![q] = [at |-> "halt", of |-> n]]
     /\ UNCHANGED <<runVars, autonomy>>

\* DELETE /autonomy
StopAsked(q) ==
  /\ call[q] = NoCall /\ autonomy # 0
  /\ Stops(q, autonomy)

\* The task has ended: CancelledError goes through stop() and ends the
\* handler, anything else is suppressed and a stop of stop()'s own follows.
Joined(q) ==
  LET n == call[q].of IN
  /\ call[q].at = "join" /\ task[n] = "done"
  /\ IF n \in broken
     THEN call' = [call EXCEPT ![q] = NoCall] /\ UNCHANGED <<gateVars, joined>>
     ELSE /\ joined' = joined \cup {n}
          /\ Passes("stop")
          /\ call' = [call EXCEPT ![q] = [at |-> "halt", of |-> n]]
  /\ UNCHANGED <<task, doomed, broken, policy, autonomy>>

\* The reply to that stop, or a timeout, which answers 500 and keeps the run.
Halted(q) ==
  /\ call[q].at = "halt"
  /\ call' = [call EXCEPT ![q] = NoCall]
  /\ \/ policy' = "down" /\ autonomy' = 0
     \/ UNCHANGED <<policy, autonomy>>
  /\ UNCHANGED <<gateVars, task, doomed, broken, joined>>

AutonomyEstop == GateEstop /\ ~latched /\ UNCHANGED autonomyVars
AutonomyDeadman == DeadmanStops /\ UNCHANGED autonomyVars
AutonomyQuieten == Quieten /\ UNCHANGED autonomyVars
AutonomyRests == RobotRests /\ UNCHANGED autonomyVars

\* What happens in bounded time; neither a policy that is asked nor one that
\* is waited for need answer.
TaskStep(n) ==
  \/ Begin(n) \/ Replied(n) \/ TimesOut(n)
  \/ Observes(n) \/ Ends(n) \/ Cancelled(n)

CallStep(q) == Opens(q) \/ Joined(q) \/ Halted(q)

AutonomyNext ==
  \/ AutonomyQuieten \/ AutonomyRests
  \/ LoopFree /\ \E n \in Runs : TaskStep(n) \/ Inferred(n) \/ InferFails(n)
  \/ LoopFree /\ \E q \in Callers : StartAsked(q) \/ StopAsked(q) \/ CallStep(q)
  \/ \E q \in Callers : Started(q)
  \/ LoopFree /\ (AutonomyEstop \/ AutonomyDeadman)

\* Waits end by their timeouts, the loop is fair and time passes; nothing makes
\* a policy server answer.
AutonomyFair ==
  /\ WF_<<gateVars, autonomyVars>>(AutonomyQuieten)
  /\ SF_<<gateVars, autonomyVars>>(LoopFree /\ wheels /\ AutonomyDeadman)
  /\ \A n \in Runs : SF_<<gateVars, autonomyVars>>(LoopFree /\ TaskStep(n))
  /\ \A q \in Callers : SF_<<gateVars, autonomyVars>>(LoopFree /\ CallStep(q))

-----------------------------------------------------------------------------
\* When no request is in flight, a run that goes on is the one AgentState
\* knows, so that the next stop reaches it; and with none known the robot is
\* at rest, also when the last stop met a run in mid-inference.
RunnerIsKnown ==
  (\A q \in Callers : call[q] = NoCall) =>
    /\ \A n \in Runs : Running(n) => n = autonomy
    /\ autonomy = 0 => ~wheels

\* A robot nobody feeds comes to rest although an inference may never end, and
\* every request is answered -- as long as no start waits for its policy.
AutonomySettles ==
  /\ (wheels /\ quiet) ~> (~wheels \/ ~quiet \/ Opening)
  /\ \A q \in Callers : (call[q] # NoCall) ~> (call[q] = NoCall \/ Opening)

\* "a wedged policy server can never block the event loop: telemetry keeps
\* streaming and the deadman keeps ticking" (autonomy.py:13-14).  The client of
\* one that does not listen waits for it in its constructor, on the loop.
LoopComesFree == ~LoopFree ~> LoopFree

\* "`POST /autonomy` starts it, `DELETE /autonomy` stops it"
\* (docs/autonomy-e2e-signoff.md:61-62).  Two starts at once both pass the check
\* before their bodies are read, and the run of the first is then unknown.
StoppedMeansNoRun ==
  (\A q \in Callers : call[q] = NoCall) /\ autonomy = 0 => \A n \in Runs : ~Running(n)
=============================================================================

----------------------------- MODULE ArmProgram -----------------------------
(***************************************************************************)
(* Teach and playback: the program runner of agent/app.py.  A run request  *)
(* loads the program, stores a task in the agent's one slot and returns;   *)
(* the task walks the steps and a move step streams trajectory frames from *)
(* a worker thread, which looks at the abort flag before each of them.     *)
(***************************************************************************)
EXTENDS ArmHost

CONSTANTS
  Runs,     \* run requests
  NoRun,    \* the empty slot
  Program,  \* the kinds of the program's expanded steps
  Frames    \* trajectory frames of a move step

ASSUME ProgramAssumption ==
  /\ NoRun \notin Runs
  /\ Program \in Seq({"move", "wait", "tool"})
  /\ Frames \in Nat \ {0}

VARIABLES
  slot,        \* arm_program_task
  run,         \* what each run request is doing: see Run
  status,      \* the state of arm_program_status
  interrupted  \* history: runs a stop or an e-stop has found running

programVars == <<slot, run, status, interrupted>>

\* "off": before the request, or its task is done.  "loading": the handler
\* reads the file.  "listing": the task reads the poses.  "ready": between
\* two steps.  The others: inside a step of that kind.
Phase == {"off", "loading", "listing", "ready", "move", "wait", "tool"}

Run == [at : Phase, step : 1 .. Len(Program) + 1, frames : 0 .. Frames,
        todo : Seq(Job)]

ProgramTypeOK ==
  /\ slot \in Runs \cup {NoRun}
  /\ run \in [Runs -> Run]
  /\ status \in {"none", "running", "stopped", "completed", "failed"}
  /\ interrupted \subseteq Runs

Off == [at |-> "off", step |-> 1, frames |-> 0, todo |-> <<>>]

ProgramInit ==
  /\ slot = NoRun
  /\ run = [r \in Runs |-> Off]
  /\ status = "none"
  /\ interrupted = {}

Task(r) == run[r].at \notin {"off", "loading"}

\* What _arm_program_aborted returns.
Aborted == abort \/ armLatched

\* A stop or an e-stop: the runs it finds running must not go on.
Interrupt == interrupted' = interrupted \cup {r \in Runs : Task(r)}

UnchangedHost == UNCHANGED <<hostVars, boardVars>>
UnchangedButAbort ==
  UNCHANGED <<armLatched, armHomed, seen, portOpen, call, held, boardVars>>

Goes(r, phase) == run' = [run EXCEPT ![r].at = phase]

\* handle_arm_program_run: one task at a time, or 409.
RunRequest(r) ==
  /\ run[r].at = "off"
  /\ slot # NoRun => ~Task(slot)
  /\ Goes(r, "loading")
  /\ UNCHANGED <<slot, status, interrupted>> /\ UnchangedHost

RunNotFound(r) ==
  /\ run[r].at = "loading"
  /\ Goes(r, "off")
  /\ UNCHANGED <<slot, status, interrupted>> /\ UnchangedHost

\* The file is read: status, abort flag, task.
RunStart(r) ==
  /\ run[r].at = "loading"
  /\ Goes(r, "listing")
  /\ slot' = r
  /\ status' = "running"
  /\ abort' = FALSE
  /\ UNCHANGED interrupted /\ UnchangedButAbort

\* A pose file cannot be read: the task ends outside its try block.
ListFails(r) ==
  /\ run[r].at = "listing"
  /\ Goes(r, "off")
  /\ interrupted' = interrupted \ {r}
  /\ UNCHANGED <<slot, status>> /\ UnchangedHost

ListEnds(r) ==
  /\ run[r].at = "listing"
  /\ Goes(r, "ready")
  /\ status' = "running"
  /\ UNCHANGED <<slot, interrupted>> /\ UnchangedHost

\* The task ends with a status; its `finally` empties the slot and the flag.
Ends(r, outcome) ==
  /\ status' = outcome
  /\ run' = [run EXCEPT ![r] = Off]
  /\ slot' = NoRun
  /\ abort' = FALSE
  /\ interrupted' = interrupted \ {r}

RunStops(r) ==
  /\ run[r].at = "ready" /\ run[r].step <= Len(Program)
  /\ Aborted
  /\ Ends(r, "stopped") /\ UnchangedButAbort

RunCompletes(r) ==
  /\ run[r].at = "ready" /\ run[r].step > Len(Program)
  /\ Ends(r, "completed") /\ UnchangedButAbort

Allowed(kind) ==
  CASE kind = "move" -> GateMove(Joints)
    [] kind = "tool" -> ~armLatched
    [] OTHER -> TRUE

\* The next step's gate refuses: the program fails.
StepRefused(r) ==
  /\ run[r].at = "ready" /\ run[r].step <= Len(Program)
  /\ ~Aborted /\ ~Allowed(Program[run[r].step])
  /\ Ends(r, "failed") /\ UnchangedButAbort

StepBegins(r) ==
  /\ run[r].at = "ready" /\ run[r].step <= Len(Program)
  /\ ~Aborted
  /\ LET kind == Program[run[r].step]
     IN /\ Allowed(kind)
        /\ run' = [run EXCEPT
                    ![r].at = kind,
                    ![r].frames = IF kind = "move" THEN Frames ELSE 0,
                    ![r].todo = IF kind = "tool"
                                THEN <<ToBoard(ToolBoard, "tool", TRUE)>> ELSE <<>>]
  /\ UNCHANGED <<slot, status, interrupted>> /\ UnchangedHost

\* run_trajectory: the next frame, one jmove per joint.
Frame(r) ==
  /\ run[r].at = "move" /\ run[r].todo = <<>>
  /\ run[r].frames > 0 /\ ~Aborted
  /\ \E order \in Orders :
       /\ Targets(order) = Joints
       /\ run' = [run EXCEPT ![r].frames = @ - 1, ![r].todo = MoveTo(order)]
  /\ UNCHANGED <<slot, status, interrupted>> /\ UnchangedHost

RunSends(r) ==
  /\ run[r].todo # <<>>
  /\ Deliver(Head(run[r].todo))
  /\ run' = [run EXCEPT ![r].todo = Tail(@)]
  /\ UNCHANGED <<slot, status, interrupted, hostVars>>

RunSendFails(r) ==
  /\ run[r].todo # <<>>
  /\ ~portOpen[Head(run[r].todo).board]
  /\ Ends(r, "failed") /\ UnchangedButAbort

\* A step is over: all its frames are sent, or a move or a wait is cut short.
StepEnds(r) ==
  /\ run[r].at \in {"move", "wait", "tool"} /\ run[r].todo = <<>>
  /\ run[r].frames > 0 => Aborted
  /\ run' = [run EXCEPT ![r] = [Off EXCEPT !.at = "ready", !.step = run[r].step + 1]]
  /\ UNCHANGED <<slot, status, interrupted>> /\ UnchangedHost

\* handle_arm_program_stop: the flag; what follows only waits for the task.
StopProgram ==
  /\ abort' = TRUE
  /\ Interrupt
  /\ UNCHANGED <<slot, run, status>> /\ UnchangedButAbort

RunStep(r) ==
  \/ RunNotFound(r) \/ RunStart(r) \/ ListFails(r) \/ ListEnds(r)
  \/ RunStops(r) \/ RunCompletes(r) \/ StepRefused(r) \/ StepBegins(r)
  \/ Frame(r) \/ RunSends(r) \/ RunSendFails(r) \/ StepEnds(r)
=============================================================================

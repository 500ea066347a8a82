------------------------------ MODULE ArmProofs ------------------------------
(***************************************************************************)
(* Theorems about ArmSystem, for every set of clients, requests and runs,  *)
(* every number of boards and joints and every program.                    *)
(***************************************************************************)
EXTENDS ArmSystem, TLAPS

USE BoardAssumption, HostAssumption, ProgramAssumption

\* Reading from and adding to a stream keeps it one.
LEMMA StreamType ==
  ASSUME NEW S, NEW s \in Seq(S)
  PROVE  /\ \A x \in S : Append(s, x) \in Seq(S)
         /\ s # <<>> => Head(s) \in S /\ Tail(s) \in Seq(S)
  OBVIOUS

\* A function on the first n numbers is a sequence.
LEMMA ListType ==
  ASSUME NEW S, NEW n \in Nat, NEW f \in [1 .. n -> S]
  PROVE  f \in Seq(S)
  OBVIOUS

\* A board is sent commands for itself and for joints it drives (protocol
\* frames as dispatch reads them).
LEMMA CommandType ==
  ASSUME NEW b \in Boards, NEW cmd \in CommandOf(b)
  PROVE  /\ cmd.name \in JointCommands => cmd.joint \in JointsOf(b)
         /\ cmd.name \in JointCommands => cmd.joint \in Joints
         /\ cmd.on \in BOOLEAN
         /\ cmd.name \in JointCommands \cup BoardCommands
         /\ cmd \in Command
<1>1. cmd \in Command
  BY DEF Command
<1>2. QED
  BY <1>1 DEF CommandOf, JointsOf, JointCommands, BoardCommands, Motion, Moves

\* ArmManager._send addresses a frame to a board.
LEMMA ToBoardType ==
  ASSUME NEW b \in Boards, NEW name \in BoardCommands, NEW on \in BOOLEAN
  PROVE  ToBoard(b, name, on) \in Job
<1>1. [name |-> name, on |-> on] \in CommandOf(b)
  BY DEF CommandOf
<1>2. [name |-> name, on |-> on] \in Command
  BY <1>1, CommandType
<1>3. QED
  BY <1>1, <1>2 DEF ToBoard, Job

\* ArmManager._joint_send addresses a frame to the joint's board.
LEMMA ToJointType ==
  ASSUME NEW j \in Joints, NEW name \in JointCommands, NEW on \in BOOLEAN
  PROVE  ToJoint(j, name, on) \in Job
<1>1. BoardOf[j] \in Boards
  OBVIOUS
<1>2. [name |-> name, joint |-> j, on |-> on] \in CommandOf(BoardOf[j])
  BY DEF CommandOf, JointsOf
<1>3. [name |-> name, joint |-> j, on |-> on] \in Command
  BY <1>1, <1>2, CommandType
<1>4. QED
  BY <1>1, <1>2, <1>3 DEF ToJoint, Job

\* A broadcast is one frame per board, in the boards' order.
LEMMA BroadcastType ==
  ASSUME NEW name \in BoardCommands, NEW on \in BOOLEAN
  PROVE  Broadcast(name, on) \in Seq(Job)
<1>1. \A b \in 1 .. NumBoards : ToBoard(b, name, on) \in Job
  BY ToBoardType DEF Boards
<1>2. QED
  BY <1>1 DEF Broadcast, Boards

\* A move is one frame per target, in the request's order.
LEMMA MoveToType ==
  ASSUME NEW order \in Orders
  PROVE  MoveTo(order) \in Seq(Job) /\ Targets(order) \subseteq Joints
<1>1. PICK n \in 1 .. NumJoints : order \in [1 .. n -> Joints]
  BY DEF Orders
<1>2. \A i \in 1 .. n : ToJoint(order[i], "jmove", TRUE) \in Job
  BY <1>1, ToJointType DEF JointCommands, Motion, Moves
<1>3. DOMAIN order = 1 .. n /\ n \in Nat
  BY <1>1
<1>4. MoveTo(order) = [i \in 1 .. n |-> ToJoint(order[i], "jmove", TRUE)]
  BY <1>3 DEF MoveTo
<1>5. MoveTo(order) \in [1 .. n -> Job]
  BY <1>2, <1>4, Zenon
<1>6. QED
  BY <1>1, <1>3, <1>5, ListType DEF Targets

\* One frame of one command, as jogs, homes and the effectors send them.
LEMMA SingleType ==
  ASSUME NEW job \in Job
  PROVE  <<job>> \in Seq(Job)
  OBVIOUS

-----------------------------------------------------------------------------
(* Type correctness of the boards.                                         *)

\* dispatch leaves every variable of the boards in its type.
LEMMA DispatchType ==
  ASSUME BoardTypeOK, NEW b \in Boards, NEW cmd \in CommandOf(b), Dispatch(b, cmd)
  PROVE  /\ estopped' \in [Boards -> BOOLEAN]
         /\ enabled' \in [Boards -> BOOLEAN]
         /\ tool' \in [Boards -> BOOLEAN]
         /\ jmode' \in [Joints -> JMode]
         /\ jhomed' \in [Joints -> BOOLEAN]
         /\ left' \in [Joints -> 0 .. Far]
<1>. USE CommandType DEF BoardTypeOK, JMode
<1>1. CASE DispatchEstop(b, cmd)
  BY <1>1 DEF DispatchEstop, StopAll
<1>2. CASE DispatchSet(b, cmd)
  BY <1>2 DEF DispatchSet
<1>3. CASE DispatchEnable(b, cmd)
  BY <1>3 DEF DispatchEnable
<1>4. CASE DispatchEffector(b, cmd)
  BY <1>4 DEF DispatchEffector
<1>5. CASE DispatchRefused(b, cmd)
  BY <1>5 DEF DispatchRefused
<1>6. CASE DispatchMove(b, cmd)
  BY <1>6 DEF DispatchMove, Sets, JointCommands, Motion
<1>7. CASE DispatchJog(b, cmd)
  BY <1>7 DEF DispatchJog, Sets, JointCommands, Motion
<1>8. CASE DispatchHome(b, cmd)
  BY <1>8 DEF DispatchHome, Sets, JointCommands, Motion
<1>9. QED
  BY <1>1, <1>2, <1>3, <1>4, <1>5, <1>6, <1>7, <1>8 DEF Dispatch

\* run_joint and the watchdog leave every variable of the boards in its type.
LEMMA LoopType ==
  ASSUME BoardTypeOK,
         \/ \E b \in Boards : BoardWatchdog(b)
         \/ \E j \in Joints : RunJoint(j)
  PROVE  BoardTypeOK'
<1>. USE DEF BoardTypeOK, JMode
<1>1. CASE \E b \in Boards : BoardWatchdog(b)
  BY <1>1 DEF BoardWatchdog, StopAll
<1>2. ASSUME NEW j \in Joints, RunJoint(j)
      PROVE  BoardTypeOK'
  <2>1. CASE MoveArrives(j)
    BY <2>1 DEF MoveArrives, Sets
  <2>2. CASE JogAtLimit(j)
    BY <2>2 DEF JogAtLimit, Sets
  <2>3. CASE SeekHits(j)
    BY <2>3 DEF SeekHits, Sets
  <2>4. CASE SeekFaults(j)
    BY <2>4 DEF SeekFaults, Sets
  <2>5. CASE BackoffEnds(j)
    BY <2>5 DEF BackoffEnds, Sets
  <2>6. QED
    BY <1>2, <2>1, <2>2, <2>3, <2>4, <2>5 DEF RunJoint
<1>3. QED
  BY <1>1, <1>2

\* Every step of the boards keeps their types.
LEMMA BoardStepType ==
  ASSUME BoardTypeOK, BoardStep
  PROVE  BoardTypeOK'
<1>1. ASSUME NEW b \in Boards, BoardRead(b)
      PROVE  BoardTypeOK'
  <2>1. inbox[b] \in Seq(Command) /\ inbox[b] \in Seq(CommandOf(b)) /\ inbox[b] # <<>>
    BY <1>1 DEF BoardTypeOK, BoardRead
  <2>2. /\ Head(inbox[b]) \in CommandOf(b) /\ Tail(inbox[b]) \in Seq(CommandOf(b))
        /\ Tail(inbox[b]) \in Seq(Command)
    BY <2>1, StreamType
  <2>3. /\ inbox' \in [Boards -> Seq(Command)]
        /\ \A a \in Boards : inbox'[a] \in Seq(CommandOf(a))
    BY <1>1, <2>2 DEF BoardTypeOK, BoardRead
  <2>4. quiet' \in [Boards -> 0 .. ArmWindow + 1]
    BY <1>1 DEF BoardTypeOK, BoardRead
  <2>5. Dispatch(b, Head(inbox[b]))
    BY <1>1 DEF BoardRead
  <2>6. QED
    BY <2>2, <2>3, <2>4, <2>5, DispatchType DEF BoardTypeOK
<1>2. CASE BoardTime
  BY <1>2 DEF BoardTime, BoardTypeOK, Overdue
<1>3. QED
  BY <1>1, <1>2, LoopType DEF BoardStep

\* A frame written to a port keeps the boards' types.
LEMMA DeliverType ==
  ASSUME BoardTypeOK, NEW job \in Job, Deliver(job)
  PROVE  BoardTypeOK'
<1>1. job.board \in Boards /\ job.cmd \in Command /\ job.cmd \in CommandOf(job.board)
  BY DEF Job
<1>2. /\ inbox' \in [Boards -> Seq(Command)]
      /\ \A a \in Boards : inbox'[a] \in Seq(CommandOf(a))
  BY <1>1, StreamType DEF Deliver, BoardTypeOK
<1>3. QED
  BY <1>2 DEF Deliver, BoardTypeOK

-----------------------------------------------------------------------------
(* Type correctness of the agent's side.                                   *)

\* A handler that passes its gate leaves the table of handlers in its type.
LEMMA BeginType ==
  ASSUME call \in [Clients -> Call],
         NEW c \in Clients, NEW request \in AllRequests,
         NEW joints \in SUBSET Joints, NEW todo \in Seq(Job),
         Begin(c, request, joints, todo)
  PROVE  call' \in [Clients -> Call]
<1>1. Clearing \in BOOLEAN
  BY DEF Clearing
<1>2. [request |-> request, joints |-> joints, todo |-> todo, alone |-> ~Clearing]
        \in Call
  BY <1>1 DEF Call
<1>3. QED
  BY <1>2 DEF Begin

\* A handler between two requests is of the handlers' type.
LEMMA IdleType == Idle \in Call
<1>1. <<>> \in Seq(Job)
  OBVIOUS
<1>2. QED
  BY <1>1 DEF Idle, Call

\* An e-stop request keeps the types of the host.
LEMMA AskEstopType ==
  ASSUME HostTypeOK, NEW c \in Clients, AskEstop(c)
  PROVE  HostTypeOK'
<1>1. Broadcast("estop", TRUE) \in Seq(Job) /\ "estop" \in AllRequests
  BY BroadcastType DEF BoardCommands, AllRequests
<1>2. call' \in [Clients -> Call]
  BY <1>1, BeginType DEF AskEstop, HostTypeOK
<1>3. QED
  BY <1>2 DEF AskEstop, HostTypeOK

\* A request to clear keeps the types of the host.
LEMMA AskClearType ==
  ASSUME HostTypeOK, NEW c \in Clients, AskClear(c)
  PROVE  HostTypeOK'
<1>1. Broadcast("set", FALSE) \in Seq(Job)
  BY BroadcastType DEF BoardCommands
<1>2. [Idle EXCEPT !.request = "clear_estop", !.todo = Broadcast("set", FALSE)] \in Call
  BY <1>1, IdleType DEF Call, AllRequests
<1>3. \A d \in Clients : [call[d] EXCEPT !.alone = FALSE] \in Call
  BY DEF HostTypeOK, Call
<1>4. call' \in [Clients -> Call]
  BY <1>2, <1>3 DEF AskClear
<1>5. QED
  BY <1>4 DEF AskClear, HostTypeOK

\* Every other request keeps the types of the host.
LEMMA AskType ==
  ASSUME HostTypeOK, NEW c \in Clients, Ask(c)
  PROVE  HostTypeOK'
<1>. USE DEF HostTypeOK, AllRequests, JointCommands, BoardCommands, Motion, Moves
<1>1. ASSUME NEW on \in BOOLEAN, AskEnable(c, on)
      PROVE  HostTypeOK'
  <2>1. call' \in [Clients -> Call]
    BY <1>1, BroadcastType, BeginType DEF AskEnable
  <2>2. QED
    BY <1>1, <2>1 DEF AskEnable
<1>2. ASSUME NEW on \in BOOLEAN, NEW request \in {"grip", "tool"},
             AskEffector(c, request, on)
      PROVE  HostTypeOK'
  <2>1. ToBoard(ToolBoard, request, on) \in Job
    BY ToBoardType
  <2>2. <<ToBoard(ToolBoard, request, on)>> \in Seq(Job) /\ request \in AllRequests
    BY <2>1, SingleType
  <2>3. Begin(c, request, {}, <<ToBoard(ToolBoard, request, on)>>)
    BY <1>2 DEF AskEffector
  <2>4. call' \in [Clients -> Call]
    BY <2>2, <2>3, BeginType
  <2>5. QED
    BY <1>2, <2>4 DEF AskEffector
<1>3. ASSUME NEW j \in Joints, NEW on \in BOOLEAN, AskJog(c, j, on)
      PROVE  HostTypeOK'
  <2>1. ToJoint(j, "jvel", on) \in Job
    BY ToJointType
  <2>2. call' \in [Clients -> Call]
    BY <1>3, <2>1, SingleType, BeginType DEF AskJog
  <2>3. QED
    BY <1>3, <2>2 DEF AskJog
<1>4. ASSUME NEW j \in Joints, AskStop(c, j)
      PROVE  HostTypeOK'
  <2>1. ToJoint(j, "jstop", TRUE) \in Job
    BY ToJointType
  <2>2. call' \in [Clients -> Call]
    BY <1>4, <2>1, SingleType, BeginType DEF AskStop
  <2>3. QED
    BY <1>4, <2>2 DEF AskStop
<1>5. ASSUME NEW j \in Joints, NEW m \in Moves, AskAngle(c, m, j)
      PROVE  HostTypeOK'
  <2>1. ToJoint(j, m, TRUE) \in Job
    BY ToJointType
  <2>2. /\ <<ToJoint(j, m, TRUE)>> \in Seq(Job)
        /\ m \in AllRequests /\ {j} \in SUBSET Joints
    BY <2>1, SingleType
  <2>3. Begin(c, m, {j}, <<ToJoint(j, m, TRUE)>>)
    BY <1>5 DEF AskAngle
  <2>4. call' \in [Clients -> Call]
    BY <2>2, <2>3, BeginType
  <2>5. QED
    BY <1>5, <2>4 DEF AskAngle
<1>6. ASSUME NEW j \in Joints, AskHome(c, j)
      PROVE  HostTypeOK'
  <2>1. ToJoint(j, "home", TRUE) \in Job
    BY ToJointType
  <2>2. call' \in [Clients -> Call]
    BY <1>6, <2>1, SingleType, BeginType DEF AskHome
  <2>3. QED
    BY <1>6, <2>2 DEF AskHome
<1>7. ASSUME NEW order \in Orders, AskMove(c, order)
      PROVE  HostTypeOK'
  <2>1. call' \in [Clients -> Call]
    BY <1>7, MoveToType, BeginType DEF AskMove
  <2>2. QED
    BY <1>7, <2>1 DEF AskMove
<1>8. QED
  BY AskClearType, <1>1, <1>2, <1>3, <1>4, <1>5, <1>6, <1>7 DEF Ask

\* What a handler's thread and its end do keeps every type.
LEMMA HandlerType ==
  ASSUME HostTypeOK, BoardTypeOK, NEW c \in Clients,
         SendNext(c) \/ SendFails(c) \/ Ack(c)
  PROVE  HostTypeOK' /\ BoardTypeOK'
<1>0. call[c] \in Call
  BY DEF HostTypeOK
<1>1. CASE SendNext(c)
  <2>1. call[c].todo \in Seq(Job) /\ call[c].todo # <<>>
    BY <1>0, <1>1 DEF Call, SendNext
  <2>2. Head(call[c].todo) \in Job /\ Tail(call[c].todo) \in Seq(Job)
    BY <2>1, StreamType
  <2>3. BoardTypeOK'
    BY <1>1, <2>2, DeliverType DEF SendNext
  <2>4. [call[c] EXCEPT !.todo = Tail(@)] \in Call
    BY <1>0, <2>2 DEF Call
  <2>5. call' \in [Clients -> Call]
    BY <1>1, <2>4 DEF SendNext, HostTypeOK
  <2>6. held' \subseteq Boards
    BY <1>1, <2>2 DEF SendNext, HostTypeOK, Job
  <2>7. QED
    BY <1>1, <2>3, <2>5, <2>6 DEF SendNext, HostTypeOK
<1>2. CASE SendFails(c)
  BY <1>2, IdleType DEF SendFails, HostTypeOK, BoardTypeOK, boardVars
<1>3. CASE Ack(c)
  <2>1. call[c].joints \subseteq Joints
    BY <1>0 DEF Call
  <2>2. QED
    BY <1>3, <2>1, IdleType DEF Ack, HostTypeOK, BoardTypeOK, boardVars
<1>4. QED
  BY <1>1, <1>2, <1>3

-----------------------------------------------------------------------------
(* Type correctness of the runner needs to know that a run inside a step   *)
(* has not passed the program's end.                                       *)

InStep ==
  \A r \in Runs :
    run[r].at \in {"move", "wait", "tool"} => run[r].step <= Len(Program)

Types == ArmTypeOK /\ InStep

\* A run that is off is of the runs' type, at the program's first step.
LEMMA OffType ==
  /\ Off \in Run
  /\ Off.at = "off"
  /\ <<>> \in Seq(Job)
<1>1. Len(Program) \in Nat /\ <<>> \in Seq(Job)
  OBVIOUS
<1>2. 1 \in 1 .. Len(Program) + 1 /\ 0 \in 0 .. Frames
  BY <1>1
<1>3. QED
  BY <1>1, <1>2 DEF Off, Run, Phase

\* The end of a run keeps the runner's types.
LEMMA EndsType ==
  ASSUME ProgramTypeOK, InStep, NEW r \in Runs,
         NEW outcome \in {"stopped", "completed", "failed"}, Ends(r, outcome)
  PROVE  ProgramTypeOK' /\ InStep' /\ abort' \in BOOLEAN
  BY OffType DEF Ends, ProgramTypeOK, InStep

\* A change of phase between steps keeps the runner's types.
LEMMA GoesType ==
  ASSUME ProgramTypeOK, InStep, NEW r \in Runs,
         NEW phase \in {"off", "loading", "listing", "ready"}, Goes(r, phase)
  PROVE  run' \in [Runs -> Run] /\ InStep'
<1>1. [run[r] EXCEPT !.at = phase] \in Run
  BY DEF ProgramTypeOK, Run, Phase
<1>2. run' = [run EXCEPT ![r] = [run[r] EXCEPT !.at = phase]]
  BY DEF Goes, ProgramTypeOK
<1>3. [run[r] EXCEPT !.at = phase].at = phase
  BY DEF ProgramTypeOK, Run
<1>4. QED
  BY <1>1, <1>2, <1>3 DEF ProgramTypeOK, InStep

\* The steps of a run around its program.
LEMMA RunAroundType ==
  ASSUME Types, NEW r \in Runs,
         \/ RunRequest(r) \/ RunNotFound(r) \/ RunStart(r)
         \/ ListFails(r) \/ ListEnds(r)
         \/ RunStops(r) \/ RunCompletes(r) \/ StepRefused(r) \/ RunSendFails(r)
  PROVE  Types'
<1>. USE DEF Types, ArmTypeOK
<1>1. CASE RunRequest(r) \/ RunNotFound(r) \/ ListFails(r) \/ ListEnds(r)
  <2>1. run' \in [Runs -> Run] /\ InStep'
    BY <1>1, GoesType DEF RunRequest, RunNotFound, ListFails, ListEnds
  <2>2. ProgramTypeOK'
    BY <1>1, <2>1 DEF RunRequest, RunNotFound, ListFails, ListEnds, ProgramTypeOK
  <2>3. HostTypeOK' /\ BoardTypeOK'
    BY <1>1 DEF RunRequest, RunNotFound, ListFails, ListEnds, UnchangedHost,
                hostVars, boardVars, HostTypeOK, BoardTypeOK
  <2>4. QED
    BY <2>1, <2>2, <2>3
<1>2. CASE RunStart(r)
  <2>1. run' \in [Runs -> Run] /\ InStep'
    BY <1>2, GoesType DEF RunStart
  <2>2. ProgramTypeOK'
    BY <1>2, <2>1 DEF RunStart, ProgramTypeOK
  <2>3. HostTypeOK' /\ BoardTypeOK'
    BY <1>2 DEF RunStart, UnchangedButAbort, boardVars, HostTypeOK, BoardTypeOK
  <2>4. QED
    BY <2>1, <2>2, <2>3
<1>3. CASE RunStops(r) \/ RunCompletes(r) \/ StepRefused(r) \/ RunSendFails(r)
  <2>1. ProgramTypeOK' /\ InStep' /\ abort' \in BOOLEAN
    BY <1>3, EndsType DEF RunStops, RunCompletes, StepRefused, RunSendFails
  <2>2. HostTypeOK' /\ BoardTypeOK'
    BY <1>3, <2>1 DEF RunStops, RunCompletes, StepRefused, RunSendFails,
                      UnchangedButAbort, boardVars, HostTypeOK, BoardTypeOK
  <2>3. QED
    BY <2>1, <2>2
<1>4. QED
  BY <1>1, <1>2, <1>3

\* A run that becomes another well-typed record, which is inside the program
\* if it is inside a step, leaves the runner well typed.
LEMMA RunBecomes ==
  ASSUME ProgramTypeOK, InStep, NEW r \in Runs, NEW x \in Run,
         run' = [run EXCEPT ![r] = x],
         x.at \in {"move", "wait", "tool"} => x.step <= Len(Program),
         UNCHANGED <<slot, status, interrupted>>
  PROVE  ProgramTypeOK' /\ InStep'
  BY DEF ProgramTypeOK, InStep

\* The steps of a run inside its program.
LEMMA RunInsideType ==
  ASSUME Types, NEW r \in Runs,
         StepBegins(r) \/ Frame(r) \/ RunSends(r) \/ StepEnds(r)
  PROVE  Types'
<1>. USE DEF Types, ArmTypeOK
<1>0. run[r] \in Run /\ Len(Program) \in Nat
  BY DEF ProgramTypeOK
<1>1. CASE StepBegins(r)
  <2>. DEFINE kind == Program[run[r].step]
              frames == IF kind = "move" THEN Frames ELSE 0
              todo == IF kind = "tool"
                      THEN <<ToBoard(ToolBoard, "tool", TRUE)>> ELSE <<>>
              x == [run[r] EXCEPT !.at = kind, !.frames = frames, !.todo = todo]
  <2>1. run[r].step \in 1 .. Len(Program)
    BY <1>0, <1>1 DEF StepBegins, Run
  <2>2. kind \in {"move", "wait", "tool"}
    BY <2>1
  <2>3. <<ToBoard(ToolBoard, "tool", TRUE)>> \in Seq(Job)
    BY ToBoardType, SingleType DEF BoardCommands
  <2>4. x \in Run
    <3>. HIDE DEF kind
    <3>1. frames \in 0 .. Frames
      OBVIOUS
    <3>2. todo \in Seq(Job)
      BY <2>3, OffType, Zenon
    <3>. HIDE DEF frames, todo
    <3>3. QED
      BY <1>0, <2>2, <3>1, <3>2 DEF Run, Phase
  <2>5. x.step <= Len(Program)
    BY <1>0, <2>1 DEF Run
  <2>6. run' = [run EXCEPT ![r] = x]
    BY <1>1 DEF StepBegins, ProgramTypeOK
  <2>7. ProgramTypeOK' /\ InStep'
    BY <1>1, <2>4, <2>5, <2>6, RunBecomes DEF StepBegins
  <2>8. QED
    BY <1>1, <2>7 DEF StepBegins, UnchangedHost, hostVars, boardVars, HostTypeOK, BoardTypeOK
<1>2. CASE Frame(r)
  <2>1. PICK order \in Orders :
          run' = [run EXCEPT ![r].frames = @ - 1, ![r].todo = MoveTo(order)]
    BY <1>2 DEF Frame
  <2>. DEFINE x == [run[r] EXCEPT !.frames = @ - 1, !.todo = MoveTo(order)]
  <2>2. run[r].frames - 1 \in 0 .. Frames
    BY <1>0, <1>2 DEF Frame, Run
  <2>3. x \in Run /\ x.at = run[r].at /\ x.step = run[r].step
    BY <1>0, <2>2, MoveToType DEF Run
  <2>4. run' = [run EXCEPT ![r] = x]
    BY <2>1 DEF ProgramTypeOK
  <2>5. ProgramTypeOK' /\ InStep'
    BY <1>2, <2>3, <2>4, RunBecomes DEF Frame, InStep
  <2>6. QED
    BY <1>2, <2>5 DEF Frame, UnchangedHost, hostVars, boardVars, HostTypeOK, BoardTypeOK
<1>3. CASE RunSends(r)
  <2>1. run[r].todo \in Seq(Job) /\ run[r].todo # <<>>
    BY <1>0, <1>3 DEF Run, RunSends
  <2>2. Head(run[r].todo) \in Job /\ Tail(run[r].todo) \in Seq(Job)
    BY <2>1, StreamType
  <2>. DEFINE x == [run[r] EXCEPT !.todo = Tail(@)]
  <2>3. x \in Run /\ x.at = run[r].at /\ x.step = run[r].step
    BY <1>0, <2>2 DEF Run
  <2>4. run' = [run EXCEPT ![r] = x]
    BY <1>3 DEF RunSends, ProgramTypeOK
  <2>5. ProgramTypeOK' /\ InStep'
    BY <1>3, <2>3, <2>4, RunBecomes DEF RunSends, InStep
  <2>6. BoardTypeOK'
    BY <1>3, <2>2, DeliverType DEF RunSends
  <2>7. QED
    BY <1>3, <2>5, <2>6 DEF RunSends, hostVars, HostTypeOK
<1>4. CASE StepEnds(r)
  <2>. DEFINE x == [Off EXCEPT !.at = "ready", !.step = run[r].step + 1]
  <2>1. run[r].step + 1 \in 1 .. Len(Program) + 1
    BY <1>0, <1>4 DEF StepEnds, InStep, Run
  <2>2. x \in Run /\ x.at = "ready"
    BY <2>1, OffType DEF Run, Phase
  <2>3. run' = [run EXCEPT ![r] = x]
    BY <1>4 DEF StepEnds
  <2>4. ProgramTypeOK' /\ InStep'
    BY <1>4, <2>2, <2>3, RunBecomes DEF StepEnds
  <2>5. QED
    BY <1>4, <2>4 DEF StepEnds, UnchangedHost, hostVars, boardVars, HostTypeOK, BoardTypeOK
<1>5. QED
  BY <1>1, <1>2, <1>3, <1>4

\* The initial states are well typed.
LEMMA InitTypes ==
  ASSUME ArmInit
  PROVE  Types
<1>1. BoardTypeOK
  <2>1. <<>> \in Seq(Command) /\ \A b \in Boards : <<>> \in Seq(CommandOf(b))
    OBVIOUS
  <2>2. QED
    BY <2>1 DEF ArmInit, BoardInit, BoardTypeOK, JMode
<1>2. HostTypeOK
  BY IdleType DEF ArmInit, HostInit, HostTypeOK
<1>3. ProgramTypeOK /\ InStep
  BY OffType DEF ArmInit, ProgramInit, ProgramTypeOK, InStep
<1>4. QED
  BY <1>1, <1>2, <1>3 DEF Types, ArmTypeOK

\* Every step of the arm keeps the types.
LEMMA NextTypes ==
  ASSUME Types, [ArmNext]_armVars
  PROVE  Types'
<1>. USE DEF Types, ArmTypeOK
<1>1. ASSUME NEW c \in Clients, Estop(c)
      PROVE  Types'
  <2>1. HostTypeOK'
    BY <1>1, AskEstopType DEF Estop
  <2>2. ProgramTypeOK' /\ InStep' /\ BoardTypeOK'
    BY <1>1 DEF Estop, Interrupt, ProgramTypeOK, InStep, boardVars, BoardTypeOK
  <2>3. QED
    BY <2>1, <2>2
<1>2. ASSUME NEW c \in Clients, Ask(c), UNCHANGED <<boardVars, programVars>>
      PROVE  Types'
  <2>1. HostTypeOK'
    BY <1>2, AskType
  <2>2. QED
    BY <1>2, <2>1 DEF boardVars, BoardTypeOK, programVars, ProgramTypeOK, InStep
<1>3. CASE StopProgram
  BY <1>3 DEF StopProgram, Interrupt, UnchangedButAbort, boardVars,
              BoardTypeOK, HostTypeOK, ProgramTypeOK, InStep
<1>4. ASSUME NEW c \in Clients, SendNext(c) \/ SendFails(c) \/ Ack(c),
             UNCHANGED programVars
      PROVE  Types'
  <2>1. HostTypeOK' /\ BoardTypeOK'
    BY <1>4, HandlerType
  <2>2. QED
    BY <1>4, <2>1 DEF programVars, ProgramTypeOK, InStep
<1>5. ASSUME NEW b \in Boards, Drain(b) \/ PortFails(b), UNCHANGED programVars
      PROVE  Types'
  <2>1. HostTypeOK' /\ BoardTypeOK'
    BY <1>5 DEF Drain, PortFails, JointsOf, HostTypeOK, boardVars, BoardTypeOK
  <2>2. QED
    BY <1>5, <2>1 DEF programVars, ProgramTypeOK, InStep
<1>6. ASSUME NEW r \in Runs, RunRequest(r) \/ RunStep(r)
      PROVE  Types'
  BY <1>6, RunAroundType, RunInsideType DEF RunStep
<1>7. CASE AgentRestart
  <2>1. HostTypeOK' /\ BoardTypeOK'
    BY <1>7, IdleType DEF AgentRestart, HostTypeOK, boardVars, BoardTypeOK
  <2>2. ProgramTypeOK' /\ InStep'
    BY <1>7, OffType DEF AgentRestart, ProgramTypeOK, InStep
  <2>3. QED
    BY <2>1, <2>2
<1>8. CASE BoardStep /\ AgentWaits
  <2>1. BoardTypeOK'
    BY <1>8, BoardStepType
  <2>2. QED
    BY <1>8, <2>1 DEF AgentWaits, hostVars, HostTypeOK, programVars, ProgramTypeOK, InStep
<1>9. ASSUME NEW b \in Boards, Reboot(b)
      PROVE  Types'
  <2>1. BoardTypeOK'
    <3>1. <<>> \in Seq(Command) /\ <<>> \in Seq(CommandOf(b))
      OBVIOUS
    <3>2. QED
      BY <1>9, <3>1 DEF Reboot, BoardReboot, StopAll, BoardTypeOK, JMode
  <2>2. HostTypeOK'
    BY <1>9 DEF Reboot, HostTypeOK
  <2>3. QED
    BY <1>9, <2>1, <2>2 DEF Reboot, programVars, ProgramTypeOK, InStep
<1>10. CASE UNCHANGED armVars
  BY <1>10 DEF armVars, boardVars, hostVars, programVars,
               BoardTypeOK, HostTypeOK, ProgramTypeOK, InStep
<1>11. QED
  BY <1>1, <1>2, <1>3, <1>4, <1>5, <1>6, <1>7, <1>8, <1>9, <1>10
     DEF ArmNext, Operator, HostStep

\* Every variable of the arm keeps its type (ArmTypeOK).
THEOREM ArmTypeCorrect == ArmSpec => []ArmTypeOK
<1>1. ArmInit => Types
  BY InitTypes
<1>2. Types /\ [ArmNext]_armVars => Types'
  BY NextTypes
<1>3. Types => ArmTypeOK
  BY DEF Types
<1>4. QED
  BY <1>1, <1>2, <1>3, PTL DEF ArmSpec

-----------------------------------------------------------------------------
(* Absolute moves need a reference.                                        *)

\* dispatch starts a move of a homed joint only, and a home without a
\* reference.
LEMMA DispatchReferenced ==
  ASSUME BoardTypeOK, MovesAreReferenced,
         NEW b \in Boards, NEW cmd \in CommandOf(b), Dispatch(b, cmd)
  PROVE  MovesAreReferenced'
<1>. USE DEF MovesAreReferenced, BoardTypeOK
<1>1. CASE DispatchEstop(b, cmd)
  BY <1>1 DEF DispatchEstop, StopAll
<1>2. CASE \/ DispatchSet(b, cmd) \/ DispatchEnable(b, cmd)
           \/ DispatchEffector(b, cmd) \/ DispatchRefused(b, cmd)
  BY <1>2 DEF DispatchSet, DispatchEnable, DispatchEffector, DispatchRefused
<1>3. CASE DispatchMove(b, cmd)
  BY <1>3, CommandType DEF DispatchMove, Sets, JointCommands, Motion
<1>4. CASE DispatchJog(b, cmd)
  BY <1>4, CommandType DEF DispatchJog, Sets, JointCommands, Motion
<1>5. CASE DispatchHome(b, cmd)
  BY <1>5, CommandType DEF DispatchHome, Sets, JointCommands, Motion
<1>6. QED
  BY <1>1, <1>2, <1>3, <1>4, <1>5 DEF Dispatch

\* A step of the boards' loops keeps every move referenced.
LEMMA BoardStepReferenced ==
  ASSUME BoardTypeOK, MovesAreReferenced, BoardStep
  PROVE  MovesAreReferenced'
<1>. USE DEF MovesAreReferenced, BoardTypeOK
<1>1. ASSUME NEW b \in Boards, BoardRead(b)
      PROVE  MovesAreReferenced'
  <2>1. Head(inbox[b]) \in CommandOf(b)
    BY <1>1, StreamType DEF BoardRead
  <2>2. QED
    BY <1>1, <2>1, DispatchReferenced DEF BoardRead
<1>2. ASSUME NEW b \in Boards, BoardWatchdog(b)
      PROVE  MovesAreReferenced'
  BY <1>2 DEF BoardWatchdog, StopAll
<1>3. ASSUME NEW j \in Joints, RunJoint(j)
      PROVE  MovesAreReferenced'
  <2>1. CASE MoveArrives(j) \/ JogAtLimit(j) \/ SeekFaults(j)
    BY <2>1 DEF MoveArrives, JogAtLimit, SeekFaults, Sets
  <2>2. CASE SeekHits(j)
    BY <2>2 DEF SeekHits, Sets
  <2>3. CASE BackoffEnds(j)
    BY <2>3 DEF BackoffEnds, Sets
  <2>4. QED
    BY <1>3, <2>1, <2>2, <2>3 DEF RunJoint
<1>4. CASE BoardTime
  BY <1>4 DEF BoardTime
<1>5. QED
  BY <1>1, <1>2, <1>3, <1>4 DEF BoardStep

\* The agent's steps change no joint's mode and no reference.
LEMMA AgentKeepsJoints ==
  ASSUME Operator \/ HostStep
  PROVE  UNCHANGED <<jmode, jhomed, estopped>>
<1>. USE DEF boardVars
<1>1. CASE Operator
  BY <1>1 DEF Operator, Estop, RunRequest, UnchangedHost, StopProgram, UnchangedButAbort
<1>2. ASSUME NEW c \in Clients, SendNext(c) \/ SendFails(c) \/ Ack(c)
      PROVE  UNCHANGED <<jmode, jhomed, estopped>>
  BY <1>2 DEF SendNext, Deliver, SendFails, Ack
<1>3. ASSUME NEW b \in Boards, Drain(b) \/ PortFails(b)
      PROVE  UNCHANGED <<jmode, jhomed, estopped>>
  BY <1>3 DEF Drain, PortFails
<1>4. ASSUME NEW r \in Runs, RunStep(r)
      PROVE  UNCHANGED <<jmode, jhomed, estopped>>
  BY <1>4 DEF RunStep, RunNotFound, RunStart, ListFails, ListEnds, RunStops,
     RunCompletes, StepRefused, StepBegins, Frame, RunSends, Deliver,
     RunSendFails, StepEnds, UnchangedHost, UnchangedButAbort
<1>5. CASE AgentRestart
  BY <1>5 DEF AgentRestart
<1>6. QED
  BY <1>1, <1>2, <1>3, <1>4, <1>5 DEF HostStep

\* No joint moves to an angle without a homed reference, and none counts as
\* homed while it homes (MovesAreReferenced).
THEOREM MovesReferenced == ArmSpec => []MovesAreReferenced
<1>1. ArmInit => Types /\ MovesAreReferenced
  BY InitTypes DEF ArmInit, BoardInit, MovesAreReferenced
<1>2. Types /\ MovesAreReferenced /\ [ArmNext]_armVars => MovesAreReferenced'
  <2>1. SUFFICES ASSUME Types, MovesAreReferenced, [ArmNext]_armVars
                 PROVE  MovesAreReferenced'
    OBVIOUS
  <2>2. CASE Operator \/ HostStep
    BY <2>1, <2>2, AgentKeepsJoints DEF MovesAreReferenced
  <2>3. CASE BoardStep
    BY <2>1, <2>3, BoardStepReferenced DEF Types, ArmTypeOK
  <2>4. ASSUME NEW b \in Boards, Reboot(b)
        PROVE  MovesAreReferenced'
    BY <2>1, <2>4 DEF Reboot, BoardReboot, StopAll, MovesAreReferenced,
                      Types, ArmTypeOK, BoardTypeOK
  <2>5. CASE UNCHANGED armVars
    BY <2>1, <2>5 DEF armVars, boardVars, MovesAreReferenced
  <2>6. QED
    BY <2>1, <2>2, <2>3, <2>4, <2>5 DEF ArmNext
<1>3. Types /\ [ArmNext]_armVars => Types'
  BY NextTypes
<1>4. QED
  BY <1>1, <1>2, <1>3, PTL DEF ArmSpec

-----------------------------------------------------------------------------
(* An e-stop holds.  The invariant says who may have which frames in hand: *)
(* only a clear_estop handler has a set frame, an estop handler has only   *)
(* estop frames, and while a clear runs no board counts as held.           *)

LatchedRests == \A b \in Boards : estopped[b] => Rests(b)

Matches(x) ==
  \A i \in DOMAIN x.todo :
    /\ x.todo[i].cmd.name = "set" => x.request = "clear_estop"
    /\ x.request = "estop" => x.todo[i].cmd.name = "estop"

NoSet(todo) == \A i \in DOMAIN todo : todo[i].cmd.name # "set"

FramesMatch == /\ \A c \in Clients : Matches(call[c])
               /\ \A r \in Runs : NoSet(run[r].todo)

ClearsAlone ==
  Clearing => /\ held = {}
              /\ \A c \in Clients : call[c].request = "estop" => ~call[c].alone

Latchings == \A b \in held : Latching(b)

EstopInv == LatchedRests /\ FramesMatch /\ ClearsAlone /\ Latchings

\* dispatch starts no motion under the latch and rests every joint when it
\* sets it.
LEMMA DispatchRests ==
  ASSUME BoardTypeOK, LatchedRests,
         NEW b \in Boards, NEW cmd \in CommandOf(b), Dispatch(b, cmd)
  PROVE  LatchedRests'
<1>. USE DEF LatchedRests, Rests, JointsOf, BoardTypeOK
<1>1. CASE DispatchEstop(b, cmd)
  BY <1>1 DEF DispatchEstop, StopAll
<1>2. CASE DispatchSet(b, cmd)
  BY <1>2 DEF DispatchSet
<1>3. CASE DispatchEnable(b, cmd) \/ DispatchEffector(b, cmd) \/ DispatchRefused(b, cmd)
  BY <1>3 DEF DispatchEnable, DispatchEffector, DispatchRefused
<1>4. CASE DispatchMove(b, cmd)
  BY <1>4, CommandType DEF DispatchMove, Sets, JointCommands, Motion
<1>5. CASE DispatchJog(b, cmd)
  BY <1>5, CommandType DEF DispatchJog, Sets, JointCommands, Motion
<1>6. CASE DispatchHome(b, cmd)
  BY <1>6, CommandType DEF DispatchHome, Sets, JointCommands, Motion
<1>7. QED
  BY <1>1, <1>2, <1>3, <1>4, <1>5, <1>6 DEF Dispatch

\* A latched board's joints stay at rest through its loop.
LEMMA BoardStepRests ==
  ASSUME BoardTypeOK, LatchedRests, BoardStep
  PROVE  LatchedRests'
<1>. USE DEF LatchedRests, Rests, JointsOf, BoardTypeOK
<1>1. ASSUME NEW b \in Boards, BoardRead(b)
      PROVE  LatchedRests'
  <2>1. Head(inbox[b]) \in CommandOf(b)
    BY <1>1, StreamType DEF BoardRead
  <2>2. QED
    BY <1>1, <2>1, DispatchRests DEF BoardRead
<1>2. ASSUME NEW b \in Boards, BoardWatchdog(b)
      PROVE  LatchedRests'
  BY <1>2 DEF BoardWatchdog, StopAll
<1>3. ASSUME NEW j \in Joints, RunJoint(j)
      PROVE  LatchedRests'
  <2>1. CASE MoveArrives(j) \/ JogAtLimit(j) \/ SeekFaults(j)
    BY <2>1 DEF MoveArrives, JogAtLimit, SeekFaults, Sets
  <2>2. CASE SeekHits(j)
    BY <2>2 DEF SeekHits, Sets
  <2>3. CASE BackoffEnds(j)
    BY <2>3 DEF BackoffEnds, Sets
  <2>4. QED
    BY <1>3, <2>1, <2>2, <2>3 DEF RunJoint
<1>4. CASE BoardTime
  BY <1>4 DEF BoardTime
<1>5. QED
  BY <1>1, <1>2, <1>3, <1>4 DEF BoardStep

\* estop sets a board's latch, set clears it, nothing else touches it.
LEMMA DispatchLatch ==
  ASSUME BoardTypeOK, NEW b \in Boards, NEW cmd, Dispatch(b, cmd)
  PROVE  /\ \A a \in Boards : a # b => estopped'[a] = estopped[a]
         /\ cmd.name = "estop" => estopped'[b]
         /\ cmd.name \notin {"estop", "set"} => estopped'[b] = estopped[b]
<1>. USE DEF BoardTypeOK
<1>1. CASE DispatchEstop(b, cmd)
  BY <1>1 DEF DispatchEstop
<1>2. CASE DispatchSet(b, cmd)
  BY <1>2 DEF DispatchSet
<1>3. CASE \/ DispatchEnable(b, cmd) \/ DispatchEffector(b, cmd) \/ DispatchRefused(b, cmd)
           \/ DispatchMove(b, cmd) \/ DispatchJog(b, cmd) \/ DispatchHome(b, cmd)
  BY <1>3 DEF DispatchEnable, DispatchEffector, DispatchRefused,
              DispatchMove, DispatchJog, DispatchHome, Motion, Moves
<1>4. QED
  BY <1>1, <1>2, <1>3 DEF Dispatch

\* What a board reads leaves every board that will be latched so.
LEMMA ReadLatching ==
  ASSUME BoardTypeOK, NEW b \in Boards, BoardRead(b),
         NEW a \in Boards, Latching(a)
  PROVE  Latching(a)'
<1>1. Dispatch(b, Head(inbox[b])) /\ inbox' = [inbox EXCEPT ![b] = Tail(@)]
  BY DEF BoardRead
<1>2. CASE a # b
  <2>1. inbox'[a] = inbox[a] /\ estopped'[a] = estopped[a]
    BY <1>1, <1>2, DispatchLatch DEF BoardTypeOK
  <2>2. QED
    BY <2>1 DEF Latching, At
<1>3. CASE a = b
  <2>. DEFINE s == inbox[b]
  <2>1. s \in Seq(Command) /\ s # <<>>
    BY DEF BoardTypeOK, BoardRead
  <2>2. inbox'[b] = Tail(s)
    BY <1>1 DEF BoardTypeOK
  <2>3. /\ 1 \in DOMAIN s /\ Head(s) = s[1]
        /\ \A i \in DOMAIN Tail(s) : i \in Nat /\ i + 1 \in DOMAIN s /\ Tail(s)[i] = s[i + 1]
        /\ \A i \in DOMAIN s : i \in Nat /\ (i # 1 => i - 1 \in DOMAIN Tail(s))
    BY <2>1
  <2>4. CASE estopped[b] /\ At(b, "set") = {}
    <3>1. Head(s).name # "set"
      BY <2>3, <2>4 DEF At
    <3>2. estopped'[b]
      BY <1>1, <2>4, <3>1, DispatchLatch
    <3>3. \A i \in DOMAIN Tail(s) : Tail(s)[i].name # "set"
      BY <2>3, <2>4 DEF At
    <3>4. QED
      BY <1>3, <2>2, <3>2, <3>3 DEF Latching, At
  <2>5. ASSUME NEW i \in At(b, "estop"), \A k \in At(b, "set") : k < i
        PROVE  Latching(b)'
    <3>0. i \in DOMAIN s /\ s[i].name = "estop" /\ i \in Nat
      BY <2>3 DEF At
    <3>1. CASE i = 1
      <4>1. estopped'[b]
        BY <1>1, <2>3, <3>0, <3>1, DispatchLatch
      <4>2. \A k \in DOMAIN Tail(s) : Tail(s)[k].name # "set"
        <5>1. SUFFICES ASSUME NEW k \in DOMAIN Tail(s), Tail(s)[k].name = "set"
                       PROVE  FALSE
          OBVIOUS
        <5>2. k + 1 \in At(b, "set") /\ k \in Nat
          BY <2>3, <5>1 DEF At
        <5>3. k + 1 < 1 /\ k >= 1
          BY <2>1, <2>5, <3>1, <5>1, <5>2
        <5>4. QED
          BY <5>2, <5>3
      <4>3. QED
        BY <2>2, <4>1, <4>2 DEF Latching, At
    <3>2. CASE i # 1
      <4>1. i - 1 \in DOMAIN Tail(s) /\ Tail(s)[i - 1].name = "estop"
        BY <2>3, <3>0, <3>2
      <4>2. \A k \in DOMAIN Tail(s) : Tail(s)[k].name = "set" => k < i - 1
        <5>1. SUFFICES ASSUME NEW k \in DOMAIN Tail(s), Tail(s)[k].name = "set"
                       PROVE  k < i - 1
          OBVIOUS
        <5>2. k + 1 \in At(b, "set") /\ k \in Nat
          BY <2>3, <5>1 DEF At
        <5>3. QED
          BY <2>5, <3>0, <5>2
      <4>3. QED
        BY <2>2, <4>1, <4>2 DEF Latching, At
    <3>3. QED
      BY <3>1, <3>2
  <2>6. QED
    BY <1>3, <2>4, <2>5 DEF Latching
<1>4. QED
  BY <1>2, <1>3

\* A frame other than set, written behind the others, changes no board's fate;
\* an estop frame decides it.
LEMMA DeliverLatching ==
  ASSUME BoardTypeOK, NEW job \in Job, Deliver(job)
  PROVE  /\ job.cmd.name # "set" => \A a \in Boards : Latching(a) => Latching(a)'
         /\ job.cmd.name = "estop" => Latching(job.board)'
<1>. DEFINE b == job.board
            s == inbox[b]
<1>1. b \in Boards /\ job.cmd \in Command /\ s \in Seq(Command)
  BY DEF Job, BoardTypeOK
<1>2. inbox'[b] = Append(s, job.cmd) /\ UNCHANGED estopped
  BY <1>1 DEF Deliver, BoardTypeOK
<1>3. \A a \in Boards : a # b => inbox'[a] = inbox[a]
  BY <1>1 DEF Deliver, BoardTypeOK
<1>. DEFINE t == Append(s, job.cmd)
<1>4. /\ DOMAIN s = 1 .. Len(s) /\ Len(s) \in Nat /\ DOMAIN t = 1 .. Len(s) + 1
      /\ \A i \in 1 .. Len(s) : t[i] = s[i]
      /\ t[Len(s) + 1] = job.cmd
  BY <1>1
<1>5. ASSUME job.cmd.name # "set", NEW a \in Boards, Latching(a)
      PROVE  Latching(a)'
  <2>1. CASE a # b
    <3>1. inbox'[a] = inbox[a]
      BY <1>3, <2>1
    <3>2. QED
      BY <1>2, <1>5, <3>1 DEF Latching, At
  <2>2. CASE a = b
    <3>1. \A k \in DOMAIN t : t[k].name = "set" => k \in At(b, "set")
      BY <1>4, <1>5 DEF At
    <3>2. \A i \in At(b, "estop") : i \in DOMAIN t /\ t[i].name = "estop"
      BY <1>4 DEF At
    <3>3. CASE estopped[b] /\ At(b, "set") = {}
      BY <1>2, <2>2, <3>1, <3>3 DEF Latching, At
    <3>4. ASSUME NEW i \in At(b, "estop"), \A k \in At(b, "set") : k < i
          PROVE  Latching(a)'
      BY <1>2, <2>2, <3>1, <3>2, <3>4 DEF Latching, At
    <3>5. QED
      BY <1>5, <2>2, <3>3, <3>4 DEF Latching
  <2>3. QED
    BY <2>1, <2>2
<1>6. ASSUME job.cmd.name = "estop"
      PROVE  Latching(b)'
  <2>1. Len(s) + 1 \in DOMAIN t /\ t[Len(s) + 1].name = "estop"
    BY <1>4, <1>6
  <2>2. \A k \in DOMAIN t : t[k].name = "set" => k < Len(s) + 1
    BY <1>4, <1>6
  <2>3. QED
    BY <1>2, <2>1, <2>2 DEF Latching, At
<1>7. QED
  BY <1>5, <1>6

\* A board's fate depends on its stream and its latch only.
LEMMA LatchingKept ==
  ASSUME UNCHANGED <<inbox, estopped>>, NEW b \in Boards, Latching(b)
  PROVE  Latching(b)'
  BY DEF Latching, At

\* A step that leaves the boards' streams and latches alone holds no more.
LEMMA LatchingsKept ==
  ASSUME HostTypeOK, UNCHANGED <<inbox, estopped>>, held' \subseteq held, Latchings
  PROVE  Latchings'
<1>1. \A b \in held : Latching(b)'
  BY LatchingKept DEF HostTypeOK, Latchings
<1>2. QED
  BY <1>1 DEF Latchings

\* A step of no handler and no run changes nothing about the frames in hand.
LEMMA FramesKept ==
  ASSUME UNCHANGED <<call, run>>, FramesMatch
  PROVE  FramesMatch'
  BY DEF FramesMatch, Matches, NoSet

\* A step of no handler keeps a clear alone, if it releases no less.
LEMMA ClearsKept ==
  ASSUME UNCHANGED call, held' \subseteq held, ClearsAlone
  PROVE  ClearsAlone'
  BY DEF ClearsAlone, Clearing

\* A handler whose new state matches keeps the frames in hand matched.
LEMMA HandlerBecomes ==
  ASSUME HostTypeOK, FramesMatch, UNCHANGED run,
         NEW c \in Clients, NEW x, Matches(x), call' = [call EXCEPT ![c] = x]
  PROVE  FramesMatch'
<1>1. \A d \in Clients : call'[d] = IF d = c THEN x ELSE call[d]
  BY DEF HostTypeOK
<1>2. \A d \in Clients : Matches(call'[d])
  BY <1>1 DEF FramesMatch
<1>3. QED
  BY <1>2 DEF FramesMatch, Matches, NoSet

\* So does a run without a set frame in hand.
LEMMA RunHolds ==
  ASSUME ProgramTypeOK, FramesMatch, UNCHANGED call,
         NEW r \in Runs, NEW x, NoSet(x.todo), run' = [run EXCEPT ![r] = x]
  PROVE  FramesMatch'
<1>1. \A q \in Runs : run'[q] = IF q = r THEN x ELSE run[q]
  BY DEF ProgramTypeOK
<1>2. \A q \in Runs : NoSet(run'[q].todo)
  BY <1>1 DEF FramesMatch
<1>3. QED
  BY <1>2 DEF FramesMatch, Matches, NoSet

\* What is left of a list after its first frame was in the list.
LEMMA TailFrames ==
  ASSUME NEW todo \in Seq(Job), todo # <<>>
  PROVE  /\ Head(todo) \in Job /\ 1 \in DOMAIN todo /\ Head(todo) = todo[1]
         /\ Tail(todo) \in Seq(Job)
         /\ \A i \in DOMAIN Tail(todo) : /\ i + 1 \in DOMAIN todo
                                         /\ Tail(todo)[i] = todo[i + 1]
  OBVIOUS

\* What the frames in hand say, kept by a handler that begins: a request other
\* than clear_estop brings no set frame, and beside a clear it is not alone.
LEMMA BeginKeeps ==
  ASSUME HostTypeOK, FramesMatch, ClearsAlone,
         NEW c \in Clients, call[c].request = "none",
         NEW request \in AllRequests, request # "clear_estop",
         NEW joints, NEW todo, Begin(c, request, joints, todo),
         \A i \in DOMAIN todo : /\ todo[i].cmd.name # "set"
                                /\ request = "estop" => todo[i].cmd.name = "estop",
         UNCHANGED <<held, run>>
  PROVE  FramesMatch' /\ ClearsAlone'
<1>1. \A d \in Clients : d # c => call'[d] = call[d]
  BY DEF Begin, HostTypeOK
<1>2. call'[c].request = request /\ call'[c].todo = todo /\ call'[c].alone = ~Clearing
  BY DEF Begin, HostTypeOK
<1>3. FramesMatch'
  <2>. DEFINE x == [request |-> request, joints |-> joints, todo |-> todo,
                    alone |-> ~Clearing]
  <2>1. Matches(x)
    BY DEF Matches
  <2>2. call' = [call EXCEPT ![c] = x]
    BY DEF Begin
  <2>. HIDE DEF x
  <2>3. QED
    BY <2>1, <2>2, HandlerBecomes
<1>4. Clearing' => Clearing
  BY <1>1, <1>2 DEF Clearing
<1>5. ClearsAlone'
  <2>1. SUFFICES ASSUME Clearing'
                 PROVE  /\ held' = {}
                        /\ \A d \in Clients : call'[d].request = "estop" => ~call'[d].alone
    BY DEF ClearsAlone
  <2>2. Clearing /\ held = {}
        /\ \A d \in Clients : call[d].request = "estop" => ~call[d].alone
    BY <1>4, <2>1 DEF ClearsAlone
  <2>3. QED
    BY <1>1, <1>2, <2>2
<1>6. QED
  BY <1>3, <1>5

\* A request to clear releases every board and every handler's claim.
LEMMA ClearKeeps ==
  ASSUME HostTypeOK, FramesMatch, NEW c \in Clients, AskClear(c), UNCHANGED run
  PROVE  FramesMatch' /\ ClearsAlone' /\ held' = {}
<1>1. /\ call'[c].request = "clear_estop"
      /\ \A d \in Clients : d # c => /\ call'[d].request = call[d].request
                                      /\ call'[d].todo = call[d].todo
                                      /\ call'[d].alone = FALSE
  BY DEF AskClear, HostTypeOK, Call, Idle
<1>2. held' = {}
  BY DEF AskClear
<1>3. FramesMatch'
  BY <1>1 DEF FramesMatch, Matches, NoSet
<1>4. ClearsAlone'
  BY <1>1, <1>2 DEF ClearsAlone
<1>5. QED
  BY <1>2, <1>3, <1>4

\* Every request keeps what the frames in hand say.
LEMMA AskKeeps ==
  ASSUME HostTypeOK, FramesMatch, ClearsAlone, NEW c \in Clients,
         Ask(c) \/ AskEstop(c), UNCHANGED run
  PROVE  FramesMatch' /\ ClearsAlone' /\ (held' = held \/ held' = {})
<1>. USE DEF Free, AllRequests
<1>0. CASE AskEstop(c)
  <2>1. \A i \in DOMAIN Broadcast("estop", TRUE) :
           Broadcast("estop", TRUE)[i].cmd.name = "estop"
    BY DEF Broadcast, ToBoard
  <2>2. QED
    BY <1>0, <2>1, BeginKeeps DEF AskEstop
<1>1. CASE AskClear(c)
  BY <1>1, ClearKeeps
<1>2. ASSUME NEW on \in BOOLEAN, AskEnable(c, on)
      PROVE  FramesMatch' /\ ClearsAlone' /\ held' = held
  <2>1. \A i \in DOMAIN Broadcast("enable", on) :
           Broadcast("enable", on)[i].cmd.name = "enable"
    BY DEF Broadcast, ToBoard
  <2>2. QED
    BY <1>2, <2>1, BeginKeeps DEF AskEnable
<1>3. ASSUME NEW on \in BOOLEAN, NEW request \in {"grip", "tool"},
             AskEffector(c, request, on)
      PROVE  FramesMatch' /\ ClearsAlone' /\ held' = held
  <2>. DEFINE todo == <<ToBoard(ToolBoard, request, on)>>
  <2>1. \A i \in DOMAIN todo : todo[i].cmd.name = request
    BY DEF ToBoard
  <2>2. Begin(c, request, {}, todo) /\ call[c].request = "none" /\ held' = held
    BY <1>3 DEF AskEffector
  <2>. HIDE DEF todo
  <2>3. QED
    BY <2>1, <2>2, BeginKeeps
<1>4. ASSUME NEW j \in Joints, NEW on \in BOOLEAN,
             NEW request \in Motion \cup {"jstop"},
             call[c].request = "none", held' = held,
             Begin(c, request, {j}, <<ToJoint(j, request, on)>>)
      PROVE  FramesMatch' /\ ClearsAlone' /\ held' = held
  <2>. DEFINE todo == <<ToJoint(j, request, on)>>
  <2>1. \A i \in DOMAIN todo : todo[i].cmd.name = request
    BY DEF ToJoint
  <2>2. request \in AllRequests /\ request \notin {"set", "estop", "clear_estop"}
    BY DEF Motion, Moves
  <2>3. Begin(c, request, {j}, todo)
    BY <1>4
  <2>. HIDE DEF todo
  <2>4. QED
    BY <1>4, <2>1, <2>2, <2>3, BeginKeeps
<1>5. ASSUME NEW j \in Joints,
             \/ \E on \in BOOLEAN : AskJog(c, j, on)
             \/ AskStop(c, j)
             \/ \E m \in Moves : AskAngle(c, m, j)
             \/ AskHome(c, j)
      PROVE  FramesMatch' /\ ClearsAlone' /\ held' = held
  BY <1>4, <1>5 DEF AskJog, AskStop, AskAngle, AskHome, Motion
<1>6. ASSUME NEW order \in Orders, AskMove(c, order)
      PROVE  FramesMatch' /\ ClearsAlone' /\ held' = held
  <2>1. \A i \in DOMAIN MoveTo(order) : MoveTo(order)[i].cmd.name = "jmove"
    BY DEF MoveTo, ToJoint
  <2>2. QED
    BY <1>6, <2>1, BeginKeeps DEF AskMove
<1>7. QED
  BY <1>0, <1>1, <1>2, <1>3, <1>5, <1>6 DEF Ask

\* A handler that ends keeps what the frames in hand say.
LEMMA LeaveKeeps ==
  ASSUME HostTypeOK, FramesMatch, ClearsAlone, NEW c \in Clients,
         call' = [call EXCEPT ![c] = Idle], UNCHANGED <<held, run>>
  PROVE  FramesMatch' /\ ClearsAlone'
<1>1. /\ call'[c] = Idle
      /\ \A d \in Clients : d # c => call'[d] = call[d]
  BY DEF HostTypeOK
<1>2. Idle.request = "none" /\ Idle.todo = <<>>
  BY DEF Idle
<1>3. FramesMatch'
  <2>1. Matches(Idle)
    BY <1>2 DEF Matches
  <2>2. QED
    BY <2>1, HandlerBecomes
<1>4. Clearing' => Clearing
  BY <1>1, <1>2 DEF Clearing
<1>5. ClearsAlone'
  BY <1>1, <1>2, <1>4 DEF ClearsAlone
<1>6. QED
  BY <1>3, <1>5

\* A frame sent by a handler: a set only while no board is held, and an estop
\* makes its board one that will be latched.
LEMMA SendKeeps ==
  ASSUME Types, EstopInv, NEW c \in Clients, SendNext(c), UNCHANGED run
  PROVE  FramesMatch' /\ ClearsAlone' /\ Latchings'
<1>. DEFINE todo == call[c].todo
            job == Head(todo)
<1>. USE DEF Types, ArmTypeOK, EstopInv
<1>0. call[c] \in Call /\ todo \in Seq(Job) /\ todo # <<>>
  BY DEF HostTypeOK, Call, SendNext
<1>1. job \in Job /\ 1 \in DOMAIN todo /\ job = todo[1]
  BY <1>0, TailFrames
<1>2. Matches(call[c])
  BY DEF FramesMatch
<1>3. /\ call'[c].request = call[c].request /\ call'[c].todo = Tail(todo)
      /\ call'[c].alone = call[c].alone
      /\ \A d \in Clients : d # c => call'[d] = call[d]
  BY <1>0 DEF SendNext, HostTypeOK, Call
<1>4. FramesMatch'
  <2>. DEFINE x == [call[c] EXCEPT !.todo = Tail(@)]
  <2>1. x.request = call[c].request /\ x.todo = Tail(todo)
    BY <1>0 DEF Call
  <2>2. Matches(x)
    BY <1>0, <1>2, <2>1, TailFrames, SMTT(30) DEF Matches
  <2>3. call' = [call EXCEPT ![c] = x]
    BY DEF SendNext, HostTypeOK
  <2>. HIDE DEF x
  <2>4. QED
    BY <2>2, <2>3, HandlerBecomes
<1>5. Clearing' <=> Clearing
  BY <1>3 DEF Clearing
<1>6. /\ call[c].request = "estop" /\ call[c].alone => held' = held \cup {job.board}
      /\ ~(call[c].request = "estop" /\ call[c].alone) => held' = held
  BY DEF SendNext
<1>7. ClearsAlone'
  BY <1>3, <1>5, <1>6 DEF ClearsAlone
<1>8. Deliver(job)
  BY DEF SendNext
<1>9. Latchings'
  <2>1. CASE job.cmd.name = "set"
    <3>1. call[c].request = "clear_estop"
      BY <1>1, <1>2, <2>1 DEF Matches
    <3>2. Clearing /\ held' = held
      BY <1>6, <3>1 DEF Clearing
    <3>3. QED
      BY <3>2 DEF ClearsAlone, Latchings
  <2>2. CASE job.cmd.name # "set"
    <3>1. \A a \in Boards : Latching(a) => Latching(a)'
      BY <1>1, <1>8, <2>2, DeliverLatching
    <3>2. call[c].request = "estop" => job.cmd.name = "estop"
      BY <1>1, <1>2 DEF Matches
    <3>3. PICK b \in Boards : b = job.board /\ (call[c].request = "estop" => Latching(b)')
      BY <1>1, <1>8, <3>2, DeliverLatching DEF Job
    <3>4. \A a \in held : Latching(a)'
      BY <3>1 DEF HostTypeOK, Latchings
    <3>5. \A a \in held' : Latching(a)'
      BY <1>6, <3>3, <3>4
    <3>6. QED
      BY <3>5 DEF Latchings
  <2>3. QED
    BY <2>1, <2>2
<1>10. QED
  BY <1>4, <1>7, <1>9

\* A run has no set frame in hand, and what it sends latches nothing loose.
LEMMA RunKeeps ==
  ASSUME Types, EstopInv, NEW r \in Runs, RunRequest(r) \/ RunStep(r)
  PROVE  FramesMatch' /\ ClearsAlone' /\ Latchings'
<1>. USE DEF Types, ArmTypeOK, EstopInv
<1>0. run[r] \in Run
  BY DEF ProgramTypeOK
<1>1. UNCHANGED <<call, held>>
  BY DEF RunRequest, RunStep, RunNotFound, RunStart, ListFails, ListEnds, RunStops,
     RunCompletes, StepRefused, StepBegins, Frame, RunSends,
     RunSendFails, StepEnds, UnchangedHost, hostVars, UnchangedButAbort
<1>2. ClearsAlone'
  BY <1>1 DEF ClearsAlone, Clearing
<1>3. NoSet(run[r].todo)
  BY DEF FramesMatch
<1>4. ASSUME NEW phase, Goes(r, phase)
      PROVE  FramesMatch'
  <2>1. run' = [run EXCEPT ![r] = [run[r] EXCEPT !.at = phase]]
    BY <1>4 DEF Goes, ProgramTypeOK
  <2>2. [run[r] EXCEPT !.at = phase].todo = run[r].todo
    BY <1>0 DEF Run
  <2>3. QED
    BY <1>1, <1>3, <2>1, <2>2, RunHolds
<1>5. ASSUME NEW outcome, Ends(r, outcome)
      PROVE  FramesMatch'
  <2>1. NoSet(Off.todo)
    BY DEF NoSet, Off
  <2>2. run' = [run EXCEPT ![r] = Off]
    BY <1>5 DEF Ends
  <2>3. QED
    BY <1>1, <2>1, <2>2, RunHolds
<1>6. CASE RunSends(r)
  <2>. DEFINE todo == run[r].todo
              x == [run[r] EXCEPT !.todo = Tail(@)]
  <2>1. todo \in Seq(Job) /\ todo # <<>>
    BY <1>0, <1>6 DEF Run, RunSends
  <2>2. NoSet(Tail(todo)) /\ Head(todo) \in Job /\ Head(todo).cmd.name # "set"
    BY <1>3, <2>1, TailFrames DEF NoSet
  <2>3. run' = [run EXCEPT ![r] = x] /\ x.todo = Tail(todo)
    BY <1>0, <1>6 DEF RunSends, ProgramTypeOK, Run
  <2>4. FramesMatch'
    BY <1>1, <2>2, <2>3, RunHolds
  <2>5. Deliver(Head(todo))
    BY <1>6 DEF RunSends
  <2>6. \A a \in Boards : Latching(a) => Latching(a)'
    BY <2>2, <2>5, DeliverLatching
  <2>7. Latchings'
    BY <1>1, <2>6 DEF Latchings, HostTypeOK
  <2>8. QED
    BY <1>2, <2>4, <2>7
<1>7. CASE \/ RunRequest(r) \/ RunNotFound(r) \/ RunStart(r) \/ ListFails(r) \/ ListEnds(r)
           \/ RunStops(r) \/ RunCompletes(r) \/ StepRefused(r) \/ StepBegins(r)
           \/ Frame(r) \/ RunSendFails(r) \/ StepEnds(r)
  <2>1. UNCHANGED <<inbox, estopped>>
    BY <1>7 DEF RunRequest, RunNotFound, RunStart, ListFails, ListEnds, RunStops,
       RunCompletes, StepRefused, StepBegins, Frame, RunSendFails, StepEnds,
       UnchangedHost, UnchangedButAbort, boardVars
  <2>2. Latchings'
    BY <1>1, <2>1, LatchingsKept
  <2>3. CASE RunRequest(r) \/ RunNotFound(r) \/ RunStart(r) \/ ListFails(r) \/ ListEnds(r)
    BY <1>2, <2>2, <1>4, <2>3 DEF RunRequest, RunNotFound, RunStart, ListFails, ListEnds
  <2>4. CASE RunStops(r) \/ RunCompletes(r) \/ StepRefused(r) \/ RunSendFails(r)
    BY <1>2, <2>2, <1>5, <2>4 DEF RunStops, RunCompletes, StepRefused, RunSendFails
  <2>5. CASE StepBegins(r)
    <3>. DEFINE kind == Program[run[r].step]
                frames == IF kind = "move" THEN Frames ELSE 0
                todo == IF kind = "tool"
                        THEN <<ToBoard(ToolBoard, "tool", TRUE)>> ELSE <<>>
                x == [run[r] EXCEPT !.at = kind, !.frames = frames, !.todo = todo]
    <3>1. run' = [run EXCEPT ![r] = x]
      BY <2>5 DEF StepBegins, ProgramTypeOK
    <3>2. NoSet(todo)
      BY DEF NoSet, ToBoard
    <3>. HIDE DEF kind, frames, todo
    <3>3. x.todo = todo
      BY <1>0 DEF Run
    <3>. HIDE DEF x
    <3>4. QED
      BY <1>1, <1>2, <2>2, <3>1, <3>2, <3>3, RunHolds
  <2>6. CASE Frame(r)
    <3>1. PICK order \in Orders :
            run' = [run EXCEPT ![r].frames = @ - 1, ![r].todo = MoveTo(order)]
      BY <2>6 DEF Frame
    <3>. DEFINE x == [run[r] EXCEPT !.frames = @ - 1, !.todo = MoveTo(order)]
    <3>2. run' = [run EXCEPT ![r] = x] /\ x.todo = MoveTo(order)
      BY <1>0, <3>1 DEF ProgramTypeOK, Run
    <3>3. NoSet(MoveTo(order))
      BY DEF NoSet, MoveTo, ToJoint
    <3>. HIDE DEF x
    <3>4. QED
      BY <1>1, <1>2, <2>2, <3>2, <3>3, RunHolds
  <2>7. CASE StepEnds(r)
    <3>. DEFINE x == [Off EXCEPT !.at = "ready", !.step = run[r].step + 1]
    <3>1. NoSet(x.todo)
      BY DEF NoSet, Off
    <3>2. run' = [run EXCEPT ![r] = x]
      BY <2>7 DEF StepEnds
    <3>. HIDE DEF x
    <3>3. QED
      BY <1>1, <1>2, <2>2, <3>1, <3>2, RunHolds
  <2>8. QED
    BY <1>2, <1>7, <2>2, <2>3, <2>4, <2>5, <2>6, <2>7
<1>8. QED
  BY <1>6, <1>7 DEF RunStep

\* Every step of the arm keeps the invariant.
LEMMA NextEstopInv ==
  ASSUME Types, EstopInv, [ArmNext]_armVars
  PROVE  EstopInv'
<1>. USE DEF EstopInv
<1>. HostTypeOK /\ BoardTypeOK
  BY DEF Types, ArmTypeOK
<1>1. CASE Operator \/ HostStep
  <2>0. LatchedRests'
    BY <1>1, AgentKeepsJoints DEF LatchedRests, Rests
  <2>1. ASSUME NEW c \in Clients, Ask(c) \/ AskEstop(c), UNCHANGED <<boardVars, run>>
        PROVE  FramesMatch' /\ ClearsAlone' /\ Latchings'
    <3>1. FramesMatch' /\ ClearsAlone' /\ (held' = held \/ held' = {})
      BY <2>1, AskKeeps
    <3>2. QED
      BY <2>1, <3>1, LatchingsKept DEF boardVars
  <2>2. CASE StopProgram
    <3>1. UNCHANGED <<call, held, run, inbox, estopped>>
      BY <2>2 DEF StopProgram, UnchangedButAbort, boardVars
    <3>2. QED
      BY <2>0, <3>1, FramesKept, ClearsKept, LatchingsKept
  <2>3. ASSUME NEW c \in Clients, SendNext(c), UNCHANGED programVars
        PROVE  FramesMatch' /\ ClearsAlone' /\ Latchings'
    BY <2>3, SendKeeps DEF programVars
  <2>4. ASSUME NEW c \in Clients, SendFails(c) \/ Ack(c), UNCHANGED programVars
        PROVE  FramesMatch' /\ ClearsAlone' /\ Latchings'
    <3>1. /\ call' = [call EXCEPT ![c] = Idle]
          /\ UNCHANGED <<held, run, inbox, estopped>>
      BY <2>4 DEF SendFails, Ack, boardVars, programVars
    <3>2. QED
      BY <3>1, LeaveKeeps, LatchingsKept
  <2>5. ASSUME NEW b \in Boards, Drain(b) \/ PortFails(b), UNCHANGED programVars
        PROVE  FramesMatch' /\ ClearsAlone' /\ Latchings'
    <3>1. UNCHANGED <<call, held, run, inbox, estopped>>
      BY <2>5 DEF Drain, PortFails, programVars, boardVars
    <3>2. QED
      BY <3>1, FramesKept, ClearsKept, LatchingsKept
  <2>6. CASE AgentRestart
    <3>1. Idle.request = "none" /\ Idle.todo = <<>> /\ Off.todo = <<>>
      BY DEF Idle, Off
    <3>2. FramesMatch' /\ ~Clearing'
      BY <2>6, <3>1 DEF AgentRestart, FramesMatch, Matches, NoSet, Clearing
    <3>3. UNCHANGED <<held, inbox, estopped>>
      BY <2>6 DEF AgentRestart, boardVars
    <3>4. QED
      BY <2>0, <3>2, <3>3, LatchingsKept DEF ClearsAlone
  <2>7. QED
    BY <1>1, <2>0, <2>1, <2>2, <2>3, <2>4, <2>5, <2>6, RunKeeps
       DEF Operator, HostStep, Estop, programVars
<1>2. CASE BoardStep /\ AgentWaits
  <2>1. LatchedRests'
    BY <1>2, BoardStepRests
  <2>2. FramesMatch' /\ ClearsAlone' /\ held' = held
    BY <1>2, FramesKept, ClearsKept DEF AgentWaits, hostVars, programVars
  <2>3. ASSUME NEW b \in Boards, BoardRead(b)
        PROVE  EstopInv'
    <3>1. \A a \in Boards : Latching(a) => Latching(a)'
      BY <2>3, ReadLatching
    <3>2. QED
      BY <2>1, <2>2, <3>1 DEF Latchings, HostTypeOK
  <2>4. CASE \/ \E b \in Boards : BoardWatchdog(b)
             \/ \E j \in Joints : RunJoint(j)
             \/ BoardTime
    <3>1. UNCHANGED <<inbox, estopped>>
      BY <2>4 DEF BoardWatchdog, RunJoint, MoveArrives, JogAtLimit, SeekHits,
                  SeekFaults, BackoffEnds, BoardTime
    <3>2. QED
      BY <2>1, <2>2, <3>1, LatchingsKept
  <2>5. QED
    BY <1>2, <2>1, <2>2, <2>3, <2>4 DEF BoardStep
<1>3. ASSUME NEW b \in Boards, Reboot(b)
      PROVE  EstopInv'
  <2>1. LatchedRests'
    BY <1>3 DEF Reboot, BoardReboot, StopAll, LatchedRests, Rests, JointsOf, BoardTypeOK
  <2>2. FramesMatch' /\ ClearsAlone'
    BY <1>3, FramesKept, ClearsKept DEF Reboot, programVars
  <2>3. \A a \in Boards : a # b => inbox'[a] = inbox[a] /\ estopped'[a] = estopped[a]
    BY <1>3 DEF Reboot, BoardReboot, BoardTypeOK
  <2>4. held' = held \ {b} /\ held \subseteq Boards
    BY <1>3 DEF Reboot, HostTypeOK
  <2>5. \A a \in held' : Latching(a)'
    BY <2>3, <2>4 DEF Latchings, Latching, At
  <2>6. QED
    BY <2>1, <2>2, <2>5 DEF Latchings
<1>4. CASE UNCHANGED armVars
  <2>1. UNCHANGED <<call, held, run, inbox, estopped, jmode>>
    BY <1>4 DEF armVars, boardVars, hostVars, programVars
  <2>2. QED
    BY <2>1, FramesKept, ClearsKept, LatchingsKept
       DEF LatchedRests, Rests
<1>5. QED
  BY <1>1, <1>2, <1>3, <1>4 DEF ArmNext

\* An e-stop sent to a board holds until a restart of the board or a request to
\* clear: the board ends latched, and while latched its joints are at rest
\* (EstopHolds).
THEOREM ArmEstopHolds == ArmSpec => []EstopHolds
<1>1. ArmInit => Types /\ EstopInv
  <2>1. Idle.request = "none" /\ Idle.todo = <<>> /\ Off.todo = <<>>
    BY DEF Idle, Off
  <2>2. ArmInit => LatchedRests /\ Latchings
    BY DEF ArmInit, BoardInit, HostInit, LatchedRests, Latchings
  <2>3. ArmInit => FramesMatch /\ ClearsAlone
    BY <2>1 DEF ArmInit, HostInit, ProgramInit, FramesMatch, Matches, NoSet,
                ClearsAlone, Clearing
  <2>4. QED
    BY <2>2, <2>3, InitTypes DEF EstopInv
<1>2. Types /\ EstopInv /\ [ArmNext]_armVars => Types' /\ EstopInv'
  BY NextTypes, NextEstopInv
<1>3. Types /\ EstopInv => EstopHolds
  BY DEF Types, ArmTypeOK, HostTypeOK, EstopInv, LatchedRests, Latchings, EstopHolds
<1>4. QED
  BY <1>1, <1>2, <1>3, PTL DEF ArmSpec

-----------------------------------------------------------------------------
(* A run that was interrupted *)

\* No request is served, and no program runs, beside another.
OneRunAtATime ==
  \A r, s \in Runs : run[r].at # "off" /\ run[s].at # "off" => r = s

\* An interrupted run is under way with the abort flag set, and only a run
\* inside a step has frames in hand.
HaltInv ==
  /\ \A r \in interrupted : Task(r) /\ abort
  /\ \A r \in Runs : run[r].todo # <<>> => run[r].at \in {"move", "tool"}

Halts == HaltInv' /\ \A r \in interrupted : ~Proceeds(r)

\* A step that touches neither the runs nor the flag lets no run proceed.
LEMMA RunsStay ==
  ASSUME Types, HaltInv, UNCHANGED <<run, interrupted, abort>>
  PROVE  Halts
<1>1. \A r \in interrupted : r \in Runs /\ run[r] \in Run
  BY DEF Types, ArmTypeOK, ProgramTypeOK
<1>2. \A r \in Runs : run[r].frames \in Nat
  BY DEF Types, ArmTypeOK, ProgramTypeOK, Run, ProgramAssumption
<1>3. \A r \in interrupted : ~Proceeds(r)
  BY <1>1, <1>2 DEF Proceeds
<1>4. QED
  BY <1>3 DEF Halts, HaltInv, Task

\* A stop or an e-stop sets the flag for every run it finds.
LEMMA StopHalts ==
  ASSUME Types, HaltInv, abort' = TRUE, Interrupt, run' = run
  PROVE  Halts
<1>1. \A r \in Runs : run[r].frames \in Nat
  BY DEF Types, ArmTypeOK, ProgramTypeOK, Run, ProgramAssumption
<1>2. \A r \in interrupted : r \in Runs /\ ~Proceeds(r)
  BY <1>1 DEF Types, ArmTypeOK, ProgramTypeOK, Proceeds
<1>3. HaltInv'
  BY DEF HaltInv, Interrupt, Task
<1>4. QED
  BY <1>2, <1>3 DEF Halts

\* A run that ends takes its interruption and the flag along; no other run
\* is under way, so none loses the flag it was stopped by.
LEMMA EndHalts ==
  ASSUME Types, HaltInv, OneRunAtATime, NEW s \in Runs, run[s].at # "off",
         NEW outcome, Ends(s, outcome)
  PROVE  Halts
<1>1. run' = [run EXCEPT ![s] = Off] /\ interrupted' = interrupted \ {s}
  BY DEF Ends
<1>2. /\ run'[s] = Off /\ \A r \in Runs : r # s => run'[r] = run[r]
      /\ \A r \in interrupted : r \in Runs
  BY <1>1 DEF Types, ArmTypeOK, ProgramTypeOK
<1>3. \A r \in interrupted : r = s
  BY <1>2 DEF HaltInv, OneRunAtATime, Task
<1>4. Off.at = "off" /\ Off.todo = <<>>
  BY DEF Off
<1>5. QED
  BY <1>1, <1>2, <1>3, <1>4 DEF Halts, HaltInv, Proceeds

\* A run that goes on without a further frame or step proceeds no further.
LEMMA TurnHalts ==
  ASSUME Types, HaltInv, NEW s \in Runs, NEW x \in Run,
         run' = [run EXCEPT ![s] = x], UNCHANGED <<interrupted, abort>>,
         Task(s) => x.at \notin {"off", "loading"},
         x.todo # <<>> => x.at \in {"move", "tool"},
         s \in interrupted => \/ x.at \in {"listing", "ready"}
                              \/ x.at = run[s].at /\ x.frames = run[s].frames
  PROVE  Halts
<1>1. /\ run'[s] = x /\ \A r \in Runs : r # s => run'[r] = run[r]
      /\ \A r \in interrupted : r \in Runs /\ run[r].frames \in Nat
  BY DEF Types, ArmTypeOK, ProgramTypeOK, Run, ProgramAssumption
<1>2. HaltInv'
  BY <1>1 DEF HaltInv, Task
<1>3. ASSUME NEW r \in interrupted PROVE ~Proceeds(r)
  <2>1. CASE r = s
    BY <1>1, <1>3, <2>1 DEF Proceeds
  <2>2. CASE r # s
    BY <1>1, <1>3, <2>2 DEF Proceeds
  <2>3. QED
    BY <2>1, <2>2
<1>4. QED
  BY <1>2, <1>3 DEF Halts

\* A run begins a step or a frame only while nobody has set the flag; what
\* clears the flag is the end of the run or the start of the only other.
LEMMA RunHalts ==
  ASSUME Types, HaltInv, OneRunAtATime, NEW s \in Runs, RunStep(s) \/ RunRequest(s)
  PROVE  Halts
<1>1. /\ run[s] \in Run /\ run \in [Runs -> Run] /\ interrupted \subseteq Runs
      /\ run[s].at \in Phase
  BY DEF Types, ArmTypeOK, ProgramTypeOK, Run
<1>2. ASSUME NEW phase \in Phase, Goes(s, phase)
      PROVE  \E x \in Run : /\ run' = [run EXCEPT ![s] = x] /\ x.at = phase
                            /\ x.todo = run[s].todo
  <2>. DEFINE x == [run[s] EXCEPT !.at = phase]
  <2>1. x \in Run /\ x.at = phase /\ x.todo = run[s].todo
    BY <1>1 DEF Run
  <2>2. run' = [run EXCEPT ![s] = x]
    BY <1>1, <1>2 DEF Goes
  <2>3. QED
    BY <2>1, <2>2
<1>3. CASE RunRequest(s) \/ RunNotFound(s) \/ ListEnds(s)
  <2>1. \E phase \in {"loading", "off", "ready"} :
          /\ Goes(s, phase) /\ (Task(s) => phase = "ready")
    BY <1>3 DEF RunRequest, RunNotFound, ListEnds, Task
  <2>2. UNCHANGED <<interrupted, abort>> /\ run[s].todo = <<>>
    BY <1>1, <1>3 DEF RunRequest, RunNotFound, ListEnds, UnchangedHost, hostVars, HaltInv
  <2>3. PICK x \in Run : /\ run' = [run EXCEPT ![s] = x] /\ x.todo = <<>>
                         /\ x.at \in {"loading", "off", "ready"}
                         /\ Task(s) => x.at = "ready"
    BY <1>2, <2>1, <2>2 DEF Phase
  <2>4. s \in interrupted => Task(s)
    BY DEF HaltInv
  <2>5. QED
    BY <2>2, <2>3, <2>4, TurnHalts
<1>4. CASE RunStart(s)
  <2>1. interrupted = {}
    BY <1>1, <1>4 DEF RunStart, HaltInv, OneRunAtATime, Task
  <2>2. PICK x \in Run : run' = [run EXCEPT ![s] = x] /\ x.todo = run[s].todo
    BY <1>2, <1>4 DEF RunStart, Phase
  <2>3. run[s].todo = <<>> /\ interrupted' = interrupted
    BY <1>4 DEF RunStart, HaltInv
  <2>4. QED
    BY <1>1, <2>1, <2>2, <2>3 DEF Halts, HaltInv
<1>5. CASE ListFails(s)
  <2>1. /\ run[s].at = "listing" /\ run[s].todo = <<>> /\ abort' = abort
        /\ interrupted' = interrupted \ {s}
    BY <1>5 DEF ListFails, UnchangedHost, hostVars, HaltInv
  <2>2. PICK x \in Run : run' = [run EXCEPT ![s] = x] /\ x.at = "off" /\ x.todo = run[s].todo
    BY <1>2, <1>5 DEF ListFails, Phase
  <2>3. interrupted \subseteq {s}
    BY <1>1, <2>1 DEF HaltInv, OneRunAtATime, Task
  <2>4. QED
    BY <1>1, <2>1, <2>2, <2>3 DEF Halts, HaltInv, Proceeds
<1>6. CASE RunStops(s) \/ RunCompletes(s) \/ StepRefused(s) \/ RunSendFails(s)
  <2>1. run[s].at # "off" /\ \E outcome : Ends(s, outcome)
    BY <1>6 DEF RunStops, RunCompletes, StepRefused, RunSendFails, HaltInv
  <2>2. QED
    BY <2>1, EndHalts
<1>7. CASE StepBegins(s) \/ Frame(s)
  <2>1. ~abort /\ interrupted = {}
    BY <1>7 DEF StepBegins, Frame, Aborted, HaltInv
  <2>2. /\ UNCHANGED <<interrupted, abort>>
        /\ \A r \in Runs : r # s => run'[r] = run[r]
    BY <1>1, <1>7 DEF StepBegins, Frame, UnchangedHost, hostVars
  <2>3. run'[s].todo # <<>> => run'[s].at \in {"move", "tool"}
    <3>1. CASE Frame(s)
      BY <1>1, <3>1 DEF Frame, Run
    <3>2. CASE StepBegins(s)
      <4>. DEFINE kind == Program[run[s].step]
                  todo == IF kind = "tool" THEN <<ToBoard(ToolBoard, "tool", TRUE)>> ELSE <<>>
      <4>1. PICK frames : run' = [run EXCEPT ![s] = [run[s] EXCEPT !.at = kind, !.frames = frames,
                                                                   !.todo = todo]]
        BY <1>1, <3>2 DEF StepBegins
      <4>2. run'[s].at = kind /\ run'[s].todo = todo
        BY <1>1, <4>1 DEF Run
      <4>3. QED
        BY <4>2
    <3>3. QED
      BY <1>7, <3>1, <3>2
  <2>4. QED
    BY <2>1, <2>2, <2>3 DEF Halts, HaltInv
<1>8. CASE RunSends(s)
  <2>1. UNCHANGED <<interrupted, abort>> /\ run[s].todo # <<>>
    BY <1>8 DEF RunSends, hostVars
  <2>2. run' = [run EXCEPT ![s] = [run[s] EXCEPT !.todo = Tail(run[s].todo)]]
    BY <1>1, <1>8 DEF RunSends
  <2>3. Tail(run[s].todo) \in Seq(Job)
    BY <1>1, <2>1 DEF Run
  <2>. DEFINE todo == Tail(run[s].todo)
              y == [run[s] EXCEPT !.todo = todo]
  <2>. HIDE DEF todo
  <2>4. PICK x \in Run : run' = [run EXCEPT ![s] = x] /\ x.at = run[s].at
                         /\ x.frames = run[s].frames
    <3>1. y \in Run /\ y.at = run[s].at /\ y.frames = run[s].frames
      <4>1. todo \in Seq(Job)
        BY <2>3 DEF todo
      <4>2. QED
        BY <1>1, <4>1 DEF Run
    <3>2. run' = [run EXCEPT ![s] = y]
      BY <2>2 DEF todo
    <3>3. QED
      BY <3>1, <3>2
  <2>5. x.at \in {"move", "tool"}
    BY <2>1, <2>4 DEF HaltInv
  <2>6. QED
    BY <2>1, <2>4, <2>5, TurnHalts
<1>9. CASE StepEnds(s)
  <2>. DEFINE x == [Off EXCEPT !.at = "ready", !.step = run[s].step + 1]
  <2>1. /\ run' = [run EXCEPT ![s] = x] /\ UNCHANGED <<interrupted, abort>>
        /\ run[s].at \in {"move", "wait", "tool"}
    BY <1>9 DEF StepEnds, UnchangedHost, hostVars
  <2>2. x.at = "ready" /\ x.todo = <<>>
    BY DEF Off
  <2>3. x \in Run
    <3>1. Types'
      BY <1>9, RunInsideType
    <3>2. run'[s] = x /\ run'[s] \in Run
      BY <1>1, <2>1, <3>1 DEF Types, ArmTypeOK, ProgramTypeOK
    <3>3. QED
      BY <3>2
  <2>. HIDE DEF x
  <2>4. QED
    BY <2>1, <2>2, <2>3, TurnHalts
<1>10. QED
  BY <1>3, <1>4, <1>5, <1>6, <1>7, <1>8, <1>9 DEF RunStep

\* Every step of the arm.
LEMMA StepHalts ==
  ASSUME Types, HaltInv, OneRunAtATime, [ArmNext]_armVars
  PROVE  Halts
<1>1. ASSUME NEW c \in Clients, Estop(c)
      PROVE  Halts
  BY <1>1, StopHalts DEF Estop, AskEstop
<1>2. CASE StopProgram
  BY <1>2, StopHalts DEF StopProgram
<1>3. ASSUME NEW c \in Clients, Ask(c) /\ UNCHANGED <<boardVars, programVars>>
      PROVE  Halts
  <2>1. abort' = abort
    BY <1>3 DEF Ask, AskClear, AskEnable, AskEffector, AskJog, AskStop, AskAngle, AskHome, AskMove
  <2>2. QED
    BY <1>3, <2>1, RunsStay DEF programVars
<1>4. ASSUME NEW r \in Runs, RunRequest(r) \/ RunStep(r)
      PROVE  Halts
  BY <1>4, RunHalts
<1>5. ASSUME NEW c \in Clients, (SendNext(c) \/ SendFails(c) \/ Ack(c)) /\ UNCHANGED programVars
      PROVE  Halts
  BY <1>5, RunsStay DEF SendNext, SendFails, Ack, programVars
<1>6. ASSUME NEW b \in Boards, (Drain(b) \/ PortFails(b)) /\ UNCHANGED programVars
      PROVE  Halts
  BY <1>6, RunsStay DEF Drain, PortFails, programVars
<1>7. CASE AgentRestart
  <2>1. interrupted' = {} /\ \A r \in Runs : run'[r] = Off
    BY <1>7 DEF AgentRestart
  <2>2. Off.at = "off" /\ Off.todo = <<>>
    BY DEF Off
  <2>3. interrupted \subseteq Runs
    BY DEF Types, ArmTypeOK, ProgramTypeOK
  <2>4. QED
    BY <2>1, <2>2, <2>3 DEF Halts, HaltInv, Proceeds
<1>8. CASE (BoardStep /\ AgentWaits) \/ UNCHANGED armVars
  BY <1>8, RunsStay DEF AgentWaits, armVars, hostVars, programVars
<1>9. ASSUME NEW b \in Boards, Reboot(b)
      PROVE  Halts
  BY <1>9, RunsStay DEF Reboot, programVars
<1>10. QED
  BY <1>1, <1>2, <1>3, <1>4, <1>5, <1>6, <1>7, <1>8, <1>9 DEF ArmNext, Operator, HostStep

-----------------------------------------------------------------------------
(* When there is one run at a time *)

\* No two run requests read their program's file at once.
OneLoadAtATime ==
  \A r, s \in Runs : run[r].at = "loading" /\ run[s].at = "loading" => r = s

\* A task is the one in the slot, and a request that reads its file found no
\* task there.
SlotInv ==
  /\ \A r \in Runs : Task(r) => slot = r
  /\ \A r \in Runs : run[r].at = "loading" => slot = NoRun \/ ~Task(slot)

\* Then no two runs are under way.
LEMMA SlotMeansOne ==
  ASSUME Types, SlotInv, OneLoadAtATime
  PROVE  OneRunAtATime
<1>1. NoRun \notin Runs
  BY ProgramAssumption DEF ProgramAssumption
<1>2. SUFFICES ASSUME NEW r \in Runs, NEW s \in Runs, run[r].at # "off", run[s].at # "off"
               PROVE  r = s
  BY DEF OneRunAtATime
<1>3. (Task(r) \/ run[r].at = "loading") /\ (Task(s) \/ run[s].at = "loading")
  BY <1>2 DEF Task
<1>4. QED
  BY <1>1, <1>3 DEF SlotInv, OneLoadAtATime

\* A step that begins no run and leaves the slot alone.
LEMMA SlotStays ==
  ASSUME SlotInv, slot' = slot, slot \in Runs \cup {NoRun},
         \A r \in Runs : run'[r].at = run[r].at \/ run'[r].at = "off"
                         \/ (Task(r) /\ run'[r].at # "loading")
  PROVE  SlotInv'
<1>1. \A r \in Runs : (Task(r)' => Task(r)) /\ (run'[r].at = "loading" => run[r].at = "loading")
  BY DEF Task
<1>2. slot \in Runs => (Task(slot)' => Task(slot))
  BY <1>1 DEF Task
<1>3. QED
  BY <1>1, <1>2 DEF SlotInv, Task

\* A request finds the slot free or is refused; its start takes the slot and its
\* task's end frees it.
LEMMA RunSlot ==
  ASSUME Types, HaltInv, SlotInv, OneLoadAtATime, NEW s \in Runs, RunStep(s) \/ RunRequest(s)
  PROVE  SlotInv'
<1>1. /\ run \in [Runs -> Run] /\ slot \in Runs \cup {NoRun} /\ NoRun \notin Runs
      /\ run[s].at \in Phase
  BY ProgramAssumption DEF Types, ArmTypeOK, ProgramTypeOK, Run, ProgramAssumption
<1>2. ASSUME NEW phase, Goes(s, phase)
      PROVE  run'[s].at = phase /\ \A r \in Runs : r # s => run'[r] = run[r]
  BY <1>1, <1>2 DEF Goes, Run
<1>3. CASE RunRequest(s)
  <2>1. Goes(s, "loading") /\ slot' = slot /\ (slot # NoRun => ~Task(slot)) /\ run[s].at = "off"
    BY <1>3 DEF RunRequest
  <2>2. run'[s].at = "loading" /\ \A r \in Runs : r # s => run'[r] = run[r]
    BY <1>2, <2>1
  <2>3. \A r \in Runs : Task(r)' => Task(r)
    BY <2>2 DEF Task
  <2>4. slot # NoRun => ~Task(slot)'
    BY <1>1, <2>1, <2>3 DEF Task
  <2>5. QED
    BY <2>1, <2>3, <2>4 DEF SlotInv
<1>4. CASE RunStart(s)
  <2>1. Goes(s, "listing") /\ slot' = s /\ run[s].at = "loading"
    BY <1>4 DEF RunStart
  <2>2. run'[s].at = "listing" /\ \A r \in Runs : r # s => run'[r] = run[r]
    BY <1>2, <2>1
  <2>3. \A r \in Runs : ~Task(r)
    BY <1>1, <2>1 DEF SlotInv
  <2>4. \A r \in Runs : r # s => ~Task(r)' /\ run'[r].at # "loading"
    BY <2>1, <2>2, <2>3 DEF OneLoadAtATime, Task
  <2>5. QED
    BY <2>1, <2>2, <2>4 DEF SlotInv
<1>5. CASE RunStops(s) \/ RunCompletes(s) \/ StepRefused(s) \/ RunSendFails(s)
  <2>1. \E outcome : Ends(s, outcome)
    BY <1>5 DEF RunStops, RunCompletes, StepRefused, RunSendFails
  <2>2. slot' = NoRun /\ run'[s] = Off /\ \A r \in Runs : r # s => run'[r] = run[r]
    BY <1>1, <2>1 DEF Ends
  <2>3. Task(s)
    BY <1>5 DEF RunStops, RunCompletes, StepRefused, RunSendFails, HaltInv, Task
  <2>4. \A r \in Runs : r # s => ~Task(r)
    BY <2>3 DEF SlotInv
  <2>5. \A r \in Runs : ~Task(r)'
    BY <2>2, <2>4 DEF Task, Off
  <2>6. QED
    BY <2>2, <2>5 DEF SlotInv
<1>6. CASE RunNotFound(s) \/ ListFails(s) \/ ListEnds(s)
  <2>1. /\ slot' = slot /\ (Goes(s, "off") \/ (Goes(s, "ready") /\ Task(s)))
    BY <1>6 DEF RunNotFound, ListFails, ListEnds, Task
  <2>2. \A r \in Runs : run'[r].at = run[r].at \/ run'[r].at = "off"
                         \/ (Task(r) /\ run'[r].at # "loading")
    BY <1>2, <2>1
  <2>3. QED
    BY <1>1, <2>1, <2>2, SlotStays
<1>7. CASE StepBegins(s) \/ Frame(s) \/ RunSends(s) \/ StepEnds(s)
  <2>1. slot' = slot /\ \A r \in Runs : r # s => run'[r] = run[r]
    BY <1>1, <1>7 DEF StepBegins, Frame, RunSends, StepEnds
  <2>2. run'[s].at = run[s].at \/ (Task(s) /\ run'[s].at # "loading")
    <3>1. CASE Frame(s) \/ RunSends(s)
      <4>1. run'[s].at = run[s].at
        BY <1>1, <3>1 DEF Frame, RunSends, Run
      <4>2. QED
        BY <4>1
    <3>2. CASE StepEnds(s)
      <4>1. run'[s].at = "ready"
        BY <1>1, <3>2 DEF StepEnds, Off
      <4>2. QED
        BY <3>2, <4>1 DEF StepEnds, Task
    <3>3. CASE StepBegins(s)
      <4>1. run[s].at = "ready" /\ run'[s].at = Program[run[s].step]
        BY <1>1, <3>3 DEF StepBegins, Run
      <4>2. Program[run[s].step] \in {"move", "wait", "tool"}
        <5>1. run[s].step \in 1 .. Len(Program) /\ Program \in Seq({"move", "wait", "tool"})
          BY <1>1, <3>3, ProgramAssumption DEF StepBegins, Run, ProgramAssumption
        <5>2. QED
          BY <5>1
      <4>3. QED
        BY <4>1, <4>2 DEF Task
    <3>4. QED
      BY <1>7, <3>1, <3>2, <3>3
  <2>3. QED
    BY <1>1, <2>1, <2>2, SlotStays
<1>8. QED
  BY <1>3, <1>4, <1>5, <1>6, <1>7 DEF RunStep

\* Every step keeps the slot and the tasks in step.
LEMMA StepSlot ==
  ASSUME Types, HaltInv, SlotInv, OneLoadAtATime, [ArmNext]_armVars
  PROVE  SlotInv'
<1>1. slot \in Runs \cup {NoRun}
  BY DEF Types, ArmTypeOK, ProgramTypeOK
<1>2. CASE run' = run /\ slot' = slot
  BY <1>1, <1>2, SlotStays
<1>3. CASE \E r \in Runs : RunStep(r) \/ RunRequest(r)
  BY <1>3, RunSlot
<1>4. CASE AgentRestart
  <2>1. \A r \in Runs : run'[r] = Off
    BY <1>4 DEF AgentRestart
  <2>2. Off.at = "off"
    BY DEF Off
  <2>3. QED
    BY <2>1, <2>2 DEF SlotInv, Task
<1>5. \/ run' = run /\ slot' = slot
      \/ \E r \in Runs : RunStep(r) \/ RunRequest(r)
      \/ AgentRestart
  BY DEF ArmNext, Operator, HostStep, Estop, StopProgram, AgentWaits, Reboot, programVars, armVars
<1>6. QED
  BY <1>2, <1>3, <1>4, <1>5

(***************************************************************************)
(* A run that was stopped, or met an e-stop, begins no further frame or    *)
(* step, cleared or not, as long as no two requests read their program's   *)
(* file at once: the handler looks at the slot before it reads the file    *)
(* and fills the slot after it (app.py handle_arm_program_run), and of two *)
(* at once the second clears the flag that should stop the first.          *)
(***************************************************************************)
THEOREM InterruptedRunsHalt == ArmSpec /\ []OneLoadAtATime => InterruptedHalts
<1>1. ArmInit => Types /\ HaltInv /\ SlotInv
  <2>1. Off.todo = <<>> /\ Off.at = "off"
    BY DEF Off
  <2>2. ArmInit => HaltInv /\ SlotInv
    BY <2>1 DEF ArmInit, ProgramInit, HaltInv, SlotInv, Task
  <2>3. QED
    BY <2>2, InitTypes
<1>2. Types /\ HaltInv /\ SlotInv /\ OneLoadAtATime /\ [ArmNext]_armVars
        => /\ Types' /\ HaltInv' /\ SlotInv'
           /\ [\A r \in interrupted : ~Proceeds(r)]_armVars
  BY NextTypes, StepHalts, StepSlot, SlotMeansOne DEF Halts
<1>3. QED
  BY <1>1, <1>2, PTL DEF ArmSpec, InterruptedHalts
=============================================================================

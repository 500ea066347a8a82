------------------------------ MODULE ArmHost ------------------------------
(***************************************************************************)
(* The agent's side of the arm: the /arm/control handler of agent/app.py,  *)
(* the host gate pibot/arm/safety.py and the manager pibot/arm/manager.py. *)
(* A handler checks the gate on the event loop and then sends its frames   *)
(* from a worker thread, so the frames of two handlers, or of a handler    *)
(* and a program, interleave.  Requests the gate refuses change nothing    *)
(* and are left out, as are the contents of poses and speeds.              *)
(***************************************************************************)
EXTENDS ArmBoard

CONSTANTS
  Clients,   \* the /arm/control sockets
  Requests,  \* the requests they make
  MaxInbox   \* bound: commands in flight to one board

AllRequests == {"estop", "clear_estop", "enable", "grip", "tool", "jvel",
                "jstop", "jpos", "jmove", "home", "move"}

ASSUME HostAssumption ==
  /\ Requests \subseteq AllRequests
  /\ MaxInbox \in Nat \ {0}

VARIABLES
  armLatched,  \* arm_estopped
  armHomed,    \* arm_homed
  seen,        \* joints with a cached angle in arm_positions
  abort,       \* arm_program_abort
  portOpen,    \* each board's serial port works
  call,        \* what each client's handler is doing: see Call
  held         \* history: boards sent an e-stop that nobody asked to clear

hostVars == <<armLatched, armHomed, seen, abort, portOpen, call, held>>

\* One frame for one board, which drives the joint it is about.
Job == {job \in [board : Boards, cmd : Command] : job.cmd \in CommandOf(job.board)}

\* `todo`: the frames the worker thread has yet to send.  `alone`: history, no
\* clear_estop ran while the handler did.
Call == [request : AllRequests \cup {"none"}, joints : SUBSET Joints,
         todo : Seq(Job), alone : BOOLEAN]

HostTypeOK ==
  /\ armLatched \in BOOLEAN
  /\ armHomed \subseteq Joints
  /\ seen \subseteq Joints
  /\ abort \in BOOLEAN
  /\ portOpen \in [Boards -> BOOLEAN]
  /\ call \in [Clients -> Call]
  /\ held \subseteq Boards

Idle == [request |-> "none", joints |-> {}, todo |-> <<>>, alone |-> TRUE]

HostInit ==
  /\ armLatched = FALSE
  /\ armHomed = {}
  /\ seen = {}
  /\ abort = FALSE
  /\ portOpen = [b \in Boards |-> TRUE]
  /\ call = [c \in Clients |-> Idle]
  /\ held = {}

-----------------------------------------------------------------------------
\* _send, _joint_send and the broadcasts of ArmManager.
ToBoard(b, name, on) == [board |-> b, cmd |-> [name |-> name, on |-> on]]
ToJoint(j, name, on) ==
  [board |-> BoardOf[j], cmd |-> [name |-> name, joint |-> j, on |-> on]]
Broadcast(name, on) == [b \in Boards |-> ToBoard(b, name, on)]

\* The targets of a move: distinct joints, in the order the request names them.
Orders ==
  {s \in UNION {[1 .. n -> Joints] : n \in 1 .. NumJoints} :
     \A i, k \in DOMAIN s : s[i] = s[k] => i = k}
Targets(order) == {order[i] : i \in DOMAIN order}

\* move_synchronized: one jmove per target.
MoveTo(order) == [i \in DOMAIN order |-> ToJoint(order[i], "jmove", TRUE)]

\* ArmGate.move.
GateMove(targets) == ~armLatched /\ targets \subseteq armHomed \cap seen

Clearing == \E c \in Clients : call[c].request = "clear_estop"

\* A handler passes its gate and hands its frames to a worker thread.
Begin(c, request, joints, todo) ==
  call' = [call EXCEPT ![c] = [request |-> request, joints |-> joints,
                               todo |-> todo, alone |-> ~Clearing]]

Free(c, request) == call[c].request = "none" /\ request \in Requests

AskEstopKeepsProgram(c) ==
  /\ Free(c, "estop")
  /\ armLatched' = TRUE
  /\ Begin(c, "estop", {}, Broadcast("estop", TRUE))
  /\ UNCHANGED <<armHomed, seen, abort, portOpen, held>>

\* The latch and the program's abort come before the first frame.
AskEstop(c) ==
  /\ Free(c, "estop")
  /\ armLatched' = TRUE
  /\ abort' = TRUE
  /\ Begin(c, "estop", {}, Broadcast("estop", TRUE))
  /\ UNCHANGED <<armHomed, seen, portOpen, held>>

AskClear(c) ==
  /\ Free(c, "clear_estop")
  /\ held' = {}
  /\ call' = [d \in Clients |->
               IF d = c
               THEN [Idle EXCEPT !.request = "clear_estop",
                                 !.todo = Broadcast("set", FALSE)]
               ELSE [call[d] EXCEPT !.alone = FALSE]]
  /\ UNCHANGED <<armLatched, armHomed, seen, abort, portOpen>>

AskEnable(c, on) ==
  /\ Free(c, "enable")
  /\ Begin(c, "enable", {}, Broadcast("enable", on))
  /\ UNCHANGED <<armLatched, armHomed, seen, abort, portOpen, held>>

AskEffector(c, request, on) ==
  /\ Free(c, request) /\ request \in {"grip", "tool"}
  /\ ~armLatched
  /\ Begin(c, request, {}, <<ToBoard(ToolBoard, request, on)>>)
  /\ UNCHANGED <<armLatched, armHomed, seen, abort, portOpen, held>>

AskJog(c, j, on) ==
  /\ Free(c, "jvel")
  /\ ~armLatched
  /\ Begin(c, "jvel", {j}, <<ToJoint(j, "jvel", on)>>)
  /\ UNCHANGED <<armLatched, armHomed, seen, abort, portOpen, held>>

AskStop(c, j) ==
  /\ Free(c, "jstop")
  /\ Begin(c, "jstop", {j}, <<ToJoint(j, "jstop", TRUE)>>)
  /\ UNCHANGED <<armLatched, armHomed, seen, abort, portOpen, held>>

AskAngle(c, request, j) ==
  /\ Free(c, request) /\ request \in Moves
  /\ ~armLatched /\ j \in armHomed
  /\ Begin(c, request, {j}, <<ToJoint(j, request, TRUE)>>)
  /\ UNCHANGED <<armLatched, armHomed, seen, abort, portOpen, held>>

AskHome(c, j) ==
  /\ Free(c, "home")
  /\ ~armLatched
  /\ Begin(c, "home", {j}, <<ToJoint(j, "home", TRUE)>>)
  /\ UNCHANGED <<armLatched, armHomed, seen, abort, portOpen, held>>

\* move, and move_cartesian once its pose is solved.
AskMove(c, order) ==
  /\ Free(c, "move")
  /\ GateMove(Targets(order))
  /\ Begin(c, "move", Targets(order), MoveTo(order))
  /\ UNCHANGED <<armLatched, armHomed, seen, abort, portOpen, held>>

Ask(c) ==
  \/ AskClear(c)
  \/ \E on \in BOOLEAN : \/ AskEnable(c, on)
                         \/ AskEffector(c, "grip", on)
                         \/ AskEffector(c, "tool", on)
  \/ \E j \in Joints : \/ \E on \in BOOLEAN : AskJog(c, j, on)
                       \/ AskStop(c, j)
                       \/ \E m \in Moves : AskAngle(c, m, j)
                       \/ AskHome(c, j)
  \/ \E order \in Orders : AskMove(c, order)

-----------------------------------------------------------------------------
\* One frame onto a board's serial port; there is room and the port works.
Deliver(job) ==
  /\ portOpen[job.board]
  /\ Len(inbox[job.board]) < MaxInbox
  /\ inbox' = [inbox EXCEPT ![job.board] = Append(@, job.cmd)]
  /\ UNCHANGED <<estopped, enabled, tool, quiet, jmode, jhomed, left>>

SendNext(c) ==
  /\ call[c].todo # <<>>
  /\ Deliver(Head(call[c].todo))
  /\ call' = [call EXCEPT ![c].todo = Tail(@)]
  /\ held' = IF call[c].request = "estop" /\ call[c].alone
             THEN held \cup {Head(call[c].todo).board} ELSE held
  /\ UNCHANGED <<armLatched, armHomed, seen, abort, portOpen>>

\* A send raises: the frames after it are never sent, the reply is a nak.
SendFails(c) ==
  /\ call[c].todo # <<>>
  /\ ~portOpen[Head(call[c].todo).board]
  /\ call' = [call EXCEPT ![c] = Idle]
  /\ UNCHANGED <<armLatched, armHomed, seen, abort, portOpen, held>>
  /\ UNCHANGED boardVars

\* All frames are sent: what the handler does after the thread, and the ack.
Ack(c) ==
  /\ call[c].request # "none" /\ call[c].todo = <<>>
  /\ call' = [call EXCEPT ![c] = Idle]
  /\ armLatched' = (armLatched /\ call[c].request # "clear_estop")
  /\ armHomed' = IF call[c].request = "home"
                 THEN armHomed \cup call[c].joints ELSE armHomed
  /\ UNCHANGED <<seen, abort, portOpen, held>>
  /\ UNCHANGED boardVars

\* _arm_drain: the angles a board reported are merged into the cache.
Drain(b) ==
  /\ portOpen[b]
  /\ seen' = seen \cup JointsOf(b)
  /\ UNCHANGED <<armLatched, armHomed, abort, portOpen, call, held>>
  /\ UNCHANGED boardVars

\* A board is unplugged from the agent.
PortFails(b) ==
  /\ portOpen[b]
  /\ portOpen' = [portOpen EXCEPT ![b] = FALSE]
  /\ UNCHANGED <<armLatched, armHomed, seen, abort, call, held>>
  /\ UNCHANGED boardVars
=============================================================================

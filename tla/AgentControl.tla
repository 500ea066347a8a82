---------------------------- MODULE AgentControl ---------------------------
(***************************************************************************)
(* agent/control.py: the controller that owns the link.  Callers submit    *)
(* commands and await the reply with their sequence number; one reader     *)
(* task hands replies to their futures and one ticker task drives the      *)
(* deadman.  Both tasks end silently when the transport raises.            *)
(*                                                                         *)
(* submit() holds its lock over code without an await, so the part before  *)
(* the wait is one atomic action.                                          *)
(***************************************************************************)
EXTENDS AgentSafety

CONSTANTS
  TickInterval,  \* tick_interval, in time units
  MaxWire,       \* bound: frames and replies in flight when an operator acts
  NoCaller       \* no future registered

ASSUME ControlAssumption ==
  /\ TickInterval \in Nat \ {0}
  /\ TickInterval <= Deadman
  /\ MaxWire \in Nat \ {0}
  /\ NoCaller \notin Sender

\* The process between start() and stop(); frozen, its socket open; gone.
Process == {"up", "hung", "down"}

VARIABLES
  agent,      \* the agent process: see Process
  ticking,    \* the ticker task is alive
  reading,    \* the reader task is alive
  tickAge,    \* time since the ticker last ran
  nextSeq,    \* the next number of TransportController._seq
  acks,       \* _acks: the caller whose future each number resolves
  status,     \* what each caller's future is: see Status
  seqOf,      \* the number of each caller's last command
  replyFrom   \* history: whose frame the reply each caller got answers

controlVars == <<agent, ticking, reading, tickAge, nextSeq, acks, status,
                 seqOf, replyFrom>>

\* "idle": not in submit(); "waiting": in wait_for; "resolved": the future is
\* set and the coroutine has not run yet.
Status == {"idle", "waiting", "resolved"}

ControlTypeOK ==
  /\ agent \in Process
  /\ ticking \in BOOLEAN
  /\ reading \in BOOLEAN
  /\ tickAge \in 0 .. TickInterval
  /\ nextSeq \in SeqNo
  /\ acks \in [SeqNo -> Callers \cup {NoCaller}]
  /\ status \in [Callers -> Status]
  /\ seqOf \in [Callers -> SeqNo]
  /\ replyFrom \in [Callers -> Sender \cup {NoCaller}]

NoAcks == [n \in SeqNo |-> NoCaller]

ControlInit ==
  /\ agent = "up"
  /\ ticking = TRUE
  /\ reading = TRUE
  /\ tickAge = TickInterval
  /\ nextSeq = 0
  /\ acks = NoAcks
  /\ status = [c \in Callers |-> "idle"]
  /\ seqOf = [c \in Callers |-> 0]
  /\ replyFrom = [c \in Callers |-> NoCaller]

ControlReset ==
  /\ ticking' = TRUE
  /\ reading' = TRUE
  /\ tickAge' = TickInterval
  /\ nextSeq' = 0
  /\ acks' = NoAcks
  /\ status' = [c \in Callers |-> "idle"]
  /\ seqOf' = [c \in Callers |-> 0]
  /\ replyFrom' = [c \in Callers |-> NoCaller]

-----------------------------------------------------------------------------
(* Bounds of the environment, not guards of the code: a command or an      *)
(* e-stop comes only while fewer than MaxWire items are in flight (the     *)
(* ticker's stops have no such bound), and a sequence number comes round   *)
(* again only after everything that carried it is gone (256 commands       *)
(* within one round trip are not reached at the rates in use).             *)
RoomOnWire == Len(toRobot) + Len(toHost) < MaxWire

Carries(s, n) == \E i \in DOMAIN s : s[i].seq = n /\ s[i].from # Safety

NotLapped ==
  /\ ~Carries(toRobot, nextSeq)
  /\ ~Carries(toHost, nextSeq)
  /\ \A c \in Callers : status[c] # "idle" => seqOf[c] # nextSeq

CallerFrame(c, name) == [name |-> name, seq |-> nextSeq, from |-> c]

\* submit(): refused by the gate; the number is spent, the future withdrawn.
SubmitRefused(c, name) ==
  /\ agent = "up" /\ status[c] = "idle"
  /\ Refuses(name)
  /\ NotLapped
  /\ nextSeq' = NextSeq(nextSeq)
  /\ acks' = [acks EXCEPT ![nextSeq] = NoCaller]
  /\ UNCHANGED <<agent, ticking, reading, tickAge, status, seqOf, replyFrom>>
  /\ UNCHANGED <<wireVars, safetyVars>>

\* The commands whose arguments clamp_command and encode take by name, and
\* raise when one is missing or no number.
TakesArguments(name) == name \in Motion \cup SetNames

\* submit(): the arguments or the transport raise; the future stays registered.
SubmitRaises(c, name) ==
  /\ agent = "up" /\ status[c] = "idle"
  /\ ~Refuses(name)
  /\ TakesArguments(name) \/ ~IsOpen
  /\ NotLapped
  /\ nextSeq' = NextSeq(nextSeq)
  /\ acks' = [acks EXCEPT ![nextSeq] = c]
  /\ UNCHANGED <<agent, ticking, reading, tickAge, status, seqOf, replyFrom>>
  /\ UNCHANGED <<wireVars, safetyVars>>

\* submit(): sent; the caller waits for the reply with its number.
SubmitSent(c, name) ==
  /\ agent = "up" /\ status[c] = "idle"
  /\ ~Refuses(name)
  /\ IsOpen
  /\ RoomOnWire /\ NotLapped
  /\ SafetySubmit(CallerFrame(c, name))
  /\ nextSeq' = NextSeq(nextSeq)
  /\ acks' = [acks EXCEPT ![nextSeq] = c]
  /\ status' = [status EXCEPT ![c] = "waiting"]
  /\ seqOf' = [seqOf EXCEPT ![c] = nextSeq]
  /\ UNCHANGED <<agent, ticking, reading, tickAge, replyFrom>>
  /\ UNCHANGED <<conn, oldClient, toHost>>

PopOther(c) == [acks EXCEPT ![NextSeq(seqOf[c])] = NoCaller]

\* The `finally` of submit().
Pop(c) == [acks EXCEPT ![seqOf[c]] = NoCaller]

Leave(c) ==
  /\ status' = [status EXCEPT ![c] = "idle"]
  /\ acks' = Pop(c)
  /\ seqOf' = [seqOf EXCEPT ![c] = 0]
  /\ replyFrom' = [replyFrom EXCEPT ![c] = NoCaller]
  /\ UNCHANGED <<agent, ticking, reading, tickAge, nextSeq>>
  /\ UNCHANGED <<wireVars, safetyVars>>

\* submit() returns the reply.
Return(c) ==
  /\ agent = "up" /\ status[c] = "resolved"
  /\ Leave(c)

\* wait_for times out, or the caller's task is cancelled.
GiveUp(c) ==
  /\ agent = "up" /\ status[c] = "waiting"
  /\ Leave(c)

AnyWaiting(r) == {c \in Callers : status[c] = "waiting"}

\* The future registered for a reply's number, if it is still pending.
PendingFor(r) == {c \in Callers : /\ acks[r.seq] = c
                                  /\ status[c] = "waiting"
                                  /\ seqOf[c] = r.seq}

\* _reader: one frame, handed to the future with its number.
ReadReply ==
  /\ agent = "up" /\ reading /\ IsOpen
  /\ toHost # <<>>
  /\ toHost' = Tail(toHost)
  /\ LET woken == PendingFor(Head(toHost))
     IN /\ status' = [c \in Callers |-> IF c \in woken THEN "resolved" ELSE status[c]]
        /\ replyFrom' = [c \in Callers |->
                          IF c \in woken THEN Head(toHost).from ELSE replyFrom[c]]
  /\ UNCHANGED <<conn, oldClient, toRobot, agent, ticking, reading, tickAge,
                 nextSeq, acks, seqOf>>
  /\ UNCHANGED safetyVars

\* _reader on a closed transport: recv raises and the task ends.
ReaderDies ==
  /\ agent = "up" /\ reading /\ ~IsOpen
  /\ reading' = FALSE
  /\ UNCHANGED <<agent, ticking, tickAge, nextSeq, acks, status, seqOf, replyFrom>>
  /\ UNCHANGED <<wireVars, safetyVars>>

\* _ticker: one round; a stop that cannot be sent ends the task.
Ticker ==
  /\ agent = "up" /\ ticking /\ tickAge = TickInterval
  /\ tickAge' = 0
  /\ IF StopDue
     THEN /\ EmitStop
          /\ ticking' = IsOpen
     ELSE UNCHANGED <<toRobot, stopped, feedAge, safetySeq, ticking>>
  /\ UNCHANGED <<conn, oldClient, toHost, latched, motionAge>>
  /\ UNCHANGED <<agent, reading, nextSeq, acks, status, seqOf, replyFrom>>

\* estop(), from POST /estop.
Estop ==
  /\ agent = "up"
  /\ RoomOnWire
  /\ TripEstop
  /\ UNCHANGED <<conn, oldClient, toHost>>
  /\ UNCHANGED controlVars

\* A send or a recv fails, or the peer closed: the transport drops the socket.
LinkDrops ==
  /\ agent = "up"
  /\ CloseSocket
  /\ UNCHANGED <<safetyVars, controlVars>>

\* The process freezes; the kernel keeps its connection.
AgentHangs ==
  /\ agent = "up"
  /\ agent' = "hung"
  /\ UNCHANGED <<ticking, reading, tickAge, nextSeq, acks, status, seqOf, replyFrom>>
  /\ UNCHANGED <<wireVars, safetyVars>>

\* stop(), or the process is killed: the tasks end, the socket closes and the
\* gate and the controller are gone with the process.
AgentStop ==
  /\ agent # "down"
  /\ agent' = "down"
  /\ IF IsOpen THEN CloseSocket ELSE UNCHANGED wireVars
  /\ SafetyReset
  /\ ControlReset

\* start() in a new process: fresh state, a fresh connection.
AgentStart ==
  /\ agent = "down"
  /\ agent' = "up"
  /\ OpenSocket
  /\ SafetyReset
  /\ ControlReset
=============================================================================

----------------------------- MODULE MissionLink ----------------------------
(***************************************************************************)
(* Mission Control's link to a robot (mc/robot_link.py, routes_link.py)    *)
(* and the requests proxied over its AgentClient (control/client.py,       *)
(* routes_arm.py, routes_autonomy.py).  Handlers run on one event loop and *)
(* are suspended inside disconnect(), for the body of a request, while a   *)
(* socket opens and while a reply is awaited.  connect() itself does not   *)
(* suspend: open() makes a session and contacts nobody.                    *)
(***************************************************************************)
EXTENDS Naturals, Sequences, SequencesExt, FiniteSets

CONSTANTS
  Robots,       \* the names a connect may carry
  Unknown,      \* those resolve_robot_endpoint refuses
  Switchers,    \* requests to connect or disconnect at once
  Operators,    \* proxied requests at once
  Viewers,      \* sockets on /api/telemetry
  NoRobot, NoOne,
  MaxLinks,     \* bound: links made
  MaxSockets    \* bound: arm sockets opened, and frames on one

ASSUME LinkAssumption ==
  /\ Unknown \subseteq Robots /\ NoRobot \notin Robots /\ NoOne \notin Operators
  /\ MaxLinks \in Nat /\ MaxSockets \in Nat
  /\ IsFiniteSet(Switchers)

VARIABLES
  made,     \* the robot of each link made, a link being its number
  link,     \* RobotLink: the link each of its fields belongs to, 0 for None
  alive,    \* the clients, relays and sessions not closed yet
  mc,       \* McState
  switch,   \* what each connect or disconnect awaits
  arm,      \* _arm_ws of each client, 0 for None
  socket,   \* the arm sockets: whose, who awaits the reply to each frame, the
            \* receiver; history: a frame was sent while a reply was awaited
  ask,      \* what each proxied request awaits
  answer,   \* history: the answer each request had last
  viewer    \* the client each telemetry socket follows, 0 when closed

linkVars == <<made, link, alive, mc, switch>>
askVars == <<arm, socket, ask, answer>>
missionVars == <<linkVars, askVars, viewer>>

Links == 1 .. MaxLinks
Field == 0 .. MaxLinks
Parts == <<"relay", "session", "client">>  \* in the order disconnect() closes
SocketNo == 0 .. MaxSockets
SocketRecord == [open: BOOLEAN, of: Links, wire: Seq(Operators \cup {NoOne}),
                 reader: Operators \cup {NoOne}, overlapped: BOOLEAN]

MissionTypeOK ==
  /\ made \in Seq(Robots) /\ Len(made) <= MaxLinks
  /\ link \in [ToSet(Parts) -> Field]
  /\ alive \subseteq (ToSet(Parts) \X Links)
  /\ mc \in [connected: BOOLEAN, robot: Robots \cup {NoRobot}, relay: Field]
  /\ switch \in [Switchers -> [at: ToSet(Parts) \cup {"idle"}, obj: Field,
                               next: Robots \cup {NoRobot}]]
  /\ arm \in [Links -> SocketNo]
  /\ socket \in Seq(SocketRecord) /\ Len(socket) <= MaxSockets
  /\ ask \in [Operators -> [at: {"idle", "body", "http", "opening", "reply"},
                            of: Field, on: SocketNo]]
  /\ answer \in [Operators -> {"none", "own", "other", "error"}]
  /\ viewer \in [Viewers -> Field]

Resting == [at |-> "idle", obj |-> 0, next |-> NoRobot]
Idle == [at |-> "idle", of |-> 0, on |-> 0]

MissionInit ==
  /\ made = <<>> /\ link = [f \in ToSet(Parts) |-> 0] /\ alive = {}
  /\ mc = [connected |-> FALSE, robot |-> NoRobot, relay |-> 0]
  /\ switch = [q \in Switchers |-> Resting]
  /\ arm = [n \in Links |-> 0] /\ socket = <<>>
  /\ ask = [p \in Operators |-> Idle]
  /\ answer = [p \in Operators |-> "none"]
  /\ viewer = [v \in Viewers |-> 0]

-----------------------------------------------------------------------------
(* connect and disconnect *)

\* What follows disconnect(), with the fields `l` and the objects `things`.
Finish(next, l, things) ==
  LET n == Len(made) + 1 IN
  \/ /\ next = NoRobot  \* handle_disconnect: the relay stays in McState
     /\ mc' = [mc EXCEPT !.connected = FALSE, !.robot = NoRobot]
     /\ link' = l /\ alive' = things /\ UNCHANGED made
  \/ /\ next \in Unknown  \* 404; McState keeps what it had
     /\ link' = l /\ alive' = things /\ UNCHANGED <<made, mc>>
  \/ /\ next \in Robots \ Unknown
     /\ made' = Append(made, next)
     /\ link' = [f \in ToSet(Parts) |-> n]
     /\ alive' = things \cup {<<f, n>> : f \in ToSet(Parts)}
     /\ mc' = [connected |-> TRUE, robot |-> next, relay |-> n]

\* disconnect() awaits the closing of the first of `parts` that is not None.
CloseNext(q, parts, l, things, next) ==
  \/ /\ \A i \in DOMAIN parts : l[parts[i]] = 0
     /\ Finish(next, l, things)
     /\ switch' = [switch EXCEPT ![q] = Resting]
  \/ \E i \in DOMAIN parts :
        /\ l[parts[i]] # 0 /\ \A j \in 1 .. i - 1 : l[parts[j]] = 0
        /\ switch' = [switch EXCEPT ![q] =
                        [at |-> parts[i], obj |-> l[parts[i]], next |-> next]]
        /\ link' = l /\ alive' = things /\ UNCHANGED <<made, mc>>

ReplacesBlindly(q, r) == CloseNext(q, <<>>, link, alive, r)

After(part) ==
  CASE part = "relay" -> <<"session", "client">>
    [] part = "session" -> <<"client">>
    [] OTHER -> <<>>

\* connect(): a client there is, is disconnected first.
Replaces(q, r) ==
  CloseNext(q, IF link["client"] = 0 THEN <<>> ELSE Parts, link, alive, r)

Connect(q, r) ==
  /\ switch[q].at = "idle"
  /\ Len(made) + Cardinality({x \in Switchers : switch[x].next # NoRobot}) < MaxLinks
  /\ Replaces(q, r)
  /\ UNCHANGED <<askVars, viewer>>

Disconnect(q) ==
  /\ switch[q].at = "idle"
  /\ CloseNext(q, Parts, link, alive, NoRobot)
  /\ UNCHANGED <<askVars, viewer>>

Shut(s) == [s EXCEPT !.open = FALSE, !.wire = <<>>, !.reader = NoOne]

\* AgentClient.close: its arm sockets end, and every request waiting on it.
CloseClient(n) ==
  LET hit == {p \in Operators : ask[p].of = n} IN
  /\ arm' = [arm EXCEPT ![n] = 0]
  /\ socket' = [i \in DOMAIN socket |->
                  IF socket[i].of = n THEN Shut(socket[i]) ELSE socket[i]]
  /\ ask' = [p \in Operators |-> IF p \in hit THEN Idle ELSE ask[p]]
  /\ answer' = [p \in Operators |-> IF p \in hit THEN "error" ELSE answer[p]]

\* An await of disconnect() ends.  The field is cleared, whatever it holds now.
Closed(q) ==
  LET s == switch[q] IN
  /\ s.at # "idle"
  /\ CloseNext(q, After(s.at), [link EXCEPT ![s.at] = 0], alive \ {<<s.at, s.obj>>}, s.next)
  /\ IF s.at = "client" THEN CloseClient(s.obj) ELSE UNCHANGED askVars
  /\ UNCHANGED viewer

-----------------------------------------------------------------------------
(* Proxied requests.  The link is checked before the body is awaited and   *)
(* taken after it.                                                         *)

Answers(p, how) ==
  /\ ask' = [ask EXCEPT ![p] = Idle]
  /\ answer' = [answer EXCEPT ![p] = how]

\* _require_link (503 otherwise), then _body
AwaitBody(p) ==
  /\ ask[p].at = "idle" /\ link["client"] # 0
  /\ ask' = [ask EXCEPT ![p].at = "body"]
  /\ UNCHANGED <<linkVars, arm, socket, answer, viewer>>

\* Not JSON, or a field missing: 400.
BadBody(p) ==
  /\ ask[p].at = "body"
  /\ Answers(p, "error")
  /\ UNCHANGED <<linkVars, arm, socket, viewer>>

HttpCall(p, c) ==
  /\ ask' = [ask EXCEPT ![p] = [at |-> "http", of |-> c, on |-> 0]]
  /\ UNCHANGED <<arm, socket, answer>>

Framed(s, p) == [s EXCEPT !.wire = Append(s.wire, p), !.reader = p]
Overlapped(s) == [s EXCEPT !.wire = Append(s.wire, NoOne), !.overlapped = TRUE]
Replied(s) == [s EXCEPT !.wire = Tail(s.wire), !.reader = NoOne]

\* send_json and receive_json on socket `i`: a second receive() raises, with
\* its frame sent.
SendOn(p, i, socks) ==
  IF socks[i].reader = NoOne
  THEN /\ socket' = [socks EXCEPT ![i] = Framed(@, p)]
       /\ ask' = [ask EXCEPT ![p] = [at |-> "reply", of |-> socks[i].of, on |-> i]]
       /\ UNCHANGED answer
  ELSE /\ socket' = [socks EXCEPT ![i] = Overlapped(@)]
       /\ Answers(p, "error")

\* _arm_send: the socket is opened when there is none, or it is closed.
ArmCall(p, c) ==
  /\ IF arm[c] # 0 /\ socket[arm[c]].open
     THEN Len(socket[arm[c]].wire) < MaxSockets /\ SendOn(p, arm[c], socket)
     ELSE /\ ask' = [ask EXCEPT ![p] = [at |-> "opening", of |-> c, on |-> 0]]
          /\ UNCHANGED <<socket, answer>>
  /\ UNCHANGED arm

\* A handler that awaits no body ("idle"), or has read it, calls the client
\* there is.
Delegate(p, from, over) ==
  /\ ask[p].at \in from
  /\ ask[p].at = "idle" => link["client"] # 0
  /\ CASE link["client"] = 0 -> Answers(p, "error") /\ UNCHANGED <<arm, socket>>
       [] link["client"] # 0 /\ over = "http" -> HttpCall(p, link["client"])
       [] link["client"] # 0 /\ over = "arm" -> ArmCall(p, link["client"])
  /\ UNCHANGED <<linkVars, viewer>>

ArmTelemetryRequest(p) == Delegate(p, {"idle"}, "http")
PoseRequest(p) == Delegate(p, {"idle", "body"}, "http")
ProgramRequest(p) == Delegate(p, {"idle", "body"}, "http")
AutonomyRequest(p) == Delegate(p, {"idle", "body"}, "http")
EstopRequest(p) == Delegate(p, {"idle"}, "http")
MotionRequest(p) == Delegate(p, {"idle", "body"}, "arm")

\* ws_connect ends: the socket replaces any that another request opened.
ArmOpened(p) ==
  /\ ask[p].at = "opening" /\ Len(socket) < MaxSockets
  /\ LET c == ask[p].of
         i == Len(socket) + 1
     IN /\ arm' = [arm EXCEPT ![c] = i]
        /\ SendOn(p, i, Append(socket, [open |-> TRUE, of |-> c, wire |-> <<>>,
                                        reader |-> NoOne, overlapped |-> FALSE]))
  /\ UNCHANGED <<linkVars, viewer>>

\* The agent answers the frames of a socket in order.
ArmReply(p) ==
  LET i == ask[p].on IN
  /\ ask[p].at = "reply" /\ socket[i].wire # <<>>
  /\ socket' = [socket EXCEPT ![i] = Replied(@)]
  /\ Answers(p, IF Head(socket[i].wire) = p THEN "own" ELSE "other")
  /\ UNCHANGED <<linkVars, arm, viewer>>

\* receive_json without a timeout; with one, the reply would stay behind.
ArmReplyInTime(p) ==
  \/ ArmReply(p)
  \/ /\ ask[p].at = "reply"
     /\ socket' = [socket EXCEPT ![ask[p].on].reader = NoOne,
                                ![ask[p].on].wire = [k \in DOMAIN @ |-> NoOne]]
     /\ Answers(p, "error")
     /\ UNCHANGED <<linkVars, arm, viewer>>

ArmAnswered(p) == ArmReply(p)

\* An answer over HTTP, or a failure of the connection or of the opening.
HttpAnswered(p) ==
  /\ \/ ask[p].at = "http" /\ Answers(p, "own")
     \/ ask[p].at \in {"http", "opening"} /\ Answers(p, "error")
  /\ UNCHANGED <<linkVars, arm, socket, viewer>>

\* The agent ends a socket, and the receive in progress fails.
SocketBreaks(i) ==
  /\ socket[i].open
  /\ socket' = [socket EXCEPT ![i] = Shut(@)]
  /\ IF socket[i].reader = NoOne THEN UNCHANGED <<ask, answer>>
     ELSE Answers(socket[i].reader, "error")
  /\ UNCHANGED <<linkVars, arm, viewer>>

-----------------------------------------------------------------------------
(* /api/telemetry *)

ViewerOpens(v) ==
  /\ viewer[v] = 0 /\ link["client"] # 0
  /\ viewer' = [viewer EXCEPT ![v] = link["client"]]
  /\ UNCHANGED <<linkVars, askVars>>

PumpLeavesSocket(v) ==
  viewer[v] # 0 /\ <<"client", viewer[v]>> \notin alive /\ UNCHANGED missionVars

\* The stream of a closed client ends, and the pump closes the browser's side.
PumpEnds(v) ==
  /\ viewer[v] # 0 /\ <<"client", viewer[v]>> \notin alive
  /\ viewer' = [viewer EXCEPT ![v] = 0]
  /\ UNCHANGED <<linkVars, askVars>>

\* The browser leaves, or the robot ends its side.
ViewerLeaves(v) ==
  /\ viewer[v] # 0
  /\ viewer' = [viewer EXCEPT ![v] = 0]
  /\ UNCHANGED <<linkVars, askVars>>

Proxied(p) ==
  \/ AwaitBody(p) \/ BadBody(p)
  \/ ArmTelemetryRequest(p) \/ PoseRequest(p) \/ ProgramRequest(p)
  \/ AutonomyRequest(p) \/ EstopRequest(p) \/ MotionRequest(p)
  \/ ArmOpened(p) \/ ArmAnswered(p) \/ HttpAnswered(p)

MissionNext ==
  \/ \E q \in Switchers : Disconnect(q) \/ Closed(q) \/ \E r \in Robots : Connect(q, r)
  \/ \E p \in Operators : Proxied(p)
  \/ \E i \in DOMAIN socket : SocketBreaks(i)
  \/ \E v \in Viewers : ViewerOpens(v) \/ PumpEnds(v) \/ ViewerLeaves(v)

\* A closing ends, and a pump whose stream has ended is run by the loop.
MissionFair ==
  /\ \A q \in Switchers : WF_missionVars(Closed(q))
  /\ \A v \in Viewers : WF_missionVars(PumpEnds(v))

MissionSpec == MissionInit /\ [][MissionNext]_missionVars

-----------------------------------------------------------------------------
(* Properties *)

\* "owns the single active AgentClient" (robot_link.py:1): with no connect or
\* disconnect under way, nothing is open but what the link holds, its parts
\* belong to one link, and McState names its robot and its relay.
LinkSettled ==
  (\A q \in Switchers : switch[q].at = "idle") =>
    /\ alive = {<<f, link[f]>> : f \in {g \in ToSet(Parts) : link[g] # 0}}
    /\ Cardinality({link[f] : f \in ToSet(Parts)}) = 1
    /\ link["client"] # 0 =>
         mc = [connected |-> TRUE, robot |-> made[link["client"]], relay |-> link["relay"]]

\* The reply that comes next on an arm socket is to the frame of the request
\* that awaits it, whatever breaks, closes or is reconnected between two calls,
\* on every socket on which no frame was sent while a reply was awaited: after
\* that the socket stays one reply behind.
RepliesInTurn ==
  \A p \in Operators :
    ask[p].at = "reply" =>
      LET s == socket[ask[p].on] IN s.overlapped \/ s.wire = <<p>>

\* "Each call sends one frame ... and returns the agent's per-frame reply"
\* (client.py:128-130), of requests that overlap too.
ArmAnswerIsOwn == \A p \in Operators : answer[p] # "other"

\* A connect or disconnect ends, and a telemetry socket does not outlive the
\* client it streams from (routes_link.py:86-90).
LinkSettles ==
  /\ \A q \in Switchers : switch[q].at # "idle" ~> switch[q].at = "idle"
  /\ \A v \in Viewers, n \in Links :
        (viewer[v] = n /\ <<"client", n>> \notin alive) ~> viewer[v] # n
=============================================================================

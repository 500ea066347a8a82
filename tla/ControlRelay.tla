---------------------------- MODULE ControlRelay ----------------------------
(***************************************************************************)
(* /api/control: one browser's frames relayed to the robot's /control      *)
(* socket (mc/routes_control.py), and the CadenceKeeper that repeats the   *)
(* last drive on that socket (mc/cadence.py).  The relay does not read     *)
(* the browser while it awaits a reply; only the relay reads replies.      *)
(***************************************************************************)
EXTENDS Naturals, Sequences, SequencesExt

CONSTANTS
  MaxFrames,  \* bound: frames of the browser
  MaxUnread   \* bound: replies of the robot not read

ASSUME ControlAssumption == MaxFrames \in Nat /\ MaxUnread \in Nat

VARIABLES
  browser,   \* the browser's side: open, or gone
  inbox,     \* its frames not read yet
  typed,     \* history: frames it has sent
  relay,     \* what the handler awaits
  last,      \* CadenceKeeper._last: a drive, or nothing
  keeper,    \* its task runs
  robot,     \* robot_ws: its other end listens, is lost unnoticed, or it is closed
  unread,    \* the replies not read yet: to the last frame relayed, or to others
  wrote,     \* history: the last frame written by the relay
  repeated,  \* history: the last frame written is the keeper's
  shown      \* history: whose reply the browser was shown last

controlVars == <<browser, inbox, typed, relay, last, keeper, robot, unread,
                 wrote, repeated, shown>>
relayVars == <<relay, last, keeper, robot, unread, wrote, repeated, shown>>

Commands == {"drive", "stop", "estop"}

ControlTypeOK ==
  /\ browser \in {"open", "gone"}
  /\ inbox \in Seq(Commands \cup {"bad"}) /\ typed \in 0 .. MaxFrames
  /\ relay \in {"closed", "reading", "waiting", "leaving"}
  /\ last \in {"drive", "none"} /\ keeper \in BOOLEAN /\ robot \in {"up", "lost", "closed"}
  /\ unread \in Seq({"own", "other"})
  /\ wrote \in Commands \cup {"none"} /\ repeated \in BOOLEAN
  /\ shown \in {"none", "own", "other", "error"}

ControlInit ==
  /\ browser = "gone" /\ inbox = <<>> /\ typed = 0
  /\ relay = "closed" /\ last = "none" /\ keeper = FALSE /\ robot = "closed"
  /\ unread = <<>> /\ wrote = "none" /\ repeated = FALSE /\ shown = "none"

\* The handler with a robot it reaches; without one it answers and closes.
BrowserOpens ==
  /\ browser = "gone" /\ relay = "closed" /\ typed = 0
  /\ browser' = "open" /\ relay' = "reading" /\ keeper' = TRUE /\ robot' = "up"
  /\ UNCHANGED <<inbox, typed, last, unread, wrote, repeated, shown>>

BrowserSends(cmd) ==
  /\ browser = "open" /\ typed < MaxFrames
  /\ inbox' = Append(inbox, cmd) /\ typed' = typed + 1
  /\ UNCHANGED <<browser, relayVars>>

BrowserCloses ==
  /\ browser = "open"
  /\ browser' = "gone"
  /\ UNCHANGED <<inbox, typed, relayVars>>

\* Another of this browser's frames is taken up.
Reads ==
  /\ relay = "reading" /\ inbox # <<>>
  /\ inbox' = Tail(inbox)
  /\ UNCHANGED <<browser, typed>>

\* Not JSON: an error, and on.  JSON of another shape than {cmd, args}: the
\* exception ends the handler.
BadFrame ==
  /\ Reads /\ Head(inbox) = "bad"
  /\ \/ shown' = "error" /\ UNCHANGED relay
     \/ relay' = "leaving" /\ UNCHANGED shown
  /\ UNCHANGED <<last, keeper, robot, unread, wrote, repeated>>

UpdateOnStop(cmd) ==
  last' = CASE cmd = "drive" -> "drive" [] cmd = "stop" -> "none" [] OTHER -> last

\* CadenceKeeper.update: only a drive is repeated.
Update(cmd) == last' = IF cmd = "drive" THEN "drive" ELSE "none"

\* The replies not read yet are to earlier frames.
Earlier == [i \in DOMAIN unread |-> "other"]

\* A command updates the keeper and is written, before anything else can run.
\* A robot that is lost is not noticed by the write, which is in vain or raises.
RelayTakes ==
  /\ Reads /\ Head(inbox) # "bad"
  /\ Update(Head(inbox))
  /\ \/ /\ robot = "up" /\ relay' = "waiting"
        /\ unread' = Append(Earlier, "own")
        /\ wrote' = Head(inbox) /\ repeated' = FALSE
        /\ UNCHANGED shown
     \/ /\ robot = "lost" /\ relay' \in {"waiting", "leaving"}
        /\ unread' = Earlier
        /\ UNCHANGED <<wrote, repeated, shown>>
     \/ /\ robot = "closed" /\ relay' = "leaving" /\ shown' = "error"
        /\ UNCHANGED <<unread, wrote, repeated>>
  /\ UNCHANGED <<keeper, robot>>

\* The next reply of the robot is returned, whosever it is.
RelayAnswers ==
  /\ relay = "waiting" /\ unread # <<>>
  /\ relay' = "reading"
  /\ unread' = Tail(unread)
  /\ shown' = Head(unread)
  /\ UNCHANGED <<browser, inbox, typed, last, keeper, robot, wrote, repeated>>

\* receive() comes to the end of a lost connection, and closes its own.
RelayHearsClose ==
  /\ relay = "waiting" /\ unread = <<>> /\ robot = "lost"
  /\ robot' = "closed"
  /\ relay' = "reading" /\ shown' = "error"
  /\ UNCHANGED <<browser, inbox, typed, last, keeper, unread, wrote, repeated>>

RelayAwaitsReply == relay = "waiting" /\ UNCHANGED controlVars

\* Two seconds without a reply; it stays to be read.
RelayTimesOut ==
  /\ relay = "waiting"
  /\ relay' = "reading" /\ shown' = "error"
  /\ UNCHANGED <<browser, inbox, typed, last, keeper, robot, unread, wrote, repeated>>

\* The loop of the handler ends with the browser's frames.
RelayLeaves ==
  /\ relay = "reading" /\ inbox = <<>> /\ browser = "gone"
  /\ relay' = "leaving"
  /\ UNCHANGED <<browser, inbox, typed, last, keeper, robot, unread, wrote, repeated, shown>>

\* finally: the keeper is stopped, the sockets are closed.
RelayEnds ==
  /\ relay = "leaving"
  /\ relay' = "closed" /\ browser' = "gone" /\ inbox' = <<>>
  /\ last' = "none" /\ keeper' = FALSE /\ robot' = "closed" /\ unread' = <<>>
  /\ UNCHANGED <<typed, wrote, repeated, shown>>

\* One tick of the repeat loop; what it sends the robot answers as well.
KeeperTick ==
  /\ keeper /\ last = "drive" /\ robot = "up" /\ Len(unread) < MaxUnread
  /\ unread' = Append(unread, "other")
  /\ repeated' = TRUE
  /\ UNCHANGED <<browser, inbox, typed, relay, last, keeper, robot, wrote, shown>>

\* The robot's end goes, with or without the replies it wrote; `closed` stays
\* false until somebody receives.
RobotCloses ==
  /\ robot = "up"
  /\ robot' = "lost" /\ unread' \in {unread, <<>>}
  /\ UNCHANGED <<browser, inbox, typed, relay, last, keeper, wrote, repeated, shown>>

ControlNext ==
  \/ BrowserOpens \/ BrowserCloses \/ \E c \in Commands \cup {"bad"} : BrowserSends(c)
  \/ BadFrame \/ RelayTakes \/ RelayAnswers \/ RelayHearsClose \/ RelayTimesOut \/ RelayLeaves \/ RelayEnds
  \/ KeeperTick \/ RobotCloses

\* The handler goes on when it can, and its timer fires; the robot need not
\* answer.
ControlFair ==
  /\ WF_controlVars(BadFrame) /\ WF_controlVars(RelayTakes)
  /\ WF_controlVars(RelayLeaves) /\ WF_controlVars(RelayEnds)
  /\ WF_controlVars(RelayTimesOut)

ControlSpec == ControlInit /\ [][ControlNext]_controlVars

-----------------------------------------------------------------------------
(* Properties *)

\* The keeper drives only on the operator's last word: no drive it repeats
\* follows a frame of the relay that is not a drive (cadence.py:30).
RepeatsLastWord == repeated => wrote = "drive"

\* A stop typed while the robot is silent still reaches it, unless it is gone or
\* the connection ends; and a browser gone leaves no keeper driving behind
\* (routes_control.py:77, 89).
StopGetsThrough ==
  /\ Contains(inbox, "stop") ~> (wrote = "stop" \/ robot # "up" \/ relay = "closed")
  /\ browser = "gone" /\ relay # "closed" ~> ~keeper

\* "the reply (ACK / NAK) is returned unchanged" (routes_control.py:4): the
\* reply to a frame is the reply to that frame.  The code does not keep it: the
\* keeper's repeated drives are answered on the same socket, and only the relay
\* reads, so an operator is shown the replies to those.
ControlReplyIsOwn == shown # "other"
=============================================================================

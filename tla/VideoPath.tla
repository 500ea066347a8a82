----------------------------- MODULE VideoPath ------------------------------
(***************************************************************************)
(* A frame's way from the camera to the webview: CameraBroker and the      *)
(* /video socket of the agent (agent/video.py, app.py), VideoRelay and     *)
(* /api/video of Mission Control (mc/video_relay.py, routes_video.py).     *)
(* Bounded queues that drop their oldest, in series; on the wire a frame   *)
(* is a header and then its image.  Frames are their numbers.              *)
(***************************************************************************)
EXTENDS Naturals, Sequences, SequencesExt

CONSTANTS
  QueueSize,  \* maxsize of both queues
  MaxShots,  \* bound: frames captured
  MaxWire     \* bound: messages a socket holds before its writer waits

ASSUME VideoAssumption ==
  /\ QueueSize \in Nat \ {0}
  /\ MaxShots \in Nat
  /\ MaxWire \in Nat \ {0}

VARIABLES
  camera,   \* the broker's loop: "on", "off", or "dead" after a capture raised
  captured, \* frames pushed so far
  latest,   \* autonomy's queue, and BrokerCamera._latest
  pushQ,    \* the queue of the agent's pusher
  hand,     \* the frame it encodes, 0 for none
  wire,     \* the messages on the robot's socket
  header,   \* pending_hdr, 0 for None
  relayQ,   \* the queue of the webview's pusher
  screen,   \* the frame the webview's socket was sent last
  upstream, \* the relay's connection: "none", "up", "mute" after the agent's
            \* pusher has ended, "over"
  watcher   \* a webview is subscribed

videoVars == <<camera, captured, latest, pushQ, hand, wire, header, relayQ,
               screen, upstream, watcher>>

FrameNo == 0 .. MaxShots

VideoTypeOK ==
  /\ camera \in {"on", "off", "dead"} /\ captured \in FrameNo
  /\ latest \in [queue: Seq(FrameNo), kept: FrameNo]
  /\ pushQ \in Seq(FrameNo) /\ relayQ \in Seq(FrameNo)
  /\ \A q \in {pushQ, relayQ, latest.queue} : Len(q) <= QueueSize
  /\ hand \in FrameNo /\ header \in FrameNo
  /\ wire \in Seq({"header", "image"} \X FrameNo)
  /\ screen \in FrameNo
  /\ upstream \in {"none", "up", "mute", "over"} /\ watcher \in BOOLEAN

VideoInit ==
  /\ camera = "off" /\ captured = 0 /\ latest = [queue |-> <<>>, kept |-> 0]
  /\ pushQ = <<>> /\ hand = 0 /\ wire = <<>> /\ header = 0 /\ relayQ = <<>>
  /\ screen = 0
  /\ upstream = "none" /\ watcher = FALSE

RefuseNewest(q, f) == IF Len(q) = QueueSize THEN q ELSE Append(q, f)

\* A full queue gives up its oldest frame.
PushOldest(q, f) == Append(IF Len(q) = QueueSize THEN Tail(q) ELSE q, f)

PushUnbounded(q, f) == Append(q, f)

Push(q, f) == PushOldest(q, f)

StartCamera ==
  /\ camera # "on"
  /\ camera' = "on"
  /\ UNCHANGED <<captured, latest, pushQ, hand, wire, header, relayQ, screen, upstream, watcher>>

\* One turn of CameraBroker._loop: every subscriber's queue gets the frame.
Capture ==
  /\ camera = "on" /\ captured < MaxShots
  /\ captured' = captured + 1
  /\ latest' = [latest EXCEPT !.queue = Push(@, captured + 1)]
  /\ pushQ' = IF upstream = "up" THEN Push(pushQ, captured + 1) ELSE pushQ
  /\ UNCHANGED <<camera, hand, wire, header, relayQ, screen, upstream, watcher>>

\* The loop catches nothing but its cancellation: a capture that raises ends it.
CaptureRaises ==
  /\ camera = "on"
  /\ camera' = "dead"
  /\ UNCHANGED <<captured, latest, pushQ, hand, wire, header, relayQ, screen, upstream, watcher>>

\* BrokerCamera.capture drains its queue; with no frame yet it raises.
LatestFrame ==
  /\ latest.queue # <<>>
  /\ latest' = [queue |-> <<>>, kept |-> Last(latest.queue)]
  /\ UNCHANGED <<camera, captured, pushQ, hand, wire, header, relayQ, screen, upstream, watcher>>

\* _video_push takes a frame, encodes it in a thread,
Encode ==
  /\ hand = 0 /\ pushQ # <<>>
  /\ hand' = Head(pushQ) /\ pushQ' = Tail(pushQ)
  /\ UNCHANGED <<camera, captured, latest, wire, header, relayQ, screen, upstream, watcher>>

\* and sends its header and its image.
SendFrame ==
  /\ hand # 0 /\ Len(wire) < MaxWire
  /\ wire' = wire \o << <<"header", hand>>, <<"image", hand>> >>
  /\ hand' = 0
  /\ UNCHANGED <<camera, captured, latest, pushQ, header, relayQ, screen, upstream, watcher>>

\* An encoder that raises ends the pusher, which unsubscribes; its socket stays
\* open and nobody is told.
EncodeRaises ==
  /\ upstream = "up" /\ hand # 0
  /\ hand' = 0 /\ pushQ' = <<>> /\ upstream' = "mute"
  /\ UNCHANGED <<camera, captured, latest, wire, header, relayQ, screen, watcher>>

\* VideoRelay._loop: an image goes with the header before it.
RelayMessage ==
  /\ upstream \in {"up", "mute"} /\ wire # <<>>
  /\ wire' = Tail(wire)
  /\ IF Head(wire)[1] = "header"
     THEN header' = Head(wire)[2] /\ UNCHANGED relayQ
     ELSE /\ header' = 0
          /\ relayQ' = IF watcher /\ header # 0 THEN Push(relayQ, header) ELSE relayQ
  /\ UNCHANGED <<camera, captured, latest, pushQ, hand, screen, upstream, watcher>>

\* The relay of a new link connects; the agent subscribes its pusher.
RelayConnects ==
  /\ upstream = "none"
  /\ upstream' = "up"
  /\ UNCHANGED <<camera, captured, latest, pushQ, hand, wire, header, relayQ, screen, watcher>>

\* Either side ends the connection: both ends drop what they hold, and the
\* relay, whose loop is over, is not started again.
UpstreamEnds ==
  /\ upstream \in {"up", "mute"}
  /\ upstream' = "over"
  /\ pushQ' = <<>> /\ hand' = 0 /\ wire' = <<>> /\ header' = 0
  /\ UNCHANGED <<camera, captured, latest, relayQ, screen, watcher>>

\* /api/video subscribes, and unsubscribes as its pusher ends.
Watch ==
  /\ ~watcher /\ watcher' = TRUE /\ relayQ' = <<>>
  /\ UNCHANGED <<camera, captured, latest, pushQ, hand, wire, header, screen, upstream>>

Unwatch ==
  /\ watcher /\ watcher' = FALSE /\ relayQ' = <<>>
  /\ UNCHANGED <<camera, captured, latest, pushQ, hand, wire, header, screen, upstream>>

\* The pusher of /api/video sends a header and its image.
Show ==
  /\ watcher /\ relayQ # <<>>
  /\ screen' = Head(relayQ) /\ relayQ' = Tail(relayQ)
  /\ UNCHANGED <<camera, captured, latest, pushQ, hand, wire, header, upstream, watcher>>

VideoNext ==
  \/ StartCamera \/ Capture \/ CaptureRaises \/ LatestFrame
  \/ Encode \/ EncodeRaises \/ SendFrame \/ RelayConnects \/ RelayMessage \/ UpstreamEnds
  \/ Watch \/ Unwatch \/ Show

\* The pushers and the relay are tasks that go on while they have a frame.
VideoFair ==
  /\ WF_videoVars(Encode) /\ WF_videoVars(SendFrame)
  /\ WF_videoVars(RelayMessage) /\ WF_videoVars(Show)

-----------------------------------------------------------------------------
(* Properties *)

\* A frame captured while a webview watches is shown, or a later one is, if
\* neither socket ends and no frame fails to be encoded: two drop-oldest queues
\* in series never lose the last frame of a scene that has come to rest.
LastFrameShown ==
  \A n \in 1 .. MaxShots :
    (camera = "on" /\ captured = n /\ Contains(pushQ, n) /\ watcher)
      ~> (screen >= n \/ ~watcher \/ upstream # "up")
=============================================================================

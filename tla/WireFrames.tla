----------------------------- MODULE WireFrames -----------------------------
(***************************************************************************)
(* What a host reads from a board: the bytes a transport delivers, put     *)
(* together by FrameBuffer and read by the ASCII codec (pibot/transport,   *)
(* pibot/protocol/codec.py).  A byte is its code and the two hex digits of *)
(* a checksum are one symbol, Sum + the checksum.  "ACK " is its first     *)
(* byte, a payload its sequence number and one digit of its fields.        *)
(*                                                                         *)
(* A serial line flips bits, and is opened while the board is talking; the *)
(* other links deliver what was sent or go down.                           *)
(***************************************************************************)
EXTENDS Integers, Sequences

CONSTANTS
  Digits,     \* the digits a frame may carry
  MaxFrames,  \* bound: frames sent
  MaxFlips    \* bound: bits flipped

ASSUME WireAssumption == Digits \subseteq 48 .. 57 /\ MaxFrames \in Nat /\ MaxFlips \in Nat

Newline == 10
Star == 42      \* before the checksum
Less == 60      \* begins telemetry
Greater == 62   \* begins a command
Acks == 65      \* begins an acknowledgement
Sum == 256

VARIABLES
  link,    \* the transport: "serial", "tcp", "i2c", "ble"
  open,    \* is_open
  stream,  \* sent and not read
  queue,   \* BleTransport._queue: notifications not taken yet
  buf,     \* FrameBuffer._buf
  sent,    \* history: what the board sent, as the messages it meant
  got,     \* history: what the host decoded
  flips    \* bits flipped so far

frameVars == <<link, open, stream, queue, buf, sent, got, flips>>

-----------------------------------------------------------------------------
(* The codec *)

\* A byte's bits by their weights, and bytes added bit by bit.
Bit(b, w) == (b \div w) % 2

Xor(a, b) ==
  LET x(w) == w * ((Bit(a, w) + Bit(b, w)) % 2)
  IN x(1) + x(2) + x(4) + x(8) + x(16) + x(32) + x(64) + x(128)

\* crc8: polynomial 0x07, initially 0, a byte at a time.
ShiftIn(crc) == IF crc >= 128 THEN Xor((2 * crc) % 256, 7) ELSE 2 * crc

CrcByte(crc, byte) ==
  LET Twice(c) == ShiftIn(ShiftIn(c))
      Four(c) == Twice(Twice(c))
  IN Four(Four(Xor(crc, byte)))

\* A payload has two bytes here.
Crc8(payload) == CrcByte(CrcByte(0, payload[1]), payload[2])

\* encode: a message is its marker and what follows.
Encode(m) ==
  IF m[1] = Acks THEN m \o <<Newline>>
  ELSE m \o <<Star, Sum + Crc8(Tail(m)), Newline>>

Messages == {<<Acks, d>> : d \in Digits} \cup {<<Less, d, e>> : d, e \in Digits}

\* _parse_seq: a token that is no number is refused.
IsDigit(b) == b \in 48 .. 57

AnyChecksum(payload, crc) == crc >= Sum

\* The checksum of the payload, the marker not included.
CrcHolds(payload, crc) == crc = Sum + Crc8(payload)

\* decode: the message a line holds, <<>> for DecodeError.  A line of another
\* length, of two frames where a newline was hit, is taken to fail its checksum.
Decode(line) ==
  LET n == Len(line) IN
  CASE n = 2 /\ line[1] = Acks /\ IsDigit(line[2]) -> line
    [] /\ n = 5 /\ line[1] \in {Less, Greater} /\ line[4] = Star
       /\ CrcHolds(SubSeq(line, 2, 3), line[5]) /\ IsDigit(line[2]) ->
         SubSeq(line, 1, 3)
    [] OTHER -> <<>>

-----------------------------------------------------------------------------
(* The link *)

Flip(b, w) == IF Bit(b, w) = 0 THEN b + w ELSE b - w

\* The frames that may arrive for one sent.  A character has seven bits that
\* matter: with the eighth it is no UTF-8 and is refused.
Weights == {1, 2, 4, 8, 16, 32, 64}

Damaged(frame) ==
  {[frame EXCEPT ![i] = Flip(@, w)] : i \in DOMAIN frame, w \in Weights}

\* With the bits flipped in each.
Arrivals(frame) ==
  {<<frame, 0>>} \cup IF link = "serial" THEN {<<f, 1>> : f \in Damaged(frame)} ELSE {}

WireInit ==
  /\ link \in {"serial", "tcp", "i2c", "ble"} /\ open = TRUE
  /\ \/ stream = <<>>
     \/ /\ link = "serial"  \* the end of a frame sent before open()
        /\ \E m \in Messages : \E i \in 2 .. Len(Encode(m)) :
             stream = SubSeq(Encode(m), i, Len(Encode(m)))
  /\ queue = <<>> /\ buf = <<>> /\ sent = <<>> /\ got = <<>> /\ flips = 0

BoardSends ==
  /\ open /\ Len(sent) < MaxFrames
  /\ \E m \in Messages : \E a \in Arrivals(Encode(m)) :
       /\ flips + a[2] <= MaxFlips
       /\ flips' = flips + a[2]
       /\ stream' = stream \o a[1]
       /\ sent' = Append(sent, m)
  /\ UNCHANGED <<link, open, queue, buf, got>>

\* recv() reads what there is, up to its limit; _on_notify queues a packet.
Reads ==
  /\ open
  /\ \E k \in 1 .. Len(stream) :
       /\ IF link = "ble"
          THEN queue' = queue \o SubSeq(stream, 1, k) /\ UNCHANGED buf
          ELSE buf' = buf \o SubSeq(stream, 1, k) /\ UNCHANGED queue
       /\ stream' = SubSeq(stream, k + 1, Len(stream))
  /\ UNCHANGED <<link, open, sent, got, flips>>

\* BleTransport.recv takes a packet, the link being up or down.
Takes ==
  /\ queue # <<>>
  /\ \E k \in 1 .. Len(queue) :
       /\ buf' = buf \o SubSeq(queue, 1, k)
       /\ queue' = SubSeq(queue, k + 1, Len(queue))
  /\ UNCHANGED <<link, open, stream, sent, got, flips>>

HasLine == \E i \in DOMAIN buf : buf[i] = Newline

\* FrameBuffer.next_frame takes the bytes up to the first newline.
EndsAt == CHOOSE i \in DOMAIN buf : buf[i] = Newline /\ \A j \in 1 .. i - 1 : buf[j] # Newline

\* recv() returns the first line; what decode() refuses is passed over.
\* A closed transport raises, except over Bluetooth, where a lost connection
\* leaves the loop and the queue.
Hands ==
  /\ open \/ link = "ble"
  /\ HasLine
  /\ LET m == Decode(SubSeq(buf, 1, EndsAt - 1)) IN
     got' = IF m = <<>> THEN got ELSE Append(got, m)
  /\ buf' = SubSeq(buf, EndsAt + 1, Len(buf))
  /\ UNCHANGED <<link, open, stream, queue, sent, flips>>

\* The peer closes, the cable or the bus fails, a send fails.
Drops ==
  /\ open /\ open' = FALSE
  /\ stream' = <<>>
  /\ UNCHANGED <<link, queue, buf, sent, got, flips>>

WireNext == BoardSends \/ Reads \/ Takes \/ Hands \/ Drops

WireSpec == WireInit /\ [][WireNext]_frameVars

-----------------------------------------------------------------------------
\* The entries of `s` at `S` are entries of `t`, in its order and each of another.
Within(s, S, t) ==
  \E from \in [S -> DOMAIN t] :
    /\ \A i, j \in S : i < j => from[i] < from[j]
    /\ \A i \in S : s[i] = t[from[i]]

TelemetryIn(s) == {i \in DOMAIN s : s[i][1] = Less}

\* Whatever pieces the bytes come in and wherever a link starts or ends, each
\* telemetry frame the host acts on was sent, in that order and once, bit
\* errors included; on a link without bit errors so is each acknowledgement.
FramesWhole ==
  /\ Within(got, TelemetryIn(got), sent)
  /\ flips = 0 => Within(got, DOMAIN got, sent)

\* "The CRC-8 guards the ASCII framing against serial/UART bit errors":
\* nothing the host decodes differs from what the board sent.  The code does not
\* keep it: an acknowledgement carries no checksum, and one flipped bit makes
\* another sequence number of its digit (codec.py:204).
BitErrorsCaught == Within(got, DOMAIN got, sent)
=============================================================================

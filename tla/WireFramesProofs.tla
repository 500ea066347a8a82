-------------------------- MODULE WireFramesProofs --------------------------
(***************************************************************************)
(* Theorems about WireFrames, for any number of frames, of bit errors and  *)
(* of pieces the bytes arrive in.                                          *)
(***************************************************************************)
EXTENDS WireFrames, SequenceTheorems, WellFoundedInduction, TLAPS

-----------------------------------------------------------------------------
(* The checksum *)

Byte == 0 .. 255

\* The eight bits of a byte.
LEMMA BitsOfByte ==
  ASSUME NEW a \in Byte
  PROVE  /\ \A w \in {1, 2, 4, 8, 16, 32, 64, 128} : Bit(a, w) \in 0 .. 1
         /\ a = Bit(a, 1) + 2 * Bit(a, 2) + 4 * Bit(a, 4) + 8 * Bit(a, 8) + 16 * Bit(a, 16)
                + 32 * Bit(a, 32) + 64 * Bit(a, 64) + 128 * Bit(a, 128)
BY DEF Byte, Bit

\* The lowest bit of a number can be told from the rest.
LEMMA LowBit ==
  ASSUME NEW p \in 0 .. 1, NEW q \in 0 .. 1, NEW x \in Nat, NEW y \in Nat, p + 2 * x = q + 2 * y
  PROVE  p = q /\ x = y
<1>1. p = q
  OBVIOUS
<1>2. QED
  BY <1>1

\* What the bits of f from the i-th on are worth, the i-th being the lowest.
From7(f) == f[7] + 2 * f[8]
From6(f) == f[6] + 2 * From7(f)
From5(f) == f[5] + 2 * From6(f)
From4(f) == f[4] + 2 * From5(f)
From3(f) == f[3] + 2 * From4(f)
From2(f) == f[2] + 2 * From3(f)
From1(f) == f[1] + 2 * From2(f)

LEMMA BitsAreNumbers ==
  ASSUME NEW f \in [1 .. 8 -> 0 .. 1]
  PROVE  /\ \A i \in 1 .. 8 : f[i] \in 0 .. 1
         /\ From2(f) \in Nat /\ From3(f) \in Nat /\ From4(f) \in Nat /\ From5(f) \in Nat
         /\ From6(f) \in Nat /\ From7(f) \in Nat
         /\ From1(f) = f[1] + 2 * f[2] + 4 * f[3] + 8 * f[4] + 16 * f[5] + 32 * f[6] + 64 * f[7]
                          + 128 * f[8]
<1>1. f[1] \in 0 .. 1 /\ f[2] \in 0 .. 1 /\ f[3] \in 0 .. 1 /\ f[4] \in 0 .. 1 /\ f[5] \in 0 .. 1
      /\ f[6] \in 0 .. 1 /\ f[7] \in 0 .. 1 /\ f[8] \in 0 .. 1
  OBVIOUS
<1>2. From7(f) \in Nat
  BY <1>1 DEF From7
<1>3. From6(f) \in Nat /\ From6(f) = f[6] + 2 * f[7] + 4 * f[8]
  BY <1>1, <1>2 DEF From6, From7
<1>4. From5(f) \in Nat /\ From5(f) = f[5] + 2 * f[6] + 4 * f[7] + 8 * f[8]
  BY <1>1, <1>3 DEF From5
<1>5. From4(f) \in Nat /\ From4(f) = f[4] + 2 * f[5] + 4 * f[6] + 8 * f[7] + 16 * f[8]
  BY <1>1, <1>4 DEF From4
<1>6. From3(f) \in Nat /\ From3(f) = f[3] + 2 * f[4] + 4 * f[5] + 8 * f[6] + 16 * f[7] + 32 * f[8]
  BY <1>1, <1>5 DEF From3
<1>7. From2(f) \in Nat /\ From2(f) = f[2] + 2 * f[3] + 4 * f[4] + 8 * f[5] + 16 * f[6] + 32 * f[7]
                                     + 64 * f[8]
  BY <1>1, <1>6 DEF From2
<1>8. From1(f) = f[1] + 2 * f[2] + 4 * f[3] + 8 * f[4] + 16 * f[5] + 32 * f[6] + 64 * f[7]
                   + 128 * f[8]
  <2>1. 2 * From2(f) = 2 * f[2] + 4 * f[3] + 8 * f[4] + 16 * f[5] + 32 * f[6] + 64 * f[7]
                         + 128 * f[8]
    BY <1>1, <1>7
  <2>2. QED
    BY <1>1, <2>1 DEF From1
<1>9. QED
  BY <1>2, <1>3, <1>4, <1>5, <1>6, <1>7, <1>8

\* A byte has one way to be written in bits.
LEMMA BinaryUnique ==
  ASSUME NEW p \in [1 .. 8 -> 0 .. 1], NEW q \in [1 .. 8 -> 0 .. 1], From1(p) = From1(q)
  PROVE  \A i \in 1 .. 8 : p[i] = q[i]
<1>1. p[1] = q[1] /\ From2(p) = From2(q)
  <2>1. /\ p[1] \in 0 .. 1 /\ From2(p) \in Nat
        /\ q[1] \in 0 .. 1 /\ From2(q) \in Nat
    BY BitsAreNumbers
  <2>2. p[1] + 2 * From2(p) = q[1] + 2 * From2(q)
    BY DEF From1
  <2>3. QED
    BY <2>1, <2>2, LowBit
<1>2. p[2] = q[2] /\ From3(p) = From3(q)
  <2>1. /\ p[2] \in 0 .. 1 /\ From3(p) \in Nat
        /\ q[2] \in 0 .. 1 /\ From3(q) \in Nat
    BY BitsAreNumbers
  <2>2. p[2] + 2 * From3(p) = q[2] + 2 * From3(q)
    BY <1>1 DEF From2
  <2>3. QED
    BY <2>1, <2>2, LowBit
<1>3. p[3] = q[3] /\ From4(p) = From4(q)
  <2>1. /\ p[3] \in 0 .. 1 /\ From4(p) \in Nat
        /\ q[3] \in 0 .. 1 /\ From4(q) \in Nat
    BY BitsAreNumbers
  <2>2. p[3] + 2 * From4(p) = q[3] + 2 * From4(q)
    BY <1>2 DEF From3
  <2>3. QED
    BY <2>1, <2>2, LowBit
<1>4. p[4] = q[4] /\ From5(p) = From5(q)
  <2>1. /\ p[4] \in 0 .. 1 /\ From5(p) \in Nat
        /\ q[4] \in 0 .. 1 /\ From5(q) \in Nat
    BY BitsAreNumbers
  <2>2. p[4] + 2 * From5(p) = q[4] + 2 * From5(q)
    BY <1>3 DEF From4
  <2>3. QED
    BY <2>1, <2>2, LowBit
<1>5. p[5] = q[5] /\ From6(p) = From6(q)
  <2>1. /\ p[5] \in 0 .. 1 /\ From6(p) \in Nat
        /\ q[5] \in 0 .. 1 /\ From6(q) \in Nat
    BY BitsAreNumbers
  <2>2. p[5] + 2 * From6(p) = q[5] + 2 * From6(q)
    BY <1>4 DEF From5
  <2>3. QED
    BY <2>1, <2>2, LowBit
<1>6. p[6] = q[6] /\ From7(p) = From7(q)
  <2>1. /\ p[6] \in 0 .. 1 /\ From7(p) \in Nat
        /\ q[6] \in 0 .. 1 /\ From7(q) \in Nat
    BY BitsAreNumbers
  <2>2. p[6] + 2 * From7(p) = q[6] + 2 * From7(q)
    BY <1>5 DEF From6
  <2>3. QED
    BY <2>1, <2>2, LowBit
<1>7. p[7] = q[7] /\ p[8] = q[8]
  <2>. DEFINE x == p[8]
              y == q[8]
  <2>1. p[7] \in 0 .. 1 /\ x \in Nat /\ q[7] \in 0 .. 1 /\ y \in Nat
    OBVIOUS
  <2>2. p[7] + 2 * x = q[7] + 2 * y
    BY <1>6 DEF From7
  <2>. HIDE DEF x, y
  <2>3. p[7] = q[7] /\ x = y
    BY <2>1, <2>2, LowBit
  <2>4. QED
    BY <2>3 DEF x, y
<1>8. QED
  BY <1>1, <1>2, <1>3, <1>4, <1>5, <1>6, <1>7

\* Adding a byte to two others keeps them apart.
LEMMA XorInjective ==
  ASSUME NEW a \in Byte, NEW b \in Byte, NEW c \in Byte,
         Xor(a, c) = Xor(b, c)
  PROVE  a = b
<1>. DEFINE x(v, w) == (Bit(v, w) + Bit(c, w)) % 2
            All == {1, 2, 4, 8, 16, 32, 64, 128}
<1>1. \A v \in {a, b}, w \in All : x(v, w) \in 0 .. 1
  BY BitsOfByte
<1>2. \A v \in {a, b} :
         Xor(v, c) = x(v, 1) + 2 * x(v, 2) + 4 * x(v, 4) + 8 * x(v, 8)
                       + 16 * x(v, 16) + 32 * x(v, 32) + 64 * x(v, 64) + 128 * x(v, 128)
  <2>1. \A v \in {a, b} : 1 * x(v, 1) = x(v, 1)
    BY <1>1
  <2>2. QED
    BY <2>1 DEF Xor
<1>3. \A w \in All : x(a, w) = x(b, w)
  <2>. HIDE DEF x
  <2>. DEFINE p == <<x(a, 1), x(a, 2), x(a, 4), x(a, 8), x(a, 16), x(a, 32), x(a, 64), x(a, 128)>>
              q == <<x(b, 1), x(b, 2), x(b, 4), x(b, 8), x(b, 16), x(b, 32), x(b, 64), x(b, 128)>>
  <2>1. p \in [1 .. 8 -> 0 .. 1] /\ q \in [1 .. 8 -> 0 .. 1]
    BY <1>1
  <2>2. \A i \in 1 .. 8 : p[i] = q[i]
    <3>1. /\ p[1] = x(a, 1) /\ p[2] = x(a, 2) /\ p[3] = x(a, 4) /\ p[4] = x(a, 8)
          /\ p[5] = x(a, 16) /\ p[6] = x(a, 32) /\ p[7] = x(a, 64) /\ p[8] = x(a, 128)
      OBVIOUS
    <3>2. /\ q[1] = x(b, 1) /\ q[2] = x(b, 2) /\ q[3] = x(b, 4) /\ q[4] = x(b, 8)
          /\ q[5] = x(b, 16) /\ q[6] = x(b, 32) /\ q[7] = x(b, 64) /\ q[8] = x(b, 128)
      OBVIOUS
    <3>. HIDE DEF p, q
    <3>3. From1(p) = Xor(a, c)
      <4>1. From1(p) = p[1] + 2 * p[2] + 4 * p[3] + 8 * p[4] + 16 * p[5] + 32 * p[6] + 64 * p[7]
                         + 128 * p[8]
        BY <2>1, BitsAreNumbers
      <4>2. QED
        BY <1>2, <3>1, <4>1, Zenon
    <3>4. From1(q) = Xor(b, c)
      <4>1. From1(q) = q[1] + 2 * q[2] + 4 * q[3] + 8 * q[4] + 16 * q[5] + 32 * q[6] + 64 * q[7]
                         + 128 * q[8]
        BY <2>1, BitsAreNumbers
      <4>2. QED
        BY <1>2, <3>2, <4>1, Zenon
    <3>5. QED
      BY <2>1, <3>3, <3>4, BinaryUnique
  <2>3. x(a, 1) = x(b, 1) /\ x(a, 2) = x(b, 2) /\ x(a, 4) = x(b, 4) /\ x(a, 8) = x(b, 8)
        /\ x(a, 16) = x(b, 16) /\ x(a, 32) = x(b, 32) /\ x(a, 64) = x(b, 64)
        /\ x(a, 128) = x(b, 128)
    BY <2>2
  <2>4. QED
    BY <2>3
<1>4. \A w \in All : Bit(a, w) = Bit(b, w)
  BY <1>3, BitsOfByte
<1>5. QED
  BY <1>4, BitsOfByte

\* The sum of two bytes is a byte, whichever comes first.
LEMMA XorFacts ==
  ASSUME NEW a \in Byte, NEW b \in Byte
  PROVE  Xor(a, b) \in Byte /\ Xor(a, b) = Xor(b, a)
<1>. DEFINE x(w) == (Bit(a, w) + Bit(b, w)) % 2
            All == {1, 2, 4, 8, 16, 32, 64, 128}
<1>1. \A w \in All : x(w) \in 0 .. 1
  BY BitsOfByte
<1>2. Xor(a, b) = 1 * x(1) + 2 * x(2) + 4 * x(4) + 8 * x(8) + 16 * x(16) + 32 * x(32) + 64 * x(64)
                  + 128 * x(128)
  BY DEF Xor
<1>3. Xor(a, b) \in Byte
  <2>. HIDE DEF x
  <2>1. QED
    BY <1>1, <1>2 DEF Byte
<1>4. \A w \in All : (Bit(a, w) + Bit(b, w)) % 2 = (Bit(b, w) + Bit(a, w)) % 2
  BY BitsOfByte
<1>5. QED
  BY <1>3, <1>4 DEF Xor

\* A shift of the register loses nothing.
LEMMA ShiftInjective ==
  ASSUME NEW a \in Byte, NEW b \in Byte
  PROVE  ShiftIn(a) \in Byte /\ (ShiftIn(a) = ShiftIn(b) => a = b)
<1>1. 7 \in Byte
  BY DEF Byte
<1>2. \A c \in Byte : c >= 128 => /\ (2 * c) % 256 = 2 * c - 256
                                  /\ 2 * c - 256 \in Byte
  BY DEF Byte
<1>3. \A c \in Byte : c % 2 = 0 => Xor(c, 7) % 2 = 1
  <2>. SUFFICES ASSUME NEW c \in Byte, c % 2 = 0 PROVE Xor(c, 7) % 2 = 1
    OBVIOUS
  <2>. DEFINE x(w) == (Bit(c, w) + Bit(7, w)) % 2
              All == {1, 2, 4, 8, 16, 32, 64, 128}
  <2>1. 7 \in Byte /\ Bit(c, 1) = 0 /\ Bit(7, 1) = 1
    BY DEF Bit, Byte
  <2>2. x(1) = 1 /\ \A w \in All : x(w) \in 0 .. 1
    BY <2>1, BitsOfByte
  <2>3. Xor(c, 7) = 1 * x(1) + 2 * x(2) + 4 * x(4) + 8 * x(8) + 16 * x(16) + 32 * x(32)
                    + 64 * x(64) + 128 * x(128)
    BY DEF Xor
  <2>. HIDE DEF x
  <2>4. QED
    BY <2>2, <2>3
<1>4. ShiftIn(a) \in Byte
  <2>1. CASE a >= 128
    <3>1. ShiftIn(a) = Xor(2 * a - 256, 7) /\ 2 * a - 256 \in Byte
      BY <2>1, <1>2 DEF ShiftIn
    <3>2. QED
      BY <3>1, <1>1, XorFacts
  <2>2. CASE ~(a >= 128)
    BY <2>2 DEF ShiftIn, Byte
  <2>3. QED
    BY <2>1, <2>2
<1>5. ASSUME ShiftIn(a) = ShiftIn(b) PROVE a = b
  <2>1. CASE a >= 128 /\ b >= 128
    <3>1. 2 * a - 256 = 2 * b - 256
      <4>1. Xor(2 * a - 256, 7) = Xor(2 * b - 256, 7)
        BY <2>1, <1>2, <1>5 DEF ShiftIn
      <4>2. 2 * a - 256 \in Byte /\ 2 * b - 256 \in Byte
        BY <2>1, <1>2
      <4>3. QED
        BY <4>1, <4>2, <1>1, XorInjective
    <3>2. QED
      BY <3>1 DEF Byte
  <2>2. CASE ~(a >= 128) /\ ~(b >= 128)
    BY <2>2, <1>5 DEF ShiftIn, Byte
  <2>3. \A c, d \in Byte : c >= 128 /\ ~(d >= 128) => ShiftIn(c) # ShiftIn(d)
    <3>1. \A c \in Byte : c >= 128 => ShiftIn(c) % 2 = 1
      <4>1. \A c \in Byte : c >= 128 => (2 * c - 256) % 2 = 0
        BY DEF Byte
      <4>2. QED
        BY <4>1, <1>2, <1>3 DEF ShiftIn
    <3>2. \A d \in Byte : ~(d >= 128) => ShiftIn(d) % 2 = 0
      BY DEF ShiftIn, Byte
    <3>3. QED
      BY <3>1, <3>2
  <2>4. QED
    BY <2>1, <2>2, <2>3, <1>5 DEF Byte
<1>6. QED
  BY <1>4, <1>5

\* Neither does the byte put into it, whether the register or the byte differs.
LEMMA CrcByteInjective ==
  ASSUME NEW a \in Byte, NEW b \in Byte, NEW c \in Byte
  PROVE  /\ CrcByte(a, c) \in Byte
         /\ CrcByte(a, c) = CrcByte(b, c) => a = b
         /\ CrcByte(c, a) = CrcByte(c, b) => a = b
<1>. DEFINE Two(v) == ShiftIn(ShiftIn(v))
            Four(v) == Two(Two(v))
            Eight(v) == Four(Four(v))
<1>1. \A v, w \in Byte : Two(v) \in Byte /\ (Two(v) = Two(w) => v = w)
  BY ShiftInjective
<1>2. \A v, w \in Byte : Four(v) \in Byte /\ (Four(v) = Four(w) => v = w)
  <2>. HIDE DEF Two
  <2>1. QED
    BY <1>1
<1>3. \A v, w \in Byte : Eight(v) \in Byte /\ (Eight(v) = Eight(w) => v = w)
  <2>. HIDE DEF Four
  <2>1. QED
    BY <1>2
<1>4. \A v, w \in Byte : CrcByte(v, w) = Eight(Xor(v, w))
  BY DEF CrcByte
<1>. HIDE DEF Eight
<1>5. CrcByte(a, c) \in Byte
  BY <1>3, <1>4, XorFacts
<1>6. ASSUME CrcByte(a, c) = CrcByte(b, c) PROVE a = b
  <2>1. Xor(a, c) = Xor(b, c)
    BY <1>3, <1>4, <1>6, XorFacts
  <2>2. QED
    BY <2>1, XorInjective
<1>7. ASSUME CrcByte(c, a) = CrcByte(c, b) PROVE a = b
  <2>1. Xor(c, a) = Xor(c, b)
    BY <1>3, <1>4, <1>7, XorFacts
  <2>2. Xor(a, c) = Xor(b, c)
    BY <2>1, XorFacts
  <2>3. QED
    BY <2>2, XorInjective
<1>8. QED
  BY <1>5, <1>6, <1>7

(***************************************************************************)
(* crc8 is a byte, and two payloads of two bytes that differ in one of     *)
(* them have different checksums, however many bits of it differ           *)
(* (codec.py:90).                                                          *)
(***************************************************************************)
THEOREM CrcTellsOneByte ==
  ASSUME NEW d \in Byte, NEW e \in Byte, NEW x \in Byte
  PROVE  /\ Crc8(<<d, e>>) \in Byte
         /\ Crc8(<<d, e>>) = Crc8(<<x, e>>) => d = x
         /\ Crc8(<<d, e>>) = Crc8(<<d, x>>) => e = x
<1>1. \A u, v \in Byte : Crc8(<<u, v>>) = CrcByte(CrcByte(0, u), v)
  BY DEF Crc8
<1>2. 0 \in Byte
  BY DEF Byte
<1>3. CrcByte(0, d) \in Byte /\ CrcByte(0, x) \in Byte
  BY <1>2, CrcByteInjective
<1>4. Crc8(<<d, e>>) \in Byte
  BY <1>1, <1>3, CrcByteInjective
<1>5. ASSUME Crc8(<<d, e>>) = Crc8(<<x, e>>) PROVE d = x
  <2>1. CrcByte(0, d) = CrcByte(0, x)
    BY <1>1, <1>3, <1>5, CrcByteInjective
  <2>2. QED
    BY <1>2, <2>1, CrcByteInjective
<1>6. ASSUME Crc8(<<d, e>>) = Crc8(<<d, x>>) PROVE e = x
  BY <1>1, <1>3, <1>6, CrcByteInjective
<1>7. QED
  BY <1>4, <1>5, <1>6
-----------------------------------------------------------------------------
(* The frames *)


\* A sequence of bytes with one of them replaced.
LEMMA Replaced ==
  ASSUME NEW n \in Nat, NEW s \in Seq(Nat), Len(s) = n, NEW i \in 1 .. n, NEW v \in Nat
  PROVE  /\ [s EXCEPT ![i] = v] \in Seq(Nat) /\ Len([s EXCEPT ![i] = v]) = n
         /\ \A j \in 1 .. n : [s EXCEPT ![i] = v][j] = IF j = i THEN v ELSE s[j]
<1>. DEFINE u == [s EXCEPT ![i] = v]
<1>1. s \in [1 .. n -> Nat] /\ DOMAIN s = 1 .. n
  OBVIOUS
<1>2. u \in [1 .. n -> Nat] /\ \A j \in 1 .. n : u[j] = IF j = i THEN v ELSE s[j]
  BY <1>1
<1>. HIDE DEF u
<1>3. u \in Seq(Nat) /\ Len(u) = n
  BY <1>2
<1>4. QED
  BY <1>2, <1>3 DEF u

\* The bytes of two sequences put together.
LEMMA Joined ==
  ASSUME NEW s \in Seq(Nat), NEW t \in Seq(Nat)
  PROVE  /\ s \o t \in Seq(Nat) /\ Len(s \o t) = Len(s) + Len(t)
         /\ \A i \in 1 .. Len(s) + Len(t) :
              (s \o t)[i] = IF i <= Len(s) THEN s[i] ELSE t[i - Len(s)]
BY ConcatProperties, Zenon

\* Three sequences may be put together in either order.
LEMMA Regrouped == \A s, t, u \in Seq(Nat) : (s \o t) \o u = s \o (t \o u)
<1>. DEFINE Associative(S) == \A s, t, u \in Seq(S) : (s \o t) \o u = s \o (t \o u)
<1>1. \A S : Associative(S)
  BY ConcatAssociative
<1>. HIDE DEF Associative
<1>2. Associative(Nat)
  BY <1>1
<1>3. QED
  BY <1>2 DEF Associative

\* An acknowledgement's end put to it.
LEMMA JoinsShort ==
  ASSUME NEW a \in Nat, NEW b \in Nat, NEW c \in Nat
  PROVE  <<a, b>> \o <<c>> = <<a, b, c>>
<1>. DEFINE s == <<a, b>>
            t == <<c>>
            u == <<a, b, c>>
<1>1. /\ s \in Seq(Nat) /\ Len(s) = 2 /\ s[1] = a /\ s[2] = b
      /\ t \in Seq(Nat) /\ Len(t) = 1 /\ t[1] = c
      /\ u \in Seq(Nat) /\ Len(u) = 3 /\ u[1] = a /\ u[2] = b /\ u[3] = c
  OBVIOUS
<1>. HIDE DEF s, t, u
<1>2. s \o t \in Seq(Nat) /\ Len(s \o t) = Len(s) + Len(t)
      /\ \A i \in 1 .. Len(s) + Len(t) :
           (s \o t)[i] = IF i <= Len(s) THEN s[i] ELSE t[i - Len(s)]
  BY <1>1, Joined, Zenon
<1>3. \A i \in 1 .. Len(u) : (s \o t)[i] = u[i]
  BY <1>1, <1>2
<1>4. s \o t = u
  <2>1. Len(s \o t) = Len(u)
    BY <1>1, <1>2
  <2>2. \A i \in 1 .. Len(s \o t) : (s \o t)[i] = u[i]
    BY <1>3, <2>1
  <2>3. QED
    BY <1>1, <1>2, <2>1, <2>2, SeqEqual, Zenon
<1>5. QED
  BY <1>4 DEF s, t, u

\* Telemetry's end put to it.
LEMMA JoinsLong ==
  ASSUME NEW a \in Nat, NEW b \in Nat, NEW c \in Nat, NEW d \in Nat, NEW e \in Nat,
         NEW f \in Nat
  PROVE  <<a, b, c>> \o <<d, e, f>> = <<a, b, c, d, e, f>>
<1>. DEFINE s == <<a, b, c>>
            t == <<d, e, f>>
            u == <<a, b, c, d, e, f>>
<1>1. /\ s \in Seq(Nat) /\ Len(s) = 3 /\ s[1] = a /\ s[2] = b /\ s[3] = c
      /\ t \in Seq(Nat) /\ Len(t) = 3 /\ t[1] = d /\ t[2] = e /\ t[3] = f
      /\ u \in Seq(Nat) /\ Len(u) = 6 /\ u[1] = a /\ u[2] = b /\ u[3] = c
      /\ u[4] = d /\ u[5] = e /\ u[6] = f
  OBVIOUS
<1>. HIDE DEF s, t, u
<1>2. s \o t \in Seq(Nat) /\ Len(s \o t) = Len(s) + Len(t)
      /\ \A i \in 1 .. Len(s) + Len(t) :
           (s \o t)[i] = IF i <= Len(s) THEN s[i] ELSE t[i - Len(s)]
  BY <1>1, Joined, Zenon
<1>3. \A i \in 1 .. Len(u) : (s \o t)[i] = u[i]
  <2>. DEFINE v == s \o t
  <2>1. \A i \in 1 .. 6 : v[i] = IF i <= 3 THEN s[i] ELSE t[i - 3]
    <3>1. Len(s) = 3 /\ Len(t) = 3
      BY <1>1
    <3>2. \A i \in 1 .. 3 + 3 : v[i] = IF i <= 3 THEN s[i] ELSE t[i - 3]
      BY <1>2, <3>1, Zenon
    <3>. HIDE DEF v
    <3>3. QED
      BY <3>2
  <2>. HIDE DEF v
  <2>2. v[1] = s[1] /\ v[2] = s[2] /\ v[3] = s[3] /\ v[4] = t[1] /\ v[5] = t[2] /\ v[6] = t[3]
    BY <2>1
  <2>3. \A i \in 1 .. 6 : v[i] = u[i]
    BY <1>1, <2>2
  <2>4. QED
    BY <1>1, <2>3 DEF v
<1>4. s \o t = u
  <2>1. Len(s \o t) = Len(u)
    BY <1>1, <1>2
  <2>2. \A i \in 1 .. Len(s \o t) : (s \o t)[i] = u[i]
    BY <1>3, <2>1
  <2>3. QED
    BY <1>1, <1>2, <2>1, <2>2, SeqEqual, Zenon
<1>5. QED
  BY <1>4 DEF s, t, u

\* A message is an acknowledgement or telemetry.
LEMMA TwoKinds ==
  ASSUME NEW m \in Messages
  PROVE  \/ \E d \in 48 .. 57 : m = <<65, d>>
         \/ \E d, e \in 48 .. 57 : m = <<60, d, e>>
BY WireAssumption DEF Messages, Acks, Less

\* The frame of an acknowledgement.
LEMMA EncodedAck ==
  ASSUME NEW d \in 48 .. 57
  PROVE  Encode(<<65, d>>) = <<65, d, 10>>
BY JoinsShort DEF Encode, Acks, Newline

\* The bytes of telemetry on the wire: the marker, the payload, its checksum.
Framed(d, e) == <<60, d, e, 42, 256 + Crc8(<<d, e>>), 10>>

\* The frame of telemetry, whose checksum is a byte.
LEMMA EncodedTelemetry ==
  ASSUME NEW d \in 48 .. 57, NEW e \in 48 .. 57
  PROVE  Crc8(<<d, e>>) \in Nat /\ Encode(<<60, d, e>>) = Framed(d, e)
<1>. DEFINE m == <<60, d, e>>
            t == <<d, e>>
<1>1. m \in Seq(Nat) /\ m # <<>> /\ Len(m) = 3 /\ t \in Seq(Nat) /\ Len(t) = 2
      /\ m[1] = 60 /\ m[2] = t[1] /\ m[3] = t[2]
  OBVIOUS
<1>2. Tail(m) = t
  <2>. HIDE DEF m, t
  <2>1. Tail(m) \in Seq(Nat) /\ Len(Tail(m)) = Len(m) - 1
        /\ \A i \in 1 .. Len(Tail(m)) : Tail(m)[i] = m[i + 1]
    BY <1>1, HeadTailProperties
  <2>2. Len(Tail(m)) = Len(t)
    BY <1>1, <2>1
  <2>3. \A i \in 1 .. Len(Tail(m)) : Tail(m)[i] = t[i]
    <3>1. SUFFICES ASSUME NEW i \in 1 .. Len(Tail(m)) PROVE Tail(m)[i] = t[i]
      OBVIOUS
    <3>2. Tail(m)[i] = m[i + 1]
      BY <2>1, Zenon
    <3>3. i = 1 \/ i = 2
      <4>1. i \in 1 .. 2
        BY <1>1, <2>2, Zenon
      <4>2. QED
        BY <4>1
    <3>4. QED
      BY <1>1, <3>2, <3>3
  <2>4. QED
    BY <1>1, <2>1, <2>2, <2>3, SeqEqual, Zenon
<1>3. Encode(m) = m \o <<42, 256 + Crc8(t), 10>>
  <2>1. QED
    BY <1>1, <1>2 DEF Encode, Acks, Newline, Star, Sum
<1>4. Crc8(t) \in Nat
  <2>1. d \in Byte /\ e \in Byte /\ \A k \in Byte : k \in Nat
    BY DEF Byte
  <2>2. QED
    BY <2>1, CrcTellsOneByte
<1>5. <<60, d, e>> \o <<42, 256 + Crc8(<<d, e>>), 10>> = Framed(d, e)
  <2>. DEFINE k == 256 + Crc8(<<d, e>>)
  <2>1. k \in Nat /\ d \in Nat /\ e \in Nat /\ 60 \in Nat /\ 42 \in Nat /\ 10 \in Nat
    BY <1>4
  <2>2. Framed(d, e) = <<60, d, e, 42, k, 10>>
    BY DEF Framed
  <2>. HIDE DEF k
  <2>3. <<60, d, e>> \o <<42, k, 10>> = <<60, d, e, 42, k, 10>>
    BY <2>1, JoinsLong
  <2>4. QED
    BY <2>2, <2>3 DEF k
<1>6. QED
  BY <1>3, <1>4, <1>5

\* A bit more or less.
LEMMA FlipFacts ==
  ASSUME NEW b \in Nat, NEW w \in Weights
  PROVE  /\ Flip(b, w) \in Nat /\ Flip(b, w) # b
         /\ b \in 48 .. 57 => Flip(b, w) \in Byte
         /\ b \in (48 .. 57) \cup {10, 60, 65} \/ b >= 256 => Flip(b, w) # 10
         /\ b = 65 => Flip(b, w) # 60
<1>1. b \div w \in Nat /\ w \in Nat /\ w * (b \div w) <= b /\ w <= 64
  BY DEF Weights
<1>2. Bit(b, w) # 0 => w <= b
  BY <1>1 DEF Bit, Weights
<1>3. Bit(b, w) \in Nat
  BY DEF Bit, Weights
<1>4. Flip(b, w) = b + w \/ (Flip(b, w) = b - w /\ w <= b)
  BY <1>3, <1>1, <1>2 DEF Flip
<1>5. QED
  BY <1>1, <1>4 DEF Weights, Byte

\* What may arrive for a message: all of it, or all but one symbol.
Arrived(m, a) == a = Encode(m) \/ a \in Damaged(Encode(m))

LooksAck(a) ==
  /\ a \in Seq(Nat) /\ Len(a) = 3
  /\ a[1] # 60 /\ \A i \in 1 .. 2 : a[i] # 10

\* What may arrive for an acknowledgement is three symbols that do not begin
\* telemetry, with a newline at the end of them only.
LEMMA ArrivedAck ==
  ASSUME NEW d \in 48 .. 57, NEW a, Arrived(<<65, d>>, a)
  PROVE  LooksAck(a)
<1>. USE DEF LooksAck
<1>. DEFINE s == <<65, d, 10>>
<1>1. s \in Seq(Nat) /\ Len(s) = 3 /\ DOMAIN s = 1 .. 3 /\ s[1] = 65 /\ s[2] = d /\ s[3] = 10
  OBVIOUS
<1>2. Encode(<<65, d>>) = s
  BY EncodedAck
<1>. HIDE DEF s
<1>3. CASE a = s
  BY <1>1, <1>3
<1>4. CASE a \in Damaged(s)
  <2>1. PICK i \in 1 .. 3, w \in Weights : a = [s EXCEPT ![i] = Flip(s[i], w)]
    BY <1>1, <1>4 DEF Damaged
  <2>2. s[i] \in Nat
    BY <1>1
  <2>3. Flip(s[i], w) \in Nat
    BY <2>2, FlipFacts
  <2>4. /\ a \in Seq(Nat) /\ Len(a) = 3
        /\ \A j \in 1 .. 3 : a[j] = IF j = i THEN Flip(s[i], w) ELSE s[j]
    <3>. DEFINE v == Flip(s[i], w)
                u == [s EXCEPT ![i] = v]
    <3>1. v \in Nat /\ 3 \in Nat
      BY <2>3
    <3>. HIDE DEF v
    <3>2. /\ u \in Seq(Nat) /\ Len(u) = 3
          /\ \A j \in 1 .. 3 : u[j] = IF j = i THEN v ELSE s[j]
      BY <1>1, <3>1, Replaced, Zenon
    <3>3. a = u
      BY <2>1 DEF v
    <3>. HIDE DEF u
    <3>4. QED
      BY <3>2, <3>3 DEF v
  <2>5. Flip(65, w) # 60 /\ Flip(65, w) # 10 /\ Flip(d, w) # 10
    BY FlipFacts
  <2>6. QED
    BY <1>1, <2>4, <2>5
<1>5. QED
  BY <1>2, <1>3, <1>4 DEF Arrived

\* A telemetry frame in form, whose checksum is right.
Whole(a) == a[1] = 60 /\ a[4] = 42 /\ a[5] = 256 + Crc8(<<a[2], a[3]>>) /\ a[6] = 10

\* Only a hit of the star makes a newline inside, before the checksum.
OnlyStarBreaks(a) == \A i \in 1 .. 5 : a[i] = 10 => i = 4 /\ a[5] >= 256

LooksTelemetry(a, d, e) ==
  /\ a \in Seq(Nat) /\ Len(a) = 6
  /\ OnlyStarBreaks(a)
  /\ Whole(a) => a[2] = d /\ a[3] = e

\* What may arrive for telemetry, when it looks whole, has the payload that was
\* sent: the checksum refuses the frames with a flipped bit.
LEMMA ArrivedTelemetry ==
  ASSUME NEW d \in 48 .. 57, NEW e \in 48 .. 57, NEW a, Arrived(<<60, d, e>>, a)
  PROVE  LooksTelemetry(a, d, e)
<1>. USE DEF LooksTelemetry
<1>. DEFINE c == Crc8(<<d, e>>)
            s == <<60, d, e, 42, 256 + c, 10>>
<1>1. c \in Nat /\ Encode(<<60, d, e>>) = s
  <2>1. Framed(d, e) = s
    BY DEF Framed
  <2>. HIDE DEF s
  <2>2. QED
    BY <2>1, EncodedTelemetry, Zenon
<1>. HIDE DEF c
<1>2. s \in Seq(Nat) /\ Len(s) = 6 /\ DOMAIN s = 1 .. 6 /\ s[1] = 60 /\ s[2] = d /\ s[3] = e
      /\ s[4] = 42 /\ s[5] = 256 + c /\ s[6] = 10
  BY <1>1
<1>. HIDE DEF s
<1>3. CASE a = s
  BY <1>1, <1>2, <1>3 DEF OnlyStarBreaks
<1>4. CASE a \in Damaged(s)
  <2>1. PICK i \in 1 .. 6, w \in Weights : a = [s EXCEPT ![i] = Flip(s[i], w)]
    BY <1>2, <1>4 DEF Damaged
  <2>2. s[i] \in Nat
    BY <1>2, ElementOfSeq
  <2>3. Flip(s[i], w) \in Nat /\ Flip(s[i], w) # s[i]
    BY <2>2, FlipFacts
  <2>4. /\ a \in Seq(Nat) /\ Len(a) = 6
        /\ \A j \in 1 .. 6 : a[j] = IF j = i THEN Flip(s[i], w) ELSE s[j]
    <3>. DEFINE v == Flip(s[i], w)
                u == [s EXCEPT ![i] = v]
    <3>1. v \in Nat /\ 6 \in Nat
      BY <2>3
    <3>. HIDE DEF v
    <3>2. /\ u \in Seq(Nat) /\ Len(u) = 6
          /\ \A j \in 1 .. 6 : u[j] = IF j = i THEN v ELSE s[j]
      BY <1>2, <3>1, Replaced, Zenon
    <3>3. a = u
      BY <2>1 DEF v
    <3>. HIDE DEF u
    <3>4. QED
      BY <3>2, <3>3 DEF v
  <2>5. Flip(60, w) # 10 /\ Flip(d, w) # 10 /\ Flip(e, w) # 10 /\ Flip(256 + c, w) # 10
    BY <1>1, FlipFacts
  <2>6. OnlyStarBreaks(a)
    <3>1. SUFFICES ASSUME NEW j \in 1 .. 5, a[j] = 10
                   PROVE  j = 4 /\ a[5] >= 256
      BY DEF OnlyStarBreaks
    <3>2. a[j] = (IF j = i THEN Flip(s[i], w) ELSE s[j]) 
         /\ a[5] = (IF 5 = i THEN Flip(s[i], w) ELSE s[5])
      BY <2>4
    <3>3. ~(j \in {1, 2, 3, 5})
      <4>1. j \in {1, 2, 3, 5} => s[j] # 10 /\ Flip(s[j], w) # 10
        <5>1. 60 # 10 /\ d # 10 /\ e # 10 /\ 256 + c # 10
          BY <1>1
        <5>2. s[1] # 10 /\ Flip(s[1], w) # 10
          <6>1. s[1] = 60
            BY <1>2
          <6>2. QED
            BY <2>5, <5>1, <6>1, Zenon
        <5>3. s[2] # 10 /\ Flip(s[2], w) # 10
          <6>1. s[2] = d
            BY <1>2
          <6>2. QED
            BY <2>5, <5>1, <6>1, Zenon
        <5>4. s[3] # 10 /\ Flip(s[3], w) # 10
          <6>1. s[3] = e
            BY <1>2
          <6>2. QED
            BY <2>5, <5>1, <6>1, Zenon
        <5>5. s[5] # 10 /\ Flip(s[5], w) # 10
          <6>1. s[5] = 256 + c
            BY <1>2
          <6>2. QED
            BY <2>5, <5>1, <6>1, Zenon
        <5>6. QED
          BY <5>2, <5>3, <5>4, <5>5
      <4>2. QED
        BY <3>1, <3>2, <4>1
    <3>4. j = 4 /\ i = 4
      BY <1>1, <1>2, <3>1, <3>2, <3>3
    <3>5. QED
      BY <1>1, <1>2, <3>2, <3>4
  <2>7. ASSUME Whole(a) PROVE a[2] = d /\ a[3] = e
    <3>1. a[1] = 60 /\ a[4] = 42 /\ a[5] = 256 + Crc8(<<a[2], a[3]>>) /\ a[6] = 10
      BY <2>7 DEF Whole
    <3>2. i \in {2, 3, 5}
      BY <1>2, <2>3, <2>4, <3>1
    <3>3. d \in Byte /\ e \in Byte
      BY DEF Byte
    <3>4. CASE i = 2
      <4>1. a[2] = Flip(d, w) /\ a[3] = e /\ a[5] = 256 + c
        BY <1>2, <2>4, <3>4
      <4>2. a[2] \in Byte
        BY <4>1, FlipFacts
      <4>3. Crc8(<<d, e>>) = Crc8(<<a[2], e>>)
        <5>1. \A k \in Byte : k \in Nat
          BY DEF Byte
        <5>2. Crc8(<<a[2], e>>) \in Nat
          BY <4>2, <3>3, <5>1, CrcTellsOneByte
        <5>3. Crc8(<<a[2], e>>) = c
          BY <1>1, <3>1, <4>1, <5>2
        <5>4. QED
          BY <5>3 DEF c
      <4>4. d = a[2]
        BY <3>3, <4>2, <4>3, CrcTellsOneByte, Zenon
      <4>5. QED
        BY <4>1, <4>4
    <3>5. CASE i = 3
      <4>1. a[2] = d /\ a[3] = Flip(e, w) /\ a[5] = 256 + c
        BY <1>2, <2>4, <3>5
      <4>2. a[3] \in Byte
        BY <4>1, FlipFacts
      <4>3. Crc8(<<d, a[3]>>) = Crc8(<<d, e>>)
        <5>1. \A k \in Byte : k \in Nat
          BY DEF Byte
        <5>2. Crc8(<<d, a[3]>>) \in Nat
          BY <4>2, <3>3, <5>1, CrcTellsOneByte
        <5>3. Crc8(<<d, a[3]>>) = c
          BY <1>1, <3>1, <4>1, <5>2
        <5>4. QED
          BY <5>3 DEF c
      <4>4. a[3] = e
        BY <3>3, <4>2, <4>3, CrcTellsOneByte, Zenon
      <4>5. QED
        BY <4>1, <4>4
    <3>6. CASE i = 5
      BY <1>2, <2>4, <3>6
    <3>7. QED
      BY <3>2, <3>4, <3>5, <3>6
  <2>8. QED
    BY <2>4, <2>6, <2>7
<1>5. QED
  BY <1>1, <1>3, <1>4 DEF Arrived

\* The first three of a sequence of five.
LEMMA FirstThree ==
  ASSUME NEW s, \A i \in 1 .. 3 : s[i] \in Nat
  PROVE  SubSeq(s, 1, 3) = <<s[1], s[2], s[3]>>
<1>. DEFINE u == SubSeq(s, 1, 3)
            t == <<s[1], s[2], s[3]>>
<1>1. u \in Seq(Nat) /\ Len(u) = 3 /\ \A i \in 1 .. 3 - 1 + 1 : u[i] = s[1 + i - 1]
  BY SubSeqProperties
<1>2. t \in Seq(Nat) /\ Len(t) = 3 /\ t[1] = s[1] /\ t[2] = s[2] /\ t[3] = s[3]
  OBVIOUS
<1>. HIDE DEF u, t
<1>3. \A i \in 1 .. Len(u) : u[i] = t[i]
  BY <1>1, <1>2
<1>4. u = t
  BY <1>1, <1>2, <1>3, SeqEqual
<1>5. QED
  BY <1>4 DEF u, t

\* What a line must look like to be decoded.
LEMMA DecodedShape ==
  ASSUME NEW line \in Seq(Nat), Decode(line) # <<>>
  PROVE  \/ /\ Len(line) = 2 /\ line[1] = 65
            /\ Decode(line) = <<line[1], line[2]>>
         \/ /\ Len(line) = 5 /\ line[1] \in {60, 62} /\ line[4] = 42
            /\ line[5] = 256 + Crc8(<<line[2], line[3]>>)
            /\ Decode(line) = <<line[1], line[2], line[3]>>
<1>1. CASE Len(line) = 2 /\ line[1] = Acks /\ IsDigit(line[2])
  <2>1. Decode(line) = line
    BY <1>1 DEF Decode
  <2>2. line = <<line[1], line[2]>>
    BY <1>1
  <2>3. QED
    BY <1>1, <2>1, <2>2 DEF Acks
<1>2. CASE /\ Len(line) = 5 /\ line[1] \in {Less, Greater} /\ line[4] = Star
           /\ CrcHolds(SubSeq(line, 2, 3), line[5]) /\ IsDigit(line[2])
  <2>1. Decode(line) = SubSeq(line, 1, 3)
    BY <1>2 DEF Decode
  <2>2. \A i \in 1 .. 5 : line[i] \in Nat
    BY <1>2, ElementOfSeq
  <2>3. SubSeq(line, 1, 3) = <<line[1], line[2], line[3]>>
    BY <2>2, FirstThree
  <2>4. Crc8(SubSeq(line, 2, 3)) = Crc8(<<line[2], line[3]>>)
    <3>1. \A i \in 1 .. 3 - 2 + 1 : SubSeq(line, 2, 3)[i] = line[2 + i - 1]
      BY <2>2, SubSeqProperties
    <3>2. SubSeq(line, 2, 3)[1] = line[2] /\ SubSeq(line, 2, 3)[2] = line[3]
      BY <3>1
    <3>3. QED
      BY <3>2 DEF Crc8
  <2>5. QED
    BY <1>2, <2>1, <2>3, <2>4 DEF CrcHolds, Less, Greater, Star, Sum
<1>3. QED
  BY <1>1, <1>2 DEF Decode

-----------------------------------------------------------------------------
(* The bytes that were ever on the wire *)

\* What a link may begin with: nothing, or the end of a frame.
Lead(l) ==
  \/ l = <<>>
  \/ \E m \in Messages : \E i \in 2 .. Len(Encode(m)) : l = SubSeq(Encode(m), i, Len(Encode(m)))

\* Nothing in the end of a frame looks like the beginning of one.
LEMMA LeadBeginsNoFrame ==
  ASSUME NEW l, Lead(l)
  PROVE  l \in Seq(Nat) /\ \A i \in 1 .. Len(l) : l[i] \notin {60, 62, 65}
<1>1. CASE l = <<>>
  BY <1>1
<1>2. CASE l # <<>>
  <2>1. PICK m \in Messages : \E i \in 2 .. Len(Encode(m)) :
                                 l = SubSeq(Encode(m), i, Len(Encode(m)))
    BY <1>2 DEF Lead
  <2>2. ASSUME NEW f, NEW n \in Nat, f \in Seq(Nat), Len(f) = n, Encode(m) = f,
               \A j \in 2 .. n : f[j] \notin {60, 62, 65}
        PROVE  l \in Seq(Nat) /\ \A i \in 1 .. Len(l) : l[i] \notin {60, 62, 65}
    <3>1. PICK i \in 2 .. n : l = SubSeq(f, i, n)
      BY <2>1, <2>2
    <3>2. \A j \in i .. n : f[j] \in Nat
      BY <2>2
    <3>3. /\ l \in Seq(Nat) /\ Len(l) = n - i + 1
          /\ \A j \in 1 .. n - i + 1 : l[j] = f[i + j - 1]
      BY <3>1, <3>2, SubSeqProperties
    <3>4. n - i + 1 \in Nat /\ \A j \in 1 .. n - i + 1 : i + j - 1 \in 2 .. n
      BY <2>2
    <3>5. \A j \in 2 .. n : f[j] \notin {60, 62, 65}
      BY <2>2
    <3>6. \A j \in 1 .. n - i + 1 : l[j] \notin {60, 62, 65}
      BY <3>3, <3>4, <3>5
    <3>7. QED
      BY <3>3, <3>6
  <2>3. CASE \E d \in 48 .. 57 : m = <<65, d>>
    <3>1. PICK d \in 48 .. 57 : m = <<65, d>>
      BY <2>3
    <3>2. Encode(m) = <<65, d, 10>>
      BY <3>1, EncodedAck
    <3>3. \A j \in 2 .. 3 : <<65, d, 10>>[j] \notin {60, 62, 65}
      OBVIOUS
    <3>4. <<65, d, 10>> \in Seq(Nat) /\ Len(<<65, d, 10>>) = 3
      OBVIOUS
    <3>5. 3 \in Nat
      OBVIOUS
    <3>. DEFINE f == <<65, d, 10>>
    <3>6. Encode(m) = f /\ f \in Seq(Nat) /\ Len(f) = 3 /\ \A j \in 2 .. 3 : f[j] \notin {60, 62, 65}
      BY <3>2, <3>3, <3>4
    <3>. HIDE DEF f
    <3>7. QED
      BY <2>2, <3>5, <3>6, Zenon
  <2>4. CASE \E d, e \in 48 .. 57 : m = <<60, d, e>>
    <3>1. PICK d, e \in 48 .. 57 : m = <<60, d, e>>
      BY <2>4
    <3>. DEFINE c == Crc8(<<d, e>>)
                f == <<60, d, e, 42, 256 + c, 10>>
    <3>2. Encode(m) = f /\ c \in Nat
      <4>1. Encode(<<60, d, e>>) = f /\ c \in Nat
        <5>1. Framed(d, e) = f
          BY DEF Framed
        <5>. HIDE DEF f
        <5>2. QED
          BY <5>1, EncodedTelemetry, Zenon
      <4>2. QED
        BY <3>1, <4>1
    <3>. HIDE DEF c
    <3>3. \A j \in 2 .. 6 : f[j] \notin {60, 62, 65}
      BY <3>2
    <3>4. f \in Seq(Nat) /\ Len(f) = 6
      BY <3>2
    <3>. HIDE DEF f
    <3>5. 6 \in Nat /\ Encode(m) = f
      BY <3>2
    <3>6. QED
      BY <2>2, <3>3, <3>4, <3>5, Zenon
  <2>5. QED
    BY <2>3, <2>4, TwoKinds
<1>3. QED
  BY <1>1, <1>2

\* An account of the bytes w: arr[k] is what arrived for the k-th frame, arr[0]
\* what the link began with, at[k] how many bytes came before it, of[i] the
\* frame the i-th byte is of; h bytes were handed on, up to the end of a line.
Account(w, arr, at, of, h) ==
  /\ w \in Seq(Nat)
  /\ arr \in [0 .. Len(sent) -> Seq(Nat)]
  /\ at \in [0 .. Len(sent) -> Nat]
  /\ of \in [1 .. Len(w) -> 0 .. Len(sent)]
  /\ Lead(arr[0])
  /\ \A k \in 1 .. Len(sent) : Arrived(sent[k], arr[k])
  /\ flips = 0 => \A k \in 1 .. Len(sent) : arr[k] = Encode(sent[k])
  /\ \A i \in 1 .. Len(w) : at[of[i]] < i /\ i <= at[of[i]] + Len(arr[of[i]])
  /\ \A k \in 0 .. Len(sent) :
       /\ at[k] + Len(arr[k]) <= Len(w)
       /\ \A j \in 1 .. Len(arr[k]) : of[at[k] + j] = k /\ w[at[k] + j] = arr[k][j]
  /\ \A i, j \in 1 .. Len(w) : i <= j => of[i] <= of[j]
  /\ h \in 0 .. Len(w)
  /\ h > 0 => w[h] = 10

\* The first line after the h-th byte, which ends at the e-th.
Line(w, h, e, line) ==
  /\ e \in h + 1 .. Len(w) /\ w[e] = 10 /\ \A i \in h + 1 .. e - 1 : w[i] # 10
  /\ line \in Seq(Nat) /\ Len(line) = e - h - 1
  /\ \A i \in 1 .. e - h - 1 : line[i] = w[h + i]

Accepted(line) == Decode(line) # <<>> /\ (flips = 0 \/ Decode(line)[1] = 60)

\* A line that is decoded is all of one frame.
LEMMA LineIsAFrame ==
  ASSUME sent \in Seq(Messages),
         NEW w, NEW arr, NEW at, NEW of, NEW h, Account(w, arr, at, of, h),
         NEW e, NEW line, Line(w, h, e, line), Accepted(line)
  PROVE  \E k \in 1 .. Len(sent) :
           at[k] = h /\ at[k] + Len(arr[k]) = e /\ Decode(line) = sent[k]
<1>. DEFINE n == Len(w)
            k == of[h + 1]
            a == arr[k]
            l == Len(a)
            o == h + 1 - at[k]
<1>1. /\ h \in Nat /\ n \in Nat /\ e \in h + 1 .. n
      /\ w[e] = 10 /\ \A i \in h + 1 .. e - 1 : w[i] # 10
      /\ \A i \in 1 .. e - h - 1 : line[i] = w[h + i]
      /\ h > 0 => w[h] = 10
  BY DEF Account, Line
<1>2. /\ e \in {h + 3, h + 6} /\ line[1] \in {60, 62, 65}
      /\ e = h + 3 => line[1] = 65 /\ Decode(line) = <<line[1], line[2]>>
      /\ e = h + 6 => /\ line[1] \in {60, 62} /\ line[4] = 42
                      /\ line[5] = 256 + Crc8(<<line[2], line[3]>>)
                      /\ Decode(line) = <<line[1], line[2], line[3]>>
  <2>1. \/ /\ Len(line) = 2 /\ line[1] = 65
           /\ Decode(line) = <<line[1], line[2]>>
        \/ /\ Len(line) = 5 /\ line[1] \in {60, 62} /\ line[4] = 42
           /\ line[5] = 256 + Crc8(<<line[2], line[3]>>)
           /\ Decode(line) = <<line[1], line[2], line[3]>>
    BY DecodedShape, Zenon DEF Line, Accepted
  <2>2. Len(line) = e - h - 1
    BY DEF Line
  <2>. DEFINE z == Len(line)
  <2>3. /\ z = e - h - 1 /\ z \in {2, 5} /\ line[1] \in {60, 62, 65}
        /\ z = 2 => line[1] = 65 /\ Decode(line) = <<line[1], line[2]>>
        /\ z = 5 => /\ line[1] \in {60, 62} /\ line[4] = 42
                    /\ line[5] = 256 + Crc8(<<line[2], line[3]>>)
                    /\ Decode(line) = <<line[1], line[2], line[3]>>
    BY <2>1, <2>2
  <2>. HIDE DEF z
  <2>4. QED
    BY <1>1, <2>3
<1>3. h + 1 \in 1 .. n /\ line[1] = w[h + 1]
  BY <1>1, <1>2
<1>4. k \in 0 .. Len(sent)
  BY <1>3 DEF Account
<1>5. at[k] \in Nat /\ l \in Nat /\ \A j \in 1 .. l : w[at[k] + j] = a[j]
  <2>1. at[k] \in Nat /\ a \in Seq(Nat)
    BY <1>4 DEF Account
  <2>2. l \in Nat
    BY <2>1, LenProperties
  <2>3. \A j \in 1 .. l : w[at[k] + j] = a[j]
    <3>1. \A i \in 0 .. Len(sent) : \A j \in 1 .. Len(arr[i]) : w[at[i] + j] = arr[i][j]
      BY DEF Account
    <3>2. QED
      BY <1>4, <3>1, Zenon
  <2>4. QED
    BY <2>1, <2>2, <2>3
<1>6. h + 1 = at[k] + o /\ o \in 1 .. l
  <2>1. at[k] < h + 1 /\ h + 1 <= at[k] + l
    BY <1>3 DEF Account
  <2>. DEFINE z == at[k]
  <2>2. z \in Nat /\ l \in Nat /\ z < h + 1 /\ h + 1 <= z + l /\ o = h + 1 - z
    BY <1>5, <2>1
  <2>. HIDE DEF k, a, l, z, o
  <2>3. h + 1 = z + o /\ o \in 1 .. l
    BY <1>1, <2>2
  <2>4. QED
    BY <2>3 DEF z
<1>7. k \in 1 .. Len(sent)
  <2>1. ASSUME k = 0 PROVE FALSE
    <3>1. Lead(a)
      BY <2>1 DEF Account
    <3>. HIDE DEF k, a, o
    <3>2. a[o] \notin {60, 62, 65}
      BY <1>6, <3>1, LeadBeginsNoFrame DEF l
    <3>. HIDE DEF l
    <3>3. w[h + 1] \in {60, 62, 65}
      BY <1>2, <1>3
    <3>4. w[h + 1] = a[o]
      BY <1>5, <1>6
    <3>5. QED
      BY <3>2, <3>3, <3>4
  <2>2. QED
    BY <1>4, <2>1
<1>8. Arrived(sent[k], a) /\ sent[k] \in Messages /\ (flips = 0 => a = Encode(sent[k]))
  BY <1>7 DEF Account
<1>. HIDE DEF n, k, a, l, o
<1>9. o > 1 => o - 1 \in 1 .. l - 1 /\ a[o - 1] = 10
  <2>1. SUFFICES ASSUME o > 1 PROVE o - 1 \in 1 .. l - 1 /\ a[o - 1] = 10
    OBVIOUS
  <2>2. o - 1 \in 1 .. l - 1 /\ h > 0 /\ h = at[k] + (o - 1)
    BY <1>1, <1>5, <1>6, <2>1
  <2>3. w[h] = a[o - 1]
    BY <1>5, <2>2
  <2>4. QED
    BY <1>1, <2>2, <2>3
<1>10. CASE \E d \in 48 .. 57 : sent[k] = <<65, d>>
  <2>1. PICK d \in 48 .. 57 : sent[k] = <<65, d>>
    BY <1>10
  <2>2. l = 3 /\ a[1] # 60 /\ \A i \in 1 .. 2 : a[i] # 10
    <3>1. Arrived(<<65, d>>, a)
      BY <1>8, <2>1, Zenon
    <3>2. LooksAck(a)
      BY <3>1, ArrivedAck, Zenon
    <3>3. QED
      BY <3>2 DEF l, LooksAck
  <2>3. o = 1 /\ h = at[k]
    <3>1. ASSUME o > 1 PROVE FALSE
      <4>1. o - 1 \in 1 .. 2
        BY <1>9, <2>2, <3>1
      <4>2. QED
        BY <1>9, <2>2, <3>1, <4>1
    <3>2. o = 1
      BY <1>6, <3>1
    <3>3. QED
      BY <1>1, <1>5, <1>6, <3>2
  <2>4. flips = 0
    <3>1. line[1] # 60
      BY <1>3, <1>5, <2>2, <2>3
    <3>2. Decode(line)[1] # 60
      BY <1>2, <3>1
    <3>3. QED
      BY <3>2 DEF Accepted
  <2>5. a = <<65, d, 10>>
    BY <1>8, <2>1, <2>4, EncodedAck
  <2>6. w[h + 1] = 65 /\ w[h + 2] = d /\ w[h + 3] = 10
    <3>1. a[1] = 65 /\ a[2] = d /\ a[3] = 10
      BY <2>5
    <3>2. QED
      BY <1>5, <2>2, <2>3, <3>1
  <2>7. e = h + 3
    BY <1>1, <1>2, <2>6
  <2>8. Decode(line) = <<65, d>>
    <3>1. line[1] = 65 /\ line[2] = d
      BY <1>1, <2>6, <2>7
    <3>2. QED
      BY <1>2, <2>7, <3>1
  <2>9. at[k] = h /\ at[k] + l = e
    BY <2>2, <2>3, <2>7
  <2>10. QED
    BY <1>7, <2>1, <2>8, <2>9 DEF l, a
<1>11. CASE \E d, x \in 48 .. 57 : sent[k] = <<60, d, x>>
  <2>1. PICK d, x \in 48 .. 57 : sent[k] = <<60, d, x>>
    BY <1>11
  <2>2. /\ l = 6 /\ \A i \in 1 .. 5 : a[i] = 10 => i = 4 /\ a[5] >= 256
        /\ Whole(a) => a[2] = d /\ a[3] = x
    <3>1. Arrived(<<60, d, x>>, a)
      BY <1>8, <2>1, Zenon
    <3>2. LooksTelemetry(a, d, x)
      BY <3>1, ArrivedTelemetry, Zenon
    <3>3. QED
      BY <3>2 DEF l, LooksTelemetry, OnlyStarBreaks
  <2>3. o = 1 /\ h = at[k]
    <3>1. ASSUME o > 1 PROVE FALSE
      <4>1. o - 1 = 4 /\ a[5] >= 256
        BY <1>6, <1>9, <2>2, <3>1
      <4>2. a[5] \in {60, 62, 65}
        BY <1>2, <1>3, <1>5, <1>6, <4>1
      <4>3. QED
        BY <4>1, <4>2
    <3>2. QED
      BY <1>1, <1>5, <1>6, <3>1
  <2>4. \A j \in 1 .. 6 : w[h + j] = a[j]
    BY <1>5, <2>2, <2>3
  <2>5. e = h + 6 /\ a[1] = 60 /\ a[2] = d /\ a[3] = x
    <3>1. CASE flips = 0
      <4>. DEFINE c == Crc8(<<d, x>>)
      <4>1. a = <<60, d, x, 42, 256 + c, 10>> /\ c \in Nat
        <5>1. a = Encode(<<60, d, x>>)
          BY <1>8, <2>1, <3>1
        <5>2. Encode(<<60, d, x>>) = Framed(d, x) /\ c \in Nat
          BY EncodedTelemetry, Zenon
        <5>3. a = Framed(d, x)
          BY <5>1, <5>2, Zenon
        <5>4. QED
          BY <5>2, <5>3 DEF Framed
      <4>. HIDE DEF c
      <4>2. a[1] = 60 /\ a[2] = d /\ a[3] = x /\ a[4] = 42 /\ a[5] = 256 + c
        BY <4>1
      <4>3. w[h + 1] # 10 /\ w[h + 2] # 10 /\ w[h + 3] # 10
        BY <2>4, <4>1, <4>2
      <4>4. QED
        BY <1>1, <1>2, <4>2, <4>3
    <3>2. CASE Decode(line)[1] = 60
      <4>1. e = h + 6 /\ line[1] = 60
        BY <1>2, <3>2
      <4>2. \A j \in 1 .. 5 : line[j] = a[j]
        BY <1>1, <2>4, <4>1
      <4>3. a[6] = 10
        BY <1>1, <2>4, <4>1
      <4>4. line[1] = a[1] /\ line[2] = a[2] /\ line[3] = a[3] /\ line[4] = a[4] /\ line[5] = a[5]
        BY <4>2
      <4>5. a[1] = 60 /\ a[4] = 42 /\ a[5] = 256 + Crc8(<<a[2], a[3]>>)
        BY <1>2, <4>1, <4>4
      <4>6. QED
        BY <2>2, <4>1, <4>3, <4>5 DEF Whole
    <3>3. QED
      BY <3>1, <3>2 DEF Accepted
  <2>6. Decode(line) = <<60, d, x>>
    <3>1. line[1] = 60 /\ line[2] = d /\ line[3] = x
      <4>1. \A i \in 1 .. 5 : line[i] = w[h + i]
        BY <1>1, <2>5
      <4>2. \A i \in 1 .. 5 : line[i] = a[i]
        BY <2>4, <4>1
      <4>3. line[1] = a[1] /\ line[2] = a[2] /\ line[3] = a[3]
        BY <4>2
      <4>4. QED
        BY <2>5, <4>3
    <3>2. QED
      BY <1>2, <2>5, <3>1
  <2>7. at[k] = h /\ at[k] + l = e
    BY <2>2, <2>3, <2>5
  <2>8. QED
    BY <1>7, <2>1, <2>6, <2>7 DEF l, a
<1>12. QED
  BY <1>8, <1>10, <1>11, TwoKinds

-----------------------------------------------------------------------------
(* The inductive invariant *)

\* The bytes on their way to the frame buffer and in it.
Ahead == (buf \o queue) \o stream

\* They are the next ones of the account, and while the link is up all of them.
Held(w, h) ==
  /\ Len(Ahead) <= Len(w) - h
  /\ \A i \in 1 .. Len(Ahead) : Ahead[i] = w[h + i]
  /\ open => Len(Ahead) = Len(w) - h

\* The messages of g at S are messages sent, in order, whose bytes were handed on.
Placed(g, S, arr, at, h) ==
  \E from \in [S -> 1 .. Len(sent)] :
    /\ \A i, j \in S : i < j => from[i] < from[j]
    /\ \A i \in S : g[i] = sent[from[i]] /\ at[from[i]] + Len(arr[from[i]]) <= h

WireType ==
  /\ open \in BOOLEAN /\ flips \in Nat
  /\ stream \in Seq(Nat) /\ queue \in Seq(Nat) /\ buf \in Seq(Nat)
  /\ link # "ble" => queue = <<>>
  /\ sent \in Seq(Messages)
  /\ got \in Seq(Seq(Nat))

Accounted(w, arr, at, of, h) ==
  /\ Account(w, arr, at, of, h) /\ Held(w, h)
  /\ Placed(got, TelemetryIn(got), arr, at, h)
  /\ flips = 0 => Placed(got, DOMAIN got, arr, at, h)

WireInv == WireType /\ \E w, arr, at, of, h : Accounted(w, arr, at, of, h)

\* A frame arrives as three symbols or six.
LEMMA ArrivedIsBytes ==
  ASSUME NEW m \in Messages, NEW a, Arrived(m, a)
  PROVE  a \in Seq(Nat) /\ Len(a) \in {3, 6}
<1>1. CASE \E d \in 48 .. 57 : m = <<65, d>>
  BY <1>1, ArrivedAck DEF LooksAck
<1>2. CASE \E d, e \in 48 .. 57 : m = <<60, d, e>>
  <2>1. PICK d, e \in 48 .. 57 : Arrived(<<60, d, e>>, a)
    BY <1>2
  <2>2. a \in Seq(Nat) /\ Len(a) = 6
    BY <2>1, ArrivedTelemetry DEF LooksTelemetry
  <2>3. QED
    BY <2>2
<1>3. QED
  BY <1>1, <1>2, TwoKinds

\* A sequence cut in two.
LEMMA CutInTwo ==
  ASSUME NEW s \in Seq(Nat), NEW k \in 1 .. Len(s)
  PROVE  /\ SubSeq(s, 1, k) \in Seq(Nat) /\ Len(SubSeq(s, 1, k)) = k
         /\ SubSeq(s, k + 1, Len(s)) \in Seq(Nat)
         /\ SubSeq(s, 1, k) \o SubSeq(s, k + 1, Len(s)) = s
<1>1. Len(s) \in Nat /\ \A i \in 1 .. Len(s) : s[i] \in Nat
  OBVIOUS
<1>2. \A i \in 1 .. k : s[i] \in Nat
  BY <1>1
<1>3. \A i \in k + 1 .. Len(s) : s[i] \in Nat
  BY <1>1
<1>4. SubSeq(s, 1, k) \in Seq(Nat) /\ Len(SubSeq(s, 1, k)) = k
  BY <1>1, <1>2, SubSeqProperties
<1>5. SubSeq(s, k + 1, Len(s)) \in Seq(Nat)
  BY <1>1, <1>3, SubSeqProperties
<1>6. SubSeq(s, 1, k) \o SubSeq(s, k + 1, Len(s)) = SubSeq(s, 1, Len(s))
  BY <1>1, ConcatAdjacentSubSeq
<1>7. QED
  BY <1>4, <1>5, <1>6, SubSeqFull

-----------------------------------------------------------------------------
(* The steps that hand nothing on *)

\* A link that was just opened has an account.
LEMMA WireInitially ==
  ASSUME WireInit
  PROVE  WireInv
<1>1. Lead(stream) /\ open = TRUE /\ flips = 0 /\ queue = <<>> /\ buf = <<>> /\ sent = <<>>
      /\ got = <<>>
  BY DEF WireInit, Lead
<1>2. stream \in Seq(Nat)
  BY <1>1, LeadBeginsNoFrame
<1>3. WireType
  BY <1>1, <1>2 DEF WireType
<1>. DEFINE arr == [k \in 0 .. 0 |-> stream]
            at == [k \in 0 .. 0 |-> 0]
            of == [i \in 1 .. Len(stream) |-> 0]
<1>4. Len(sent) = 0 /\ Len(got) = 0 /\ DOMAIN got = {} /\ TelemetryIn(got) = {}
  BY <1>1 DEF TelemetryIn
<1>5. Account(stream, arr, at, of, 0)
  BY <1>1, <1>2, <1>4 DEF Account
<1>6. Ahead = stream
  BY <1>1, <1>2, ConcatEmptySeq DEF Ahead
<1>7. Held(stream, 0)
  BY <1>1, <1>2, <1>6 DEF Held
<1>8. \A S : S = {} => Placed(got, S, arr, at, 0)
  <2>1. SUFFICES Placed(got, {}, arr, at, 0)
    OBVIOUS
  <2>. DEFINE from == [i \in {} |-> 1]
  <2>2. from \in [{} -> 1 .. Len(sent)]
    OBVIOUS
  <2>3. QED
    BY <2>2 DEF Placed
<1>9. Accounted(stream, arr, at, of, 0)
  BY <1>4, <1>5, <1>7, <1>8 DEF Accounted
<1>10. QED
  BY <1>3, <1>9 DEF WireInv

\* Reading moves bytes along and loses none.
LEMMA MovingKeeps ==
  ASSUME WireInv, Ahead' = Ahead, WireType',
         UNCHANGED <<open, sent, got, flips>>
  PROVE  WireInv'
<1>1. PICK w, arr, at, of, h : Accounted(w, arr, at, of, h)
  BY DEF WireInv
<1>2. Account(w, arr, at, of, h)'
  BY <1>1 DEF Accounted, Account
<1>3. Held(w, h)'
  BY <1>1 DEF Accounted, Held
<1>4. TelemetryIn(got)' = TelemetryIn(got)
  BY DEF TelemetryIn
<1>5. Accounted(w, arr, at, of, h)'
  BY <1>1, <1>2, <1>3, <1>4 DEF Accounted, Placed
<1>6. QED
  BY <1>5 DEF WireInv

\* recv() takes what has arrived.
LEMMA ReadsKeeps ==
  ASSUME WireInv, Reads
  PROVE  WireInv'
<1>1. WireType
  BY DEF WireInv
<1>2. PICK k \in 1 .. Len(stream) :
        /\ IF link = "ble"
           THEN queue' = queue \o SubSeq(stream, 1, k) /\ UNCHANGED buf
           ELSE buf' = buf \o SubSeq(stream, 1, k) /\ UNCHANGED queue
        /\ stream' = SubSeq(stream, k + 1, Len(stream))
  BY DEF Reads
<1>. DEFINE p == SubSeq(stream, 1, k)
            r == SubSeq(stream, k + 1, Len(stream))
<1>3. p \in Seq(Nat) /\ r \in Seq(Nat) /\ p \o r = stream
  BY <1>1, CutInTwo DEF WireType
<1>4. p \in Seq(Nat) /\ r \in Seq(Nat)
  BY <1>3
<1>5. IF link = "ble" THEN queue' = queue \o p /\ buf' = buf ELSE buf' = buf \o p /\ queue' = queue
  BY <1>2
<1>6. stream' = r
  BY <1>2
<1>7. buf \in Seq(Nat) /\ queue \in Seq(Nat)
  BY <1>1 DEF WireType
<1>. HIDE DEF p, r
<1>8. UNCHANGED <<link, open, sent, got, flips>>
  BY DEF Reads
<1>9. WireType'
  <2>1. \A s \in Seq(Nat) : s \o p \in Seq(Nat)
    BY <1>3, ConcatProperties
  <2>2. QED
    BY <1>1, <1>3, <1>5, <1>6, <1>8, <2>1 DEF WireType
<1>10. Ahead' = Ahead
  <2>1. CASE link = "ble"
    <3>1. Ahead' = (buf \o (queue \o p)) \o r
      BY <1>5, <1>6, <2>1 DEF Ahead
    <3>2. buf \o (queue \o p) = (buf \o queue) \o p
      BY <1>4, <1>7, Regrouped, ZenonT(60)
    <3>3. ((buf \o queue) \o p) \o r = (buf \o queue) \o (p \o r)
      <4>1. buf \o queue \in Seq(Nat)
        BY <1>7, ConcatProperties
      <4>2. QED
        BY <1>4, <4>1, Regrouped, ZenonT(60)
    <3>4. QED
      BY <1>3, <3>1, <3>2, <3>3 DEF Ahead
  <2>2. CASE link # "ble"
    <3>1. queue = <<>>
      BY <1>1, <2>2 DEF WireType
    <3>2. Ahead' = ((buf \o p) \o <<>>) \o r /\ Ahead = (buf \o <<>>) \o stream
      BY <1>5, <1>6, <2>2, <3>1 DEF Ahead
    <3>3. (buf \o p) \o <<>> = buf \o p /\ buf \o <<>> = buf
      BY <1>3, <1>7, ConcatEmptySeq, ConcatProperties
    <3>4. (buf \o p) \o r = buf \o (p \o r)
      BY <1>4, <1>7, Regrouped, ZenonT(60)
    <3>5. QED
      BY <1>3, <3>2, <3>3, <3>4
  <2>3. QED
    BY <2>1, <2>2
<1>11. QED
  BY <1>8, <1>9, <1>10, MovingKeeps

\* A packet of notifications is taken from the queue.
LEMMA TakesKeeps ==
  ASSUME WireInv, Takes
  PROVE  WireInv'
<1>1. WireType
  BY DEF WireInv
<1>2. PICK k \in 1 .. Len(queue) :
        /\ buf' = buf \o SubSeq(queue, 1, k)
        /\ queue' = SubSeq(queue, k + 1, Len(queue))
  BY DEF Takes
<1>. DEFINE p == SubSeq(queue, 1, k)
            r == SubSeq(queue, k + 1, Len(queue))
<1>3. p \in Seq(Nat) /\ r \in Seq(Nat) /\ p \o r = queue
  BY <1>1, CutInTwo DEF WireType
<1>4. p \in Seq(Nat) /\ r \in Seq(Nat)
  BY <1>3
<1>5. buf' = buf \o p /\ queue' = r
  BY <1>2
<1>6. buf \in Seq(Nat) /\ stream \in Seq(Nat)
  BY <1>1 DEF WireType
<1>7. UNCHANGED <<link, open, stream, sent, got, flips>>
  BY DEF Takes
<1>8. link = "ble"
  <2>1. queue # <<>>
    BY DEF Takes
  <2>2. QED
    BY <1>1, <2>1 DEF WireType
<1>. HIDE DEF p, r
<1>9. WireType'
  <2>1. buf \o p \in Seq(Nat)
    BY <1>3, <1>6, ConcatProperties
  <2>2. QED
    BY <1>1, <1>3, <1>5, <1>7, <1>8, <2>1 DEF WireType
<1>10. Ahead' = Ahead
  <2>1. Ahead' = ((buf \o p) \o r) \o stream
    BY <1>5, <1>7 DEF Ahead
  <2>2. (buf \o p) \o r = buf \o (p \o r)
    BY <1>4, <1>6, Regrouped, ZenonT(60)
  <2>3. QED
    BY <1>3, <2>1, <2>2 DEF Ahead
<1>11. QED
  BY <1>7, <1>9, <1>10, MovingKeeps

\* A link that goes down loses what was not read.
LEMMA DropsKeeps ==
  ASSUME WireInv, Drops
  PROVE  WireInv'
<1>1. WireType /\ buf \in Seq(Nat) /\ queue \in Seq(Nat) /\ stream \in Seq(Nat)
  BY DEF WireInv, WireType
<1>2. /\ open' = FALSE /\ stream' = <<>>
      /\ UNCHANGED <<link, queue, buf, sent, got, flips>>
  BY DEF Drops
<1>3. WireType'
  <2>1. stream' \in Seq(Nat) /\ open' \in BOOLEAN
    <3>1. <<>> \in Seq(Nat) /\ FALSE \in BOOLEAN
      OBVIOUS
    <3>2. QED
      BY <1>2, <3>1
  <2>2. QED
    BY <1>1, <1>2, <2>1 DEF WireType
<1>4. PICK w, arr, at, of, h : Accounted(w, arr, at, of, h)
  BY DEF WireInv
<1>5. Account(w, arr, at, of, h)'
  BY <1>2, <1>4 DEF Accounted, Account
<1>6. Held(w, h)'
  <2>. DEFINE b == buf \o queue
              n == Len(b)
              a == Len(Ahead)
  <2>1. b \in Seq(Nat)
    BY <1>1, ConcatProperties
  <2>2. Ahead' = b
    BY <1>1, <1>2, <2>1, ConcatEmptySeq DEF Ahead
  <2>3. Len(Ahead) = Len(b) + Len(stream) /\ \A i \in 1 .. Len(b) : Ahead[i] = b[i]
    <3>1. /\ Len(b \o stream) = Len(b) + Len(stream)
          /\ \A i \in 1 .. Len(b) + Len(stream) :
               (b \o stream)[i] = IF i <= Len(b) THEN b[i] ELSE stream[i - Len(b)]
      BY <1>1, <2>1, Joined, Zenon
    <3>. HIDE DEF b
    <3>2. Len(b) \in Nat /\ Len(stream) \in Nat
      BY <1>1, <2>1
    <3>3. QED
      BY <3>1, <3>2 DEF Ahead, b
  <2>4. Len(b) \in Nat /\ Len(stream) \in Nat /\ Len(w) \in Nat /\ h \in Nat
    BY <1>1, <1>4, <2>1 DEF Accounted, Account
  <2>5. Len(Ahead) <= Len(w) - h /\ \A i \in 1 .. Len(Ahead) : Ahead[i] = w[h + i]
    BY <1>4 DEF Accounted, Held
  <2>6. Len(b) <= Len(w) - h /\ \A i \in 1 .. Len(b) : b[i] = w[h + i]
    <3>. HIDE DEF b
    <3>1. \A i \in 1 .. Len(b) : i \in 1 .. Len(Ahead)
      BY <2>3, <2>4
    <3>2. Len(b) <= Len(Ahead)
      BY <2>3, <2>4
    <3>3. \A i \in 1 .. Len(b) : b[i] = w[h + i]
      BY <2>3, <2>5, <3>1
    <3>4. QED
      BY <2>3, <2>4, <2>5, <3>2, <3>3
  <2>7. QED
    BY <1>2, <2>2, <2>6 DEF Held
<1>7. TelemetryIn(got)' = TelemetryIn(got)
  BY <1>2 DEF TelemetryIn
<1>8. Accounted(w, arr, at, of, h)'
  BY <1>2, <1>4, <1>5, <1>6, <1>7 DEF Accounted, Placed
<1>9. QED
  BY <1>3, <1>8 DEF WireInv

\* A frame that is sent is put at the end of the account.
LEMMA SendKeeps ==
  ASSUME WireInv, BoardSends
  PROVE  WireInv'
<1>1. /\ stream \in Seq(Nat) /\ queue \in Seq(Nat) /\ buf \in Seq(Nat)
      /\ sent \in Seq(Messages) /\ flips \in Nat
  BY DEF WireInv, WireType
<1>2. PICK m \in Messages : \E p \in Arrivals(Encode(m)) :
        flips' = flips + p[2] /\ stream' = stream \o p[1] /\ sent' = Append(sent, m)
  BY DEF BoardSends
<1>3. PICK p \in Arrivals(Encode(m)) :
        flips' = flips + p[2] /\ stream' = stream \o p[1] /\ sent' = Append(sent, m)
  BY <1>2
<1>4. UNCHANGED <<link, open, queue, buf, got>> /\ open
  BY DEF BoardSends
<1>. DEFINE f == p[1]
<1>5. Arrived(m, f) /\ p[2] \in Nat /\ (p[2] = 0 => f = Encode(m))
  <2>1. p = <<Encode(m), 0>> \/ \E g \in Damaged(Encode(m)) : p = <<g, 1>>
    BY DEF Arrivals
  <2>2. QED
    BY <2>1 DEF Arrived
<1>6. f \in Seq(Nat) /\ Len(f) \in Nat
  BY <1>5, ArrivedIsBytes
<1>. HIDE DEF f
<1>7. stream' = stream \o f
  BY <1>3 DEF f
<1>8. flips' \in Nat /\ (flips' = 0 => flips = 0 /\ f = Encode(m))
  <2>1. p[2] \in Nat /\ flips' = flips + p[2] /\ (p[2] = 0 => f = Encode(m))
    BY <1>3, <1>5
  <2>. DEFINE b == p[2]
  <2>2. b \in Nat /\ flips' = flips + b /\ (b = 0 => f = Encode(m))
    BY <2>1
  <2>. HIDE DEF b
  <2>3. QED
    BY <1>1, <2>2
<1>9. PICK n : n = Len(sent)
  OBVIOUS
<1>10. /\ n \in Nat /\ sent' \in Seq(Messages) /\ Len(sent') = n + 1 /\ sent'[n + 1] = m
      /\ \A k \in 1 .. n : sent'[k] = sent[k]
  BY <1>1, <1>3, <1>9, AppendProperties
<1>11. WireType'
  <2>1. stream' \in Seq(Nat)
    BY <1>1, <1>6, <1>7, ConcatProperties
  <2>2. WireType
    BY DEF WireInv
  <2>3. QED
    BY <1>4, <1>8, <1>10, <2>1, <2>2 DEF WireType
<1>12. PICK w, arr, at, of, h : Accounted(w, arr, at, of, h)
  BY DEF WireInv
<1>13. Account(w, arr, at, of, h)
  BY <1>12 DEF Accounted
<1>. DEFINE l == Len(w)
            c == Len(f)
            w2 == w \o f
            arr2 == [k \in 0 .. n + 1 |-> IF k = n + 1 THEN f ELSE arr[k]]
            at2 == [k \in 0 .. n + 1 |-> IF k = n + 1 THEN l ELSE at[k]]
            of2 == [i \in 1 .. l + c |-> IF i <= l THEN of[i] ELSE n + 1]
<1>14. w \in Seq(Nat) /\ l \in Nat /\ c \in Nat
  <2>1. w \in Seq(Nat)
    BY <1>13 DEF Account
  <2>2. QED
    BY <2>1, <1>6, LenProperties
<1>15. /\ w2 \in Seq(Nat) /\ Len(w2) = l + c
       /\ \A i \in 1 .. l + c : w2[i] = IF i <= l THEN w[i] ELSE f[i - l]
  BY <1>6, <1>14, Joined
<1>16. /\ \A k \in 0 .. n : arr2[k] = arr[k] /\ at2[k] = at[k]
       /\ arr2[n + 1] = f /\ at2[n + 1] = l
  BY <1>10
<1>17. \A i \in 1 .. l + c : of2[i] = IF i <= l THEN of[i] ELSE n + 1
  OBVIOUS
<1>18. /\ arr \in [0 .. n -> Seq(Nat)] /\ at \in [0 .. n -> Nat] /\ of \in [1 .. l -> 0 .. n]
       /\ Lead(arr[0])
       /\ \A k \in 1 .. n : Arrived(sent[k], arr[k])
       /\ flips = 0 => \A k \in 1 .. n : arr[k] = Encode(sent[k])
       /\ \A i, j \in 1 .. l : i <= j => of[i] <= of[j]
       /\ h \in 0 .. l /\ (h > 0 => w[h] = 10)
  BY <1>9, <1>13 DEF Account
<1>19. /\ \A i \in 1 .. l : at[of[i]] < i /\ i <= at[of[i]] + Len(arr[of[i]])
       /\ \A k \in 0 .. n :
            /\ at[k] + Len(arr[k]) <= l
            /\ \A j \in 1 .. Len(arr[k]) : of[at[k] + j] = k /\ w[at[k] + j] = arr[k][j]
  BY <1>9, <1>13 DEF Account
<1>20. /\ arr2 \in [0 .. n + 1 -> Seq(Nat)] /\ at2 \in [0 .. n + 1 -> Nat]
       /\ of2 \in [1 .. l + c -> 0 .. n + 1]
  BY <1>6, <1>10, <1>14, <1>18
<1>. HIDE DEF l, c, w2, arr2, at2, of2
<1>21. Lead(arr2[0])
  BY <1>10, <1>16, <1>18
<1>22. \A k \in 1 .. n + 1 : Arrived(sent'[k], arr2[k])
  <2>1. \A k \in 1 .. n : Arrived(sent'[k], arr2[k])
    BY <1>10, <1>16, <1>18
  <2>2. Arrived(sent'[n + 1], arr2[n + 1])
    BY <1>5, <1>10, <1>16
  <2>3. QED
    BY <1>10, <2>1, <2>2
<1>23. flips' = 0 => \A k \in 1 .. n + 1 : arr2[k] = Encode(sent'[k])
  <2>1. SUFFICES ASSUME flips' = 0 PROVE \A k \in 1 .. n + 1 : arr2[k] = Encode(sent'[k])
    OBVIOUS
  <2>2. f = Encode(m) /\ \A k \in 1 .. n : arr[k] = Encode(sent[k])
    BY <1>8, <1>18, <2>1
  <2>3. \A k \in 1 .. n : arr2[k] = Encode(sent'[k])
    BY <1>10, <1>16, <2>2
  <2>4. arr2[n + 1] = Encode(sent'[n + 1])
    BY <1>10, <1>16, <2>2
  <2>5. \A k \in 1 .. n + 1 : k \in 1 .. n \/ k = n + 1
    BY <1>10
  <2>6. QED
    BY <2>3, <2>4, <2>5
<1>24. \A i \in 1 .. l + c : at2[of2[i]] < i /\ i <= at2[of2[i]] + Len(arr2[of2[i]])
  <2>1. ASSUME NEW i \in 1 .. l + c, i <= l
        PROVE  at2[of2[i]] < i /\ i <= at2[of2[i]] + Len(arr2[of2[i]])
    <3>1. i \in 1 .. l /\ of2[i] = of[i] /\ of[i] \in 0 .. n
      BY <1>14, <1>17, <1>18, <2>1
    <3>2. QED
      BY <1>16, <1>19, <3>1
  <2>2. ASSUME NEW i \in 1 .. l + c, ~(i <= l)
        PROVE  at2[of2[i]] < i /\ i <= at2[of2[i]] + Len(arr2[of2[i]])
    <3>1. of2[i] = n + 1
      BY <1>17, <2>2
    <3>2. at2[of2[i]] = l /\ Len(arr2[of2[i]]) = c
      BY <1>16, <3>1 DEF c
    <3>3. QED
      BY <1>14, <2>2, <3>2
  <2>3. QED
    BY <2>1, <2>2
<1>25. ASSUME NEW k \in 0 .. n + 1
       PROVE  /\ at2[k] + Len(arr2[k]) <= l + c
              /\ \A j \in 1 .. Len(arr2[k]) : of2[at2[k] + j] = k /\ w2[at2[k] + j] = arr2[k][j]
  <2>1. CASE k = n + 1
    <3>1. at2[k] = l /\ arr2[k] = f
      BY <1>16, <2>1
    <3>2. \A j \in 1 .. c : l + j \in 1 .. l + c /\ ~(l + j <= l) /\ (l + j) - l = j
      BY <1>14
    <3>3. \A j \in 1 .. c : of2[l + j] = n + 1 /\ w2[l + j] = f[j]
      BY <1>15, <1>17, <3>2
    <3>4. QED
      BY <1>14, <2>1, <3>1, <3>3 DEF c
  <2>2. CASE k \in 0 .. n
    <3>1. at2[k] = at[k] /\ arr2[k] = arr[k] /\ at[k] \in Nat /\ Len(arr[k]) \in Nat
      <4>1. arr[k] \in Seq(Nat)
        BY <1>18, <2>2
      <4>2. QED
        BY <1>16, <1>18, <2>2, <4>1, LenProperties
    <3>. DEFINE z == Len(arr[k])
    <3>2. at[k] + z <= l /\ \A j \in 1 .. z : of[at[k] + j] = k /\ w[at[k] + j] = arr[k][j]
      BY <1>19, <2>2
    <3>3. z \in Nat
      BY <3>1
    <3>. HIDE DEF z
    <3>4. \A j \in 1 .. z : at[k] + j \in 1 .. l + c /\ at[k] + j <= l
      BY <1>14, <3>1, <3>2, <3>3
    <3>5. \A j \in 1 .. z : of2[at[k] + j] = k /\ w2[at[k] + j] = arr[k][j]
      BY <1>15, <1>17, <3>2, <3>4
    <3>6. at[k] + z <= l + c
      BY <1>14, <3>1, <3>2, <3>3
    <3>7. QED
      BY <3>1, <3>5, <3>6 DEF z
  <2>3. QED
    BY <1>10, <2>1, <2>2
<1>26. \A i, j \in 1 .. l + c : i <= j => of2[i] <= of2[j]
  <2>1. SUFFICES ASSUME NEW i \in 1 .. l + c, NEW j \in 1 .. l + c, i <= j
                 PROVE  of2[i] <= of2[j]
    OBVIOUS
  <2>2. CASE j <= l
    <3>1. i \in 1 .. l /\ j \in 1 .. l
      BY <1>14, <2>1, <2>2
    <3>2. of2[i] = of[i] /\ of2[j] = of[j]
      BY <1>17, <2>1, <2>2, <3>1
    <3>3. QED
      BY <1>18, <2>1, <3>1, <3>2
  <2>3. CASE ~(j <= l)
    <3>1. of2[j] = n + 1
      BY <1>17, <2>3
    <3>2. of2[i] \in 0 .. n + 1
      BY <1>20
    <3>3. QED
      BY <1>10, <3>1, <3>2
  <2>4. QED
    BY <2>2, <2>3
<1>27. h \in 0 .. l + c /\ (h > 0 => w2[h] = 10)
  <2>1. h \in 0 .. l + c
    BY <1>14, <1>18
  <2>2. ASSUME h > 0 PROVE w2[h] = 10
    <3>1. h \in 1 .. l + c /\ h <= l
      BY <1>14, <1>18, <2>2
    <3>2. QED
      BY <1>15, <1>18, <2>2, <3>1
  <2>3. QED
    BY <2>1, <2>2
<1>28. Account(w2, arr2, at2, of2, h)'
  <2>1. Len(sent') = n + 1 /\ Len(w2) = l + c
    BY <1>10, <1>15
  <2>2. \A k \in 0 .. n + 1 :
          /\ at2[k] + Len(arr2[k]) <= l + c
          /\ \A j \in 1 .. Len(arr2[k]) : of2[at2[k] + j] = k /\ w2[at2[k] + j] = arr2[k][j]
    BY <1>25
  <2>3. w2 \in Seq(Nat)
    BY <1>15
  <2>4. QED
    BY <1>20, <1>21, <1>22, <1>23, <1>24, <1>26, <1>27, <2>1, <2>2, <2>3, Zenon DEF Account
<1>29. Held(w2, h)'
  <2>1. Ahead' = Ahead \o f
    <3>1. Ahead' = (buf \o queue) \o (stream \o f)
      BY <1>4, <1>7 DEF Ahead
    <3>2. buf \o queue \in Seq(Nat)
      BY <1>1, ConcatProperties
    <3>3. QED
      BY <1>1, <1>6, <3>1, <3>2, Regrouped DEF Ahead
  <2>2. Ahead \in Seq(Nat)
    <3>1. buf \o queue \in Seq(Nat)
      BY <1>1, ConcatProperties
    <3>2. QED
      BY <1>1, <3>1, ConcatProperties DEF Ahead
  <2>. DEFINE b == Len(Ahead)
  <2>3. b \in Nat
    BY <2>2, LenProperties
  <2>4. /\ Len(Ahead \o f) = b + c
        /\ \A i \in 1 .. b + c : (Ahead \o f)[i] = IF i <= b THEN Ahead[i] ELSE f[i - b]
    BY <1>6, <2>2, Joined DEF c
  <2>5. b = l - h /\ \A i \in 1 .. b : Ahead[i] = w[h + i]
    BY <1>4, <1>12 DEF Accounted, Held, l
  <2>. HIDE DEF b
  <2>6. \A i \in 1 .. b + c : (Ahead \o f)[i] = w2[h + i]
    <3>1. SUFFICES ASSUME NEW i \in 1 .. b + c PROVE (Ahead \o f)[i] = w2[h + i]
      OBVIOUS
    <3>2. h + i \in 1 .. l + c
      BY <1>14, <1>18, <2>3, <2>5
    <3>3. CASE i <= b
      <4>1. h + i <= l /\ i \in 1 .. b
        BY <1>14, <1>18, <2>3, <2>5, <3>3
      <4>2. QED
        BY <1>15, <2>4, <2>5, <3>2, <3>3, <4>1
    <3>4. CASE ~(i <= b)
      <4>1. ~(h + i <= l) /\ (h + i) - l = i - b
        BY <1>14, <1>18, <2>3, <2>5, <3>4
      <4>2. QED
        BY <1>15, <2>4, <3>2, <3>4, <4>1
    <3>5. QED
      BY <3>3, <3>4
  <2>7. b + c = (l + c) - h
    BY <1>14, <1>18, <2>3, <2>5
  <2>8. Len(Ahead') = b + c /\ Len(w2) = l + c
    BY <1>15, <2>1, <2>4
  <2>9. b + c \in Nat
    BY <1>14, <2>3
  <2>10. QED
    BY <2>1, <2>6, <2>7, <2>8, <2>9 DEF Held
<1>30. \A S : Placed(got, S, arr, at, h) => Placed(got, S, arr2, at2, h)'
  <2>1. SUFFICES ASSUME NEW S, Placed(got, S, arr, at, h)
                 PROVE  Placed(got, S, arr2, at2, h)'
    OBVIOUS
  <2>2. PICK from \in [S -> 1 .. n] :
          /\ \A i, j \in S : i < j => from[i] < from[j]
          /\ \A i \in S : got[i] = sent[from[i]] /\ at[from[i]] + Len(arr[from[i]]) <= h
    BY <1>9, <2>1 DEF Placed
  <2>3. from \in [S -> 1 .. n + 1]
    BY <1>10, <2>2
  <2>4. \A i \in S : got[i] = sent'[from[i]] /\ at2[from[i]] + Len(arr2[from[i]]) <= h
    BY <1>10, <1>16, <2>2
  <2>5. QED
    BY <1>4, <1>10, <2>2, <2>3, <2>4 DEF Placed
<1>31. Accounted(w2, arr2, at2, of2, h)'
  <2>1. TelemetryIn(got)' = TelemetryIn(got) /\ (DOMAIN got)' = DOMAIN got
    BY <1>4 DEF TelemetryIn
  <2>2. /\ Placed(got, TelemetryIn(got), arr, at, h)
        /\ flips = 0 => Placed(got, DOMAIN got, arr, at, h)
    BY <1>12 DEF Accounted
  <2>3. QED
    BY <1>8, <1>28, <1>29, <1>30, <2>1, <2>2 DEF Accounted
<1>32. QED
  BY <1>11, <1>31 DEF WireInv

-----------------------------------------------------------------------------
(* A line is taken *)

\* A set of numbers that is not empty has a least.
LEMMA LeastIsOne ==
  ASSUME NEW S \in SUBSET Nat, S # {}
  PROVE  \E m \in S : \A k \in S : m <= k
<1>1. PICK m \in S : \A k \in S : <<k, m>> \notin OpToRel(<, Nat)
  BY WFMin, NatLessThanWellFounded, Zenon
<1>2. \A k \in S : ~(k < m)
  BY <1>1, Zenon DEF OpToRel
<1>3. QED
  BY <1>2

\* next_frame takes what comes before the first newline.
LEMMA EndsAtFirst ==
  ASSUME buf \in Seq(Nat), HasLine
  PROVE  EndsAt \in 1 .. Len(buf) /\ buf[EndsAt] = 10 /\ \A j \in 1 .. EndsAt - 1 : buf[j] # 10
<1>. DEFINE S == {i \in 1 .. Len(buf) : buf[i] = 10}
            F(i) == buf[i] = 10 /\ \A j \in 1 .. i - 1 : buf[j] # 10
<1>1. DOMAIN buf = 1 .. Len(buf) /\ Len(buf) \in Nat
  OBVIOUS
<1>2. S \in SUBSET Nat /\ S # {}
  BY <1>1 DEF HasLine, Newline
<1>3. PICK m \in S : \A k \in S : m <= k
  <2>. HIDE DEF S
  <2>1. QED
    BY <1>2, LeastIsOne
<1>4. F(m)
  <2>1. ASSUME NEW j \in 1 .. m - 1, buf[j] = 10 PROVE FALSE
    <3>1. j \in S /\ ~(m <= j)
      BY <1>1, <1>3, <2>1
    <3>2. QED
      BY <1>3, <3>1
  <2>2. QED
    BY <1>3, <2>1
<1>5. \E i \in DOMAIN buf : F(i)
  BY <1>1, <1>3, <1>4
<1>6. EndsAt = CHOOSE i \in DOMAIN buf : F(i)
  BY DEF EndsAt, Newline
<1>7. EndsAt \in DOMAIN buf /\ F(EndsAt)
  <2>. HIDE DEF F
  <2>1. QED
    BY <1>5, <1>6, Zenon
<1>8. QED
  BY <1>1, <1>7

\* What was handed on stays handed on.
LEMMA PlacedStays ==
  ASSUME NEW w, NEW arr, NEW at, NEW of, NEW h, Account(w, arr, at, of, h),
         NEW e \in Nat, h <= e, NEW g, NEW g2, NEW S, \A i \in S : g2[i] = g[i],
         Placed(g, S, arr, at, h)
  PROVE  Placed(g2, S, arr, at, e)
<1>1. PICK from \in [S -> 1 .. Len(sent)] :
        /\ \A i, j \in S : i < j => from[i] < from[j]
        /\ \A i \in S : g[i] = sent[from[i]] /\ at[from[i]] + Len(arr[from[i]]) <= h
  BY DEF Placed
<1>2. ASSUME NEW i \in S PROVE at[from[i]] + Len(arr[from[i]]) <= e
  <2>. DEFINE x == at[from[i]]
              y == Len(arr[from[i]])
  <2>1. x \in Nat /\ arr[from[i]] \in Seq(Nat) /\ h \in Nat
    BY <1>1 DEF Account
  <2>2. y \in Nat
    BY <2>1, LenProperties
  <2>3. x + y <= h
    BY <1>1
  <2>. HIDE DEF x, y
  <2>4. x + y <= e
    BY <2>1, <2>2, <2>3
  <2>5. QED
    BY <2>4 DEF x, y
<1>3. QED
  BY <1>1, <1>2 DEF Placed

\* A line that is decoded is the next of the messages sent.
LEMMA PlacedGrows ==
  ASSUME sent \in Seq(Messages),
         NEW w, NEW arr, NEW at, NEW of, NEW h, Account(w, arr, at, of, h),
         NEW e, NEW line, Line(w, h, e, line), Accepted(line),
         NEW n \in Nat, NEW g, NEW g2, NEW S, S \subseteq 1 .. n,
         \A i \in S : g2[i] = g[i], g2[n + 1] = Decode(line),
         Placed(g, S, arr, at, h)
  PROVE  Placed(g2, S \cup {n + 1}, arr, at, e)
<1>1. PICK k \in 1 .. Len(sent) : at[k] = h /\ at[k] + Len(arr[k]) = e /\ Decode(line) = sent[k]
  BY LineIsAFrame
<1>2. PICK from \in [S -> 1 .. Len(sent)] :
        /\ \A i, j \in S : i < j => from[i] < from[j]
        /\ \A i \in S : g[i] = sent[from[i]] /\ at[from[i]] + Len(arr[from[i]]) <= h
  BY DEF Placed
<1>3. h \in Nat /\ e \in Nat /\ h <= e
  BY DEF Account, Line
<1>4. ASSUME NEW i \in S PROVE from[i] < k
  <2>. DEFINE q == from[i]
              y == Len(arr[q])
  <2>1. q \in 1 .. Len(sent)
    BY <1>2
  <2>2. arr[q] \in Seq(Nat) /\ Len(arr[q]) \in {3, 6}
    <3>1. Arrived(sent[q], arr[q]) /\ sent[q] \in Messages
      BY <2>1 DEF Account
    <3>2. QED
      BY <3>1, ArrivedIsBytes
  <2>3. arr[k] \in Seq(Nat) /\ Len(arr[k]) \in {3, 6}
    <3>1. Arrived(sent[k], arr[k]) /\ sent[k] \in Messages
      BY <1>1 DEF Account
    <3>2. QED
      BY <3>1, ArrivedIsBytes
  <2>4. at[q] + y <= h /\ y \in {3, 6} /\ at[q] \in Nat
    <3>1. at[q] \in Nat
      BY <2>1 DEF Account
    <3>2. QED
      BY <1>2, <2>2, <3>1
  <2>5. of[at[q] + 1] = q /\ of[at[k] + 1] = k
    <3>1. \A j \in 0 .. Len(sent) : \A b \in 1 .. Len(arr[j]) : of[at[j] + b] = j
      BY DEF Account
    <3>2. 1 \in 1 .. Len(arr[q]) /\ 1 \in 1 .. Len(arr[k])
      <4>1. \A b \in {3, 6} : 1 \in 1 .. b
        OBVIOUS
      <4>2. QED
        BY <2>2, <2>3, <4>1, Zenon
    <3>3. q \in 0 .. Len(sent) /\ k \in 0 .. Len(sent)
      BY <1>1, <2>1
    <3>. HIDE DEF q
    <3>4. QED
      BY <3>1, <3>2, <3>3
  <2>. HIDE DEF q, y
  <2>6. at[q] + 1 <= at[k] + 1 /\ at[k] + 1 \in 1 .. Len(w) /\ at[q] + 1 \in 1 .. Len(w)
    <3>. DEFINE v == Len(w)
    <3>1. e \in h + 1 .. v
      BY DEF Line
    <3>2. v \in Nat
      BY DEF Account
    <3>. HIDE DEF v
    <3>3. at[k] = h
      BY <1>1
    <3>. DEFINE p == at[q]
    <3>4. p \in Nat /\ p + y <= h /\ y \in {3, 6}
      BY <2>4
    <3>. HIDE DEF p
    <3>5. p + 1 <= h + 1 /\ h + 1 \in 1 .. v /\ p + 1 \in 1 .. v
      BY <1>3, <3>1, <3>2, <3>4
    <3>6. QED
      BY <3>3, <3>5 DEF p, v
  <2>7. q <= k
    <3>1. \A a, b \in 1 .. Len(w) : a <= b => of[a] <= of[b]
      BY DEF Account
    <3>2. QED
      BY <2>5, <2>6, <3>1
  <2>8. q # k
    BY <1>1, <1>3, <2>4
  <2>9. q \in Nat /\ k \in Nat
    BY <1>1, <2>1
  <2>10. q < k
    BY <2>7, <2>8, <2>9
  <2>11. QED
    BY <2>10 DEF q
<1>. DEFINE T == S \cup {n + 1}
            from2 == [i \in T |-> IF i = n + 1 THEN k ELSE from[i]]
<1>5. n + 1 \notin S
  OBVIOUS
<1>6. from2 \in [T -> 1 .. Len(sent)] /\ from2[n + 1] = k /\ \A i \in S : from2[i] = from[i]
  BY <1>1, <1>2, <1>5
<1>. HIDE DEF from2
<1>7. \A i, j \in T : i < j => from2[i] < from2[j]
  <2>1. SUFFICES ASSUME NEW i \in T, NEW j \in T, i < j PROVE from2[i] < from2[j]
    OBVIOUS
  <2>2. i \in S
    BY <2>1
  <2>3. CASE j = n + 1
    BY <1>4, <1>6, <2>2, <2>3
  <2>4. CASE j \in S
    BY <1>2, <1>6, <2>1, <2>2, <2>4
  <2>5. QED
    BY <2>3, <2>4
<1>8. ASSUME NEW i \in T
      PROVE  g2[i] = sent[from2[i]] /\ at[from2[i]] + Len(arr[from2[i]]) <= e
  <2>1. CASE i = n + 1
    <3>1. from2[i] = k
      BY <1>6, <2>1
    <3>2. QED
      BY <1>1, <1>3, <2>1, <3>1
  <2>2. CASE i \in S
    <3>1. Placed(g2, S, arr, at, e)
      BY <1>3, PlacedStays
    <3>. DEFINE q == from[i]
                y == Len(arr[q])
    <3>2. g2[i] = sent[q] /\ at[q] + y <= h
      BY <1>2, <2>2
    <3>3. at[q] \in Nat /\ arr[q] \in Seq(Nat)
      <4>1. q \in 1 .. Len(sent)
        BY <1>2, <2>2
      <4>2. QED
        BY <4>1 DEF Account
    <3>4. y \in Nat
      BY <3>3, LenProperties
    <3>5. from2[i] = q
      BY <1>6, <2>2
    <3>. HIDE DEF q, y
    <3>6. at[q] + y <= e
      BY <1>3, <3>2, <3>3, <3>4
    <3>7. QED
      BY <3>2, <3>5, <3>6 DEF y
  <2>3. QED
    BY <2>1, <2>2
<1>9. QED
  BY <1>6, <1>7, <1>8 DEF Placed

\* A line is taken from the frame buffer and, when it is a message, handed on.
LEMMA HandsKeeps ==
  ASSUME WireInv, Hands
  PROVE  WireInv'
<1>1. /\ WireType /\ stream \in Seq(Nat) /\ queue \in Seq(Nat) /\ buf \in Seq(Nat)
      /\ sent \in Seq(Messages) /\ flips \in Nat /\ got \in Seq(Seq(Nat))
  BY DEF WireInv, WireType
<1>2. /\ HasLine
      /\ got' = IF Decode(SubSeq(buf, 1, EndsAt - 1)) = <<>> THEN got
                ELSE Append(got, Decode(SubSeq(buf, 1, EndsAt - 1)))
      /\ buf' = SubSeq(buf, EndsAt + 1, Len(buf))
      /\ UNCHANGED <<link, open, stream, queue, sent, flips>>
  BY DEF Hands
<1>3. PICK x : x = EndsAt
  OBVIOUS
<1>4. PICK c : c = Len(buf)
  OBVIOUS
<1>5. c \in Nat /\ x \in 1 .. c /\ buf[x] = 10 /\ \A j \in 1 .. x - 1 : buf[j] # 10
  BY <1>1, <1>2, <1>3, <1>4, EndsAtFirst
<1>6. PICK line : line = SubSeq(buf, 1, x - 1)
  OBVIOUS
<1>7. line \in Seq(Nat) /\ Len(line) = x - 1 /\ \A i \in 1 .. x - 1 : line[i] = buf[i]
  <2>1. \A i \in 1 .. x - 1 : buf[i] \in Nat
    BY <1>1, <1>4, <1>5
  <2>2. x - 1 \in Nat /\ 1 <= (x - 1) + 1 /\ (x - 1) - 1 + 1 = x - 1
    BY <1>5
  <2>3. \A i \in 1 .. x - 1 : 1 + i - 1 = i
    BY <1>5
  <2>4. /\ SubSeq(buf, 1, x - 1) \in Seq(Nat) /\ Len(SubSeq(buf, 1, x - 1)) = x - 1
        /\ \A i \in 1 .. x - 1 : SubSeq(buf, 1, x - 1)[i] = buf[i]
    BY <2>1, <2>2, <2>3, SubSeqProperties
  <2>5. QED
    BY <1>6, <2>4
<1>8. PICK w, arr, at, of, h : Accounted(w, arr, at, of, h)
  BY DEF WireInv
<1>9. Account(w, arr, at, of, h) /\ Held(w, h)
  BY <1>8 DEF Accounted
<1>10. PICK l : l = Len(w)
  OBVIOUS
<1>11. w \in Seq(Nat) /\ l \in Nat /\ h \in 0 .. l
  <2>1. w \in Seq(Nat) /\ h \in 0 .. l
    BY <1>9, <1>10 DEF Account
  <2>2. QED
    BY <1>10, <2>1, LenProperties
<1>. DEFINE p == SubSeq(buf, 1, x)
            b == SubSeq(buf, x + 1, c)
<1>12. p \in Seq(Nat) /\ Len(p) = x /\ b \in Seq(Nat) /\ p \o b = buf
  BY <1>1, <1>4, <1>5, CutInTwo
<1>13. buf' = b
  BY <1>2, <1>3, <1>4
<1>. HIDE DEF p, b
<1>14. WireType' /\ Decode(line) \in Seq(Nat)
  <2>1. Decode(line) \in Seq(Nat)
    <3>1. CASE Decode(line) = <<>>
      BY <3>1
    <3>2. CASE Decode(line) # <<>>
      <4>1. line \in Seq(Nat)
        BY <1>7
      <4>2. \/ Len(line) = 2 /\ Decode(line) = <<line[1], line[2]>>
            \/ Len(line) = 5 /\ Decode(line) = <<line[1], line[2], line[3]>>
        BY <3>2, <4>1, DecodedShape, Zenon
      <4>3. \A i, j, k \in Nat : <<i, j>> \in Seq(Nat) /\ <<i, j, k>> \in Seq(Nat)
        OBVIOUS
      <4>4. CASE Len(line) = 2 /\ Decode(line) = <<line[1], line[2]>>
        <5>1. \A i \in 1 .. 2 : line[i] \in Nat
          BY <4>1, <4>4, ElementOfSeq
        <5>2. line[1] \in Nat /\ line[2] \in Nat
          BY <5>1
        <5>3. QED
          BY <4>3, <4>4, <5>2
      <4>5. CASE Len(line) = 5 /\ Decode(line) = <<line[1], line[2], line[3]>>
        <5>1. \A i \in 1 .. 5 : line[i] \in Nat
          BY <4>1, <4>5, ElementOfSeq
        <5>2. line[1] \in Nat /\ line[2] \in Nat /\ line[3] \in Nat
          BY <5>1
        <5>3. QED
          BY <4>3, <4>5, <5>2
      <4>6. QED
        BY <4>2, <4>4, <4>5
    <3>3. QED
      BY <3>1, <3>2
  <2>2. got' \in Seq(Seq(Nat))
    <3>1. got' = got \/ got' = Append(got, Decode(line))
      BY <1>2, <1>3, <1>6
    <3>. DEFINE d == Decode(line)
    <3>2. d \in Seq(Nat)
      BY <2>1
    <3>. HIDE DEF d
    <3>3. Append(got, d) \in Seq(Seq(Nat))
      BY <1>1, <3>2, AppendProperties
    <3>4. QED
      BY <1>1, <3>1, <3>3 DEF d
  <2>3. buf' \in Seq(Nat)
    BY <1>12, <1>13
  <2>4. QED
    BY <1>1, <1>2, <2>1, <2>2, <2>3 DEF WireType
<1>15. PICK t : t = Len(Ahead')
  OBVIOUS
<1>16. /\ t \in Nat /\ Len(Ahead) = x + t
       /\ \A i \in 1 .. x : Ahead[i] = buf[i]
       /\ \A i \in 1 .. t : Ahead'[i] = Ahead[x + i]
  <2>. DEFINE r == (b \o queue) \o stream
  <2>1. Ahead' = r
    BY <1>2, <1>13 DEF Ahead
  <2>2. b \o queue \in Seq(Nat)
    BY <1>1, <1>12, ConcatProperties
  <2>3. r \in Seq(Nat)
    BY <1>1, <2>2, ConcatProperties
  <2>4. Ahead = p \o r
    <3>1. p \in Seq(Nat) /\ b \in Seq(Nat) /\ queue \in Seq(Nat) /\ stream \in Seq(Nat)
      BY <1>1, <1>12
    <3>2. (p \o b) \o queue = p \o (b \o queue)
      BY <3>1, Regrouped, ZenonT(60)
    <3>. DEFINE y == b \o queue
    <3>3. y \in Seq(Nat)
      BY <2>2
    <3>. HIDE DEF y
    <3>4. p \in Seq(Nat) /\ y \in Seq(Nat) /\ stream \in Seq(Nat)
      BY <3>1, <3>3
    <3>. HIDE DEF r
    <3>5. (p \o y) \o stream = p \o (y \o stream)
      BY <3>4, Regrouped, ZenonT(60)
    <3>6. QED
      BY <1>12, <3>2, <3>5 DEF Ahead, r, y
  <2>. HIDE DEF r
  <2>5. t = Len(r) /\ t \in Nat
    <3>1. Len(r) \in Nat
      BY <2>3, LenProperties
    <3>2. QED
      BY <1>15, <2>1, <3>1
  <2>6. /\ Len(p \o r) = x + t
        /\ \A i \in 1 .. x + t : (p \o r)[i] = IF i <= x THEN p[i] ELSE r[i - x]
    BY <1>12, <2>3, <2>5, Joined
  <2>7. \A i \in 1 .. x : p[i] = buf[i]
    <3>1. \A i \in 1 .. x : buf[i] \in Nat
      <4>1. \A i \in 1 .. c : buf[i] \in Nat
        BY <1>1, <1>4, ElementOfSeq
      <4>2. QED
        BY <1>5, <4>1
    <3>2. x \in Nat /\ 1 <= x + 1 /\ x - 1 + 1 = x /\ \A i \in 1 .. x : 1 + i - 1 = i
      BY <1>5
    <3>3. \A i \in 1 .. x : SubSeq(buf, 1, x)[i] = buf[i]
      BY <3>1, <3>2, SubSeqProperties
    <3>4. QED
      BY <3>3 DEF p
  <2>8. \A i \in 1 .. x : i \in 1 .. x + t /\ i <= x
    BY <1>5, <2>5
  <2>9. \A i \in 1 .. t : x + i \in 1 .. x + t /\ ~(x + i <= x) /\ (x + i) - x = i
    BY <1>5, <2>5
  <2>10. \A i \in 1 .. x : (p \o r)[i] = p[i]
    BY <2>6, <2>8
  <2>11. \A i \in 1 .. t : (p \o r)[x + i] = r[i]
    BY <2>6, <2>9
  <2>12. QED
    BY <2>1, <2>4, <2>5, <2>6, <2>7, <2>10, <2>11
<1>17. /\ x + t <= l - h /\ \A i \in 1 .. x + t : Ahead[i] = w[h + i]
       /\ open => x + t = l - h
  BY <1>9, <1>10, <1>16 DEF Held
<1>18. PICK e : e = h + x
  OBVIOUS
<1>19. /\ e \in h + 1 .. l /\ e \in Nat /\ h <= e /\ e > 0
       /\ \A i \in 1 .. x : w[h + i] = buf[i]
  <2>1. e \in h + 1 .. l /\ e \in Nat /\ h <= e /\ e > 0
    BY <1>5, <1>11, <1>16, <1>17, <1>18
  <2>2. \A i \in 1 .. x : i \in 1 .. x + t
    BY <1>5, <1>16
  <2>3. QED
    BY <1>16, <1>17, <2>1, <2>2
<1>20. Line(w, h, e, line)
  <2>1. w[e] = 10
    BY <1>5, <1>18, <1>19
  <2>2. ASSUME NEW i \in h + 1 .. e - 1 PROVE w[i] # 10
    <3>1. i - h \in 1 .. x - 1 /\ i - h \in 1 .. x /\ h + (i - h) = i
      BY <1>5, <1>11, <1>18
    <3>2. w[h + (i - h)] = buf[i - h]
      BY <1>19, <3>1
    <3>3. QED
      BY <1>5, <3>1, <3>2
  <2>3. Len(line) = e - h - 1
    BY <1>5, <1>7, <1>11, <1>18
  <2>4. \A i \in 1 .. e - h - 1 : line[i] = w[h + i]
    <3>1. e - h - 1 = x - 1
      BY <1>5, <1>11, <1>18
    <3>2. \A i \in 1 .. x - 1 : i \in 1 .. x
      BY <1>5
    <3>3. QED
      BY <1>7, <1>19, <3>1, <3>2
  <2>5. QED
    BY <1>7, <1>10, <1>19, <2>1, <2>2, <2>3, <2>4 DEF Line
<1>21. Account(w, arr, at, of, e)'
  <2>1. e \in 0 .. l /\ w[e] = 10
    BY <1>11, <1>19, <1>20 DEF Line
  <2>2. QED
    BY <1>2, <1>9, <1>10, <2>1, Zenon DEF Account
<1>22. Held(w, e)'
  <2>1. t <= l - e /\ (open => t = l - e)
    BY <1>5, <1>11, <1>16, <1>17, <1>18
  <2>2. ASSUME NEW i \in 1 .. t PROVE Ahead'[i] = w[e + i]
    <3>1. x + i \in 1 .. x + t /\ h + (x + i) = e + i
      BY <1>5, <1>11, <1>16, <1>18
    <3>2. Ahead[x + i] = w[h + (x + i)]
      BY <1>17, <3>1
    <3>3. QED
      BY <1>16, <3>1, <3>2
  <2>3. QED
    BY <1>2, <1>10, <1>15, <2>1, <2>2 DEF Held
<1>23. /\ Placed(got, TelemetryIn(got), arr, at, h)
       /\ flips = 0 => Placed(got, DOMAIN got, arr, at, h)
  BY <1>8 DEF Accounted
<1>24. /\ Placed(got, TelemetryIn(got), arr, at, e)'
       /\ flips' = 0 => Placed(got, DOMAIN got, arr, at, e)'
  <2>1. PICK n : n = Len(got)
    OBVIOUS
  <2>2. PICK g : g = got
    OBVIOUS
  <2>3. PICK g2 : g2 = got'
    OBVIOUS
  <2>4. g \in Seq(Seq(Nat)) /\ n \in Nat /\ Len(g) = n /\ DOMAIN g = 1 .. n
    BY <1>1, <2>1, <2>2
  <2>. DEFINE d == Decode(line)
  <2>5. IF d = <<>> THEN g2 = g ELSE g2 = Append(g, d)
    BY <1>2, <1>3, <1>6, <2>2, <2>3
  <2>6. /\ Placed(g, TelemetryIn(g), arr, at, h)
        /\ flips = 0 => Placed(g, DOMAIN g, arr, at, h)
    BY <1>23, <2>2
  <2>7. /\ TelemetryIn(got)' = TelemetryIn(g2) /\ (DOMAIN got)' = DOMAIN g2
    BY <2>3 DEF TelemetryIn
  <2>8. SUFFICES /\ Placed(g2, TelemetryIn(g2), arr, at, e)
                 /\ flips = 0 => Placed(g2, DOMAIN g2, arr, at, e)
    <3>1. sent' = sent /\ flips' = flips /\ got' = g2
      BY <1>2, <2>3
    <3>2. TelemetryIn(got)' = TelemetryIn(g2) /\ (DOMAIN got)' = DOMAIN g2
      BY <2>7
    <3>3. Placed(g2, TelemetryIn(g2), arr, at, e) => Placed(got, TelemetryIn(got), arr, at, e)'
      BY <3>1, <3>2 DEF Placed
    <3>4. Placed(g2, DOMAIN g2, arr, at, e) => Placed(got, DOMAIN got, arr, at, e)'
      BY <3>1, <3>2 DEF Placed
    <3>5. QED
      BY <3>1, <3>3, <3>4
  <2>9. CASE d = <<>>
    <3>1. \A S : Placed(g, S, arr, at, h) => Placed(g, S, arr, at, e)
      BY <1>9, <1>19, PlacedStays
    <3>2. QED
      BY <2>5, <2>6, <2>9, <3>1
  <2>10. CASE d # <<>>
    <3>1. /\ \A i \in 1 .. n : g2[i] = g[i]
          /\ g2[n + 1] = d /\ DOMAIN g2 = 1 .. n + 1
      <4>1. d \in Seq(Nat)
        BY <1>14
      <4>. HIDE DEF d
      <4>2. /\ Append(g, d) \in Seq(Seq(Nat)) /\ Len(Append(g, d)) = n + 1
            /\ \A i \in 1 .. n : Append(g, d)[i] = g[i]
            /\ Append(g, d)[n + 1] = d
        BY <2>4, <4>1, AppendProperties
      <4>3. g2 = Append(g, d)
        BY <2>5, <2>10
      <4>4. DOMAIN Append(g, d) = 1 .. n + 1
        BY <4>2
      <4>5. QED
        BY <4>2, <4>3, <4>4
    <3>2. \A S \in SUBSET (1 .. n) : Placed(g, S, arr, at, h) => Placed(g2, S, arr, at, e)
      <4>1. SUFFICES ASSUME NEW S \in SUBSET (1 .. n), Placed(g, S, arr, at, h)
                     PROVE  Placed(g2, S, arr, at, e)
        OBVIOUS
      <4>2. \A i \in S : g2[i] = g[i]
        BY <3>1
      <4>3. QED
        BY <1>9, <1>19, <4>1, <4>2, PlacedStays
    <3>3. ASSUME NEW S \in SUBSET (1 .. n), Placed(g, S, arr, at, h), Accepted(line)
          PROVE  Placed(g2, S \cup {n + 1}, arr, at, e)
      <4>1. \A i \in S : g2[i] = g[i]
        BY <3>1
      <4>2. S \subseteq 1 .. n /\ g2[n + 1] = Decode(line)
        BY <3>1
      <4>3. QED
        BY <1>1, <1>9, <1>20, <2>4, <3>3, <4>1, <4>2, PlacedGrows
    <3>4. Placed(g2, TelemetryIn(g2), arr, at, e)
      <4>1. TelemetryIn(g) \in SUBSET (1 .. n)
        BY <2>4 DEF TelemetryIn
      <4>2. CASE d[1] = 60
        <5>1. TelemetryIn(g2) = TelemetryIn(g) \cup {n + 1}
          <6>. HIDE DEF d
          <6>1. QED
            BY <2>4, <3>1, <4>2 DEF TelemetryIn, Less
        <5>2. Accepted(line)
          BY <2>10, <4>2 DEF Accepted
        <5>3. QED
          BY <2>6, <3>3, <4>1, <5>1, <5>2
      <4>3. CASE d[1] # 60
        <5>1. TelemetryIn(g2) = TelemetryIn(g)
          <6>. HIDE DEF d
          <6>1. QED
            BY <2>4, <3>1, <4>3 DEF TelemetryIn, Less
        <5>2. QED
          BY <2>6, <3>2, <4>1, <5>1
      <4>4. QED
        BY <4>2, <4>3
    <3>5. flips = 0 => Placed(g2, DOMAIN g2, arr, at, e)
      <4>1. SUFFICES ASSUME flips = 0 PROVE Placed(g2, DOMAIN g2, arr, at, e)
        OBVIOUS
      <4>2. Accepted(line)
        BY <2>10, <4>1 DEF Accepted
      <4>3. Placed(g, 1 .. n, arr, at, h)
        BY <2>4, <2>6, <4>1
      <4>4. DOMAIN g2 = (1 .. n) \cup {n + 1}
        BY <2>4, <3>1
      <4>5. QED
        BY <3>3, <4>2, <4>3, <4>4
    <3>6. QED
      BY <3>4, <3>5
  <2>11. QED
    BY <2>9, <2>10
<1>25. Accounted(w, arr, at, of, e)'
  BY <1>21, <1>22, <1>24 DEF Accounted
<1>26. QED
  BY <1>14, <1>25 DEF WireInv

\* Nothing changes.
LEMMA StutterKeeps ==
  ASSUME WireInv, UNCHANGED frameVars
  PROVE  WireInv'
<1>1. Ahead' = Ahead /\ WireType'
  BY DEF WireInv, frameVars, Ahead, WireType
<1>2. QED
  BY <1>1, MovingKeeps DEF frameVars

\* FramesWhole is a reading of the account.
LEMMA PlacedIsWithin ==
  ASSUME sent \in Seq(Messages), NEW S, NEW arr, NEW at, NEW h, Placed(got, S, arr, at, h)
  PROVE  Within(got, S, sent)
<1>1. DOMAIN sent = 1 .. Len(sent)
  OBVIOUS
<1>2. QED
  BY <1>1 DEF Placed, Within

(***************************************************************************)
(* However the bytes are cut, wherever a link begins or ends and whichever *)
(* bits are flipped, at most one in a frame, each telemetry frame the host *)
(* acts on was sent, in that order and once; without bit errors so is each *)
(* acknowledgement (transport/base.py, codec.py).                          *)
(***************************************************************************)
THEOREM WireFramesWhole == WireSpec => []FramesWhole
<1>1. WireInit => WireInv
  BY WireInitially
<1>2. WireInv /\ [WireNext]_frameVars => WireInv'
  BY SendKeeps, ReadsKeeps, TakesKeeps, HandsKeeps, DropsKeeps, StutterKeeps DEF WireNext
<1>3. WireInv => FramesWhole
  <2>1. SUFFICES ASSUME WireInv PROVE FramesWhole
    OBVIOUS
  <2>2. PICK w, arr, at, of, h : Accounted(w, arr, at, of, h)
    BY <2>1 DEF WireInv
  <2>3. sent \in Seq(Messages)
    BY <2>1 DEF WireInv, WireType
  <2>4. QED
    BY <2>2, <2>3, PlacedIsWithin DEF Accounted, FramesWhole
<1>4. QED
  BY <1>1, <1>2, <1>3, PTL DEF WireSpec

\* Only a serial line flips bits.
OnlySerialFlips == link # "serial" => flips = 0

LEMMA OnlySerialFlipsKept ==
  ASSUME OnlySerialFlips, [WireNext]_frameVars
  PROVE  OnlySerialFlips'
<1>1. CASE BoardSends
  <2>1. SUFFICES ASSUME link # "serial" PROVE flips' = 0
    BY <1>1 DEF BoardSends, OnlySerialFlips
  <2>2. PICK m \in Messages : \E a \in Arrivals(Encode(m)) : flips' = flips + a[2]
    BY <1>1 DEF BoardSends
  <2>3. Arrivals(Encode(m)) = {<<Encode(m), 0>>}
    BY <2>1 DEF Arrivals
  <2>4. flips' = 0 + 0
    BY <2>1, <2>2, <2>3 DEF OnlySerialFlips
  <2>5. QED
    BY <2>4
<1>2. CASE Reads \/ Takes \/ Hands \/ Drops \/ UNCHANGED frameVars
  BY <1>2 DEF Reads, Takes, Hands, Drops, frameVars, OnlySerialFlips
<1>3. QED
  BY <1>1, <1>2 DEF WireNext

(***************************************************************************)
(* Over TCP, I2C and Bluetooth everything the host decodes was sent, in    *)
(* that order and once, acknowledgements included; over a serial line an   *)
(* acknowledgement has no checksum that could tell (codec.py:204).         *)
(***************************************************************************)
THEOREM CleanLinksAreExact == WireSpec => [](link # "serial" => BitErrorsCaught)
<1>1. WireInit => OnlySerialFlips
  BY DEF WireInit, OnlySerialFlips
<1>2. FramesWhole /\ OnlySerialFlips => (link # "serial" => BitErrorsCaught)
  BY DEF FramesWhole, OnlySerialFlips, BitErrorsCaught
<1>3. QED
  BY <1>1, <1>2, OnlySerialFlipsKept, WireFramesWhole, PTL DEF WireSpec
=============================================================================

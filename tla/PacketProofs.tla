---------------------------- MODULE PacketProofs ----------------------------
(***************************************************************************)
(* The receive buffer of packet.c never overflows, for every payload size, *)
(* checksum and stream of bytes.                                           *)
(***************************************************************************)
EXTENDS Packet, SequenceTheorems, TLAPS

(* What is in the buffer and what is still asked for fit a frame.          *)
Room ==
  /\ pc = "idle" => write - read + left <= MaxPayload + 6 /\ (left = 0 => read = write)
  /\ pc = "decode" => write - read <= MaxPayload + 6 /\ left <= 1

Inv == TypeOK /\ Room

USE PacketAssumption DEF BufferLen, Indices

LEMMA LiveBytes ==
  ASSUME TypeOK
  PROVE  /\ write - read \in Nat
         /\ Live \in Seq(Bytes)
         /\ Len(Live) = write - read
         /\ \A i \in 1..write - read : Live[i] \in Bytes
<1>1. write - read \in Nat
  BY DEF TypeOK
<1>2. ASSUME NEW i \in 1..write - read PROVE buffer[read + i - 1] \in Bytes
  <2>1. read + i - 1 \in Indices
    BY DEF TypeOK
  <2>. QED BY <2>1 DEF TypeOK
<1>3. Live \in [1..write - read -> Bytes]
  BY <1>2 DEF Live
<1>. QED BY <1>1, <1>3

(* A header that has been accepted asks for no more than a whole frame.    *)
LEMMA MissingBound ==
  ASSUME NEW p \in Seq(Bytes)
  PROVE  /\ Missing(p) \in Nat
         /\ Missing(p) > 0 => Len(p) + Missing(p) <= MaxPayload + 6
         /\ Missing(p) = 0 => Len(p) >= 1
         /\ Missing(p) = 0 /\ Good(p) => Total(p) \in Nat /\ Total(p) <= Len(p)
<1>1. CASE p = <<>>
  BY <1>1 DEF Missing
<1>2. CASE p # <<>> /\ p[1] \notin {2, 3}
  <2>1. Len(p) >= 1
    BY <1>2
  <2>. QED BY <1>2, <2>1 DEF Missing, Good
<1>3. CASE p # <<>> /\ p[1] \in {2, 3} /\ Len(p) < p[1]
  <2>1. Len(p) >= 1
    BY <1>3
  <2>. QED BY <1>3, <2>1 DEF Missing
<1>4. CASE p # <<>> /\ p[1] \in {2, 3} /\ Len(p) >= p[1]
  <2>1. Len(p) >= 1 /\ p[1] \in {2, 3} /\ ~(Len(p) < p[1])
    BY <1>4
  <2>0. \A i \in 1..Len(p) : p[i] \in Nat
    <3>1. \A i \in 1..Len(p) : p[i] \in Bytes
      OBVIOUS
    <3>2. \A b \in Bytes : b \in Nat
      OBVIOUS
    <3>. QED BY <3>1, <3>2
  <2>2. Claimed(p) \in Nat
    <3>1. CASE p[1] = 2
      <4>1. 2 \in 1..Len(p)
        BY <2>1, <3>1
      <4>. QED BY <2>0, <3>1, <4>1 DEF Claimed
    <3>2. CASE p[1] = 3
      <4>1. 2 \in 1..Len(p) /\ 3 \in 1..Len(p)
        BY <2>1, <3>2
      <4>2. p[2] \in Nat /\ p[3] \in Nat
        BY <2>0, <4>1
      <4>. QED BY <3>2, <4>2 DEF Claimed
    <3>. QED BY <2>1, <3>1, <3>2
  <2>3. Total(p) \in Nat /\ (ValidLength(p) => Total(p) <= MaxPayload + 6)
    BY <2>1, <2>2 DEF Total, ValidLength
  <2>4. Missing(p) = IF ValidLength(p) /\ Len(p) < Total(p) THEN Total(p) - Len(p) ELSE 0
    BY <1>4, <2>1 DEF Missing
  <2>5. Good(p) => ValidLength(p)
    BY DEF Good
  <2>. QED BY <2>1, <2>3, <2>4, <2>5
<1>. QED BY <1>1, <1>2, <1>3, <1>4

-----------------------------------------------------------------------------
(* A byte that comes in, from the line or out of nowhere.                  *)
LEMMA StoreInv ==
  ASSUME Inv, pc = "idle", NEW b \in Bytes,
         NEW buf \in [Indices -> Bytes], NEW from \in 0..read,
         from + (write - read) < BufferLen,
         Store(buf, from, b)
  PROVE  /\ buffer' \in [Indices -> Bytes]
         /\ read' \in 0..BufferLen /\ write' \in 0..BufferLen /\ read' <= write'
         /\ left' \in 0..MaxPayload + 6 /\ pc' \in {"idle", "decode"}
         /\ Room'
<1>1. buffer' \in [Indices -> Bytes]
  <2>1. [buf EXCEPT ![from + (write - read)] = b] \in [Indices -> Bytes]
    OBVIOUS
  <2>. QED BY <2>1 DEF Store, Keep
<1>2. /\ read' = from /\ write' = from + (write - read) + 1
      /\ left' = IF left > 1 THEN left - 1 ELSE left
      /\ pc' = IF left > 1 THEN "idle" ELSE "decode"
  BY DEF Store
<1>3. /\ read \in Nat /\ write \in Nat /\ left \in 0..MaxPayload + 6 /\ read <= write
      /\ write - read + left <= MaxPayload + 6 /\ (left = 0 => read = write)
  BY DEF Inv, TypeOK, Room
<1>4. read' \in 0..BufferLen /\ write' \in 0..BufferLen /\ read' <= write'
  BY <1>2, <1>3
<1>5. left' \in 0..MaxPayload + 6 /\ pc' \in {"idle", "decode"}
  BY <1>2, <1>3
<1>6. Room'
  <2>1. CASE left > 1
    BY <2>1, <1>2, <1>3 DEF Room
  <2>2. CASE left <= 1
    BY <2>2, <1>2, <1>3 DEF Room
  <2>. QED BY <2>1, <2>2, <1>3
<1>. QED BY <1>1, <1>4, <1>5, <1>6

LEMMA ByteInv ==
  ASSUME Inv, pc = "idle", NEW b \in Bytes, ProcessByte(b)
  PROVE  /\ buffer' \in [Indices -> Bytes]
         /\ read' \in 0..BufferLen /\ write' \in 0..BufferLen /\ read' <= write'
         /\ left' \in 0..MaxPayload + 6 /\ pc' \in {"idle", "decode"}
         /\ Room'
<1>1. /\ read \in 0..BufferLen /\ write \in 0..BufferLen /\ read <= write
      /\ left \in 0..MaxPayload + 6 /\ write - read + left <= MaxPayload + 6
  BY DEF Inv, TypeOK, Room
<1>2. ~OutOfSpace
  BY <1>1 DEF OutOfSpace
<1>3. CASE write >= BufferLen
  <2>1. Shifted \in [Indices -> Bytes]
    BY DEF Shifted, Inv, TypeOK
  <2>2. Store(Shifted, 0, b)
    BY <1>2, <1>3 DEF ProcessByte
  <2>3. 0 \in 0..read /\ 0 + (write - read) < BufferLen
    BY <1>1
  <2>. QED BY StoreInv, <2>1, <2>2, <2>3
<1>4. CASE write < BufferLen
  <2>1. Store(buffer, read, b)
    BY <1>1, <1>2, <1>4 DEF ProcessByte
  <2>2. read \in 0..read /\ read + (write - read) < BufferLen
    BY <1>1, <1>4
  <2>3. buffer \in [Indices -> Bytes]
    BY DEF Inv, TypeOK
  <2>. QED BY StoreInv, <2>1, <2>2, <2>3
<1>. QED BY <1>1, <1>3, <1>4

LEMMA AdvanceInv ==
  ASSUME Inv, pc = "decode", NEW n \in Nat, n <= write - read, Advance(n)
  PROVE  Inv'
<1>1. /\ read \in 0..BufferLen /\ write \in 0..BufferLen /\ read <= write
      /\ buffer \in [Indices -> Bytes] /\ wire \in Seq(Bytes) /\ clean \in BOOLEAN
      /\ write - read <= MaxPayload + 6
  BY DEF Inv, TypeOK, Room
<1>2. /\ read' = read + n /\ left' = 0 /\ write' = write /\ pc' = pc
      /\ wire' = wire /\ clean' = clean /\ buffer' = Keep(buffer, read + n, write)
  BY DEF Advance, line
<1>3. buffer' \in [Indices -> Bytes]
  BY <1>1, <1>2 DEF Keep
<1>4. TypeOK'
  BY <1>1, <1>2, <1>3 DEF TypeOK
<1>5. Room'
  BY <1>1, <1>2 DEF Room
<1>. QED BY <1>4, <1>5 DEF Inv

-----------------------------------------------------------------------------
LEMMA InvInit == Init => Inv
<1>. SUFFICES ASSUME Init PROVE Inv
  OBVIOUS
<1>1. buffer \in [Indices -> Bytes]
  BY DEF Init
<1>2. wire \in Seq(Bytes)
  BY DEF Init
<1>3. read = 0 /\ write = 0 /\ left = 0 /\ pc = "idle"
  BY DEF Init
<1>4. clean \in BOOLEAN
  BY Zenon DEF Init
<1>5. Room /\ read <= write
  BY <1>3 DEF Room
<1>6. read \in 0..BufferLen /\ write \in 0..BufferLen /\ left \in 0..MaxPayload + 6
  BY <1>3
<1>. QED BY <1>1, <1>2, <1>3, <1>4, <1>5, <1>6, Zenon DEF Inv, TypeOK

LEMMA InvStep == Inv /\ [Next]_vars => Inv'
<1>. SUFFICES ASSUME Inv, [Next]_vars PROVE Inv'
  OBVIOUS
<1>0. /\ buffer \in [Indices -> Bytes] /\ wire \in Seq(Bytes) /\ clean \in BOOLEAN
      /\ read \in 0..BufferLen /\ write \in 0..BufferLen /\ read <= write
      /\ left \in 0..MaxPayload + 6
  BY DEF Inv, TypeOK
<1>1. CASE Decoded
  BY <1>1, LiveBytes, MissingBound, AdvanceInv DEF Decoded, Inv
<1>2. CASE Invalid
  BY <1>2, LiveBytes, MissingBound, AdvanceInv DEF Invalid, Inv
<1>3. CASE MoreData
  <2>1. /\ Missing(Live) \in Nat /\ Missing(Live) > 0
        /\ write - read + Missing(Live) <= MaxPayload + 6
    BY <1>3, LiveBytes, MissingBound DEF MoreData, Inv
  <2>2. /\ pc' = "idle" /\ left' = Missing(Live) /\ buffer' = buffer
        /\ wire' = wire /\ clean' = clean
        /\ \/ read = write /\ read' = 0 /\ write' = 0
           \/ read' = read /\ write' = write
    BY <1>3 DEF MoreData, line
  <2>3. TypeOK'
    BY <1>0, <2>1, <2>2 DEF TypeOK
  <2>4. Room'
    BY <1>0, <2>1, <2>2 DEF Room
  <2>. QED BY <2>3, <2>4 DEF Inv
<1>4. CASE Arrive
  <2>1. Head(wire) \in Bytes /\ Tail(wire) \in Seq(Bytes)
    BY <1>0, <1>4 DEF Arrive
  <2>2. /\ pc = "idle" /\ ProcessByte(Head(wire))
        /\ wire' = Tail(wire) /\ clean' = clean
    BY <1>4 DEF Arrive
  <2>. QED BY <1>0, <2>1, <2>2, ByteInv DEF Inv, TypeOK
<1>5. CASE Lose
  <2>1. Tail(wire) \in Seq(Bytes)
    BY <1>0, <1>5 DEF Lose
  <2>2. /\ wire' = Tail(wire) /\ clean' = FALSE
        /\ buffer' = buffer /\ read' = read /\ write' = write /\ left' = left /\ pc' = pc
    BY <1>5 DEF Lose, rx
  <2>. QED BY <2>1, <2>2 DEF Inv, TypeOK, Room
<1>6. ASSUME NEW d \in Sendable, Send(d) PROVE Inv'
  <2>1. wire' \in Seq(Bytes) /\ clean' \in BOOLEAN
    BY <1>6, SendableAssumption DEF Send
  <2>2. buffer' = buffer /\ read' = read /\ write' = write /\ left' = left /\ pc' = pc
    BY <1>6 DEF Send, rx
  <2>. QED BY <2>1, <2>2 DEF Inv, TypeOK, Room
<1>7. ASSUME NEW b \in Bytes, Noise(b) PROVE Inv'
  <2>1. pc = "idle" /\ ProcessByte(b) /\ wire' = wire /\ clean' = FALSE
    BY <1>7 DEF Noise
  <2>. QED BY <1>0, <2>1, ByteInv, Zenon DEF Inv, TypeOK
<1>8. CASE UNCHANGED vars
  BY <1>8 DEF vars, rx, line, Inv, TypeOK, Room
<1>. QED BY <1>1, <1>2, <1>3, <1>4, <1>5, <1>6, <1>7, <1>8 DEF Next

(* packet.c never writes outside rx_buffer, and the pointers stay in order.*)
THEOREM TypeCorrect == Spec => []TypeOK
<1>1. Inv => TypeOK
  BY DEF Inv
<1>. QED BY <1>1, InvInit, InvStep, PTL DEF Spec

(* The branch the code marks "should not happen" is never taken.           *)
THEOREM HasSpaceHolds == Spec => []HasSpace
<1>1. Inv => HasSpace
  BY DEF Inv, TypeOK, Room, HasSpace, OutOfSpace
<1>. QED BY <1>1, InvInit, InvStep, PTL DEF Spec

-----------------------------------------------------------------------------
(* IsStream.  What try_decode_packet finds in the bytes it has is what     *)
(* FrameStream says of them.  First the header.                            *)
LEMMA HeaderParts ==
  ASSUME NEW n \in 1..MaxPayload, NEW h \in Stream!Headers(n)
  PROVE  /\ h \in Seq(Nat) /\ Len(h) \in {2, 3} /\ h[1] = Len(h)
         /\ Len(h) = 2 => h = <<2, n>> /\ h[2] = n /\ n <= 255
         /\ Len(h) = 3 => /\ h = <<3, n \div 256, n % 256>> /\ h[2] = n \div 256 /\ h[3] = n % 256
                          /\ n >= MaxShort
<1>1. CASE h = <<2, n>> /\ n <= 255
  BY <1>1
<1>2. CASE h = <<3, n \div 256, n % 256>> /\ n >= MaxShort
  <2>1. n \div 256 \in Nat /\ n % 256 \in Nat
    OBVIOUS
  <2>2. QED
    BY <1>2, <2>1
<1>3. QED
  BY <1>1, <1>2 DEF Stream!Headers

(* Two sequences put together, and a header, a payload, a checksum and the *)
(* stop byte.                                                              *)
LEMMA TwoParts ==
  ASSUME NEW a \in Seq(Nat), NEW c \in Seq(Nat)
  PROVE  /\ a \o c \in Seq(Nat) /\ Len(a \o c) = Len(a) + Len(c)
         /\ Len(a) \in Nat /\ Len(c) \in Nat
         /\ \A i \in 1..Len(a) : (a \o c)[i] = a[i]
         /\ \A i \in 1..Len(c) : (a \o c)[Len(a) + i] = c[i]
<1>1. /\ a \o c \in Seq(Nat) /\ Len(a \o c) = Len(a) + Len(c)
      /\ \A i \in 1..Len(a) + Len(c) : (a \o c)[i] = IF i <= Len(a) THEN a[i] ELSE c[i - Len(a)]
  BY ConcatProperties
<1>2. Len(a) \in Nat /\ Len(c) \in Nat
  BY LenProperties
<1>3. ASSUME NEW i \in 1..Len(a) PROVE (a \o c)[i] = a[i]
  <2>1. i \in 1..Len(a) + Len(c) /\ i <= Len(a)
    BY <1>2
  <2>2. QED
    BY <1>1, <2>1
<1>4. ASSUME NEW i \in 1..Len(c) PROVE (a \o c)[Len(a) + i] = c[i]
  <2>1. Len(a) + i \in 1..Len(a) + Len(c) /\ ~(Len(a) + i <= Len(a)) /\ Len(a) + i - Len(a) = i
    BY <1>2
  <2>2. QED
    BY <1>1, <2>1
<1>5. QED
  BY <1>1, <1>2, <1>3, <1>4

IsParts(f, h, d, c, x) == f = h \o d \o c \o <<x>>

PartsAt(f, h, d, c, x) ==
  /\ Len(f) = Len(h) + Len(d) + 3
  /\ \A i \in 1..Len(h) : f[i] = h[i]
  /\ \A i \in 1..Len(d) : f[Len(h) + i] = d[i]
  /\ \A i \in 1..2 : f[Len(h) + Len(d) + i] = c[i]
  /\ f[Len(h) + Len(d) + 3] = x

LEMMA FourParts ==
  ASSUME NEW h \in Seq(Nat), NEW d \in Seq(Nat), NEW c \in Seq(Nat), NEW x \in Nat, Len(c) = 2,
         NEW f, IsParts(f, h, d, c, x)
  PROVE  f \in Seq(Nat) /\ PartsAt(f, h, d, c, x)
<1> DEFINE a == h \o d
           b == a \o c
           y == <<x>>
<1>1. /\ a \in Seq(Nat) /\ Len(a) = Len(h) + Len(d) /\ Len(h) \in Nat /\ Len(d) \in Nat
      /\ \A i \in 1..Len(h) : a[i] = h[i]
      /\ \A i \in 1..Len(d) : a[Len(h) + i] = d[i]
  BY TwoParts
<1> HIDE DEF a
<1>2. /\ b \in Seq(Nat) /\ Len(b) = Len(a) + 2
      /\ \A i \in 1..Len(a) : b[i] = a[i]
      /\ \A i \in 1..2 : b[Len(a) + i] = c[i]
  <2>1. /\ b \in Seq(Nat) /\ Len(b) = Len(a) + Len(c)
        /\ \A i \in 1..Len(a) : b[i] = a[i]
        /\ \A i \in 1..Len(c) : b[Len(a) + i] = c[i]
    BY <1>1, TwoParts, ZenonT(40)
  <2> HIDE DEF b
  <2>2. QED
    BY <2>1
<1> HIDE DEF b
<1>3. y \in Seq(Nat) /\ Len(y) = 1 /\ y[1] = x
  OBVIOUS
<1> HIDE DEF y
<1>4. f = b \o y
  BY DEF b, y, a, IsParts
<1>5. /\ f \in Seq(Nat) /\ Len(f) = Len(b) + 1
      /\ \A i \in 1..Len(b) : f[i] = b[i]
      /\ f[Len(b) + 1] = x
  <2>1. /\ b \o y \in Seq(Nat) /\ Len(b \o y) = Len(b) + Len(y)
        /\ \A i \in 1..Len(b) : (b \o y)[i] = b[i]
        /\ \A i \in 1..Len(y) : (b \o y)[Len(b) + i] = y[i]
    BY <1>2, <1>3, TwoParts, ZenonT(40)
  <2>2. /\ f \in Seq(Nat) /\ Len(f) = Len(b) + Len(y)
        /\ \A i \in 1..Len(b) : f[i] = b[i]
        /\ \A i \in 1..Len(y) : f[Len(b) + i] = y[i]
    BY <1>4, <2>1, Zenon
  <2>3. QED
    BY <1>3, <2>2
<1>6. Len(a) \in Nat /\ Len(b) = Len(h) + Len(d) + 2
  BY <1>1, <1>2
<1>7. ASSUME NEW i \in 1..Len(a) PROVE f[i] = a[i]
  <2>1. i \in 1..Len(b)
    BY <1>6, <1>1
  <2>2. QED
    BY <1>2, <1>5, <2>1
<1>8. ASSUME NEW i \in 1..2 PROVE f[Len(h) + Len(d) + i] = c[i]
  <2>1. Len(a) + i \in 1..Len(b) /\ Len(a) + i = Len(h) + Len(d) + i
    BY <1>6, <1>1
  <2>2. QED
    BY <1>2, <1>5, <2>1
<1>9. ASSUME NEW i \in 1..Len(h) PROVE f[i] = h[i]
  <2>1. i \in 1..Len(a)
    BY <1>1
  <2>2. QED
    BY <1>1, <1>7, <2>1
<1>10. ASSUME NEW i \in 1..Len(d) PROVE f[Len(h) + i] = d[i]
  <2>1. Len(h) + i \in 1..Len(a)
    BY <1>1
  <2>2. QED
    BY <1>1, <1>7, <2>1
<1>11. QED
  <2>1. Len(f) = Len(h) + Len(d) + 3 /\ Len(b) + 1 = Len(h) + Len(d) + 3
    BY <1>1, <1>5, <1>6
  <2>2. QED
    BY <1>5, <1>8, <1>9, <1>10, <2>1 DEF PartsAt

LEMMA FourIndices ==
  ASSUME NEW a \in Nat, NEW b \in Nat, NEW i \in 1..a + b + 3
  PROVE  \/ i \in 1..a
         \/ \E j \in 1..b : i = a + j
         \/ \E j \in 1..2 : i = a + b + j
         \/ i = a + b + 3
<1>1. CASE i > a /\ i <= a + b
  <2>1. i - a \in 1..b /\ i = a + (i - a)
    BY <1>1
  <2>2. QED
    BY <2>1
<1>2. CASE i > a + b /\ i <= a + b + 2
  <2>1. i - a - b \in 1..2 /\ i = a + b + (i - a - b)
    BY <1>2
  <2>2. QED
    BY <2>1
<1>3. QED
  BY <1>1, <1>2

LEMMA SameParts ==
  ASSUME NEW h \in Seq(Nat), NEW d \in Seq(Nat), NEW c \in Seq(Nat), NEW x \in Nat, Len(c) = 2,
         NEW f \in Seq(Nat)
  PROVE  IsParts(f, h, d, c, x) <=> PartsAt(f, h, d, c, x)
<1>1. ASSUME IsParts(f, h, d, c, x) PROVE PartsAt(f, h, d, c, x)
  BY <1>1, FourParts, Zenon
<1>2. ASSUME PartsAt(f, h, d, c, x) PROVE IsParts(f, h, d, c, x)
  <2>1. PICK e : IsParts(e, h, d, c, x)
    BY DEF IsParts
  <2>2. e \in Seq(Nat) /\ PartsAt(e, h, d, c, x)
    BY <2>1, FourParts, Zenon
  <2>3. Len(f) = Len(h) + Len(d) + 3 /\ Len(e) = Len(f)
    BY <1>2, <2>2, Zenon DEF PartsAt
  <2>4. Len(h) \in Nat /\ Len(d) \in Nat
    BY LenProperties
  <2>5. ASSUME NEW i \in 1..Len(f) PROVE f[i] = e[i]
    <3>1. \/ i \in 1..Len(h)
          \/ \E j \in 1..Len(d) : i = Len(h) + j
          \/ \E j \in 1..2 : i = Len(h) + Len(d) + j
          \/ i = Len(h) + Len(d) + 3
      <4>1. i \in 1..Len(h) + Len(d) + 3
        BY <2>3, Zenon
      <4>2. \A a, b \in Nat : i \in 1..a + b + 3 =>
              \/ i \in 1..a
              \/ \E j \in 1..b : i = a + j
              \/ \E j \in 1..2 : i = a + b + j
              \/ i = a + b + 3
        BY FourIndices
      <4>3. QED
        BY <2>4, <4>1, <4>2
    <3>2. CASE i \in 1..Len(h)
      BY <1>2, <2>2, <3>2, Zenon DEF PartsAt
    <3>3. ASSUME NEW j \in 1..Len(d), i = Len(h) + j PROVE f[i] = e[i]
      BY <1>2, <2>2, <3>3 DEF PartsAt
    <3>4. ASSUME NEW j \in 1..2, i = Len(h) + Len(d) + j PROVE f[i] = e[i]
      BY <1>2, <2>2, <3>4, SMTT(40) DEF PartsAt
    <3>5. CASE i = Len(h) + Len(d) + 3
      BY <1>2, <2>2, <3>5, Zenon DEF PartsAt
    <3>6. QED
      BY <3>1, <3>2, <3>3, <3>4, <3>5, Zenon
  <2>6. f = e
    BY <2>2, <2>3, <2>5, SeqEqual, Zenon
  <2>7. QED
    BY <2>1, <2>6, Zenon
<1>3. QED
  BY <1>1, <1>2

LEMMA BytesNat ==
  ASSUME NEW s \in Seq(Bytes)
  PROVE  s \in Seq(Nat) /\ Len(s) \in Nat /\ \A i \in 1..Len(s) : s[i] \in Bytes /\ s[i] \in Nat
<1>1. \A b \in Bytes : b \in Nat
  OBVIOUS
<1>2. Bytes \subseteq Nat
  BY <1>1
<1>3. QED
  BY <1>1, <1>2, SeqMonotonic, ElementOfSeq, LenProperties

(* What FrameStream calls a frame at the front of p, byte by byte.         *)
IsAt(p, h, n) ==
  LET k == Len(h) + n + 3
  IN /\ \A i \in 1..Len(h) : p[i] = h[i]
     /\ SubSeq(p, k - 2, k - 1) = Crc(SubSeq(p, Len(h) + 1, Len(h) + n))
     /\ p[k] = 3

LEMMA FrameParts ==
  ASSUME NEW p \in Seq(Bytes), NEW n \in 1..MaxPayload, NEW h \in Stream!Headers(n),
         Len(p) >= Len(h) + n + 3
  PROVE  Stream!IsFrame(SubSeq(p, 1, Len(h) + n + 3), Stream!Payload(p, h, n)) <=> IsAt(p, h, n)
<1> DEFINE k == Len(h) + n + 3
           d == SubSeq(p, Len(h) + 1, Len(h) + n)
           f == SubSeq(p, 1, k)
           c == SubSeq(p, k - 2, k - 1)
<1>1. h \in Seq(Nat) /\ Len(h) \in {2, 3}
  BY HeaderParts
<1>2. \A i \in 1..Len(p) : p[i] \in Bytes /\ p[i] \in Nat
  BY BytesNat, Zenon
<1>3. k \in Nat /\ k <= Len(p) /\ Len(p) \in Nat /\ n \in Nat /\ k - 2 > 0
      /\ Len(h) \in Nat /\ k = Len(h) + n + 3
  BY <1>1, LenProperties
<1> HIDE DEF k
<1>4. d \in Seq(Bytes) /\ d \in Seq(Nat) /\ Len(d) = n /\ \A i \in 1..n : d[i] = p[Len(h) + i]
  <2>1. \A i \in Len(h) + 1..Len(h) + n : p[i] \in Bytes /\ p[i] \in Nat
    BY <1>2, <1>3
  <2>2. /\ d \in Seq(Bytes) /\ d \in Seq(Nat)
        /\ Len(d) = IF Len(h) + 1 <= Len(h) + n THEN Len(h) + n - (Len(h) + 1) + 1 ELSE 0
        /\ \A i \in 1..Len(h) + n - (Len(h) + 1) + 1 : d[i] = p[Len(h) + 1 + i - 1]
    BY <1>3, <2>1, SubSeqProperties
  <2> HIDE DEF d
  <2>3. QED
    BY <1>3, <2>2
<1>5. f \in Seq(Nat) /\ Len(f) = k /\ \A i \in 1..k : f[i] = p[i]
  <2>1. \A i \in 1..k : p[i] \in Nat
    BY <1>2, <1>3
  <2>2. /\ f \in Seq(Nat) /\ Len(f) = IF 1 <= k THEN k - 1 + 1 ELSE 0
        /\ \A i \in 1..k - 1 + 1 : f[i] = p[1 + i - 1]
    BY <1>3, <2>1, SubSeqProperties
  <2> HIDE DEF f
  <2>3. QED
    BY <1>3, <2>2
<1>6. c \in Seq(Nat) /\ Len(c) = 2 /\ \A i \in 1..2 : c[i] = p[Len(h) + n + i]
  <2>1. \A i \in k - 2..k - 1 : p[i] \in Nat
    BY <1>2, <1>3
  <2>2. /\ c \in Seq(Nat)
        /\ Len(c) = IF k - 2 <= k - 1 THEN k - 1 - (k - 2) + 1 ELSE 0
        /\ \A i \in 1..k - 1 - (k - 2) + 1 : c[i] = p[k - 2 + i - 1]
    BY <1>3, <2>1, SubSeqProperties
  <2> HIDE DEF c
  <2>3. \A i \in 1..2 : k - 2 + i - 1 = Len(h) + n + i
    BY <1>3
  <2>4. QED
    BY <1>3, <2>2, <2>3
<1> HIDE DEF d, f, c
<1>7. Crc(d) \in Seq(Nat) /\ Len(Crc(d)) = 2
  <2>1. d \in [1..n -> Bytes]
    BY <1>4, LenProperties
  <2>2. Crc(d) \in Seq(Bytes) /\ Len(Crc(d)) = 2
    BY <2>1, CrcAssumption
  <2>3. QED
    BY <2>2, BytesNat, Zenon
<1>8. /\ IsAt(p, h, n) <=> /\ \A i \in 1..Len(h) : p[i] = h[i]
                           /\ c = Crc(d)
                           /\ p[k] = 3
      /\ Stream!IsFrame(SubSeq(p, 1, Len(h) + n + 3), Stream!Payload(p, h, n))
           <=> \E g \in Stream!Headers(n) : IsParts(f, g, d, Crc(d), 3)
  <2>1. Stream!Payload(p, h, n) = d /\ SubSeq(p, 1, Len(h) + n + 3) = f
    BY Zenon DEF Stream!Payload, d, f, k
  <2>2. Len(d) = n
    BY <1>4
  <2>3. Stream!IsFrame(f, d) <=> \E g \in Stream!Headers(n) : IsParts(f, g, d, Crc(d), 3)
    BY <2>2, Zenon DEF Stream!IsFrame, IsParts
  <2>4. IsAt(p, h, n) <=> /\ \A i \in 1..Len(h) : p[i] = h[i]
                          /\ c = Crc(d)
                          /\ p[k] = 3
    BY Zenon DEF IsAt, c, d, k
  <2>5. QED
    BY <2>1, <2>3, <2>4, Zenon
<1>9. ASSUME NEW g \in Stream!Headers(n), IsParts(f, g, d, Crc(d), 3)
      PROVE  IsAt(p, h, n)
  <2>1. g \in Seq(Nat) /\ Len(g) \in {2, 3}
    BY HeaderParts
  <2>2. PartsAt(f, g, d, Crc(d), 3)
    <3>1. 3 \in Nat
      OBVIOUS
    <3>2. QED
      BY <1>4, <1>7, <1>9, <2>1, <3>1, FourParts, Zenon
  <2>3. Len(f) = Len(g) + Len(d) + 3
    BY <2>2, Zenon DEF PartsAt
  <2>4. Len(g) = Len(h)
    <3>1. Len(g) + n + 3 = Len(h) + n + 3
      BY <1>3, <1>4, <1>5, <2>3, Zenon
    <3>2. QED
      BY <1>3, <2>1, <3>1
  <2>5. g = h
    BY <1>1, <2>4, HeaderParts, SMTT(40)
  <2>6. \A i \in 1..Len(h) : 1 <= i /\ i <= k /\ i \in 1..k
    BY <1>3
  <2>7. \A i \in 1..Len(h) : p[i] = h[i]
    BY <1>5, <2>2, <2>5, <2>6, Zenon DEF PartsAt
  <2>8. p[k] = 3
    <3>1. f[k] = 3
      BY <1>3, <1>4, <2>2, <2>4, Zenon DEF PartsAt
    <3>2. k \in 1..k
      BY <1>3
    <3>3. QED
      BY <1>5, <3>1, <3>2, Zenon
  <2>9. c = Crc(d)
    <3>1. \A i \in 1..2 : Len(h) + n + i \in 1..k
      BY <1>3
    <3>2. \A i \in 1..2 : c[i] = Crc(d)[i]
      <4>1. \A i \in 1..2 : f[Len(g) + Len(d) + i] = Crc(d)[i]
        BY <2>2, Zenon DEF PartsAt
      <4>2. \A i \in 1..2 : f[Len(h) + n + i] = p[Len(h) + n + i]
        BY <1>5, <3>1, Zenon
      <4>3. QED
        BY <1>4, <1>6, <2>5, <4>1, <4>2, Zenon
    <3>3. QED
      BY <1>6, <1>7, <3>2, SeqEqual, Zenon
  <2>10. QED
    BY <1>8, <2>7, <2>8, <2>9, Zenon
<1>10. ASSUME IsAt(p, h, n) PROVE IsParts(f, h, d, Crc(d), 3)
  <2>1. /\ \A i \in 1..Len(h) : p[i] = h[i]
        /\ c = Crc(d)
        /\ p[k] = 3
    BY <1>8, <1>10, Zenon
  <2>2. PartsAt(f, h, d, Crc(d), 3)
    <3>1. Len(f) = Len(h) + Len(d) + 3
      BY <1>3, <1>4, <1>5, Zenon
    <3>2. \A i \in 1..Len(h) : i \in 1..k
      BY <1>3
    <3>3. \A i \in 1..Len(h) : f[i] = h[i]
      BY <1>5, <2>1, <3>2, Zenon
    <3>4. \A i \in 1..n : Len(h) + i \in 1..k
      BY <1>3
    <3>5. \A i \in 1..Len(d) : f[Len(h) + i] = d[i]
      BY <1>4, <1>5, <3>4, Zenon
    <3>6. \A i \in 1..2 : Len(h) + n + i \in 1..k
      BY <1>3
    <3>7. \A i \in 1..2 : f[Len(h) + Len(d) + i] = Crc(d)[i]
      <4>1. \A i \in 1..2 : f[Len(h) + n + i] = c[i]
        BY <1>5, <1>6, <3>6, Zenon
      <4>2. QED
        BY <1>4, <2>1, <4>1, Zenon
    <3>8. k \in 1..k
      BY <1>3
    <3>9. f[Len(h) + Len(d) + 3] = 3
      BY <1>3, <1>4, <1>5, <2>1, <3>8, Zenon
    <3>10. QED
      BY <3>1, <3>3, <3>5, <3>7, <3>9, Zenon DEF PartsAt
  <2>3. 3 \in Nat
    OBVIOUS
  <2>4. QED
    BY <1>1, <1>4, <1>5, <1>7, <2>2, <2>3, SameParts, Zenon
<1>11. QED
  BY <1>8, <1>9, <1>10, Zenon

LEMMA Quotient == \A n \in 1..MaxPayload : n = 256 * (n \div 256) + (n % 256)
OBVIOUS

(* A header at the front of p, and the length try_decode_packet reads.     *)
LEMMA HeaderRead ==
  ASSUME NEW p \in Seq(Bytes), NEW n \in 1..MaxPayload, NEW h \in Stream!Headers(n),
         Len(p) >= Len(h), \A i \in 1..Len(h) : p[i] = h[i]
  PROVE  /\ p[1] = Len(h) /\ p[1] \in {2, 3} /\ Claimed(p) = n
         /\ ValidLength(p) /\ Total(p) = Len(h) + n + 3
<1>1. /\ Len(h) \in {2, 3} /\ h[1] = Len(h)
      /\ Len(h) = 2 => h[2] = n
      /\ Len(h) = 3 => h[2] = n \div 256 /\ h[3] = n % 256 /\ n >= MaxShort
  BY HeaderParts
<1>2. p[1] = Len(h)
  BY <1>1
<1>3. Claimed(p) = n
  <2>1. CASE Len(h) = 2
    BY <1>1, <1>2, <2>1 DEF Claimed
  <2>2. CASE Len(h) = 3
    <3>1. p[1] = 3 /\ p[2] = n \div 256 /\ p[3] = n % 256
      BY <1>1, <1>2, <2>2
    <3>2. n = 256 * (n \div 256) + (n % 256)
      BY Quotient, Zenon
    <3>3. 3 # 2
      OBVIOUS
    <3>4. QED
      BY <3>1, <3>2, <3>3 DEF Claimed
  <2>3. QED
    BY <1>1, <2>1, <2>2
<1>4. ValidLength(p)
  BY <1>1, <1>2, <1>3 DEF ValidLength
<1>5. Total(p) = Len(h) + n + 3
  BY <1>1, <1>2, <1>3 DEF Total
<1>6. QED
  BY <1>1, <1>2, <1>3, <1>4, <1>5

LEMMA ShortHeader ==
  ASSUME NEW n \in 1..255
  PROVE  <<2, n>> \in Stream!Headers(n) /\ Len(<<2, n>>) = 2 /\ <<2, n>>[1] = 2 /\ <<2, n>>[2] = n
<1>1. n \in {k \in {n} : k <= 255}
  OBVIOUS
<1>2. <<2, n>> \in {<<2, n>> : m \in {k \in {n} : k <= 255}}
  BY <1>1, Zenon
<1>3. <<2, n>> \in Stream!Headers(n)
  BY <1>2, Zenon DEF Stream!Headers
<1>4. QED
  BY <1>3

LEMMA LongHeader ==
  ASSUME NEW a \in 0..255, NEW b \in 0..255, NEW n, n = 256 * a + b, n >= MaxShort
  PROVE  <<3, a, b>> \in Stream!Headers(n)
<1>1. n \div 256 = a /\ n % 256 = b
  OBVIOUS
<1>2. n \in {k \in {n} : k >= MaxShort}
  OBVIOUS
<1>3. <<3, n \div 256, n % 256>>
        \in {<<3, n \div 256, n % 256>> : m \in {k \in {n} : k >= MaxShort}}
  BY <1>2
<1>4. QED
  BY <1>1, <1>3 DEF Stream!Headers

LEMMA HeaderMade ==
  ASSUME NEW p \in Seq(Bytes), Len(p) >= p[1], p[1] \in {2, 3}, ValidLength(p)
  PROVE  /\ Claimed(p) \in 1..MaxPayload
         /\ \E h \in Stream!Headers(Claimed(p)) :
              Len(h) = p[1] /\ \A i \in 1..Len(h) : p[i] = h[i]
<1>1. Len(p) \in Nat /\ \A i \in 1..Len(p) : p[i] \in 0..255
  <2>1. Bytes \subseteq 0..255
    OBVIOUS
  <2>2. QED
    BY <2>1, BytesNat, Zenon
<1>2. ASSUME NEW a \in 0..255, NEW n, p[1] = 2, p[2] = a, n = Claimed(p)
      PROVE  /\ n \in 1..MaxPayload
             /\ \E h \in Stream!Headers(n) :
                  Len(h) = p[1] /\ \A i \in 1..Len(h) : p[i] = h[i]
  <2>1. n = a /\ 1 <= n /\ n <= MaxPayload
    <3>1. n = a /\ n >= 1 /\ n <= MaxPayload
      BY <1>2, Zenon DEF Claimed, ValidLength
    <3>2. QED
      BY <3>1
  <2>2. n \in 1..255 /\ n \in 1..MaxPayload
    BY <2>1
  <2>3. \A i \in 1..2 : i = 1 \/ i = 2
    OBVIOUS
  <2>4. PICK h \in Stream!Headers(n) : Len(h) = 2 /\ h[1] = 2 /\ h[2] = n
    BY <2>2, ShortHeader, Zenon
  <2>5. \A i \in 1..2 : p[i] = h[i]
    BY <1>2, <2>1, <2>3, <2>4
  <2>6. QED
    BY <1>2, <2>2, <2>4, <2>5
<1>3. ASSUME NEW a \in 0..255, NEW b \in 0..255, NEW n, p[1] = 3, p[2] = a, p[3] = b,
             n = Claimed(p)
      PROVE  /\ n \in 1..MaxPayload
             /\ \E h \in Stream!Headers(n) :
                  Len(h) = p[1] /\ \A i \in 1..Len(h) : p[i] = h[i]
  <2>1. 3 # 2
    OBVIOUS
  <2>2. n = 256 * a + b /\ n >= MaxShort /\ n <= MaxPayload
    BY <1>3, <2>1 DEF Claimed, ValidLength
  <2>3. n \in 1..MaxPayload
    BY <2>2
  <2>4. \A i \in 1..3 : i = 1 \/ i = 2 \/ i = 3
    OBVIOUS
  <2>5. PICK h \in Stream!Headers(n) : Len(h) = 3 /\ h[1] = 3 /\ h[2] = a /\ h[3] = b
    <3>1. n = 256 * a + b
      BY <2>2
    <3>2. n >= MaxShort
      BY <2>2
    <3>3. <<3, a, b>> \in Stream!Headers(n)
      BY <3>1, <3>2, LongHeader, Zenon
    <3>4. /\ Len(<<3, a, b>>) = 3
          /\ <<3, a, b>>[1] = 3 /\ <<3, a, b>>[2] = a /\ <<3, a, b>>[3] = b
      OBVIOUS
    <3>5. QED
      BY <3>3, <3>4, Zenon
  <2>6. \A i \in 1..3 : p[i] = h[i]
    BY <1>3, <2>4, <2>5
  <2>7. QED
    BY <1>3, <2>3, <2>5, <2>6
<1>4. CASE p[1] = 2
  <2>1. 2 \in 1..Len(p)
    BY <1>1, <1>4
  <2>2. QED
    BY <1>1, <1>2, <1>4, <2>1, Zenon
<1>5. CASE p[1] = 3
  <2>1. 2 \in 1..Len(p) /\ 3 \in 1..Len(p)
    BY <1>1, <1>5
  <2>2. QED
    BY <1>1, <1>3, <1>5, <2>1, Zenon
<1>6. QED
  BY <1>4, <1>5

(* try_decode_packet delivers exactly what is a frame.                     *)
LEMMA FrameGood ==
  ASSUME NEW p \in Seq(Bytes), Stream!Frame(p)
  PROVE  Missing(p) = 0 /\ Good(p)
<1>0. PICK n \in 1..MaxPayload :
        \E h \in Stream!Headers(n) :
          /\ Len(p) >= Len(h) + n + 3
          /\ Stream!IsFrame(SubSeq(p, 1, Len(h) + n + 3), Stream!Payload(p, h, n))
  BY Zenon DEF Stream!Frame
<1>1. PICK h \in Stream!Headers(n) :
        /\ Len(p) >= Len(h) + n + 3
        /\ Stream!IsFrame(SubSeq(p, 1, Len(h) + n + 3), Stream!Payload(p, h, n))
  BY <1>0, Zenon
<1>2. IsAt(p, h, n)
  BY <1>1, FrameParts, Zenon
<1>3. Len(h) \in {2, 3} /\ Len(p) \in Nat
  BY HeaderParts, LenProperties
<1>4. Len(p) >= Len(h)
  BY <1>1, <1>3
<1>5. \A i \in 1..Len(h) : p[i] = h[i]
  BY <1>2, Zenon DEF IsAt
<1>6. /\ p[1] = Len(h) /\ p[1] \in {2, 3} /\ Claimed(p) = n
      /\ ValidLength(p) /\ Total(p) = Len(h) + n + 3
  BY <1>4, <1>5, HeaderRead, Zenon
<1>7. Good(p)
  BY <1>2, <1>6, Zenon DEF IsAt, Good, Payload
<1>8. Missing(p) = 0
  BY <1>1, <1>3, <1>4, <1>6 DEF Missing
<1>9. QED
  BY <1>7, <1>8

LEMMA GoodFrame ==
  ASSUME NEW p \in Seq(Bytes), Missing(p) = 0, Good(p)
  PROVE  \E n \in 1..MaxPayload : \E h \in Stream!Headers(n) :
           /\ Total(p) = Len(h) + n + 3 /\ Len(p) >= Len(h) + n + 3
           /\ Payload(p) = Stream!Payload(p, h, n)
           /\ Stream!IsFrame(SubSeq(p, 1, Len(h) + n + 3), Stream!Payload(p, h, n))
<1>1. p[1] \in {2, 3} /\ ValidLength(p)
  BY DEF Good
<1>2. Total(p) \in Nat /\ Total(p) <= Len(p) /\ Len(p) \in Nat
  BY MissingBound, LenProperties
<1>3. Len(p) >= p[1]
  BY <1>1, <1>2, MissingBound DEF Missing
<1>4. PICK h \in Stream!Headers(Claimed(p)) :
        Len(h) = p[1] /\ \A i \in 1..Len(h) : p[i] = h[i]
  BY <1>1, <1>3, HeaderMade
<1>5. Claimed(p) \in 1..MaxPayload
  BY <1>1, <1>3, HeaderMade
<1>6. Total(p) = Len(h) + Claimed(p) + 3
  BY <1>1, <1>4, <1>5 DEF Total
<1>7. IsAt(p, h, Claimed(p))
  BY <1>4, <1>6 DEF IsAt, Good, Payload
<1>8. Len(p) >= Len(h) + Claimed(p) + 3
  BY <1>2, <1>6
<1>9. Payload(p) = Stream!Payload(p, h, Claimed(p))
  BY <1>4, Zenon DEF Payload, Stream!Payload
<1>10. QED
  BY <1>5, <1>6, <1>7, <1>8, <1>9, FrameParts, Zenon

(* Nothing that is refused could have become one.                          *)
LEMMA NoHope ==
  ASSUME NEW p \in Seq(Bytes), Missing(p) = 0, ~Good(p)
  PROVE  ~Stream!Hopeful(p) /\ ~Stream!Frame(p) /\ p # <<>>
<1>1. Len(p) >= 1 /\ Len(p) \in Nat
  BY MissingBound, LenProperties
<1>2. ASSUME NEW n \in 1..MaxPayload, NEW h \in Stream!Headers(n),
             Stream!IsPrefix(p, h) \/ Stream!IsPrefix(h, p), Len(p) < Len(h) + n + 3
      PROVE  FALSE
  <2>1. h \in Seq(Nat) /\ Len(h) \in {2, 3} /\ h[1] = Len(h)
    BY HeaderParts
  <2>2. \A i \in 1..Len(h) : i <= Len(p) => p[i] = h[i]
    <3>1. \/ \A i \in 1..Len(p) : i <= Len(h) /\ p[i] = h[i]
          \/ \A i \in 1..Len(h) : i <= Len(p) /\ p[i] = h[i]
      BY <1>2, <2>1 DEF Stream!IsPrefix
    <3>2. QED
      BY <1>1, <2>1, <3>1
  <2>3. p[1] = Len(h)
    BY <1>1, <2>1, <2>2
  <2>4. Len(p) >= Len(h)
    BY <1>1, <2>1, <2>3 DEF Missing
  <2>5. \A i \in 1..Len(h) : p[i] = h[i]
    BY <1>1, <2>1, <2>2, <2>4
  <2>6. ValidLength(p) /\ Total(p) = Len(h) + n + 3
    BY <2>4, <2>5, HeaderRead
  <2>7. QED
    BY <1>1, <1>2, <2>1, <2>3, <2>4, <2>6 DEF Missing
<1>3. ~Stream!Hopeful(p)
  BY <1>2, Zenon DEF Stream!Hopeful
<1>4. ~Stream!Frame(p)
  BY FrameGood, Zenon
<1>5. p # <<>>
  BY <1>1
<1>6. QED
  BY <1>3, <1>4, <1>5

(* What has been asked for is still asked for when part of it has come.    *)
LEMMA HeaderKept ==
  ASSUME NEW p \in Seq(Bytes), NEW q \in Seq(Bytes), Len(p) >= 1, Len(q) >= Len(p),
         \A i \in 1..Len(p) : q[i] = p[i]
  PROVE  /\ p # <<>> /\ q # <<>> /\ q[1] = p[1]
         /\ p[1] \in {2, 3} /\ Len(p) >= p[1] =>
              /\ Claimed(q) = Claimed(p) /\ Total(q) = Total(p)
              /\ ValidLength(q) <=> ValidLength(p)
<1>1. Len(p) \in Nat /\ Len(q) \in Nat
  BY LenProperties
<1>2. p # <<>> /\ q # <<>>
  BY <1>1
<1>3. 1 \in 1..Len(p)
  BY <1>1
<1>4. q[1] = p[1]
  BY <1>3, Zenon
<1>5. ASSUME p[1] \in {2, 3}, Len(p) >= p[1] PROVE Claimed(q) = Claimed(p)
  <2>1. 2 \in 1..Len(p) /\ (p[1] # 2 => 3 \in 1..Len(p))
    BY <1>1, <1>5
  <2>2. q[2] = p[2] /\ (p[1] # 2 => q[3] = p[3])
    BY <2>1, Zenon
  <2>3. CASE p[1] = 2
    BY <1>4, <2>2, <2>3, Zenon DEF Claimed
  <2>4. CASE p[1] # 2
    BY <1>4, <2>2, <2>4, Zenon DEF Claimed
  <2>5. QED
    BY <2>3, <2>4
<1>6. ASSUME p[1] \in {2, 3}, Len(p) >= p[1]
      PROVE  Total(q) = Total(p) /\ (ValidLength(q) <=> ValidLength(p))
  BY <1>4, <1>5, <1>6, Zenon DEF Total, ValidLength
<1>7. QED
  BY <1>2, <1>4, <1>5, <1>6, Zenon

LEMMA MissingCases ==
  ASSUME NEW p \in Seq(Bytes), Missing(p) > 0
  PROVE  \/ p = <<>> /\ Missing(p) = 1
         \/ /\ p # <<>> /\ p[1] \in {2, 3} /\ Len(p) >= 1
            /\ Len(p) < p[1] /\ Missing(p) = p[1] - Len(p)
         \/ /\ p # <<>> /\ p[1] \in {2, 3} /\ Len(p) >= 1
            /\ Len(p) >= p[1] /\ ValidLength(p)
            /\ Total(p) \in Nat /\ Len(p) < Total(p) /\ Missing(p) = Total(p) - Len(p)
<1>1. Len(p) \in Nat
  BY LenProperties
<1>2. CASE p = <<>>
  BY <1>2 DEF Missing
<1>3. CASE p # <<>>
  <2>1. Len(p) >= 1
    BY <1>3
  <2>2. p[1] \in {2, 3}
    BY <1>3 DEF Missing
  <2>3. CASE Len(p) < p[1]
    BY <1>3, <2>1, <2>2, <2>3 DEF Missing
  <2>4. CASE ~(Len(p) < p[1])
    <3>1. Len(p) >= p[1]
      BY <1>1, <2>2, <2>4
    <3>2. ValidLength(p) /\ Len(p) < Total(p) /\ Missing(p) = Total(p) - Len(p)
      BY <1>3, <2>2, <2>4 DEF Missing
    <3>3. Claimed(p) \in 1..MaxPayload
      BY <2>2, <3>1, <3>2, HeaderMade, Zenon
    <3>4. Total(p) \in Nat
      BY <2>2, <3>3 DEF Total
    <3>5. QED
      BY <1>3, <2>1, <2>2, <3>1, <3>2, <3>4
  <2>5. QED
    BY <2>3, <2>4
<1>4. QED
  BY <1>2, <1>3

LEMMA MissingAppend ==
  ASSUME NEW p \in Seq(Bytes), NEW b \in Bytes, Missing(p) > 1
  PROVE  Missing(Append(p, b)) = Missing(p) - 1
<1> DEFINE q == Append(p, b)
<1>1. q \in Seq(Bytes) /\ Len(q) = Len(p) + 1 /\ \A i \in 1..Len(p) : q[i] = p[i]
  BY AppendProperties
<1> HIDE DEF q
<1>2. Len(p) \in Nat /\ Len(q) >= Len(p)
  BY <1>1, LenProperties
<1>3. Missing(p) \in Nat /\ Missing(p) > 0 /\ Missing(p) # 1
  BY MissingBound
<1>4. CASE /\ p # <<>> /\ p[1] \in {2, 3} /\ Len(p) >= 1
           /\ Len(p) < p[1] /\ Missing(p) = p[1] - Len(p)
  <2>1. p[1] = 3 /\ Len(p) = 1 /\ Missing(p) = 2
    <3>1. ASSUME NEW a \in {2, 3}, NEW l \in Nat, l >= 1, l < a, a - l # 1
          PROVE  a = 3 /\ l = 1 /\ a - l = 2
      BY <3>1
    <3>2. QED
      BY <1>2, <1>3, <1>4, <3>1, ZenonT(40)
  <2>2. q # <<>> /\ q[1] = 3
    BY <1>1, <1>2, <1>4, <2>1, HeaderKept, Zenon
  <2>3. Len(q) = 2
    BY <1>1, <2>1
  <2>4. Missing(q) = 1
    BY <2>2, <2>3 DEF Missing
  <2>5. QED
    BY <2>1, <2>4 DEF q
<1>5. CASE /\ p # <<>> /\ p[1] \in {2, 3} /\ Len(p) >= 1
           /\ Len(p) >= p[1] /\ ValidLength(p)
           /\ Total(p) \in Nat /\ Len(p) < Total(p) /\ Missing(p) = Total(p) - Len(p)
  <2>1. q # <<>> /\ q[1] = p[1] /\ Total(q) = Total(p) /\ ValidLength(q)
    BY <1>1, <1>2, <1>5, HeaderKept, Zenon
  <2>2. ~(Len(q) < q[1]) /\ Len(q) < Total(q) /\ Total(q) - Len(q) = Missing(p) - 1
    BY <1>1, <1>2, <1>3, <1>5, <2>1
  <2>3. q[1] \in {2, 3}
    BY <1>5, <2>1
  <2>4. Missing(q) = Missing(p) - 1
    BY <2>1, <2>2, <2>3, Zenon DEF Missing
  <2>5. QED
    BY <2>4 DEF q
<1>6. QED
  BY <1>3, <1>4, <1>5, MissingCases

(* The bytes between the pointers, after a byte has been stored and after  *)
(* bytes have been taken off.                                              *)
LEMMA StoreLive ==
  ASSUME Inv, NEW b \in Bytes, NEW buf \in [Indices -> Bytes], NEW from \in 0..read,
         from + (write - read) < BufferLen,
         \A i \in 1..write - read : buf[from + i - 1] = buffer[read + i - 1],
         Store(buf, from, b)
  PROVE  Live' = Append(Live, b)
<1> DEFINE n == write - read
           q == Append(Live, b)
           g == [buf EXCEPT ![from + n] = b]
<1>1. /\ n \in Nat /\ Live \in Seq(Bytes) /\ Len(Live) = n
      /\ from \in Nat /\ from + n < BufferLen /\ read \in Nat
  BY LiveBytes DEF Inv, TypeOK
<1>2. \A i \in 1..n : Live[i] = buffer[read + i - 1]
  BY DEF Live
<1>3. read' = from /\ write' = from + n + 1
  BY DEF Store
<1>4. buffer' = Keep(g, from, from + n + 1)
  BY DEF Store
<1>0. \A j \in Indices : g[j] = IF j = from + n THEN b ELSE buf[j]
  BY Zenon
<1> HIDE DEF n, g
<1>5. q \in Seq(Bytes) /\ Len(q) = n + 1 /\ q[n + 1] = b /\ \A i \in 1..n : q[i] = Live[i]
  BY <1>1, AppendProperties
<1> HIDE DEF q
<1>6. \A j \in from..from + n : j \in Indices /\ j \in from..(from + n + 1) - 1
  BY <1>1
<1>7. \A j \in from..from + n : buffer'[j] = IF j = from + n THEN b ELSE buf[j]
  <2>1. \A j \in from..from + n : buffer'[j] = g[j]
    BY <1>4, <1>6, Zenon DEF Keep
  <2>2. QED
    BY <1>0, <1>6, <2>1, Zenon
<1>8. ASSUME NEW i \in 1..n + 1 PROVE buffer'[from + i - 1] = q[i]
  <2>1. CASE i = n + 1
    <3>1. from + i - 1 = from + n /\ from + n \in from..from + n
      BY <1>1, <2>1
    <3>2. QED
      BY <1>5, <1>7, <2>1, <3>1, Zenon
  <2>2. CASE i # n + 1
    <3>1. i \in 1..n /\ from + i - 1 \in from..from + n /\ from + i - 1 # from + n
      BY <1>1, <2>2
    <3>2. buffer'[from + i - 1] = buf[from + i - 1]
      BY <1>7, <3>1, Zenon
    <3>3. buf[from + i - 1] = buffer[read + i - 1]
      BY <3>1, Zenon DEF n
    <3>4. QED
      BY <1>2, <1>5, <3>1, <3>2, <3>3, Zenon
  <2>3. QED
    BY <2>1, <2>2
<1>9. write' - read' = n + 1
  BY <1>1, <1>3
<1>10. Live' = [i \in 1..n + 1 |-> q[i]]
  BY <1>3, <1>8, <1>9, Zenon DEF Live
<1>11. q = [i \in 1..n + 1 |-> q[i]]
  BY <1>5, LenProperties
<1>12. QED
  BY <1>10, <1>11 DEF q

LEMMA ByteLive ==
  ASSUME Inv, pc = "idle", NEW b \in Bytes, ProcessByte(b)
  PROVE  /\ Live' = Append(Live, b)
         /\ left' = IF left > 1 THEN left - 1 ELSE left
         /\ pc' = IF left > 1 THEN "idle" ELSE "decode"
         /\ frame' = NoFrame
<1>1. /\ read \in 0..BufferLen /\ write \in 0..BufferLen /\ read <= write
      /\ left \in 0..MaxPayload + 6 /\ write - read + left <= MaxPayload + 6
  BY DEF Inv, TypeOK, Room
<1>2. ~OutOfSpace /\ buffer \in [Indices -> Bytes]
  BY <1>1 DEF OutOfSpace, Inv, TypeOK
<1>3. CASE write >= BufferLen
  <2>1. Shifted \in [Indices -> Bytes]
    BY DEF Shifted, Inv, TypeOK
  <2>2. Store(Shifted, 0, b) /\ frame' = NoFrame
    BY <1>2, <1>3 DEF ProcessByte
  <2>3. 0 \in 0..read /\ 0 + (write - read) < BufferLen
    BY <1>1
  <2>4. ASSUME NEW i \in 1..write - read
        PROVE  Shifted[0 + i - 1] = buffer[read + i - 1]
    <3>1. /\ 0 + i - 1 \in Indices /\ 0 + i - 1 + read \in Indices
          /\ 0 + i - 1 + read = read + i - 1
      BY <1>1
    <3>2. QED
      BY <3>1, Zenon DEF Shifted
  <2>5. Live' = Append(Live, b)
    BY <2>1, <2>2, <2>3, <2>4, StoreLive, Zenon
  <2>6. QED
    BY <2>2, <2>5 DEF Store
<1>4. CASE write < BufferLen
  <2>1. Store(buffer, read, b) /\ frame' = NoFrame
    BY <1>1, <1>2, <1>4 DEF ProcessByte
  <2>2. read \in 0..read /\ read + (write - read) < BufferLen
    BY <1>1, <1>4
  <2>3. Live' = Append(Live, b)
    BY <1>2, <2>1, <2>2, StoreLive, Zenon
  <2>4. QED
    BY <2>1, <2>3 DEF Store
<1>5. QED
  BY <1>1, <1>3, <1>4

LEMMA AdvanceLive ==
  ASSUME Inv, NEW k \in Nat, k <= write - read, Advance(k)
  PROVE  Live' = SubSeq(Live, k + 1, Len(Live))
<1> DEFINE n == write - read
           q == SubSeq(Live, k + 1, Len(Live))
<1>1. /\ n \in Nat /\ Live \in Seq(Bytes) /\ Len(Live) = n
      /\ read \in Nat /\ write \in Nat /\ write <= BufferLen /\ k <= n /\ write = read + n
  BY LiveBytes DEF Inv, TypeOK
<1>2. \A i \in 1..n : Live[i] = buffer[read + i - 1]
  BY DEF Live
<1>3. read' = read + k /\ write' = write /\ buffer' = Keep(buffer, read + k, write)
  BY DEF Advance
<1> HIDE DEF n
<1>4. q \in Seq(Bytes) /\ Len(q) = n - k /\ \A i \in 1..n - k : q[i] = Live[k + i]
  <2>1. \A i \in k + 1..n : Live[i] \in Bytes
    BY <1>1
  <2>2. k + 1 \in Int /\ n \in Int
    BY <1>1
  <2>3. /\ q \in Seq(Bytes)
        /\ Len(q) = IF k + 1 <= n THEN n - (k + 1) + 1 ELSE 0
        /\ \A i \in 1..n - (k + 1) + 1 : q[i] = Live[k + 1 + i - 1]
    BY <1>1, <2>1, <2>2, SubSeqProperties
  <2> HIDE DEF q
  <2>4. n - (k + 1) + 1 = n - k /\ (~(k + 1 <= n) => n - k = 0)
    BY <1>1
  <2>5. \A i \in 1..n - k : k + 1 + i - 1 = k + i
    BY <1>1
  <2>6. QED
    BY <2>3, <2>4, <2>5, Zenon
<1> HIDE DEF q
<1>5. \A j \in read + k..write - 1 : j \in Indices
  BY <1>1
<1>6. ASSUME NEW i \in 1..n - k PROVE buffer'[read + k + i - 1] = q[i]
  <2>1. /\ read + k + i - 1 \in read + k..write - 1
        /\ read + k + i - 1 = read + (k + i) - 1 /\ k + i \in 1..n
    BY <1>1
  <2>2. buffer'[read + k + i - 1] = buffer[read + k + i - 1]
    BY <1>3, <1>5, <2>1, Zenon DEF Keep
  <2>3. QED
    BY <1>2, <1>4, <2>1, <2>2, Zenon
<1>7. write' - read' = n - k
  BY <1>1, <1>3
<1>8. Live' = [i \in 1..n - k |-> q[i]]
  BY <1>3, <1>6, <1>7, Zenon DEF Live
<1>9. q = [i \in 1..n - k |-> q[i]]
  BY <1>4, LenProperties
<1>10. QED
  BY <1>8, <1>9 DEF q

(* Between two bytes something is missing, and as much as is asked for.    *)
Waits ==
  pc = "idle" => Missing(Live) > 0 /\ (left = Missing(Live) \/ (left = 0 /\ read = write))

StreamInv == Inv /\ Waits

LEMMA EmptyLive ==
  ASSUME read = write, read \in Nat
  PROVE  Live = <<>> /\ Missing(Live) = 1
<1>1. 1..write - read = {}
  OBVIOUS
<1>2. Live = <<>>
  BY <1>1 DEF Live
<1>3. QED
  BY <1>2, Zenon DEF Missing

LEMMA WaitsByte ==
  ASSUME StreamInv, pc = "idle", NEW b \in Bytes, ProcessByte(b)
  PROVE  Waits'
<1>1. /\ Live \in Seq(Bytes) /\ left \in Nat /\ read \in Nat
      /\ left = Missing(Live) \/ (left = 0 /\ read = write)
  BY LiveBytes DEF StreamInv, Waits, Inv, TypeOK
<1>2. /\ Live' = Append(Live, b)
      /\ left' = IF left > 1 THEN left - 1 ELSE left
      /\ pc' = IF left > 1 THEN "idle" ELSE "decode"
  BY ByteLive, Zenon DEF StreamInv
<1>3. CASE left > 1
  <2>1. left = Missing(Live)
    BY <1>1, <1>3
  <2>2. Missing(Append(Live, b)) = Missing(Live) - 1
    BY <1>1, <1>3, <2>1, MissingAppend, Zenon
  <2>3. Missing(Append(Live, b)) > 0 /\ left' = Missing(Append(Live, b))
    BY <1>1, <1>2, <1>3, <2>1, <2>2
  <2>4. QED
    BY <1>2, <2>3, Zenon DEF Waits
<1>4. CASE ~(left > 1)
  BY <1>2, <1>4 DEF Waits
<1>5. QED
  BY <1>3, <1>4

LEMMA WaitsStep == StreamInv /\ [Next]_vars => StreamInv'
<1> SUFFICES ASSUME StreamInv, [Next]_vars PROVE Waits'
  BY InvStep DEF StreamInv
<1>1. Inv /\ Waits
  BY DEF StreamInv
<1>2. CASE Decoded \/ Invalid
  BY <1>2 DEF Decoded, Invalid, Advance, Waits
<1>3. CASE MoreData
  <2>1. /\ Missing(Live) > 0 /\ left' = Missing(Live) /\ buffer' = buffer
        /\ \/ read = write /\ read' = 0 /\ write' = 0
           \/ read' = read /\ write' = write
    BY <1>3 DEF MoreData
  <2>2. read \in Nat
    BY <1>1 DEF Inv, TypeOK
  <2>3. CASE read = write /\ read' = 0 /\ write' = 0
    <3>1. Live = <<>>
      BY <2>2, <2>3, EmptyLive
    <3>2. 1..0 = {} /\ 0 - 0 = 0
      OBVIOUS
    <3>3. Live' = <<>>
      BY <2>3, <3>2 DEF Live
    <3>4. QED
      BY <2>1, <3>1, <3>3 DEF Waits
  <2>4. CASE read' = read /\ write' = write
    <3>1. Live' = Live
      BY <2>1, <2>4, Zenon DEF Live
    <3>2. QED
      BY <2>1, <3>1, Zenon DEF Waits
  <2>5. QED
    BY <2>1, <2>3, <2>4
<1>4. CASE Arrive
  <2>1. pc = "idle" /\ ProcessByte(Head(wire)) /\ wire # <<>>
    BY <1>4 DEF Arrive
  <2>2. Head(wire) \in Bytes
    BY <1>1, <2>1, HeadTailProperties DEF Inv, TypeOK
  <2>3. QED
    BY <2>1, <2>2, WaitsByte, Zenon
<1>5. ASSUME NEW b \in Bytes, Noise(b) PROVE Waits'
  BY <1>5, WaitsByte, Zenon DEF Noise
<1>6. CASE UNCHANGED <<rx, pc>>
  <2>1. buffer' = buffer /\ read' = read /\ write' = write /\ left' = left /\ pc' = pc
    BY <1>6 DEF rx
  <2>2. Live' = Live
    BY <2>1, Zenon DEF Live
  <2>3. QED
    BY <1>1, <2>1, <2>2, Zenon DEF Waits
<1>7. CASE Lose
  BY <1>6, <1>7 DEF Lose
<1>8. ASSUME NEW d \in Sendable, Send(d) PROVE Waits'
  BY <1>6, <1>8 DEF Send
<1>9. CASE UNCHANGED vars
  BY <1>6, <1>9 DEF vars
<1>10. QED
  BY <1>2, <1>3, <1>4, <1>5, <1>7, <1>8, <1>9 DEF Next

LEMMA StreamInit == Init => StreamInv /\ Stream!Init
<1> SUFFICES ASSUME Init PROVE Waits /\ Stream!Init
  BY InvInit DEF StreamInv
<1>1. read = 0 /\ write = 0 /\ left = 0 /\ frame = NoFrame
  BY DEF Init
<1>2. Live = <<>> /\ Missing(Live) = 1
  BY <1>1, EmptyLive
<1>3. QED
  BY <1>1, <1>2 DEF Waits, Stream!Init

(* Every step is a step or a stutter of FrameStream.                       *)
LEMMA StreamByte ==
  ASSUME StreamInv, pc = "idle", NEW b \in Bytes, ProcessByte(b)
  PROVE  Stream!Next
<1>1. /\ Live \in Seq(Bytes) /\ Missing(Live) > 0 /\ Len(Live) \in Nat
  BY LiveBytes, LenProperties DEF StreamInv, Waits, Inv
<1>2. ~Stream!Frame(Live)
  <2>1. Missing(Live) # 0
    BY <1>1
  <2>2. QED
    BY <1>1, <2>1, FrameGood, Zenon
<1>3. Len(Live) < MaxPayload + 6
  BY <1>1, MissingBound
<1>4. Live' = Append(Live, b) /\ frame' = NoFrame
  BY ByteLive, Zenon DEF StreamInv
<1>5. QED
  BY <1>2, <1>3, <1>4, Zenon DEF Stream!Next, Stream!Receive

LEMMA StreamStep == StreamInv /\ [Next]_vars => [Stream!Next]_(Stream!vars)
<1> SUFFICES ASSUME StreamInv, [Next]_vars PROVE Stream!Next \/ (Live' = Live /\ frame' = frame)
  BY Zenon DEF Stream!vars
<1>1. /\ Inv /\ Live \in Seq(Bytes) /\ Len(Live) = write - read /\ read \in Nat
      /\ Missing(Live) \in Nat
  BY LiveBytes, MissingBound DEF StreamInv, Inv, TypeOK
<1>2. CASE Decoded
  <2>1. /\ Missing(Live) = 0 /\ Good(Live)
        /\ frame' = Payload(Live) /\ Advance(Total(Live))
    BY <1>2 DEF Decoded
  <2>2. Total(Live) \in Nat /\ Total(Live) <= write - read
    BY <1>1, <2>1, MissingBound
  <2>3. Live' = SubSeq(Live, Total(Live) + 1, Len(Live))
    BY <1>1, <2>1, <2>2, AdvanceLive, Zenon
  <2>4. PICK n \in 1..MaxPayload :
          \E h \in Stream!Headers(n) :
            /\ Total(Live) = Len(h) + n + 3 /\ Len(Live) >= Len(h) + n + 3
            /\ Payload(Live) = Stream!Payload(Live, h, n)
            /\ Stream!IsFrame(SubSeq(Live, 1, Len(h) + n + 3), Stream!Payload(Live, h, n))
    BY <1>1, <2>1, GoodFrame, Zenon
  <2>5. Stream!Deliver
    BY <2>1, <2>3, <2>4, Zenon DEF Stream!Deliver
  <2>6. QED
    BY <2>5 DEF Stream!Next
<1>3. CASE Invalid
  <2>1. Missing(Live) = 0 /\ ~Good(Live) /\ frame' = frame /\ Advance(1)
    BY <1>3 DEF Invalid
  <2>2. Live # <<>> /\ ~Stream!Frame(Live) /\ ~Stream!Hopeful(Live)
    BY <1>1, <2>1, NoHope
  <2>3. 1 \in Nat /\ 1 <= write - read /\ 1 + 1 = 2
    BY <1>1, <2>1, MissingBound
  <2>4. Live' = SubSeq(Live, 2, Len(Live))
    BY <1>1, <2>1, <2>3, AdvanceLive, Zenon
  <2>5. Live' = Tail(Live)
    BY <1>1, <2>2, <2>4, TailIsSubSeq
  <2>6. QED
    BY <2>1, <2>2, <2>5, Zenon DEF Stream!Drop, Stream!Next
<1>4. CASE MoreData
  <2>1. /\ buffer' = buffer /\ frame' = frame
        /\ \/ read = write /\ read' = 0 /\ write' = 0
           \/ read' = read /\ write' = write
    BY <1>4 DEF MoreData
  <2>2. CASE read = write /\ read' = 0 /\ write' = 0
    <3>1. Live = <<>>
      BY <1>1, <2>2, EmptyLive
    <3>2. 1..0 = {} /\ 0 - 0 = 0
      OBVIOUS
    <3>3. Live' = <<>>
      BY <2>2, <3>2 DEF Live
    <3>4. QED
      BY <2>1, <3>1, <3>3
  <2>3. CASE read' = read /\ write' = write
    BY <2>1, <2>3, Zenon DEF Live
  <2>4. QED
    BY <2>1, <2>2, <2>3
<1>5. CASE Arrive
  <2>1. pc = "idle" /\ ProcessByte(Head(wire)) /\ wire # <<>>
    BY <1>5 DEF Arrive
  <2>2. Head(wire) \in Bytes
    BY <1>1, <2>1, HeadTailProperties DEF Inv, TypeOK
  <2>3. QED
    BY <2>1, <2>2, StreamByte, Zenon
<1>6. ASSUME NEW b \in Bytes, Noise(b) PROVE Stream!Next
  BY <1>6, StreamByte, Zenon DEF Noise
<1>7. CASE UNCHANGED <<rx, frame>>
  <2>1. buffer' = buffer /\ read' = read /\ write' = write /\ frame' = frame
    BY <1>7 DEF rx
  <2>2. QED
    BY <2>1, Zenon DEF Live
<1>8. CASE Lose
  BY <1>7, <1>8 DEF Lose
<1>9. ASSUME NEW d \in Sendable, Send(d)
      PROVE  Stream!Next \/ (Live' = Live /\ frame' = frame)
  BY <1>7, <1>9 DEF Send
<1>10. CASE UNCHANGED vars
  BY <1>7, <1>10 DEF vars
<1>11. QED
  BY <1>2, <1>3, <1>4, <1>5, <1>6, <1>8, <1>9, <1>10 DEF Next

(* The buffer, its pointers and the count of missing bytes do what         *)
(* FrameStream says, for every checksum, payload length and stream.        *)
THEOREM StreamRefined == Spec => IsStream
<1>1. QED
  BY StreamInit, WaitsStep, StreamStep, PTL DEF Spec, IsStream, Stream!Spec

-----------------------------------------------------------------------------
(* Delivered.  What packet_send_packet puts on the line is a frame, and    *)
(* its beginnings make the receiver wait for no more than its rest.        *)
LEMMA EncodeParts ==
  ASSUME NEW d \in Seq(Bytes), NEW n \in 1..MaxPayload, n = Len(d)
  PROVE  /\ Header(n) \in Stream!Headers(n)
         /\ d \in Seq(Nat) /\ Crc(d) \in Seq(Nat) /\ Len(Crc(d)) = 2
         /\ IsParts(Encode(d), Header(n), d, Crc(d), 3)
         /\ Encode(d) \in Seq(Nat) /\ PartsAt(Encode(d), Header(n), d, Crc(d), 3)
<1>1. Header(n) \in Stream!Headers(n)
  <2>1. CASE n <= MaxShort
    <3>1. \A m \in 1..MaxPayload : m <= MaxShort => m \in 1..255
      OBVIOUS
    <3>2. n \in 1..255
      BY <2>1, <3>1, Zenon
    <3>3. Header(n) = <<2, n>>
      BY <2>1, Zenon DEF Header
    <3>4. QED
      BY <3>2, <3>3, ShortHeader, Zenon
  <2>2. CASE ~(n <= MaxShort)
    <3>1. n \in {k \in {n} : k >= MaxShort}
      BY <2>2
    <3>2. <<3, n \div 256, n % 256>>
            \in {<<3, n \div 256, n % 256>> : m \in {k \in {n} : k >= MaxShort}}
      BY <3>1, Zenon
    <3>3. QED
      BY <2>2, <3>2, Zenon DEF Header, Stream!Headers
  <2>3. QED
    BY <2>1, <2>2
<1>2. d \in Seq(Nat)
  BY BytesNat, Zenon
<1>3. Crc(d) \in Seq(Nat) /\ Len(Crc(d)) = 2
  <2>1. d \in [1..n -> Bytes]
    BY LenProperties
  <2>2. Crc(d) \in Seq(Bytes) /\ Len(Crc(d)) = 2
    BY <2>1, CrcAssumption
  <2>3. QED
    BY <2>2, BytesNat, Zenon
<1>4. IsParts(Encode(d), Header(n), d, Crc(d), 3)
  BY Zenon DEF Encode, IsParts
<1>5. Header(n) \in Seq(Nat) /\ 3 \in Nat
  BY <1>1, HeaderParts
<1>6. Encode(d) \in Seq(Nat) /\ PartsAt(Encode(d), Header(n), d, Crc(d), 3)
  BY <1>2, <1>3, <1>4, <1>5, FourParts, Zenon
<1>7. QED
  BY <1>1, <1>2, <1>3, <1>4, <1>6

LEMMA WholeFrame ==
  ASSUME NEW p \in Seq(Bytes), NEW d \in Seq(Bytes), Len(d) \in 1..MaxPayload, p = Encode(d)
  PROVE  Missing(p) = 0 /\ Good(p) /\ Payload(p) = d /\ Total(p) = Len(p)
<1> DEFINE n == Len(d)
           h == Header(n)
           k == Len(h) + n + 3
<1>1. /\ h \in Stream!Headers(n) /\ n \in 1..MaxPayload
      /\ IsParts(p, h, d, Crc(d), 3) /\ PartsAt(p, h, d, Crc(d), 3)
  BY EncodeParts
<1> HIDE DEF n, h
<1>2. h \in Seq(Nat) /\ Len(h) \in {2, 3} /\ n \in Nat
  BY <1>1, HeaderParts
<1>3. /\ Len(p) = k /\ Len(d) = n
      /\ \A i \in 1..Len(h) : p[i] = h[i]
      /\ \A i \in 1..n : p[Len(h) + i] = d[i]
  BY <1>1, Zenon DEF PartsAt, n
<1>4. k \in Nat /\ Len(p) \in Nat /\ Len(p) >= Len(h) /\ Len(p) >= k /\ k = Len(h) + n + 3
  BY <1>2, <1>3
<1>5. \A i \in 1..Len(p) : p[i] \in Bytes
  BY BytesNat, Zenon
<1> HIDE DEF k
<1>6. SubSeq(p, 1, k) = p
  <2>1. \A i \in 1..k : p[i] \in Bytes
    BY <1>3, <1>5, Zenon
  <2>2. /\ SubSeq(p, 1, k) \in Seq(Bytes)
        /\ Len(SubSeq(p, 1, k)) = IF 1 <= k THEN k - 1 + 1 ELSE 0
        /\ \A i \in 1..k - 1 + 1 : SubSeq(p, 1, k)[i] = p[1 + i - 1]
    BY <1>4, <2>1, SubSeqProperties
  <2> DEFINE q == SubSeq(p, 1, k)
  <2> HIDE DEF q
  <2>3. 1 <= k /\ k - 1 + 1 = k
    BY <1>2, <1>4
  <2>4. q \in Seq(Bytes) /\ Len(q) = k /\ \A i \in 1..k : q[i] = p[1 + i - 1]
    BY <2>2, <2>3, Zenon DEF q
  <2>5. \A i \in 1..k : 1 + i - 1 = i
    BY <1>4
  <2>6. q = p
    <3>1. Len(q) = Len(p)
      BY <1>3, <2>4, Zenon
    <3>2. \A i \in 1..Len(q) : q[i] = p[i]
      BY <2>4, <2>5
    <3>3. QED
      BY <2>4, <3>1, <3>2, SeqEqual, Zenon
  <2>7. QED
    BY <2>6 DEF q
<1>7. Stream!Payload(p, h, n) = d
  <2> DEFINE q == SubSeq(p, Len(h) + 1, Len(h) + n)
  <2>1. \A i \in Len(h) + 1..Len(h) + n : i \in 1..Len(p)
    BY <1>2, <1>3, <1>4
  <2>2. \A i \in Len(h) + 1..Len(h) + n : p[i] \in Bytes
    BY <1>5, <2>1, Zenon
  <2>3. /\ q \in Seq(Bytes)
        /\ Len(q) = IF Len(h) + 1 <= Len(h) + n THEN Len(h) + n - (Len(h) + 1) + 1 ELSE 0
        /\ \A i \in 1..Len(h) + n - (Len(h) + 1) + 1 : q[i] = p[Len(h) + 1 + i - 1]
    BY <1>2, <2>2, SubSeqProperties
  <2> HIDE DEF q
  <2>4. /\ Len(h) + 1 <= Len(h) + n /\ Len(h) + n - (Len(h) + 1) + 1 = n
        /\ \A i \in 1..n : Len(h) + 1 + i - 1 = Len(h) + i
    BY <1>1, <1>2
  <2>5. Len(q) = n /\ \A i \in 1..n : q[i] = p[Len(h) + i]
    BY <2>3, <2>4, Zenon
  <2>6. q = d
    BY <1>3, <2>3, <2>5, SeqEqual, Zenon
  <2>7. QED
    BY <2>6 DEF q, Stream!Payload
<1>8. Stream!IsFrame(p, d)
  BY <1>1, <1>3, Zenon DEF Stream!IsFrame, IsParts
<1>9. Stream!Frame(p)
  BY <1>1, <1>4, <1>6, <1>7, <1>8, Zenon DEF Stream!Frame
<1>10. p[1] = Len(h) /\ Claimed(p) = n /\ Total(p) = Len(h) + n + 3
  BY <1>1, <1>3, <1>4, HeaderRead
<1>11. Payload(p) = d
  BY <1>7, <1>10, Zenon DEF Payload, Stream!Payload
<1>12. Total(p) = Len(p)
  BY <1>3, <1>4, <1>10, Zenon
<1>13. QED
  BY <1>9, <1>11, <1>12, FrameGood, Zenon

LEMMA PartFrame ==
  ASSUME NEW p \in Seq(Bytes), NEW w \in Seq(Bytes), NEW d \in Seq(Bytes),
         Len(d) \in 1..MaxPayload, p \o w = Encode(d), w # <<>>
  PROVE  Missing(p) > 0 /\ Missing(p) <= Len(w)
<1> DEFINE n == Len(d)
           h == Header(n)
           f == Encode(d)
<1>1. h \in Stream!Headers(n) /\ n \in 1..MaxPayload /\ PartsAt(f, h, d, Crc(d), 3)
  BY EncodeParts
<1>2. /\ Len(p) \in Nat /\ Len(w) \in Nat /\ Len(f) = Len(p) + Len(w)
      /\ \A i \in 1..Len(p) : f[i] = p[i]
  <2>1. p \in Seq(Nat) /\ w \in Seq(Nat)
    BY BytesNat, Zenon
  <2>2. /\ Len(p \o w) = Len(p) + Len(w) /\ Len(p) \in Nat /\ Len(w) \in Nat
        /\ \A i \in 1..Len(p) : (p \o w)[i] = p[i]
    <3>1. /\ p \o w \in Seq(Nat) /\ Len(p \o w) = Len(p) + Len(w)
          /\ Len(p) \in Nat /\ Len(w) \in Nat
          /\ \A i \in 1..Len(p) : (p \o w)[i] = p[i]
          /\ \A i \in 1..Len(w) : (p \o w)[Len(p) + i] = w[i]
      BY <2>1, TwoParts, Zenon
    <3>2. QED
      BY <3>1, Zenon
  <2>3. p \o w = f
    BY Zenon
  <2>4. QED
    BY <2>2, <2>3, Zenon
<1>3. Len(w) >= 1
  BY <1>2
<1> HIDE DEF n, h, f
<1>4. h \in Seq(Nat) /\ Len(h) \in {2, 3} /\ h[1] = Len(h) /\ n \in Nat
  BY <1>1, HeaderParts
<1>5. Len(f) = Len(h) + n + 3 /\ \A i \in 1..Len(h) : f[i] = h[i]
  BY <1>1, Zenon DEF PartsAt, n
<1>6. CASE Len(p) = 0
  <2>1. p = <<>>
    BY <1>6
  <2>2. Missing(p) = 1
    BY <2>1, Zenon DEF Missing
  <2>3. QED
    BY <1>2, <1>3, <2>2
<1>7. CASE Len(p) >= 1 /\ Len(p) < Len(h)
  <2>1. 1 \in 1..Len(p) /\ 1 \in 1..Len(h)
    BY <1>2, <1>4, <1>7
  <2>2. p[1] = Len(h)
    BY <1>2, <1>4, <1>5, <2>1, Zenon
  <2>3. p # <<>>
    BY <1>7
  <2>4. Missing(p) = Len(h) - Len(p)
    BY <1>4, <1>7, <2>2, <2>3, Zenon DEF Missing
  <2>5. QED
    BY <1>2, <1>4, <1>5, <1>7, <2>4
<1>8. CASE Len(p) >= Len(h)
  <2>1. \A i \in 1..Len(h) : i \in 1..Len(p)
    BY <1>2, <1>4, <1>8
  <2>2. \A i \in 1..Len(h) : p[i] = h[i]
    BY <1>2, <1>5, <2>1, Zenon
  <2>3. p[1] = Len(h) /\ ValidLength(p) /\ Total(p) = Len(h) + n + 3
    BY <1>1, <1>8, <2>2, HeaderRead, Zenon
  <2>4. p # <<>> /\ ~(Len(p) < Len(h))
    BY <1>2, <1>4, <1>8
  <2>5. Total(p) - Len(p) = Len(w) /\ Len(p) < Total(p)
    <3>1. Total(p) = Len(p) + Len(w)
      BY <1>2, <1>5, <2>3, Zenon
    <3>2. ASSUME NEW t, NEW a \in Nat, NEW b \in Nat, b >= 1, t = a + b
          PROVE  t - a = b /\ a < t
      BY <3>2
    <3>3. QED
      BY <1>2, <1>3, <3>1, <3>2, Zenon
  <2>6. Missing(p) = Len(w)
    BY <1>4, <2>3, <2>4, <2>5, Zenon DEF Missing
  <2>7. QED
    BY <1>2, <1>3, <2>6
<1>9. QED
  BY <1>2, <1>4, <1>6, <1>7, <1>8

(* A clean frame has been delivered and taken off the buffer, or what has  *)
(* come of it and what has not are the frame.                              *)
Underway ==
  /\ sent \in Sendable /\ Len(sent) \in 1..MaxPayload
  /\ Live \o wire = Encode(sent)
  /\ pc = "idle" => wire # <<>>

CleanInv == clean => (wire = <<>> /\ read = write /\ frame = sent) \/ Underway

DeliveredInv == StreamInv /\ CleanInv

LEMMA UnderwayMissing ==
  ASSUME Inv, Underway
  PROVE  /\ wire # <<>> => Missing(Live) > 0 /\ Missing(Live) <= Len(wire)
         /\ wire = <<>> => /\ Missing(Live) = 0 /\ Good(Live)
                          /\ Payload(Live) = sent /\ Total(Live) = write - read
<1>1. Live \in Seq(Bytes) /\ Len(Live) = write - read /\ wire \in Seq(Bytes)
  BY LiveBytes DEF Inv, TypeOK
<1>2. sent \in Seq(Bytes) /\ Len(sent) \in 1..MaxPayload /\ Live \o wire = Encode(sent)
  BY SendableAssumption, Zenon DEF Underway
<1>3. CASE wire # <<>>
  BY <1>1, <1>2, <1>3, PartFrame, Zenon
<1>4. CASE wire = <<>>
  <2>1. Live = Encode(sent)
    <3>1. Live \o <<>> = Live
      BY <1>1, ConcatEmptySeq, Zenon
    <3>2. QED
      BY <1>2, <1>4, <3>1, Zenon
  <2>2. QED
    BY <1>1, <1>2, <1>4, <2>1, WholeFrame, Zenon
<1>5. QED
  BY <1>3, <1>4, Zenon

LEMMA OneMore ==
  ASSUME NEW p \in Seq(Bytes), NEW w \in Seq(Bytes), w # <<>>
  PROVE  /\ Append(p, Head(w)) \o Tail(w) = p \o w
         /\ Tail(w) = <<>> => Len(w) = 1
<1>1. Head(w) \in Bytes /\ Tail(w) \in Seq(Bytes) /\ Len(Tail(w)) = Len(w) - 1
  BY HeadTailProperties
<1>2. <<Head(w)>> \in Seq(Bytes) /\ w = <<Head(w)>> \o Tail(w)
  BY <1>1
<1>3. Append(p, Head(w)) = p \o <<Head(w)>>
  BY <1>1, AppendIsConcat
<1>4. (p \o <<Head(w)>>) \o Tail(w) = p \o (<<Head(w)>> \o Tail(w))
  <2> DEFINE c == <<Head(w)>>
  <2>1. c \in Seq(Bytes)
    BY <1>2
  <2> HIDE DEF c
  <2>2. (p \o c) \o Tail(w) = p \o (c \o Tail(w))
    BY <1>1, <2>1, ConcatAssociative, SMTT(40)
  <2>3. QED
    BY <2>2 DEF c
<1>5. Len(w) \in Nat
  BY LenProperties
<1>6. Tail(w) = <<>> => Len(w) = 1
  <2>1. Len(<<>>) = 0
    OBVIOUS
  <2>2. Tail(w) = <<>> => Len(w) - 1 = 0
    BY <1>1, <2>1, Zenon
  <2>3. QED
    BY <1>5, <2>2
<1>7. QED
  BY <1>2, <1>3, <1>4, <1>6, Zenon

LEMMA CleanStep == DeliveredInv /\ [Next]_vars => DeliveredInv'
<1> SUFFICES ASSUME DeliveredInv, [Next]_vars PROVE CleanInv'
  BY WaitsStep DEF DeliveredInv
<1>1. /\ Inv /\ Waits /\ CleanInv /\ StreamInv
      /\ Live \in Seq(Bytes) /\ Len(Live) = write - read /\ wire \in Seq(Bytes)
      /\ read \in Nat /\ write \in Nat /\ left \in Nat
  BY LiveBytes DEF DeliveredInv, StreamInv, Inv, TypeOK
<1>2. ASSUME clean, Missing(Live) = 0
      PROVE  Underway /\ wire = <<>>
  <2>1. ~(read = write)
    BY <1>1, <1>2, EmptyLive
  <2>2. Underway
    BY <1>1, <1>2, <2>1, Zenon DEF CleanInv
  <2>3. Missing(Live) > 0 => Missing(Live) # 0
    OBVIOUS
  <2>4. QED
    BY <1>1, <1>2, <2>2, <2>3, UnderwayMissing, Zenon
<1>3. CASE Decoded
  <2>1. SUFFICES ASSUME clean' PROVE wire' = <<>> /\ read' = write' /\ frame' = sent'
    BY Zenon DEF CleanInv
  <2>2. /\ Missing(Live) = 0 /\ frame' = Payload(Live)
        /\ read' = read + Total(Live) /\ write' = write
        /\ wire' = wire /\ sent' = sent /\ clean' = clean
    BY <1>3 DEF Decoded, Advance, line
  <2>3. wire = <<>> /\ Payload(Live) = sent /\ Total(Live) = write - read
    BY <1>1, <1>2, <2>1, <2>2, UnderwayMissing, Zenon
  <2>4. read' = write'
    BY <1>1, <2>2, <2>3
  <2>5. QED
    BY <2>2, <2>3, <2>4, Zenon
<1>4. CASE Invalid
  <2>1. Missing(Live) = 0 /\ ~Good(Live) /\ clean' = clean
    BY <1>4 DEF Invalid, Advance, line
  <2>2. ~clean
    BY <1>1, <1>2, <2>1, UnderwayMissing, Zenon
  <2>3. QED
    BY <2>1, <2>2, Zenon DEF CleanInv
<1>5. CASE MoreData
  <2>1. /\ Missing(Live) > 0 /\ buffer' = buffer /\ frame' = frame /\ pc' = "idle"
        /\ wire' = wire /\ sent' = sent /\ clean' = clean
        /\ \/ read = write /\ read' = 0 /\ write' = 0
           \/ read' = read /\ write' = write
    BY <1>5 DEF MoreData, line
  <2>2. read = write => read' = write'
    BY <2>1
  <2>3. Live' = Live
    <3>1. CASE read = write /\ read' = 0 /\ write' = 0
      <4>1. Live = <<>>
        BY <1>1, <3>1, EmptyLive
      <4>2. 1..0 = {} /\ 0 - 0 = 0
        OBVIOUS
      <4>3. Live' = <<>>
        BY <3>1, <4>2 DEF Live
      <4>4. QED
        BY <4>1, <4>3
    <3>2. CASE read' = read /\ write' = write
      BY <2>1, <3>2, Zenon DEF Live
    <3>3. QED
      BY <2>1, <3>1, <3>2
  <2>4. Missing(Live) # 0
    BY <2>1
  <2>5. Underway => wire # <<>>
    BY <1>1, <2>4, UnderwayMissing, Zenon
  <2>6. Underway => Underway'
    BY <2>1, <2>3, <2>5, Zenon DEF Underway
  <2>7. QED
    BY <1>1, <2>1, <2>2, <2>6, Zenon DEF CleanInv
<1>6. CASE Arrive
  <2>1. /\ pc = "idle" /\ ProcessByte(Head(wire)) /\ wire # <<>>
        /\ wire' = Tail(wire) /\ sent' = sent /\ clean' = clean
    BY <1>6 DEF Arrive
  <2>2. SUFFICES ASSUME clean PROVE Underway'
    BY <2>1, Zenon DEF CleanInv
  <2>3. Underway
    BY <1>1, <2>1, <2>2, Zenon DEF CleanInv
  <2>4. Head(wire) \in Bytes
    BY <1>1, <2>1, HeadTailProperties
  <2>5. Live' = Append(Live, Head(wire)) /\ pc' = IF left > 1 THEN "idle" ELSE "decode"
    BY <1>1, <2>1, <2>4, ByteLive, Zenon
  <2>6. Live' \o wire' = Encode(sent')
    <3>1. Append(Live, Head(wire)) \o Tail(wire) = Live \o wire
      BY <1>1, <2>1, OneMore, Zenon
    <3>2. QED
      BY <2>1, <2>3, <2>5, <3>1, Zenon DEF Underway
  <2>7. ASSUME wire' = <<>> PROVE pc' = "decode"
    <3>1. Len(wire) = 1
      BY <1>1, <2>1, <2>7, OneMore, Zenon
    <3>2. Missing(Live) > 0 /\ Missing(Live) <= Len(wire)
      BY <1>1, <2>1, <2>3, UnderwayMissing, Zenon
    <3>3. left = Missing(Live) \/ left = 0
      BY <1>1, <2>1, Zenon DEF Waits
    <3>4. ~(left > 1)
      BY <1>1, <3>1, <3>2, <3>3
    <3>5. QED
      BY <2>5, <3>4, Zenon
  <2>8. pc' = "idle" => wire' # <<>>
    BY <2>7
  <2>9. QED
    BY <2>1, <2>3, <2>6, <2>8, Zenon DEF Underway
<1>7. CASE Lose \/ \E b \in Bytes : Noise(b)
  BY <1>7, Zenon DEF Lose, Noise, CleanInv
<1>8. ASSUME NEW d \in Sendable, Send(d) PROVE CleanInv'
  <2>1. /\ Len(d) # 0 /\ Len(d) <= MaxPayload
        /\ wire' = Encode(d) /\ sent' = d /\ clean' = (read = write)
        /\ buffer' = buffer /\ read' = read /\ write' = write
    BY <1>8, Zenon DEF Send, rx
  <2>2. SUFFICES ASSUME clean' PROVE Underway'
    BY Zenon DEF CleanInv
  <2>3. read = write
    BY <2>1, <2>2
  <2>4. d \in Seq(Bytes) /\ wire' \in Seq(Bytes)
    BY <2>1, SendableAssumption, Zenon
  <2>5. Len(d) \in 1..MaxPayload
    BY <2>1, <2>4, LenProperties
  <2>6. Live' = <<>>
    <3>1. Live = <<>>
      BY <1>1, <2>3, EmptyLive
    <3>2. Live' = Live
      BY <2>1, Zenon DEF Live
    <3>3. QED
      BY <3>1, <3>2
  <2>7. Live' \o wire' = Encode(sent')
    <3>1. <<>> \o wire' = wire'
      BY <2>4, ConcatEmptySeq, Zenon
    <3>2. QED
      BY <2>1, <2>6, <3>1, Zenon
  <2>8. wire' # <<>>
    <3>1. /\ PartsAt(Encode(d), Header(Len(d)), d, Crc(d), 3)
          /\ Header(Len(d)) \in Stream!Headers(Len(d))
      BY <2>4, <2>5, EncodeParts
    <3>2. Len(Encode(d)) = Len(Header(Len(d))) + Len(d) + 3
      BY <3>1, Zenon DEF PartsAt
    <3>3. Len(Header(Len(d))) \in {2, 3}
      BY <2>5, <3>1, HeaderParts
    <3>4. Len(wire') # 0
      BY <2>1, <2>5, <3>2, <3>3
    <3>5. QED
      BY <3>4
  <2>9. QED
    BY <2>1, <2>5, <2>7, <2>8, Zenon DEF Underway
<1>9. CASE UNCHANGED vars
  <2>1. /\ buffer' = buffer /\ read' = read /\ write' = write /\ pc' = pc /\ frame' = frame
        /\ wire' = wire /\ sent' = sent /\ clean' = clean
    BY <1>9 DEF vars, rx, line
  <2>2. Live' = Live
    BY <2>1, Zenon DEF Live
  <2>3. QED
    BY <1>1, <2>1, <2>2, Zenon DEF CleanInv, Underway
<1>10. QED
  BY <1>3, <1>4, <1>5, <1>6, <1>7, <1>8, <1>9 DEF Next

(* A frame that comes whole and finds the buffer empty is handed to        *)
(* process_func, for every payload, checksum and past of the buffer.       *)
THEOREM DeliveredHolds == Spec => []Delivered
<1>1. Init => DeliveredInv
  <2>1. Init => clean = FALSE
    BY Zenon DEF Init
  <2>2. QED
    BY <2>1, StreamInit, Zenon DEF DeliveredInv, CleanInv
<1>2. DeliveredInv => Delivered
  BY Zenon DEF DeliveredInv, CleanInv, Underway, Delivered
<1>3. QED
  BY <1>1, <1>2, CleanStep, PTL DEF Spec
=============================================================================

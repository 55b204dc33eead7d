---------------------------- MODULE FrameStream ----------------------------
(***************************************************************************)
(* What the receiving side of the packet layer promises for any stream of  *)
(* bytes: a frame at the front of the stream is delivered, a byte is only  *)
(* dropped when no frame can begin with it, and the receiver never holds   *)
(* more bytes than a frame has.                                            *)
(***************************************************************************)
EXTENDS Integers, Sequences, SequencesExt

CONSTANTS
  Bytes,       (* the bytes that occur in streams                          *)
  MaxPayload,  (* PACKET_MAX_PL_LEN                                        *)
  MaxShort,    (* 255, the longest payload with a one byte length          *)
  Crc(_),      (* crc16 of a payload: its two bytes                        *)
  NoFrame

VARIABLES
  pending,     \* bytes received and not decided yet
  frame        \* payload delivered last

vars == <<pending, frame>>

(* Frames with a payload of n bytes may have a short or a long header.     *)
Headers(n) ==
  {<<2, n>> : m \in {k \in {n} : k <= 255}}
    \cup {<<3, n \div 256, n % 256>> : m \in {k \in {n} : k >= MaxShort}}

(* f is a frame with payload d.                                            *)
IsFrame(f, d) ==
  /\ Len(d) \in 1..MaxPayload
  /\ \E h \in Headers(Len(d)) : f = h \o d \o Crc(d) \o <<3>>

Payload(p, h, n) == SubSeq(p, Len(h) + 1, Len(h) + n)
Frame(p) ==
  \E n \in 1..MaxPayload : \E h \in Headers(n) :
    /\ Len(p) >= Len(h) + n + 3
    /\ IsFrame(SubSeq(p, 1, Len(h) + n + 3), Payload(p, h, n))

(* Some frame has p as its beginning, as far as the header tells.          *)
Hopeful(p) ==
  \E n \in 1..MaxPayload : \E h \in Headers(n) :
    /\ IsPrefix(p, h) \/ IsPrefix(h, p)
    /\ Len(p) < Len(h) + n + 3

Init == pending = <<>> /\ frame = NoFrame

Receive(b) ==
  /\ ~Frame(pending)
  /\ Len(pending) < MaxPayload + 6
  /\ pending' = Append(pending, b)
  /\ frame' = NoFrame

Deliver ==
  \E n \in 1..MaxPayload : \E h \in Headers(n) :
    LET k == Len(h) + n + 3
    IN /\ Len(pending) >= k
       /\ frame' = Payload(pending, h, n)
       /\ IsFrame(SubSeq(pending, 1, k), frame')
       /\ pending' = SubSeq(pending, k + 1, Len(pending))

Drop ==
  /\ pending # <<>> /\ ~Frame(pending) /\ ~Hopeful(pending)
  /\ pending' = Tail(pending)
  /\ UNCHANGED frame

Next == (\E b \in Bytes : Receive(b)) \/ Deliver \/ Drop

Spec == Init /\ [][Next]_vars
=============================================================================

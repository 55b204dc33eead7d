------------------------------- MODULE Packet -------------------------------
(***************************************************************************)
(* The packet layer (packet.c) of one link: packet_send_packet at one end, *)
(* a line that can insert, lose and change bytes, and at the other end     *)
(* packet_process_byte with its receive buffer.  One pass through the loop *)
(* around try_decode_packet is a step.                                     *)
(***************************************************************************)
EXTENDS Integers, Sequences

CONSTANTS
  Bytes,       (* the bytes that occur on the line                         *)
  MaxPayload,  (* PACKET_MAX_PL_LEN                                        *)
  MaxShort,    (* 255, the longest payload with a one byte length          *)
  Crc(_),      (* crc16 of a payload: its two bytes                        *)
  Sendable,    (* payloads handed to packet_send_packet                    *)
  NoFrame

BufferLen == MaxPayload + 8

ASSUME PacketAssumption ==
  /\ Bytes \subseteq 0..255 /\ 0 \in Bytes
  /\ MaxPayload \in Nat /\ MaxShort \in Nat \ {0}
  /\ MaxShort <= 255 /\ MaxShort <= MaxPayload

VARIABLES
  buffer,     \* rx_buffer; what lies outside read..write-1 is never looked at and kept 0
  read,       \* rx_read_ptr
  write,      \* rx_write_ptr
  left,       \* bytes_left
  pc,         \* "idle", or inside the decoding loop
  frame,      \* payload process_func was called with since the last byte came
  wire,       \* bytes of the frame being sent that have not arrived
  sent,       \* its payload
  clean       \* it began on an empty buffer and nothing has happened to it

rx == <<buffer, read, write, left>>
line == <<wire, sent, clean>>
vars == <<rx, pc, frame, line>>

Indices == 0..BufferLen - 1

(* packet_send_packet.                                                     *)
Header(n) == IF n <= MaxShort THEN <<2, n>> ELSE <<3, n \div 256, n % 256>>
Encode(d) == Header(Len(d)) \o d \o Crc(d) \o <<3>>

ASSUME SendableAssumption ==
  \A d \in Sendable :
    /\ d \in Seq(Bytes)
    /\ Len(d) # 0 /\ Len(d) <= MaxPayload => Encode(d) \in Seq(Bytes)

ASSUME CrcAssumption ==
  \A n \in 1..MaxPayload : \A d \in [1..n -> Bytes] : Crc(d) \in Seq(Bytes) /\ Len(Crc(d)) = 2

Init ==
  /\ buffer = [i \in Indices |-> 0]
  /\ read = 0 /\ write = 0 /\ left = 0
  /\ pc = "idle" /\ frame = NoFrame
  /\ wire = <<>> /\ sent = NoFrame /\ clean = FALSE

-----------------------------------------------------------------------------
(* packet_process_byte up to the decoding loop.                            *)

Keep(buf, from, to) == [i \in Indices |-> IF i \in from..to - 1 THEN buf[i] ELSE 0]
Shifted == [i \in Indices |-> IF i + read \in Indices THEN buffer[i + read] ELSE 0]

Store(buf, from, b) ==
  LET n == write - read
  IN /\ buffer' = Keep([buf EXCEPT ![from + n] = b], from, from + n + 1)
     /\ read' = from /\ write' = from + n + 1
     /\ left' = IF left > 1 THEN left - 1 ELSE left
     /\ pc' = IF left > 1 THEN "idle" ELSE "decode"

OutOfSpace == write - read >= BufferLen

ProcessByteNoShift(b) ==   \* mutant: a full buffer is emptied, not shifted
  /\ IF write >= BufferLen
     THEN /\ buffer' = [i \in Indices |-> IF i = 0 THEN b ELSE 0]
          /\ read' = 0 /\ write' = 1 /\ left' = 0 /\ pc' = "idle"
     ELSE Store(buffer, read, b)
  /\ frame' = NoFrame

ProcessByteNoAlign(b) ==   \* mutant: the buffer is never shifted
  /\ Store(buffer, read, b)
  /\ frame' = NoFrame

ProcessByte(b) ==
  /\ IF OutOfSpace
     THEN /\ buffer' = [i \in Indices |-> IF i = 0 THEN b ELSE 0]
          /\ read' = 0 /\ write' = 1 /\ left' = 0 /\ pc' = "idle"
     ELSE IF write >= BufferLen THEN Store(Shifted, 0, b)
     ELSE Store(buffer, read, b)
  /\ frame' = NoFrame

-----------------------------------------------------------------------------
(* try_decode_packet on the bytes between the pointers.                    *)

Live == [i \in 1..write - read |-> buffer[read + i - 1]]

Claimed(p) == IF p[1] = 2 THEN p[2] ELSE 256 * p[2] + p[3]
Total(p) == Claimed(p) + p[1] + 3

AnyLength(p) ==   \* mutant: too long packets are waited for
  Claimed(p) >= IF p[1] = 2 THEN 1 ELSE MaxShort

ValidLength(p) ==
  /\ Claimed(p) >= IF p[1] = 2 THEN 1 ELSE MaxShort
  /\ Claimed(p) <= MaxPayload

(* The bytes missing to tell more; 0 when the verdict is there.            *)
Missing(p) ==
  IF p = <<>> THEN 1
  ELSE IF p[1] \notin {2, 3} THEN 0
  ELSE IF Len(p) < p[1] THEN p[1] - Len(p)
  ELSE IF ValidLength(p) /\ Len(p) < Total(p) THEN Total(p) - Len(p)
  ELSE 0

Payload(p) == SubSeq(p, p[1] + 1, p[1] + Claimed(p))

Good(p) ==
  /\ p[1] \in {2, 3} /\ ValidLength(p)
  /\ p[Total(p)] = 3
  /\ SubSeq(p, Total(p) - 2, Total(p) - 1) = Crc(Payload(p))

Advance(n) ==
  /\ read' = read + n
  /\ buffer' = Keep(buffer, read + n, write)
  /\ left' = 0
  /\ UNCHANGED <<write, pc, line>>

Decoded ==
  /\ pc = "decode" /\ Missing(Live) = 0 /\ Good(Live)
  /\ frame' = Payload(Live)
  /\ Advance(Total(Live))

Invalid ==
  /\ pc = "decode" /\ Missing(Live) = 0 /\ ~Good(Live)
  /\ Advance(1)
  /\ UNCHANGED frame

MoreDataMissing ==   \* mutant: one byte too many is waited for
  /\ pc = "decode" /\ Missing(Live) > 0
  /\ left' = Missing(Live) + 1
  /\ pc' = "idle"
  /\ IF read = write THEN read' = 0 /\ write' = 0 ELSE UNCHANGED <<read, write>>
  /\ UNCHANGED <<buffer, frame, line>>

(* An empty buffer starts at the beginning again.                          *)
MoreData ==
  /\ pc = "decode" /\ Missing(Live) > 0
  /\ left' = Missing(Live)
  /\ pc' = "idle"
  /\ IF read = write THEN read' = 0 /\ write' = 0 ELSE UNCHANGED <<read, write>>
  /\ UNCHANGED <<buffer, frame, line>>

-----------------------------------------------------------------------------
(* The sender and the line.  A payload of a length the sender does not take*)
(* is not sent at all.                                                     *)

Send(d) ==
  /\ pc = "idle" /\ wire = <<>>
  /\ Len(d) # 0 /\ Len(d) <= MaxPayload
  /\ wire' = Encode(d) /\ sent' = d
  /\ clean' = (read = write)
  /\ UNCHANGED <<rx, pc, frame>>

Arrive ==
  /\ pc = "idle" /\ wire # <<>>
  /\ ProcessByte(Head(wire))
  /\ wire' = Tail(wire)
  /\ UNCHANGED <<sent, clean>>

(* A byte of a frame is lost.  Bytes that belong to no frame come in any   *)
(* number and order, so that noise alone makes every possible stream.      *)
Lose ==
  /\ pc = "idle" /\ wire # <<>>
  /\ wire' = Tail(wire) /\ clean' = FALSE
  /\ UNCHANGED <<rx, pc, frame, sent>>

Noise(b) ==
  /\ pc = "idle" /\ wire = <<>>
  /\ ProcessByte(b)
  /\ clean' = FALSE
  /\ UNCHANGED <<wire, sent>>

Next ==
  \/ Decoded \/ Invalid \/ MoreData
  \/ Arrive \/ Lose
  \/ \E d \in Sendable : Send(d)
  \/ \E b \in Bytes : Noise(b)

Spec == Init /\ [][Next]_vars

-----------------------------------------------------------------------------
(* Type invariant. *)
TypeOK ==
  /\ buffer \in [Indices -> Bytes]
  /\ read \in 0..BufferLen /\ write \in 0..BufferLen /\ read <= write
  /\ left \in 0..MaxPayload + 6
  /\ pc \in {"idle", "decode"}
  /\ wire \in Seq(Bytes) /\ clean \in BOOLEAN

(* packet.c:78: "Out of space (should not happen)".                        *)
HasSpace == pc = "idle" => ~OutOfSpace

(* A frame that arrives whole on an empty buffer is delivered with its last*)
(* byte, whatever the buffer went through before.                          *)
Delivered == clean /\ wire = <<>> /\ pc = "idle" => frame = sent

(* Pointers, shifts and the count of missing bytes are only a way to do    *)
(* what FrameStream says: no frame is missed, invented or cut, after any   *)
(* noise.                                                                  *)
Stream == INSTANCE FrameStream WITH pending <- Live
IsStream == Stream!Spec
=============================================================================

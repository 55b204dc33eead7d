---------------------------- MODULE CanLinkProofs ----------------------------
(***************************************************************************)
(* Proofs about CanLink for any senders, any buffers, any size of the ring *)
(* and any number of frames that get lost.                                 *)
(***************************************************************************)
EXTENDS CanLink, TLAPS

-----------------------------------------------------------------------------
(* The ring: what is unread are the last frames that arrived, and what is  *)
(* fetched lies between what has been decoded and those.  The slot that is *)
(* being copied is the one before the oldest unread one, so that only a    *)
(* frame that fills up the ring gets into it.                              *)
Ring ==
  /\ done <= arrived - Backlog
  /\ \A k \in 0..Backlog - 1 : frames[OldestFirst(k)].num = arrived - Backlog + k + 1
  /\ pc \in {"copy", "rest"} =>
       /\ read = Succ(slot)
       /\ done < frames[slot].num /\ frames[slot].num <= arrived - Backlog
  /\ pc = "decode" => done < rxmsg.num /\ rxmsg.num <= arrived - Backlog
  /\ ~overrun => Fetched = arrived - Backlog

(* Only a ring that has been filled up lets a copy be torn.                *)
Undisturbed ==
  /\ torn => overrun /\ pc = "decode"
  /\ ~overrun /\ pc = "rest" => head = frames[slot]

(* The messages: their numbers tell them apart, and so do those of their   *)
(* last frames; a message whose last frame is in the ring is no longer     *)
(* being sent and has not been delivered unless that frame was decoded.    *)
Entries == {frames[i] : i \in Slots} \cup {rxmsg}
Frame(e) == e \in Entries /\ e.num > 0
Final(e) == Frame(e) /\ e.frame.cmd # "fill"
SendingNow(s) == s \in Senders /\ sending[s] # NoFrame

Numbered ==
  /\ \A m \in submitted : m.num <= sends
  /\ \A m, o \in submitted : m.num = o.num => m = o
  /\ \A s : SendingNow(s) => sending[s] \in submitted
  /\ \A s, t : SendingNow(s) /\ SendingNow(t) /\ sending[s].num = sending[t].num => s = t

LastFrames ==
  /\ \A e : Frame(e) => e.frame.msg \in submitted
  /\ \A e, s : Final(e) /\ SendingNow(s) => sending[s].num # e.frame.msg.num
  /\ \A e, f : Final(e) /\ Final(f) /\ e.frame.msg.num = f.frame.msg.num => e.num = f.num

Deliverable == [num : Nat, id : Nat, content : {Content(m) : m \in Messages} \cup {NoFrame}]

Delivered ==
  /\ delivered \in Seq(Deliverable)
  /\ \A k \in 1..Len(delivered) : delivered[k].num <= sends
  /\ \A e, k : Final(e) /\ k \in 1..Len(delivered) /\ delivered[k].num = e.frame.msg.num =>
       e.num <= done
  /\ \A s, k : SendingNow(s) /\ k \in 1..Len(delivered) => delivered[k].num # sending[s].num

IInv == TypeOK /\ Ring /\ Undisturbed /\ Numbered /\ LastFrames /\ Delivered

Decode == DecodeOther \/ DecodeFill \/ DecodeProcess \/ DecodeShort \/ DecodeTorn

-----------------------------------------------------------------------------
(* Nothing has been sent.                                                  *)
LEMMA InitInvariant == Init => IInv
<1> SUFFICES ASSUME Init PROVE IInv
  OBVIOUS
<1> USE CanAssumption DEF Init
<1>1. TypeOK
  <2>1. /\ sending \in [Senders -> Messages \cup {NoFrame}]
        /\ offset \in [Senders -> Nat] /\ clean \in [Senders -> BOOLEAN]
    OBVIOUS
  <2>2. Empty \in Entry
    BY DEF Entry, Empty
  <2>3. frames \in [Slots -> Entry] /\ head \in Entry /\ rxmsg \in Entry /\ 0 \in Slots
    BY <2>2 DEF Slots
  <2>4. buffer \in [0..RX_BUFFER_SIZE - 1 -> (Nat \X Nat) \cup {NoFrame}]
    OBVIOUS
  <2>5. submitted \subseteq Messages /\ sends \in 0..MaxSends
    OBVIOUS
  <2>6. QED
    BY <2>1, <2>3, <2>4, <2>5 DEF TypeOK
<1>2. Ring /\ Undisturbed
  BY DEF Ring, Backlog, Fetched, Undisturbed
<1>3. Numbered
  BY DEF Numbered, SendingNow
<1>4. LastFrames
  BY DEF LastFrames, Entries, Frame, Final, Empty
<1>5. Delivered
  BY DEF Delivered, SendingNow
<1>6. QED
  BY <1>1, <1>2, <1>3, <1>4, <1>5 DEF IInv

(* The ends of the ring and what is between them.                          *)
LEMMA BacklogType ==
  ASSUME TypeOK
  PROVE  /\ Backlog \in 0..RX_FRAMES_SIZE - 1 /\ (read = write <=> Backlog = 0)
         /\ Succ(read) \in Slots /\ Succ(write) \in Slots /\ Succ(slot) \in Slots
         /\ \A k \in 0..RX_FRAMES_SIZE - 1 : OldestFirst(k) \in Slots
         /\ OldestFirst(Backlog) = write /\ OldestFirst(0) = read
BY CanAssumption DEF TypeOK, Slots, Backlog, Succ, OldestFirst

(* A frame comes in: the ring has room, or looks empty from now on.        *)
LEMMA ArriveRing ==
  ASSUME TypeOK, Ring, NEW f, Arrive(f),
         UNCHANGED <<pc, slot, rxmsg, done>>
  PROVE  Ring'
<1> DEFINE B == Backlog
<1> USE CanAssumption
<1>1. /\ read \in Slots /\ write \in Slots /\ slot \in Slots /\ arrived \in Nat /\ done \in Nat
      /\ frames \in [Slots -> Entry] /\ read' = read /\ write' = Succ(write)
      /\ arrived' = arrived + 1
      /\ frames'[write].num = arrived + 1
      /\ \A i \in Slots \ {write} : frames'[i] = frames[i]
      /\ overrun' = (overrun \/ Succ(write) = read)
  BY DEF TypeOK, Arrive
<1>2. /\ B \in 0..RX_FRAMES_SIZE - 1
      /\ pc' = pc /\ slot' = slot /\ rxmsg' = rxmsg /\ done' = done
      /\ rxmsg.num \in Nat /\ \A i \in Slots : frames[i].num \in Nat
  BY BacklogType DEF TypeOK, Entry
<1>3. IF Succ(write) = read THEN Backlog' = 0 /\ B = RX_FRAMES_SIZE - 1
      ELSE Backlog' = B + 1 /\ B < RX_FRAMES_SIZE - 1
  <2>1. /\ read \in 0..RX_FRAMES_SIZE - 1 /\ write \in 0..RX_FRAMES_SIZE - 1
        /\ read' = read /\ write' = Succ(write) /\ RX_FRAMES_SIZE \in Nat /\ RX_FRAMES_SIZE > 1
    BY <1>1 DEF Slots
  <2> HIDE <1>1
  <2>2. CASE write + 1 = RX_FRAMES_SIZE
    BY <2>1, <2>2 DEF Succ, Backlog
  <2>3. CASE write + 1 # RX_FRAMES_SIZE
    BY <2>1, <2>3 DEF Succ, Backlog
  <2>4. QED
    BY <2>2, <2>3
<1>4. arrived - B <= (arrived - Backlog)'
  BY <1>1, <1>2, <1>3
<1>5. ASSUME NEW k \in 0..Backlog' - 1
      PROVE  frames'[OldestFirst(k)'].num = (arrived - Backlog)' + k + 1
  <2>1. Backlog' = B + 1 /\ (arrived - Backlog)' = arrived - B /\ B < RX_FRAMES_SIZE - 1
    BY <1>1, <1>2, <1>3
  <2>2. OldestFirst(k)' = OldestFirst(k)
    BY <1>1 DEF OldestFirst
  <2>3. CASE k = B
    BY <1>1, <1>2, <2>1, <2>2, <2>3, BacklogType
  <2>4. CASE k \in 0..B - 1
    <3>1. OldestFirst(k) \in Slots /\ OldestFirst(k) # write
      BY <1>1, <1>2, <2>1, <2>4 DEF OldestFirst, Backlog, Slots
    <3>2. QED
      BY <1>1, <2>1, <2>2, <2>4, <3>1 DEF Ring
  <2>5. QED
    BY <1>2, <2>1, <2>3, <2>4
<1>6. pc \in {"copy", "rest"} /\ slot = write => Succ(write) = read
  BY DEF Ring
<1>7. pc' \in {"copy", "rest"} => /\ read' = Succ(slot')
                      /\ done' < frames'[slot'].num
                      /\ frames'[slot'].num <= (arrived - Backlog)'
  <2>1. CASE slot = write
    BY <1>1, <1>2, <1>3, <1>6, <2>1 DEF Ring, Succ
  <2>2. CASE slot # write
    <3>1. SUFFICES ASSUME pc \in {"copy", "rest"}
                   PROVE  /\ read = Succ(slot) /\ done < frames[slot].num
                          /\ frames[slot].num <= (arrived - Backlog)'
      BY <1>1, <1>2, <2>2 DEF Succ
    <3>2. frames[slot].num <= arrived - B /\ frames[slot].num \in Nat
      BY <1>1, <1>2, <3>1 DEF Ring
    <3>3. (arrived - Backlog)' \in Int /\ arrived - B \in Int
      BY <1>1, <1>2, <1>3
    <3>4. QED
      BY <1>4, <3>1, <3>2, <3>3 DEF Ring
  <2>3. QED
    BY <2>1, <2>2
<1>8. pc' = "decode" => done' < rxmsg'.num /\ rxmsg'.num <= (arrived - Backlog)'
  <2>1. SUFFICES ASSUME pc = "decode"
                 PROVE  done < rxmsg.num /\ rxmsg.num <= (arrived - Backlog)'
    BY <1>2
  <2>2. rxmsg.num <= arrived - B /\ rxmsg.num \in Nat
    BY <1>2, <2>1 DEF Ring
  <2>3. (arrived - Backlog)' \in Int /\ arrived - B \in Int
    BY <1>1, <1>2, <1>3
  <2>4. QED
    BY <1>4, <2>1, <2>2, <2>3 DEF Ring
<1>9. ~overrun' => Fetched' = (arrived - Backlog)'
  <2>1. SUFFICES ASSUME ~overrun' PROVE Fetched' = (arrived - Backlog)'
    OBVIOUS
  <2>2. ~overrun /\ Succ(write) # read
    BY <1>1, <2>1
  <2>3. pc \in {"copy", "rest"} => frames'[slot] = frames[slot]
    BY <1>1, <1>6, <2>2
  <2>4. Fetched' = Fetched
    BY <1>2, <2>3 DEF Fetched
  <2>5. (arrived - Backlog)' = arrived - B
    BY <1>1, <1>2, <1>3, <2>2
  <2>6. QED
    BY <2>2, <2>4, <2>5 DEF Ring
<1>10. done' <= (arrived - Backlog)'
  BY <1>1, <1>2, <1>3 DEF Ring
<1>11. QED
  BY <1>5, <1>7, <1>8, <1>9, <1>10 DEF Ring

LEMMA ArriveUndisturbed ==
  ASSUME TypeOK, Ring, Undisturbed, NEW f, Arrive(f), UNCHANGED <<pc, slot, head, torn>>
  PROVE  Undisturbed'
<1>1. overrun' = (overrun \/ Succ(write) = read) /\ write \in Slots /\ slot \in Slots
      /\ frames' = [frames EXCEPT ![write] = [num |-> arrived + 1, frame |-> f]]
  BY DEF TypeOK, Arrive
<1>2. pc = "rest" /\ slot = write => Succ(write) = read
  BY DEF Ring
<1>3. ~overrun' /\ pc = "rest" => head = frames'[slot]
  BY <1>1, <1>2 DEF Undisturbed, TypeOK
<1>4. torn => overrun' /\ pc = "decode"
  BY <1>1 DEF Undisturbed
<1>5. QED
  BY <1>3, <1>4 DEF Undisturbed

(* The oldest frame is fetched.                                            *)
LEMMA GetRing == ASSUME TypeOK, Ring, GetFrame PROVE Ring'
<1> DEFINE B == Backlog
<1> USE CanAssumption
<1>1. /\ pc' = "copy" /\ slot' = read /\ read' = Succ(read)
      /\ UNCHANGED <<frames, write, arrived, overrun, rxmsg, done>>
      /\ arrived \in Nat /\ done \in Nat /\ read \in Slots /\ write \in Slots
      /\ read # write
  BY DEF TypeOK, GetFrame
<1>2. B \in 0..RX_FRAMES_SIZE - 1 /\ B > 0 /\ OldestFirst(0) = read
  BY <1>1, BacklogType
<1>3. Backlog' = B - 1
  BY <1>1 DEF Slots, Succ, Backlog
<1>4. (arrived - Backlog)' = arrived - B + 1
  BY <1>1, <1>2, <1>3
<1>5. frames[read].num = arrived - B + 1
  BY <1>1, <1>2 DEF Ring
<1>6. ASSUME NEW k \in 0..Backlog' - 1
      PROVE  frames'[OldestFirst(k)'].num = (arrived - Backlog)' + k + 1
  <2>1. k + 1 \in 0..B - 1
    BY <1>2, <1>3
  <2>2. OldestFirst(k)' = OldestFirst(k + 1)
    BY <1>1, <1>2, <2>1 DEF OldestFirst, Succ, Slots
  <2>3. QED
    BY <1>1, <1>2, <1>4, <2>1, <2>2 DEF Ring
<1>7. done < arrived - B + 1
  BY <1>1, <1>2 DEF Ring
<1>8. Fetched' = arrived - B + 1
  BY <1>1, <1>5 DEF Fetched
<1>9. done' <= (arrived - Backlog)'
  BY <1>1, <1>2, <1>4, <1>7
<1>10. QED
  BY <1>1, <1>2, <1>4, <1>5, <1>6, <1>7, <1>8, <1>9 DEF Ring

(* The other steps leave the ring alone.                                   *)
LEMMA StayRing ==
  ASSUME TypeOK, Ring, UNCHANGED ring,
         \/ UNCHANGED <<pc, slot, rxmsg, done>>
         \/ Wake \/ GetNone \/ CopyHead \/ CopyRest \/ Decode
  PROVE  Ring'
<1>1. UNCHANGED <<frames, read, write, arrived, overrun>>
  BY DEF ring
<1>2. Backlog' = Backlog /\ \A k \in Nat : OldestFirst(k)' = OldestFirst(k)
  BY <1>1 DEF Backlog, OldestFirst
<1>3. CASE UNCHANGED <<pc, slot, rxmsg, done>>
  BY <1>1, <1>2, <1>3 DEF Ring, Fetched, Succ
<1>4. CASE Wake \/ GetNone
  BY <1>1, <1>2, <1>4 DEF Ring, Fetched, Wake, GetNone
<1>5. CASE CopyHead \/ CopyRest
  BY <1>1, <1>2, <1>5 DEF Ring, Fetched, CopyHead, CopyRest
<1>6. CASE Decode
  <2>1. pc = "decode" /\ pc' = "get" /\ done' = rxmsg.num
    BY <1>6
       DEF Decode, DecodeOther, DecodeFill, DecodeProcess, DecodeShort, DecodeTorn, Finish
  <2>2. QED
    BY <1>1, <1>2, <2>1 DEF Ring, Fetched
<1>7. QED
  BY <1>3, <1>4, <1>5, <1>6

-----------------------------------------------------------------------------
(* A buffer is handed over.                                                *)
LEMMA StartStep == ASSUME IInv, NEW s \in Senders, Start(s) PROVE IInv'
<1> USE CanAssumption DEF IInv
<1>1. PICK n \in Lengths, here \in BOOLEAN :
        LET m == [num |-> sends + 1, id |-> IdOf[s], len |-> n, here |-> here]
        IN sending' = [sending EXCEPT ![s] = m] /\ submitted' = submitted \cup {m}
  BY DEF Start
<1> DEFINE m == [num |-> sends + 1, id |-> IdOf[s], len |-> n, here |-> here]
<1>2. /\ sending' = [sending EXCEPT ![s] = m] /\ submitted' = submitted \cup {m}
      /\ sends' = sends + 1 /\ sends \in 0..MaxSends /\ sends < MaxSends
      /\ sending[s] = NoFrame /\ sending \in [Senders -> Messages \cup {NoFrame}]
      /\ offset' = [offset EXCEPT ![s] = 0]
      /\ UNCHANGED <<lost, readPc, ring, event, pc, copy, buffer, lastId, delivered, done>>
      /\ UNCHANGED <<slot, head, rxmsg, torn>>
  BY <1>1 DEF Start, TypeOK, copy
<1>3. m \in Messages
  BY <1>2 DEF Messages
<1>4. m.num = sends + 1
  OBVIOUS
<1> HIDE DEF m
<1>5. TypeOK'
  <2>1. clean' \in [Senders -> BOOLEAN]
    BY DEF Start, TypeOK
  <2>2. offset' \in [Senders -> Nat]
    BY <1>2 DEF TypeOK
  <2>3. sending' \in [Senders -> Messages \cup {NoFrame}] /\ submitted' \subseteq Messages
    BY <1>2, <1>3 DEF TypeOK
  <2>4. sends' \in 0..MaxSends
    BY <1>2
  <2>5. QED
    BY <1>2, <2>1, <2>2, <2>3, <2>4 DEF TypeOK, ring
<1>6. Ring' /\ Undisturbed'
  BY <1>2, StayRing DEF Undisturbed, ring
<1>7. \A o \in submitted : o.num <= sends /\ o.num \in Nat /\ o.num # m.num
  BY <1>2, <1>4 DEF Numbered, TypeOK, Messages
<1>8. \A t : SendingNow(t)' => \/ t = s /\ sending'[t] = m
                               \/ t # s /\ SendingNow(t) /\ sending'[t] = sending[t]
  BY <1>2 DEF SendingNow
<1>9. Numbered'
  <2>1. \A o \in submitted' : o.num <= sends'
    BY <1>2, <1>4, <1>7
  <2>2. \A o, q \in submitted' : o.num = q.num => o = q
    BY <1>2, <1>7 DEF Numbered
  <2>3. \A t : SendingNow(t)' => sending'[t] \in submitted'
    BY <1>2, <1>8 DEF Numbered
  <2>4. \A t, u : SendingNow(t)' /\ SendingNow(u)' /\ sending'[t].num = sending'[u].num => t = u
    BY <1>7, <1>8 DEF Numbered
  <2>5. QED
    BY <2>1, <2>2, <2>3, <2>4 DEF Numbered
<1>10. Entries' = Entries
  BY <1>2 DEF Entries, ring
<1>11. LastFrames'
  <2>1. \A e : Frame(e)' <=> Frame(e)
    BY <1>10 DEF Frame
  <2>2. \A e, t : Final(e) /\ SendingNow(t)' => sending'[t].num # e.frame.msg.num
    BY <1>7, <1>8, <2>1 DEF LastFrames, Final
  <2>3. QED
    BY <1>2, <2>1, <2>2 DEF LastFrames, Final
<1>12. Delivered'
  <2>1. \A e : Final(e)' <=> Final(e)
    BY <1>10 DEF Final, Frame
  <2>2. \A k \in 1..Len(delivered) : delivered[k].num \in Nat /\ delivered[k].num <= sends
    <3>1. ASSUME NEW k \in 1..Len(delivered) PROVE delivered[k].num \in Nat
      <4>1. delivered[k] \in Deliverable
        BY DEF Delivered
      <4>2. QED
        BY <4>1 DEF Deliverable
    <3>2. QED
      BY <3>1 DEF Delivered
  <2>3. ASSUME NEW t, NEW k \in 1..Len(delivered), SendingNow(t)'
        PROVE  delivered[k].num # sending'[t].num
    <3>1. CASE t = s
      BY <1>2, <1>4, <1>8, <2>2, <2>3, <3>1
    <3>2. CASE t # s
      BY <1>8, <2>3, <3>2 DEF Delivered
    <3>3. QED
      BY <3>1, <3>2
  <2>4. \A k \in 1..Len(delivered) : delivered[k].num <= sends'
    BY <1>2, <2>2
  <2>5. QED
    BY <1>2, <2>1, <2>3, <2>4 DEF Delivered
<1>13. QED
  BY <1>5, <1>6, <1>9, <1>11, <1>12

(* A frame is sent: it gets lost, or it comes in.                          *)
LEMMA FrameType ==
  ASSUME TypeOK, NEW s \in Senders, sending[s] # NoFrame
  PROVE  FrameOf(s) \in Frames /\ FrameOf(s).msg = sending[s]
<1> DEFINE m == sending[s]
           i == offset[s]
<1> USE CanAssumption
<1>1. m \in Messages /\ i \in Nat /\ clean[s] \in BOOLEAN
  BY DEF TypeOK
<1>2. m.len \in Nat
  <2>1. m.len \in Lengths
    BY <1>1 DEF Messages
  <2>2. Lengths \subseteq Nat
    <3>1. RX_BUFFER_SIZE \in Nat
      BY CanAssumption
    <3>2. QED
      BY <3>1, CanAssumption
  <2>3. QED
    BY <2>1, <2>2
<1>3. CASE m.len <= ShortMax
  BY <1>1, <1>3 DEF FrameOf, Frames
<1>4. CASE ~(m.len <= ShortMax) /\ i < m.len
  <2>1. FrameLen(i, m.len) \in Nat
    BY <1>1, <1>2, <1>4 DEF FrameLen
  <2>2. FrameOf(s) = [cmd |-> "fill", msg |-> m, at |-> i, n |-> FrameLen(i, m.len)]
    BY <1>4 DEF FrameOf
  <2>3. QED
    BY <1>1, <2>1, <2>2 DEF Frames
<1>5. CASE ~(m.len <= ShortMax) /\ ~(i < m.len)
  <2>1. FrameOf(s) = [cmd |-> "process", msg |-> m, clean |-> clean[s]]
    BY <1>5 DEF FrameOf
  <2>2. QED
    BY <1>1, <2>1 DEF Frames
<1>6. QED
  BY <1>3, <1>4, <1>5

(* comm_can_transmit_eid_replace keeps the invariant.                      *)
LEMMA TransmitStep == ASSUME IInv, NEW s \in Senders, Transmit(s) PROVE IInv'
<1> DEFINE f == FrameOf(s)
           new == [num |-> arrived + 1, frame |-> f]
<1> USE CanAssumption DEF IInv
<1>1. sending[s] # NoFrame /\ sending \in [Senders -> Messages \cup {NoFrame}] /\ arrived \in Nat
  BY DEF Transmit, TypeOK
<1>2. f \in Frames /\ f.msg = sending[s] /\ sending[s] \in submitted
  BY <1>1, FrameType DEF Numbered, SendingNow
<1>3. /\ (Arrive(f) /\ UNCHANGED lost) \/ Lost
      /\ IF f.cmd = "fill" THEN UNCHANGED sending ELSE sending' = [sending EXCEPT ![s] = NoFrame]
      /\ UNCHANGED <<pc, slot, head, rxmsg, torn, done>>
      /\ UNCHANGED <<sends, submitted, delivered, event, buffer, lastId>>
  BY DEF Transmit, inout, copy
<1>4. offset' \in [Senders -> Nat] /\ clean' \in [Senders -> BOOLEAN]
  <2>1. clean' \in [Senders -> BOOLEAN]
    BY DEF Transmit, TypeOK
  <2>2. offset[s] \in Nat /\ NextOffset(offset[s]) \in Nat
    BY DEF TypeOK, NextOffset
  <2>3. offset' \in [Senders -> Nat]
    BY <2>2 DEF Transmit, TypeOK
  <2>4. QED
    BY <2>1, <2>3
<1>5. \/ UNCHANGED <<frames, arrived>>
      \/ /\ frames' = [frames EXCEPT ![write] = new] /\ arrived' = arrived + 1
         /\ new \in Entry /\ write \in Slots
  BY <1>1, <1>2, <1>3 DEF Arrive, Lost, ring, Entry, TypeOK
<1>6. \A e \in Entries' : e \in Entries \/ e = new
  BY <1>3, <1>5 DEF Entries, TypeOK
<1> HIDE DEF f
<1>7. \A e : Final(e)' => Final(e) \/ (e = new /\ f.cmd # "fill")
  BY <1>6 DEF Final, Frame
<1>8. \A t : SendingNow(t)' => /\ SendingNow(t) /\ sending'[t] = sending[t]
                               /\ f.cmd # "fill" => t # s
  BY <1>1, <1>3 DEF SendingNow
<1>9. TypeOK'
  <2>1. frames' \in [Slots -> Entry]
    BY <1>5 DEF TypeOK
  <2>2. sending' \in [Senders -> Messages \cup {NoFrame}]
    BY <1>1, <1>3
  <2>3. /\ readPc' \in {"wait", "signal"} /\ write' \in Slots /\ arrived' \in Nat
        /\ overrun' \in BOOLEAN /\ lost' \in Nat /\ read' = read
    <3>1. CASE Arrive(f) /\ UNCHANGED lost
      <4>1. Succ(write) \in Slots
        BY BacklogType
      <4>2. QED
        BY <3>1, <4>1 DEF TypeOK, Arrive
    <3>2. CASE Lost
      BY <3>2 DEF TypeOK, Lost, ring
    <3>3. QED
      BY <1>3, <3>1, <3>2
  <2>4. QED
    BY <1>3, <1>4, <2>1, <2>2, <2>3 DEF TypeOK
<1>10. Ring' /\ Undisturbed'
  <2>1. CASE Arrive(f)
    BY <1>3, <2>1, ArriveRing, ArriveUndisturbed
  <2>2. CASE Lost
    BY <1>3, <2>2, StayRing DEF Lost, Undisturbed, ring
  <2>3. QED
    BY <1>3, <2>1, <2>2
<1>11. Numbered'
  BY <1>3, <1>8 DEF Numbered
<1>12. LastFrames'
  <2>1. \A e : Frame(e)' => e.frame.msg \in submitted
    BY <1>2, <1>6 DEF Frame, LastFrames
  <2>2. ASSUME NEW e, NEW t, Final(e)', SendingNow(t)' PROVE sending'[t].num # e.frame.msg.num
    <3>1. CASE Final(e)
      BY <1>8, <2>2, <3>1 DEF LastFrames
    <3>2. CASE e = new /\ f.cmd # "fill"
      BY <1>1, <1>2, <1>8, <2>2, <3>2 DEF Numbered, SendingNow
    <3>3. QED
      BY <1>7, <2>2, <3>1, <3>2
  <2>3. ASSUME NEW e, NEW g, Final(e)', Final(g)', e.frame.msg.num = g.frame.msg.num
        PROVE  e.num = g.num
    <3>1. \A h : Final(h) => h.frame.msg.num # sending[s].num
      BY <1>1 DEF LastFrames, SendingNow
    <3>2. QED
      BY <1>2, <1>7, <2>3, <3>1 DEF LastFrames
  <2>4. QED
    BY <1>3, <2>1, <2>2, <2>3 DEF LastFrames
<1>13. Delivered'
  <2>1. ASSUME NEW e, NEW k \in 1..Len(delivered), Final(e)', delivered[k].num = e.frame.msg.num
        PROVE  e.num <= done
    <3>1. delivered[k].num # sending[s].num
      BY <1>1 DEF Delivered, SendingNow
    <3>2. Final(e)
      BY <1>2, <1>7, <2>1, <3>1
    <3>3. QED
      BY <2>1, <3>2 DEF Delivered
  <2>2. QED
    BY <1>3, <1>8, <2>1 DEF Delivered
<1>14. QED
  BY <1>9, <1>10, <1>11, <1>12, <1>13

(* The threads of the receiver.                                            *)
LEMMA QuietStep ==
  ASSUME IInv, ReadSignal \/ Wake \/ GetFrame \/ GetNone \/ CopyHead \/ UNCHANGED vars
  PROVE  IInv'
<1> USE DEF IInv
<1> DEFINE Quiet == ReadSignal \/ Wake \/ GetFrame \/ GetNone \/ CopyHead \/ UNCHANGED vars
<1>1. /\ UNCHANGED <<sending, offset, clean, lost, frames, write, arrived, overrun>>
      /\ UNCHANGED <<rxmsg, torn, buffer, lastId, sends, submitted, delivered, done>>
  BY DEF ReadSignal, Wake, GetFrame, GetNone, CopyHead, vars, sender, ring, inout, copy
<1>2. TypeOK'
  <2>1. read' \in Slots /\ slot' \in Slots
    <3>1. Succ(read) \in Slots
      BY BacklogType
    <3>2. QED
      BY <3>1 DEF TypeOK, ReadSignal, Wake, GetFrame, GetNone, CopyHead, vars, sender, ring,
                  inout, copy
  <2>2. /\ readPc' \in {"wait", "signal"} /\ pc' \in {"wait", "get", "copy", "rest", "decode"}
        /\ event' \in BOOLEAN
    BY DEF TypeOK, ReadSignal, Wake, GetFrame, GetNone, CopyHead, vars, sender, ring, inout
  <2>3. head' \in Entry
    BY DEF TypeOK, ReadSignal, Wake, GetFrame, GetNone, CopyHead, vars, copy
  <2>4. QED
    BY <1>1, <2>1, <2>2, <2>3 DEF TypeOK
<1>3. Ring'
  <2>1. CASE GetFrame
    BY <2>1, GetRing
  <2>2. CASE ReadSignal \/ UNCHANGED vars
    BY <2>2, StayRing DEF ReadSignal, vars, copy
  <2>3. CASE Wake \/ GetNone \/ CopyHead
    <3>1. UNCHANGED ring
      BY <2>3 DEF Wake, GetNone, CopyHead
    <3>2. QED
      BY <2>3, <3>1, StayRing, Zenon
  <2>4. QED
    BY <2>1, <2>2, <2>3
<1>4. Undisturbed'
  <2>1. CASE pc' # "rest" /\ pc # "decode"
    BY <1>1, <2>1 DEF Undisturbed
  <2>2. CASE pc' = pc
    <3>1. UNCHANGED <<slot, head>>
      BY <2>2 DEF ReadSignal, Wake, GetFrame, GetNone, CopyHead, vars, copy
    <3>2. QED
      BY <1>1, <2>2, <3>1 DEF Undisturbed
  <2>3. CASE CopyHead
    BY <1>1, <2>3 DEF Undisturbed, CopyHead
  <2>4. QED
    BY <2>1, <2>2, <2>3 DEF ReadSignal, Wake, GetFrame, GetNone, vars
<1>5. Numbered' /\ LastFrames' /\ Delivered'
  BY <1>1 DEF Numbered, LastFrames, Delivered, SendingNow, Final, Frame, Entries
<1>6. QED
  BY <1>2, <1>3, <1>4, <1>5

(* The copy of a frame is made without the mutex: it is the frame          *)
(* fetched, a later one, or half of each.                                  *)
LEMMA CopyStep == ASSUME IInv, CopyRest PROVE IInv'
<1> USE DEF IInv
<1>1. /\ UNCHANGED <<sending, offset, clean, lost, readPc, ring, event, slot, head, buffer>>
      /\ UNCHANGED <<lastId, sends, submitted, delivered, done, overrun>>
      /\ rxmsg' = frames[slot] /\ pc = "rest" /\ pc' = "decode" /\ frames' = frames
  BY DEF CopyRest, sender, ring, inout
<1>2. Ring'
  BY <1>1, StayRing
<1>3. TypeOK'
  <2>1. torn' \in BOOLEAN
    BY Zenon DEF CopyRest
  <2>2. QED
    BY <1>1, <2>1 DEF TypeOK, ring
<1>4. Undisturbed'
  <2>1. ~overrun => ~torn'
    BY <1>1 DEF CopyRest, Undisturbed
  <2>2. QED
    BY <1>1, <2>1 DEF Undisturbed
<1>5. Entries' \subseteq Entries
  BY <1>1 DEF Entries, TypeOK
<1>6. Numbered'
  BY <1>1 DEF Numbered, SendingNow
<1>7. LastFrames' /\ Delivered'
  BY <1>1, <1>5 DEF LastFrames, Delivered, SendingNow, Final, Frame
<1>8. QED
  BY <1>2, <1>3, <1>4, <1>6, <1>7

(* The frame that is decoded, and the message it is about.                 *)
LEMMA DecodeType ==
  ASSUME IInv, pc = "decode"
  PROVE  /\ Frame(rxmsg) /\ done < rxmsg.num
         /\ rxmsg.frame.msg \in submitted /\ rxmsg.frame.msg \in Messages
         /\ rxmsg.frame.msg.num \in Nat /\ rxmsg.frame.msg.id \in Nat
         /\ rxmsg.num \in Nat
<1>1. done < rxmsg.num /\ done \in Nat /\ rxmsg.num \in Nat
  BY DEF IInv, Ring, TypeOK, Entry
<1>2. Frame(rxmsg)
  BY <1>1 DEF Frame, Entries
<1>3. rxmsg.frame.msg \in submitted /\ rxmsg.frame.msg \in Messages
  BY <1>2 DEF IInv, LastFrames, TypeOK
<1>4. rxmsg.frame.msg.num \in Nat
  BY <1>3 DEF Messages
<1>5. rxmsg.frame.msg.id \in Nat
  <2>1. rxmsg.frame.msg.id \in {IdOf[s] : s \in Senders}
    BY <1>3 DEF Messages
  <2>2. QED
    BY <2>1, CanAssumption
<1>6. QED
  BY <1>1, <1>2, <1>3, <1>4, <1>5

(* A message that is delivered was not delivered before, and no other      *)
(* frame in the ring is its last one.                                      *)
LEMMA DeliverNew ==
  ASSUME IInv, pc = "decode", Final(rxmsg), NEW k \in 1..Len(delivered)
  PROVE  delivered[k].num # rxmsg.frame.msg.num
<1>1. done < rxmsg.num /\ rxmsg.num \in Nat /\ done \in Nat
  BY DecodeType DEF IInv, TypeOK
<1>2. delivered[k].num = rxmsg.frame.msg.num => rxmsg.num <= done
  BY DEF IInv, Delivered
<1>3. QED
  BY <1>1, <1>2

(* What is delivered last is in order if no frame that is still to be      *)
(* decoded is the last one of a message with that number.                  *)
LEMMA AppendStep ==
  ASSUME IInv, pc = "decode", NEW d \in Deliverable, d.num <= sends,
         \A e : Final(e) /\ e.frame.msg.num = d.num => e.num <= rxmsg.num,
         \A s : SendingNow(s) => sending[s].num # d.num,
         done' = rxmsg.num, delivered' = Append(delivered, d),
         UNCHANGED <<sending, frames, rxmsg, sends, submitted>>
  PROVE  Delivered'
<1>1. done < rxmsg.num /\ rxmsg.num \in Nat /\ done \in Nat
  BY DecodeType DEF IInv, TypeOK
<1>2. delivered \in Seq(Deliverable)
  BY DEF IInv, Delivered
<1>3. /\ delivered' \in Seq(Deliverable) /\ Len(delivered') = Len(delivered) + 1
      /\ delivered'[Len(delivered) + 1] = d
      /\ \A k \in 1..Len(delivered) : delivered'[k] = delivered[k]
  BY <1>2
<1>4. \A k \in 1..Len(delivered') :
        k \in 1..Len(delivered) \/ (k = Len(delivered) + 1 /\ delivered'[k] = d)
  BY <1>2, <1>3
<1>5. \A e : Final(e)' <=> Final(e)
  BY DEF Final, Frame, Entries
<1>6. \A k \in 1..Len(delivered') : delivered'[k].num <= sends'
  BY <1>3, <1>4 DEF IInv, Delivered
<1>7. ASSUME NEW e, NEW k \in 1..Len(delivered'), Final(e), delivered'[k].num = e.frame.msg.num
      PROVE  e.num <= rxmsg.num
  <2>1. CASE k \in 1..Len(delivered)
    <3>1. e.num <= done
      BY <1>3, <1>7, <2>1 DEF IInv, Delivered
    <3>2. e \in Entry
      BY <1>7 DEF Final, Frame, Entries, IInv, TypeOK
    <3>3. QED
      BY <1>1, <3>1, <3>2 DEF Entry
  <2>2. CASE delivered'[k] = d
    BY <1>7, <2>2
  <2>3. QED
    BY <1>4, <2>1, <2>2
<1>8. ASSUME NEW s, NEW k \in 1..Len(delivered'), SendingNow(s)
      PROVE  delivered'[k].num # sending[s].num
  <2>1. CASE k \in 1..Len(delivered)
    BY <1>3, <1>8, <2>1 DEF IInv, Delivered
  <2>2. CASE delivered'[k] = d
    BY <1>8, <2>2
  <2>3. QED
    BY <1>4, <2>1, <2>2
<1>9. QED
  BY <1>3, <1>5, <1>6, <1>7, <1>8 DEF Delivered, SendingNow

(* A delivered message is in order and new.                                *)
LEMMA DeliverStep ==
  ASSUME IInv, pc = "decode", Final(rxmsg), done' = rxmsg.num,
         delivered' = Append(delivered, Sent(rxmsg.frame.msg)),
         UNCHANGED <<sending, frames, rxmsg, sends, submitted>>
  PROVE  Delivered'
<1> DEFINE m == rxmsg.frame.msg
           d == Sent(m)
<1>1. m \in submitted /\ m \in Messages /\ m.num \in Nat /\ m.id \in Nat /\ rxmsg.num \in Nat
  BY DecodeType
<1>2. d \in Deliverable /\ d.num = m.num
  BY <1>1 DEF Deliverable, Sent
<1>3. d.num <= sends
  BY <1>1, <1>2 DEF IInv, Numbered
<1> HIDE DEF d
<1>4. ASSUME NEW e, Final(e), e.frame.msg.num = d.num PROVE e.num <= rxmsg.num
  <2>1. e.num = rxmsg.num
    BY <1>2, <1>4 DEF IInv, LastFrames
  <2>2. QED
    BY <1>1, <2>1
<1>5. \A s : SendingNow(s) => sending[s].num # d.num
  BY <1>2 DEF IInv, LastFrames
<1>6. delivered' = Append(delivered, d)
  BY DEF d
<1>7. QED
  BY <1>2, <1>3, <1>4, <1>5, <1>6, AppendStep

(* What a torn copy lets through has the number of no message.             *)
LEMMA JunkStep ==
  ASSUME IInv, pc = "decode", done' = rxmsg.num, NEW s \in Senders,
         delivered' = Append(delivered, Junk(IdOf[s])),
         UNCHANGED <<sending, frames, rxmsg, sends, submitted>>
  PROVE  Delivered'
<1> DEFINE d == Junk(IdOf[s])
<1>1. d \in Deliverable /\ d.num = 0 /\ 0 <= sends
  BY CanAssumption DEF Deliverable, Junk, IInv, TypeOK
<1> HIDE DEF d
<1>2. \A m \in submitted : m.num # 0
  BY DEF IInv, TypeOK, Messages
<1>3. \A e : Final(e) => e.frame.msg.num # d.num
  BY <1>1, <1>2 DEF IInv, LastFrames, Final
<1>4. \A t : SendingNow(t) => sending[t].num # d.num
  BY <1>1, <1>2 DEF IInv, Numbered
<1>5. delivered' = Append(delivered, d)
  BY DEF d
<1>6. QED
  BY <1>1, <1>3, <1>4, <1>5, AppendStep

(* Decoding delivers the message of the frame or nothing; only a torn copy *)
(* lets another buffer through.                                            *)
LEMMA DecodeDelivers ==
  ASSUME IInv, Decode
  PROVE  \/ UNCHANGED delivered
         \/ ~torn /\ Final(rxmsg) /\ delivered' = Append(delivered, Sent(rxmsg.frame.msg))
         \/ torn /\ \E s \in Senders : delivered' = Append(delivered, Junk(IdOf[s]))
<1>1. Frame(rxmsg)
  BY DecodeType DEF Decode, DecodeOther, DecodeFill, DecodeProcess, DecodeShort, DecodeTorn
<1>2. CASE DecodeOther \/ DecodeFill
  BY <1>2 DEF DecodeOther, DecodeFill
<1>3. CASE DecodeProcess
  BY <1>1, <1>3 DEF DecodeProcess, Deliver, Sent, CrcMatches, Final
<1>4. CASE DecodeShort
  BY <1>1, <1>4 DEF DecodeShort, Deliver, Sent, Final
<1>5. CASE DecodeTorn
  <2>1. PICK f \in {head.frame, rxmsg.frame} :
          \/ UNCHANGED delivered
          \/ /\ \E s \in Senders : lastId' = IdOf[s]
             /\ \/ UNCHANGED delivered
                \/ delivered' = Append(delivered, Junk(lastId'))
    BY <1>5 DEF DecodeTorn
  <2>2. QED
    BY <1>5, <2>1 DEF DecodeTorn
<1>6. QED
  BY <1>2, <1>3, <1>4, <1>5 DEF Decode

(* decode_msg keeps the invariant.                                         *)
LEMMA DecodeStep == ASSUME IInv, Decode PROVE IInv'
<1> USE DEF IInv
<1>1. /\ UNCHANGED <<sending, offset, clean, lost, readPc, ring, event, slot, rxmsg>>
      /\ UNCHANGED <<sends, submitted, frames, read, write, arrived, overrun>>
      /\ pc = "decode" /\ pc' = "get" /\ done' = rxmsg.num /\ head' = Empty /\ ~torn'
  BY DEF Decode, DecodeOther, DecodeFill, DecodeProcess, DecodeShort, DecodeTorn, Finish,
         sender, ring
<1>2. Ring' /\ Undisturbed'
  BY <1>1, StayRing DEF Undisturbed
<1>3. TypeOK'
  <2>1. lastId' \in Nat
    <3>1. CASE DecodeTorn
      BY <3>1, CanAssumption DEF DecodeTorn, TypeOK
    <3>2. CASE DecodeOther \/ DecodeFill \/ DecodeProcess \/ DecodeShort
      BY <3>2, DecodeType DEF TypeOK, DecodeOther, DecodeFill, DecodeProcess, DecodeShort
    <3>3. QED
      BY <3>1, <3>2 DEF Decode
  <2>2. buffer' \in [0..RX_BUFFER_SIZE - 1 -> (Nat \X Nat) \cup {NoFrame}]
    <3>1. CASE DecodeFill
      <4>1. rxmsg.frame.msg.num \in Nat
        BY <1>1, DecodeType
      <4>2. QED
        BY <3>1, <4>1 DEF TypeOK, DecodeFill
    <3>2. CASE DecodeOther \/ DecodeProcess \/ DecodeShort
      BY <3>2 DEF TypeOK, DecodeOther, DecodeProcess, DecodeShort
    <3>3. CASE DecodeTorn
      BY <3>3 DEF TypeOK, DecodeTorn
    <3>4. QED
      BY <3>1, <3>2, <3>3 DEF Decode
  <2>3. done' \in Nat
    BY <1>1, DecodeType
  <2>4. Empty \in Entry /\ torn' \in BOOLEAN
    <3>1. torn' \in BOOLEAN
      BY Zenon DEF Decode, DecodeOther, DecodeFill, DecodeProcess, DecodeShort, DecodeTorn, Finish
    <3>2. QED
      BY <3>1 DEF Empty, Entry
  <2>5. QED
    BY <1>1, <2>1, <2>2, <2>3, <2>4 DEF TypeOK
<1>4. Numbered' /\ LastFrames'
  BY <1>1 DEF Numbered, LastFrames, SendingNow, Final, Frame, Entries
<1>5. Delivered'
  <2>1. CASE UNCHANGED delivered
    <3>1. done < rxmsg.num /\ rxmsg.num \in Nat /\ done \in Nat
      BY <1>1, DecodeType DEF TypeOK
    <3>2. \A e : Final(e) => e.num \in Nat
      BY DEF Final, Frame, Entries, TypeOK, Entry
    <3>3. ASSUME NEW e, NEW k \in 1..Len(delivered), Final(e), delivered[k].num = e.frame.msg.num
          PROVE  e.num <= rxmsg.num
      <4>1. e.num <= done
        BY <3>3 DEF Delivered
      <4>2. QED
        BY <3>1, <3>2, <3>3, <4>1
    <3>4. \A e : Final(e)' <=> Final(e)
      BY <1>1 DEF Final, Frame, Entries
    <3>5. QED
      BY <1>1, <2>1, <3>3, <3>4 DEF Delivered, SendingNow
  <2>2. CASE Final(rxmsg) /\ delivered' = Append(delivered, Sent(rxmsg.frame.msg))
    BY <1>1, <2>2, DeliverStep
  <2>3. CASE \E s \in Senders : delivered' = Append(delivered, Junk(IdOf[s]))
    BY <1>1, <2>3, JunkStep
  <2>4. QED
    BY <2>1, <2>2, <2>3, DecodeDelivers
<1>6. QED
  BY <1>2, <1>3, <1>4, <1>5

(* Every step keeps the invariant.                                         *)
LEMMA InvariantStep == IInv /\ [Next]_vars => IInv'
BY StartStep, TransmitStep, QuietStep, CopyStep, DecodeStep DEF Next, ProcessThread, Decode

(* The inductive invariant: the ring holds the frames that arrived last,   *)
(* their numbers tell their order, and a message whose last frame has not  *)
(* been decoded is not delivered.                                          *)
THEOREM Invariant == Spec => []IInv
BY InitInvariant, InvariantStep, PTL DEF Spec

(* Each variable stays within its type: no index leaves the ring.          *)
THEOREM TypeCorrect == Spec => []TypeOK
<1>1. IInv => TypeOK
  BY DEF IInv
<1>2. QED
  BY <1>1, Invariant, PTL

(* Frames are decoded in the order they arrived, none of them twice, and   *)
(* none is missed while the ring has not been filled up.                   *)
THEOREM InOrderHolds == Spec => []InOrder
<1>1. IInv => InOrder
  <2> SUFFICES ASSUME IInv PROVE InOrder
    OBVIOUS
  <2>1. Backlog \in Nat /\ arrived \in Nat /\ done \in Nat /\ rxmsg.num \in Nat
    <3>1. Backlog \in 0..RX_FRAMES_SIZE - 1
      BY BacklogType DEF IInv
    <3>2. QED
      BY <3>1, CanAssumption DEF IInv, TypeOK, Entry
  <2>2. Fresh
    BY <2>1 DEF IInv, Ring, Fresh
  <2>3. NoneMissed
    BY <2>1 DEF IInv, Ring, NoneMissed
  <2>4. QED
    BY <2>2, <2>3 DEF InOrder
<1>2. QED
  BY <1>1, Invariant, PTL

-----------------------------------------------------------------------------
(* CanLink implements MessageLink.                                         *)
Handed == {Sent(m) : m \in submitted}

(* Messages are told apart by their number.                                *)
LEMMA SentNumber ==
  ASSUME NEW m \in Messages PROVE Sent(m) \in Buffers /\ Sent(m).num = m.num
BY DEF Sent, Buffers

(* Handing over a buffer hands over a message that is not there yet.       *)
LEMMA StartRefines ==
  ASSUME IInv, NEW s \in Senders, Start(s)
  PROVE  Link!Submit
<1>1. PICK n \in Lengths, here \in BOOLEAN :
        LET m == [num |-> sends + 1, id |-> IdOf[s], len |-> n, here |-> here]
        IN submitted' = submitted \cup {m}
  BY DEF Start
<1> DEFINE m == [num |-> sends + 1, id |-> IdOf[s], len |-> n, here |-> here]
<1>2. submitted' = submitted \cup {m} /\ UNCHANGED <<delivered, overrun, torn>>
  BY <1>1 DEF Start, ring, copy
<1>3. m \in Messages /\ m.num = sends + 1 /\ sends \in Nat
  BY CanAssumption DEF Messages, Start, IInv, TypeOK
<1> HIDE DEF m
<1>4. \A o \in submitted : o \in Messages /\ o.num <= sends
  BY DEF IInv, TypeOK, Numbered
<1>5. Sent(m) \notin Handed
  <2>1. ASSUME NEW o \in submitted, Sent(o) = Sent(m) PROVE FALSE
    <3>1. o.num = m.num
      BY <1>3, <1>4, <2>1, SentNumber
    <3>2. QED
      BY <1>3, <1>4, <3>1
  <2>2. QED
    BY <2>1 DEF Handed
<1>6. Handed' = Handed \cup {Sent(m)}
  BY <1>2 DEF Handed, Sent, Content
<1>7. Handed' # Handed /\ Sent(m) \in Buffers
  BY <1>3, <1>5, <1>6, SentNumber
<1>8. QED
  BY <1>2, <1>6, <1>7 DEF Link!Submit, Handed

(* Decoding delivers a message that was handed over and not delivered,     *)
(* unless the copy is torn.                                                *)
LEMMA DecodeRefines ==
  ASSUME IInv, Decode
  PROVE  \/ \E b \in Handed : Link!Deliver(b)
         \/ Link!Spoil
         \/ UNCHANGED <<Handed, delivered, overrun, torn>>
<1>1. submitted' = submitted /\ pc = "decode" /\ overrun' = overrun /\ ~torn'
  BY DEF Decode, DecodeOther, DecodeFill, DecodeProcess, DecodeShort, DecodeTorn, Finish, ring
<1>2. Handed' = Handed
  BY <1>1 DEF Handed, Sent, Content
<1>3. (torn' = FALSE) /\ (~torn => torn' = torn)
  <2>1. torn \in BOOLEAN /\ torn' \in BOOLEAN
    BY DecodeStep DEF IInv, TypeOK
  <2>2. QED
    BY <1>1, <2>1, Zenon
<1>4. CASE UNCHANGED delivered
  BY <1>1, <1>2, <1>3, <1>4 DEF Link!Spoil, Handed
<1>5. CASE ~torn /\ Final(rxmsg) /\ delivered' = Append(delivered, Sent(rxmsg.frame.msg))
  <2> DEFINE m == rxmsg.frame.msg
  <2>1. m \in submitted /\ m \in Messages
    BY <1>1, DecodeType
  <2>2. Sent(m) \in Handed /\ Sent(m).num = m.num
    BY <2>1, SentNumber DEF Handed
  <2>3. \A k \in 1..Len(delivered) : delivered[k] # Sent(m)
    BY <1>1, <1>5, <2>2, DeliverNew
  <2>4. Link!Deliver(Sent(m))
    BY <1>1, <1>2, <1>3, <1>5, <2>2, <2>3 DEF Link!Deliver, Handed
  <2>5. QED
    BY <2>2, <2>4
<1>6. CASE torn /\ \E s \in Senders : delivered' = Append(delivered, Junk(IdOf[s]))
  BY <1>1, <1>2, <1>3, <1>6 DEF Link!Spoil, Handed
<1>7. QED
  BY <1>4, <1>5, <1>6, DecodeDelivers

(* The copy of a frame is torn only once the ring has been filled up.      *)
LEMMA CopyRefines ==
  ASSUME IInv, CopyRest
  PROVE  Link!Tear \/ UNCHANGED <<Handed, delivered, overrun, torn>>
<1>1. UNCHANGED <<submitted, delivered, overrun, slot, frames>> /\ pc = "rest"
  BY DEF CopyRest, inout, ring
<1>2. Handed' = Handed
  BY <1>1 DEF Handed, Sent, Content
<1>3. torn' \in BOOLEAN /\ torn \in BOOLEAN
  BY CopyStep DEF IInv, TypeOK
<1>4. ~torn
  BY <1>1 DEF IInv, Undisturbed
<1>5. CASE torn'
  <2>1. overrun' = overrun /\ overrun
    <3>1. overrun' /\ (torn' => overrun')
      BY <1>5, CopyStep DEF IInv, Undisturbed
    <3>2. QED
      BY <1>1, <3>1
  <2>2. torn' = TRUE
    BY <1>3, <1>5, Zenon
  <2>3. QED
    BY <1>1, <1>2, <2>1, <2>2 DEF Link!Tear, Handed
<1>6. CASE ~torn'
  <2>1. torn' = torn
    BY <1>3, <1>4, <1>6, Zenon
  <2>2. QED
    BY <1>1, <1>2, <2>1
<1>7. QED
  BY <1>5, <1>6

(* A frame that arrives may fill up the ring.                              *)
LEMMA TransmitRefines ==
  ASSUME IInv, NEW s \in Senders, Transmit(s)
  PROVE  Link!Overrun \/ UNCHANGED <<Handed, delivered, overrun, torn>>
<1>1. UNCHANGED <<submitted, delivered, torn>> /\ (Arrive(FrameOf(s)) \/ Lost)
  BY DEF Transmit, inout, copy
<1>2. Handed' = Handed
  BY <1>1 DEF Handed, Sent, Content
<1>3. overrun \in BOOLEAN /\ overrun' \in BOOLEAN
  BY TransmitStep DEF IInv, TypeOK
<1>4. (overrun' = TRUE) \/ (overrun' = overrun)
  <2>1. overrun => overrun'
    BY <1>1 DEF Arrive, Lost, ring
  <2>2. QED
    BY <1>3, <2>1, Zenon
<1>5. QED
  BY <1>1, <1>2, <1>4 DEF Link!Overrun, Handed

(* Every step hands over a message, delivers one, disturbs the receiver or *)
(* does none of this.                                                      *)
LEMMA StepRefines ==
  ASSUME IInv, [Next]_vars
  PROVE  [Link!Next]_<<Handed, delivered, overrun, torn>>
<1>1. ASSUME NEW s \in Senders, Start(s) PROVE Link!Next
  BY <1>1, StartRefines DEF Link!Next
<1>2. CASE Decode
  BY <1>2, DecodeRefines DEF Link!Next, Handed
<1>3. CASE CopyRest
  BY <1>3, CopyRefines DEF Link!Next
<1>4. ASSUME NEW s \in Senders, Transmit(s)
      PROVE  [Link!Next]_<<Handed, delivered, overrun, torn>>
  BY <1>4, TransmitRefines DEF Link!Next
<1>5. CASE ReadSignal \/ Wake \/ GetFrame \/ GetNone \/ CopyHead \/ UNCHANGED vars
  <2>1. UNCHANGED <<submitted, delivered, overrun, torn>>
    BY <1>5 DEF ReadSignal, Wake, GetFrame, GetNone, CopyHead, vars, inout, ring, copy
  <2>2. QED
    BY <2>1 DEF Handed, Sent, Content
<1>6. QED
  BY <1>1, <1>2, <1>3, <1>4, <1>5 DEF Next, ProcessThread, Decode

(* What reaches the commands has been sent, by the controller it names,    *)
(* byte for byte, and at most once, but for at most one buffer for each    *)
(* copy of a frame that is torn once the ring has been filled up.          *)
THEOREM Refines == Spec => IsLink
<1>1. Init => Link!Init
  BY DEF Init, Link!Init
<1>2. IInv /\ [Next]_vars => [Link!Next]_<<Handed, delivered, overrun, torn>>
  BY StepRefines
<1>3. QED
  BY <1>1, <1>2, Invariant, PTL DEF Spec, IsLink, Link!Spec, Handed

-----------------------------------------------------------------------------
(* CleanAccepted.  While the ring has not been filled up, what is still to *)
(* be decoded are the entries with a number beyond done, and the number    *)
(* says in which order.                                                    *)
Distinct ==
  /\ \A e \in Entries : e.num <= arrived
  /\ \A e, g \in Entries : e.num = g.num /\ e.num > 0 => e = g

Waiting(i) == \E k \in 0..Backlog - 1 : i = OldestFirst(k)

Orderly ==
  ~overrun =>
    /\ pc \in {"copy", "rest", "decode"} => done + 1 = Fetched
    /\ pc # "decode" => rxmsg.num <= done
    /\ \A i \in Slots :
         \/ Waiting(i)
         \/ pc \in {"copy", "rest"} /\ i = slot
         \/ frames[i].num <= done
         \/ pc = "decode" /\ frames[i] = rxmsg

(* The frames that will write byte i of rx_buffer before frame k.          *)
Covers(f, i) == f.cmd = "fill" /\ f.msg.here /\ i \in f.at..f.at + f.n - 1
Fills(i, k) == {e \in Entries : done < e.num /\ e.num < k /\ Covers(e.frame, i)}

(* Byte i will be the one of m when frame k is decoded.                    *)
OwnAt(m, i, k) ==
  /\ \A e \in Fills(i, k) :
       e.frame.msg.num # m.num =>
         \E g \in Fills(i, k) : e.num < g.num /\ g.frame.msg.num = m.num
  /\ Fills(i, k) = {} => buffer[i] = <<m.num, i>>

SentWhole ==
  ~overrun =>
    \A s \in Senders :
      SendingNow(s) /\ clean[s] /\ sending[s].here /\ sending[s].len > ShortMax =>
        \A i \in 0..sending[s].len - 1 : i < offset[s] => OwnAt(sending[s], i, arrived + 1)

ProcessWhole ==
  ~overrun =>
    \A e \in Entries :
      done < e.num /\ e.frame.cmd = "process" /\ e.frame.clean /\ e.frame.msg.here =>
        \A i \in 0..e.frame.msg.len - 1 : OwnAt(e.frame.msg, i, e.num)

WholeInv == IInv /\ Distinct /\ Orderly /\ SentWhole /\ ProcessWhole

(* Numbers are numbers, and the same entries mean the same bytes.          *)
LEMMA EntryNumbers ==
  ASSUME TypeOK
  PROVE  /\ arrived \in Nat /\ done \in Nat
         /\ \A e \in Entries : e.num \in Nat
         /\ \A i, k : Fills(i, k) \subseteq Entries
BY DEF TypeOK, Entries, Entry, Fills

LEMMA SameWhole ==
  ASSUME UNCHANGED <<frames, rxmsg, done, arrived, overrun, buffer>>, Distinct, ProcessWhole
  PROVE  /\ Entries' = Entries /\ Distinct' /\ ProcessWhole'
         /\ \A m, i, k : OwnAt(m, i, k)' <=> OwnAt(m, i, k)
<1>1. Entries' = Entries
  BY DEF Entries
<1>2. Distinct'
  BY <1>1 DEF Distinct
<1>3. \A m, i, k : OwnAt(m, i, k)' <=> OwnAt(m, i, k)
  BY <1>1 DEF OwnAt, Fills
<1>4. ProcessWhole'
  BY <1>1, <1>3 DEF ProcessWhole
<1>5. QED
  BY <1>1, <1>2, <1>3, <1>4

(* The receiver's threads, up to the copy of a frame.                      *)
LEMMA QuietWhole ==
  ASSUME WholeInv, ReadSignal \/ Wake \/ GetFrame \/ GetNone \/ CopyHead \/ UNCHANGED vars
  PROVE  WholeInv'
<1> USE DEF WholeInv
<1>1. /\ UNCHANGED <<sending, offset, clean, lost, frames, write, arrived, overrun>>
      /\ UNCHANGED <<rxmsg, buffer, lastId, sends, submitted, delivered, done>>
  BY DEF ReadSignal, Wake, GetFrame, GetNone, CopyHead, vars, sender, ring, inout, copy
<1>2. IInv'
  BY QuietStep
<1>3. /\ Entries' = Entries /\ Distinct' /\ ProcessWhole'
      /\ \A m, i, k : OwnAt(m, i, k)' <=> OwnAt(m, i, k)
  BY <1>1, SameWhole
<1>4. SentWhole'
  BY <1>1, <1>3 DEF SentWhole, SendingNow
<1>5. Orderly'
  <2>1. CASE GetFrame
    <3>1. pc = "get" /\ pc' = "copy" /\ slot' = read /\ read' = Succ(read) /\ read # write
      BY <2>1 DEF GetFrame
    <3>2. /\ TypeOK /\ Ring /\ read \in Slots /\ write \in Slots /\ arrived \in Nat
          /\ RX_FRAMES_SIZE \in Nat
      BY CanAssumption DEF IInv, TypeOK
    <3>3. /\ Backlog \in 0..RX_FRAMES_SIZE - 1 /\ Backlog > 0 /\ OldestFirst(0) = read
      BY <3>1, <3>2, BacklogType
    <3>4. Backlog' = Backlog - 1
      BY <1>1, <3>1, <3>2, CanAssumption DEF Slots, Succ, Backlog
    <3>5. SUFFICES ASSUME ~overrun PROVE Orderly'
      BY <1>1 DEF Orderly
    <3>6. done + 1 = Fetched'
      <4>1. frames[read].num = arrived - Backlog + 1
        BY <3>2, <3>3 DEF Ring
      <4>2. Fetched = arrived - Backlog /\ Fetched = done
        BY <3>1, <3>2, <3>5 DEF Ring, Fetched
      <4>3. Fetched' = frames[read].num
        BY <1>1, <3>1 DEF Fetched
      <4>4. QED
        BY <4>1, <4>2, <4>3
    <3>7. ASSUME NEW i \in Slots, Waiting(i) PROVE Waiting(i)' \/ i = slot'
      <4>1. PICK k \in 0..Backlog - 1 : i = OldestFirst(k)
        BY <3>7 DEF Waiting
      <4>2. CASE k = 0
        BY <3>1, <3>3, <4>1, <4>2
      <4>3. CASE k # 0
        <5>1. k - 1 \in 0..Backlog' - 1
          BY <3>3, <3>4, <4>1, <4>3
        <5>2. OldestFirst(k - 1)' = OldestFirst(k)
          <6>1. k \in 1..RX_FRAMES_SIZE - 1
            <7>1. ASSUME NEW n \in Nat, NEW b \in 0..n - 1, NEW j \in 0..b - 1, j # 0
                  PROVE  j \in 1..n - 1
              BY <7>1
            <7>2. QED
              BY <3>2, <3>3, <4>1, <4>3, <7>1, Zenon
          <6>2. QED
            BY <3>1, <3>2, <6>1, CanAssumption DEF OldestFirst, Succ, Slots
        <5>3. QED
          BY <4>1, <5>1, <5>2 DEF Waiting
      <4>4. QED
        BY <4>2, <4>3
    <3>8. ASSUME NEW i \in Slots
          PROVE  Waiting(i)' \/ i = slot' \/ frames'[i].num <= done'
      BY <1>1, <3>1, <3>5, <3>7 DEF Orderly
    <3>9. rxmsg.num <= done
      BY <3>1, <3>5 DEF Orderly
    <3>10. QED
      BY <1>1, <3>1, <3>6, <3>8, <3>9 DEF Orderly
  <2>2. CASE ReadSignal \/ Wake \/ GetNone \/ CopyHead \/ UNCHANGED vars
    <3>1. /\ UNCHANGED <<slot, read>>
          /\ pc' = pc \/ (pc \in {"wait", "get"} /\ pc' \in {"wait", "get"})
             \/ (pc = "copy" /\ pc' = "rest")
      BY <2>2 DEF ReadSignal, Wake, GetNone, CopyHead, vars, ring, copy
    <3>2. \A i : Waiting(i)' <=> Waiting(i)
      BY <1>1, <3>1 DEF Waiting, OldestFirst, Backlog
    <3>3. QED
      BY <1>1, <3>1, <3>2 DEF Orderly, Fetched
  <2>3. QED
    BY <2>1, <2>2
<1>6. QED
  BY <1>2, <1>3, <1>4, <1>5

LEMMA CopyWhole == ASSUME WholeInv, CopyRest PROVE WholeInv'
<1> USE DEF WholeInv
<1>1. /\ UNCHANGED <<sending, offset, clean, frames, read, write, arrived, overrun,
                     slot, buffer, done>>
      /\ rxmsg' = frames[slot] /\ pc = "rest" /\ pc' = "decode"
  BY DEF CopyRest, sender, ring
<1>2. IInv'
  BY CopyStep
<1>3. frames[slot] \in Entries /\ slot \in Slots /\ Entries' \subseteq Entries
  BY <1>1 DEF Entries, IInv, TypeOK
<1>4. Distinct'
  BY <1>1, <1>3 DEF Distinct
<1>5. ~overrun => \A i, k : Fills(i, k)' = Fills(i, k)
  <2> SUFFICES ASSUME ~overrun, NEW i, NEW k PROVE Fills(i, k)' = Fills(i, k)
    OBVIOUS
  <2>1. rxmsg.num <= done /\ rxmsg.num \in Nat /\ done \in Nat
    BY <1>1, EntryNumbers DEF Orderly, IInv, Entries
  <2>2. ~(done < rxmsg.num)
    BY <2>1
  <2>3. \A e \in Entries : done < e.num => e \in Entries'
    BY <1>1, <2>2 DEF Entries
  <2>4. QED
    BY <1>1, <1>3, <2>3 DEF Fills
<1>6. ~overrun => \A m, i, k : OwnAt(m, i, k)' <=> OwnAt(m, i, k)
  BY <1>1, <1>5 DEF OwnAt
<1>7. SentWhole'
  BY <1>1, <1>6 DEF SentWhole, SendingNow
<1>8. ProcessWhole'
  BY <1>1, <1>3, <1>6 DEF ProcessWhole
<1>9. Orderly'
  <2>1. \A i : Waiting(i)' <=> Waiting(i)
    BY <1>1 DEF Waiting, OldestFirst, Backlog
  <2>2. Fetched' = Fetched
    BY <1>1 DEF Fetched
  <2>3. QED
    BY <1>1, <2>1, <2>2 DEF Orderly
<1>10. QED
  BY <1>2, <1>4, <1>7, <1>8, <1>9

(* The places a buffer has are in rx_buffer.                               *)
LEMMA Places ==
  ASSUME NEW m \in Messages
  PROVE  m.len \in Nat /\ \A i \in 0..m.len - 1 : i \in 0..RX_BUFFER_SIZE - 1
<1>1. m.len \in Lengths
  BY DEF Messages
<1>2. m.len \in 1..RX_BUFFER_SIZE /\ RX_BUFFER_SIZE \in Nat
  BY <1>1, CanAssumption
<1>3. QED
  BY <1>2

(* decode_msg takes the first frame that is waiting.                       *)
LEMMA DecodeFills ==
  ASSUME WholeInv, Decode, ~overrun
  PROVE  /\ \A e \in Entries : done < e.num => rxmsg.num <= e.num
         /\ \A e \in Entries : rxmsg.num < e.num <=> done < e.num /\ e # rxmsg
         /\ \A i, k : Fills(i, k)' = Fills(i, k) \ {rxmsg}
<1> USE DEF WholeInv
<1>1. Entries' = Entries /\ pc = "decode" /\ done' = rxmsg.num
  BY DEF Decode, DecodeOther, DecodeFill, DecodeProcess, DecodeShort, DecodeTorn, Finish, ring,
         Entries
<1>2. /\ done \in Nat /\ rxmsg \in Entries /\ rxmsg.num \in Nat /\ rxmsg.num = done + 1
      /\ \A e \in Entries : e.num \in Nat
  BY <1>1, EntryNumbers DEF IInv, Entries, Orderly, Fetched
<1>3. \A e \in Entries : done < e.num => rxmsg.num <= e.num
  BY <1>2
<1>4. \A e \in Entries : rxmsg.num = e.num => e = rxmsg
  BY <1>2 DEF Distinct
<1>5. \A e \in Entries : rxmsg.num < e.num <=> done < e.num /\ e # rxmsg
  BY <1>2, <1>4
<1>6. \A i, k : Fills(i, k)' = Fills(i, k) \ {rxmsg}
  BY <1>1, <1>5 DEF Fills
<1>7. QED
  BY <1>3, <1>5, <1>6

LEMMA DecodeByte ==
  ASSUME WholeInv, Decode, ~overrun, NEW i \in 0..RX_BUFFER_SIZE - 1
  PROVE  buffer'[i] = IF Covers(rxmsg.frame, i) THEN <<rxmsg.frame.msg.num, i>> ELSE buffer[i]
<1>1. DOMAIN buffer = 0..RX_BUFFER_SIZE - 1
  BY DEF WholeInv, IInv, TypeOK
<1>2. CASE DecodeFill
  BY <1>1, <1>2, Zenon DEF DecodeFill, Covers, ForThis
<1>3. CASE DecodeOther \/ DecodeProcess \/ DecodeShort
  BY <1>3 DEF DecodeOther, DecodeProcess, DecodeShort, Covers, ForThis
<1>4. ~DecodeTorn
  BY DEF DecodeTorn, WholeInv, IInv, Undisturbed
<1>5. QED
  BY <1>2, <1>3, <1>4 DEF Decode

LEMMA DecodeOwn ==
  ASSUME WholeInv, Decode, ~overrun, NEW m, NEW i \in 0..RX_BUFFER_SIZE - 1, NEW k,
         rxmsg.num < k, OwnAt(m, i, k)
  PROVE  OwnAt(m, i, k)'
<1>1. /\ Fills(i, k)' = Fills(i, k) \ {rxmsg}
      /\ Fills(i, k) \subseteq Entries
      /\ \A e \in Fills(i, k) : rxmsg.num <= e.num
  BY DecodeFills DEF Fills
<1>2. rxmsg \in Fills(i, k) <=> Covers(rxmsg.frame, i)
  <2>1. pc = "decode"
    BY DEF Decode, DecodeOther, DecodeFill, DecodeProcess, DecodeShort, DecodeTorn
  <2>2. rxmsg \in Entries /\ done < rxmsg.num
    BY <2>1, DecodeType DEF WholeInv, Entries
  <2>3. QED
    BY <2>2 DEF Fills
<1>3. \A e \in Entries : e.num \in Nat
  BY EntryNumbers DEF WholeInv, IInv
<1>4. rxmsg.num \in Nat
  BY <1>3 DEF Entries
<1>5. ASSUME NEW e \in Fills(i, k)', e.frame.msg.num # m.num
      PROVE  \E g \in Fills(i, k)' : e.num < g.num /\ g.frame.msg.num = m.num
  <2>1. PICK g \in Fills(i, k) : e.num < g.num /\ g.frame.msg.num = m.num
    BY <1>1, <1>5 DEF OwnAt
  <2>2. g # rxmsg
    BY <1>1, <1>3, <1>4, <1>5, <2>1
  <2>3. QED
    BY <1>1, <2>1, <2>2
<1>6. ASSUME Fills(i, k)' = {} PROVE buffer'[i] = <<m.num, i>>
  <2>1. CASE Fills(i, k) = {}
    <3>1. buffer'[i] = buffer[i]
      BY <1>2, <2>1, DecodeByte
    <3>2. QED
      BY <2>1, <3>1 DEF OwnAt
  <2>2. CASE Fills(i, k) # {}
    <3>1. rxmsg \in Fills(i, k) /\ \A g \in Fills(i, k) : g = rxmsg
      BY <1>1, <1>6, <2>2
    <3>2. ~(rxmsg.num < rxmsg.num)
      BY <1>4
    <3>3. rxmsg.frame.msg.num = m.num
      BY <3>1, <3>2 DEF OwnAt
    <3>4. buffer'[i] = <<rxmsg.frame.msg.num, i>>
      BY <1>2, <3>1, DecodeByte
    <3>5. QED
      BY <3>3, <3>4
  <2>3. QED
    BY <2>1, <2>2
<1>7. QED
  BY <1>5, <1>6 DEF OwnAt

LEMMA DecodeWhole == ASSUME WholeInv, Decode PROVE WholeInv'
<1>1. /\ UNCHANGED <<sending, offset, clean, slot, rxmsg, frames, read, write, arrived, overrun>>
      /\ pc = "decode" /\ pc' = "get" /\ done' = rxmsg.num
  BY DEF Decode, DecodeOther, DecodeFill, DecodeProcess, DecodeShort, DecodeTorn, Finish,
         sender, ring
<1>2. IInv'
  BY DecodeStep DEF WholeInv
<1>3. Entries' = Entries /\ Distinct'
  BY <1>1 DEF Entries, Distinct, WholeInv
<1>4. /\ done \in Nat /\ rxmsg \in Entries /\ rxmsg.num \in Nat /\ done < rxmsg.num
      /\ arrived \in Nat /\ rxmsg.num <= arrived
      /\ \A e \in Entries : e.num \in Nat
  BY <1>1, EntryNumbers, DecodeType DEF WholeInv, IInv, Entries, Distinct
<1>5. SentWhole'
  <2> SUFFICES ASSUME ~overrun, NEW s \in Senders, SendingNow(s), clean[s], sending[s].here,
                      sending[s].len > ShortMax, NEW i \in 0..sending[s].len - 1, i < offset[s]
               PROVE  OwnAt(sending[s], i, arrived + 1)'
    BY <1>1 DEF SentWhole, SendingNow
  <2>1. OwnAt(sending[s], i, arrived + 1)
    BY DEF WholeInv, SentWhole
  <2>2. i \in 0..RX_BUFFER_SIZE - 1
    BY Places DEF WholeInv, IInv, TypeOK, SendingNow
  <2>3. rxmsg.num < arrived + 1
    BY <1>4
  <2>4. \A m, k : m = sending[s] /\ k = arrived + 1 => OwnAt(m, i, k)'
    BY <2>1, <2>2, <2>3, DecodeOwn
  <2>5. QED
    BY <1>1, <2>4 DEF OwnAt, Fills
<1>6. ProcessWhole'
  <2> SUFFICES ASSUME ~overrun, NEW e \in Entries, rxmsg.num < e.num, e.frame.cmd = "process",
                      e.frame.clean, e.frame.msg.here, NEW i \in 0..e.frame.msg.len - 1
               PROVE  OwnAt(e.frame.msg, i, e.num)'
    BY <1>1, <1>3 DEF ProcessWhole
  <2>1. done < e.num /\ 0 < e.num
    BY <1>4
  <2>2. OwnAt(e.frame.msg, i, e.num)
    BY <2>1 DEF WholeInv, ProcessWhole
  <2>3. e.frame.msg \in Messages
    BY <2>1 DEF WholeInv, IInv, LastFrames, Frame, TypeOK
  <2>4. i \in 0..RX_BUFFER_SIZE - 1
    BY <2>3, Places
  <2>5. QED
    BY <2>2, <2>4, DecodeOwn
<1>7. Orderly'
  <2> SUFFICES ASSUME ~overrun PROVE Orderly'
    BY <1>1 DEF Orderly
  <2>1. \A i : Waiting(i)' <=> Waiting(i)
    BY <1>1 DEF Waiting, OldestFirst, Backlog
  <2>2. ASSUME NEW i \in Slots PROVE Waiting(i) \/ frames[i].num <= rxmsg.num
    <3>1. frames[i].num \in Nat
      BY <1>4 DEF Entries
    <3>2. CASE frames[i].num <= done
      BY <1>4, <3>1, <3>2
    <3>3. CASE frames[i] = rxmsg
      BY <1>4, <3>3
    <3>4. QED
      BY <1>1, <3>2, <3>3 DEF WholeInv, Orderly
  <2>3. rxmsg.num <= rxmsg.num
    BY <1>4
  <2>4. QED
    BY <1>1, <2>1, <2>2, <2>3 DEF Orderly
<1>8. QED
  BY <1>2, <1>3, <1>5, <1>6, <1>7 DEF WholeInv

(* A buffer is handed over: nothing of it has been sent.                   *)
LEMMA StartWhole == ASSUME WholeInv, NEW s \in Senders, Start(s) PROVE WholeInv'
<1>1. /\ UNCHANGED <<slot, rxmsg, frames, read, write, arrived, overrun, pc, done, buffer>>
      /\ \A t \in Senders \ {s} : /\ sending'[t] = sending[t] /\ offset'[t] = offset[t]
                                  /\ clean'[t] = clean[t]
      /\ offset'[s] = 0
  BY DEF Start, ring, copy, WholeInv, IInv, TypeOK
<1>2. IInv'
  BY StartStep DEF WholeInv
<1>3. /\ Entries' = Entries /\ Distinct' /\ ProcessWhole'
      /\ \A m, i, k : OwnAt(m, i, k)' <=> OwnAt(m, i, k)
  BY <1>1, SameWhole DEF WholeInv
<1>4. SentWhole'
  <2>1. \A n \in Nat : \A i \in 0..n - 1 : ~(i < 0)
    OBVIOUS
  <2> SUFFICES ASSUME ~overrun, NEW t \in Senders, SendingNow(t)', clean'[t], sending'[t].here,
                      sending'[t].len > ShortMax, NEW i \in 0..sending'[t].len - 1, i < offset'[t]
               PROVE  OwnAt(sending[t]', i, arrived + 1)
    BY <1>1, <1>3 DEF SentWhole, OwnAt, Fills
  <2>2. t # s
    <3>1. sending'[t] \in Messages
      BY <1>2 DEF IInv, TypeOK, SendingNow
    <3>2. sending'[t].len \in Nat
      BY <3>1, Places
    <3>3. QED
      BY <1>1, <2>1, <3>2
  <2>3. QED
    BY <1>1, <2>2 DEF WholeInv, SentWhole, SendingNow
<1>5. Orderly'
  <2>1. \A i : Waiting(i)' <=> Waiting(i)
    BY <1>1 DEF Waiting, OldestFirst, Backlog
  <2>2. QED
    BY <1>1, <2>1 DEF WholeInv, Orderly, Fetched
<1>6. QED
  BY <1>2, <1>3, <1>4, <1>5 DEF WholeInv

(* A frame is sent.  One that gets lost takes its buffer with it.          *)
LEMMA LostWhole == ASSUME WholeInv, NEW s \in Senders, Transmit(s), Lost PROVE WholeInv'
<1>1. /\ UNCHANGED <<slot, rxmsg, frames, read, write, arrived, overrun, pc, done, buffer>>
      /\ \A t \in Senders \ {s} : /\ sending'[t] = sending[t] /\ offset'[t] = offset[t]
                                  /\ clean'[t] => clean[t]
      /\ ~clean'[s]
  BY DEF Transmit, Lost, ring, copy, WholeInv, IInv, TypeOK
<1>2. IInv'
  BY TransmitStep DEF WholeInv
<1>3. /\ Entries' = Entries /\ Distinct' /\ ProcessWhole'
      /\ \A m, i, k : OwnAt(m, i, k)' <=> OwnAt(m, i, k)
  BY <1>1, SameWhole DEF WholeInv
<1>4. SentWhole'
  <2> SUFFICES ASSUME ~overrun, NEW t \in Senders, SendingNow(t)', clean'[t], sending'[t].here,
                      sending'[t].len > ShortMax, NEW i \in 0..sending'[t].len - 1, i < offset'[t]
               PROVE  OwnAt(sending[t]', i, arrived + 1)
    BY <1>1, <1>3 DEF SentWhole, OwnAt, Fills
  <2>1. t # s
    BY <1>1
  <2>2. QED
    BY <1>1, <2>1 DEF WholeInv, SentWhole, SendingNow
<1>5. Orderly'
  <2>1. \A i : Waiting(i)' <=> Waiting(i)
    BY <1>1 DEF Waiting, OldestFirst, Backlog
  <2>2. QED
    BY <1>1, <2>1 DEF WholeInv, Orderly, Fetched
<1>6. QED
  BY <1>2, <1>3, <1>4, <1>5 DEF WholeInv

(* The entry a new frame replaces is no longer needed.                     *)
LEMMA ArriveOrderly ==
  ASSUME WholeInv, NEW f, Arrive(f), UNCHANGED <<pc, slot, rxmsg, done>>
  PROVE  /\ Orderly'
         /\ ~overrun' => (pc \in {"copy", "rest"} => slot # write)
         /\ ~overrun' => (frames[write].num <= done \/ frames[write] = rxmsg)
<1> SUFFICES ASSUME ~overrun'
             PROVE  /\ Orderly'
                    /\ (pc \in {"copy", "rest"} => slot # write)
                    /\ (frames[write].num <= done \/ frames[write] = rxmsg)
  BY DEF Orderly
<1>1. /\ read \in Slots /\ write \in Slots /\ slot \in Slots
      /\ read' = read /\ write' = Succ(write) /\ ~overrun /\ Succ(write) # read
      /\ \A i \in Slots \ {write} : frames'[i] = frames[i]
      /\ RX_FRAMES_SIZE \in Nat
  BY CanAssumption DEF Arrive, WholeInv, IInv, TypeOK
<1>2. pc \in {"copy", "rest"} => slot # write
  BY <1>1 DEF WholeInv, IInv, Ring
<1>3. /\ Backlog \in 0..RX_FRAMES_SIZE - 1
      /\ OldestFirst(Backlog) = write
  BY BacklogType DEF WholeInv, IInv
<1>4. Backlog' = Backlog + 1 /\ Backlog < RX_FRAMES_SIZE - 1
  <2>1. read \in 0..RX_FRAMES_SIZE - 1 /\ write \in 0..RX_FRAMES_SIZE - 1
    BY <1>1 DEF Slots
  <2> HIDE <1>1
  <2>2. read' = read /\ write' = Succ(write) /\ Succ(write) # read /\ RX_FRAMES_SIZE \in Nat
    BY <1>1
  <2>3. CASE write + 1 = RX_FRAMES_SIZE
    BY <2>1, <2>2, <2>3 DEF Succ, Backlog
  <2>4. CASE write + 1 # RX_FRAMES_SIZE
    BY <2>1, <2>2, <2>4 DEF Succ, Backlog
  <2>5. QED
    BY <2>3, <2>4
<1>5. ASSUME NEW i PROVE Waiting(i) \/ i = write => Waiting(i)'
  <2>1. \A k : OldestFirst(k)' = OldestFirst(k)
    BY <1>1 DEF OldestFirst
  <2>2. \A k \in 0..Backlog - 1 : k \in 0..Backlog' - 1
    BY <1>3, <1>4
  <2>3. Backlog \in 0..Backlog' - 1
    BY <1>3, <1>4
  <2>4. QED
    BY <1>3, <2>1, <2>2, <2>3 DEF Waiting
<1>6. ~Waiting(write)
  <2>1. ASSUME NEW k \in 0..Backlog - 1 PROVE OldestFirst(k) # write
    <3>1. read \in 0..RX_FRAMES_SIZE - 1 /\ write \in 0..RX_FRAMES_SIZE - 1
      BY <1>1 DEF Slots
    <3>2. RX_FRAMES_SIZE \in Nat
      BY <1>1
    <3> HIDE <1>1
    <3>3. QED
      BY <3>1, <3>2 DEF OldestFirst, Backlog
  <2>2. QED
    BY <2>1 DEF Waiting
<1>7. frames[write].num <= done \/ frames[write] = rxmsg
  BY <1>1, <1>2, <1>6 DEF WholeInv, Orderly
<1>8. Fetched' = Fetched
  BY <1>1, <1>2 DEF Fetched
<1>9. ASSUME NEW i \in Slots
      PROVE  \/ Waiting(i)'
             \/ pc \in {"copy", "rest"} /\ i = slot
             \/ frames'[i].num <= done
             \/ pc = "decode" /\ frames'[i] = rxmsg
  <2>1. CASE i = write
    BY <1>5, <2>1
  <2>2. CASE i # write
    BY <1>1, <1>5, <2>2 DEF WholeInv, Orderly
  <2>3. QED
    BY <2>1, <2>2
<1>10. Orderly'
  BY <1>1, <1>8, <1>9 DEF WholeInv, Orderly
<1>11. QED
  BY <1>2, <1>7, <1>10

LEMMA ArriveFills ==
  ASSUME WholeInv, NEW f, Arrive(f), UNCHANGED <<pc, slot, rxmsg, done>>, ~overrun',
         NEW new, new = [num |-> arrived + 1, frame |-> f]
  PROVE  /\ new \in Entries' /\ new.num = arrived + 1 /\ new.frame = f
         /\ \A e \in Entries' : e \in Entries \/ e = new
         /\ \A i, k : Fills(i, k)' = Fills(i, k) \cup
                      {e \in {new} : new.num < k /\ Covers(f, i)}
<1>1. /\ write \in Slots /\ frames \in [Slots -> Entry]
      /\ frames' = [frames EXCEPT ![write] = new] /\ rxmsg' = rxmsg /\ done' = done
  BY DEF Arrive, WholeInv, IInv, TypeOK
<1>2. /\ arrived \in Nat /\ done \in Nat /\ \A e \in Entries : e.num \in Nat
      /\ new.num = arrived + 1 /\ new.frame = f
  BY EntryNumbers DEF WholeInv, IInv
<1>3. \A e \in Entries' : e \in Entries \/ e = new
  BY <1>1 DEF Entries
<1>4. new \in Entries'
  BY <1>1 DEF Entries
<1>5. done < new.num
  <2>1. done <= arrived - Backlog /\ Backlog \in Nat
    BY BacklogType, CanAssumption DEF WholeInv, IInv, Ring
  <2>2. QED
    BY <1>2, <2>1
<1>6. ASSUME NEW e \in Entries, done < e.num PROVE e \in Entries'
  <2>1. e # frames[write] \/ e = rxmsg
    <3>1. e.num \in Nat
      BY <1>2
    <3>2. ~(e.num <= done)
      BY <1>2, <1>6, <3>1
    <3>3. frames[write].num <= done \/ frames[write] = rxmsg
      BY ArriveOrderly
    <3>4. QED
      BY <3>2, <3>3
  <2>2. QED
    BY <1>1, <2>1 DEF Entries
<1>7. ASSUME NEW i, NEW k
      PROVE  Fills(i, k)' = Fills(i, k) \cup {e \in {new} : new.num < k /\ Covers(f, i)}
  BY <1>1, <1>2, <1>3, <1>4, <1>5, <1>6 DEF Fills
<1>8. QED
  BY <1>2, <1>3, <1>4, <1>7

(* What the new frame does to the bytes that were right.                   *)
LEMMA ArriveOwn ==
  ASSUME WholeInv, NEW f, Arrive(f), UNCHANGED <<pc, slot, rxmsg, done, buffer>>, ~overrun',
         NEW m, NEW i
  PROVE  /\ \A k \in Nat : k <= arrived + 1 /\ OwnAt(m, i, k) => OwnAt(m, i, k)'
         /\ \A k \in Nat :
              k = arrived + 2 =>
                /\ ~Covers(f, i) /\ OwnAt(m, i, arrived + 1) => OwnAt(m, i, k)'
                /\ Covers(f, i) /\ f.msg = m => OwnAt(m, i, k)'
<1> DEFINE new == [num |-> arrived + 1, frame |-> f]
<1>1. /\ new \in Entries' /\ new.num = arrived + 1 /\ new.frame = f
      /\ \A k : Fills(i, k)' = Fills(i, k) \cup {e \in {new} : new.num < k /\ Covers(f, i)}
  <2> HIDE DEF new
  <2>1. new = [num |-> arrived + 1, frame |-> f]
    BY DEF new
  <2>2. QED
    BY <2>1, ArriveFills
<1>2. /\ buffer' = buffer /\ arrived \in Nat
      /\ \A e \in Entries : e.num \in Nat /\ e.num <= arrived
  BY EntryNumbers DEF WholeInv, IInv, Distinct
<1> HIDE DEF new
<1>3. ASSUME NEW k \in Nat, k <= arrived + 1, OwnAt(m, i, k) PROVE OwnAt(m, i, k)'
  <2>1. ~(new.num < k)
    BY <1>1, <1>2, <1>3
  <2>2. Fills(i, k)' = Fills(i, k)
    BY <1>1, <2>1
  <2>3. QED
    BY <1>2, <1>3, <2>2 DEF OwnAt
<1>4. ASSUME NEW k \in Nat, k = arrived + 2, ~Covers(f, i), OwnAt(m, i, arrived + 1)
      PROVE  OwnAt(m, i, k)'
  <2>1. \A e \in Entries : e.num < k /\ e.num < arrived + 1
    BY <1>2, <1>4
  <2>2. Fills(i, k) = Fills(i, arrived + 1)
    BY <2>1 DEF Fills
  <2>3. Fills(i, k)' = Fills(i, arrived + 1)
    BY <1>1, <1>4, <2>2
  <2>4. QED
    BY <1>2, <1>4, <2>3 DEF OwnAt
<1>5. ASSUME NEW k \in Nat, k = arrived + 2, Covers(f, i), f.msg = m PROVE OwnAt(m, i, k)'
  <2>1. new.num < k /\ \A e \in Entries : e.num < new.num
    BY <1>1, <1>2, <1>5
  <2>2. new \in Fills(i, k)'
    BY <1>1, <1>5, <2>1
  <2>3. \A e \in Fills(i, k)' : e = new \/ e \in Entries
    BY <1>1 DEF Fills
  <2>4. new.frame.msg.num = m.num
    BY <1>1, <1>5
  <2>5. QED
    BY <2>1, <2>2, <2>3, <2>4 DEF OwnAt
<1>6. QED
  BY <1>3, <1>4, <1>5

LEMMA ArriveDistinct == ASSUME WholeInv, NEW f, Arrive(f), UNCHANGED rxmsg PROVE Distinct'
<1> DEFINE new == [num |-> arrived + 1, frame |-> f]
<1>1. /\ write \in Slots /\ frames \in [Slots -> Entry]
      /\ frames' = [frames EXCEPT ![write] = new] /\ new.num = arrived + 1
  BY DEF Arrive, WholeInv, IInv, TypeOK
<1>2. /\ arrived' = arrived + 1 /\ arrived \in Nat
      /\ \A e \in Entries : e.num \in Nat /\ e.num <= arrived
  BY EntryNumbers DEF Arrive, WholeInv, IInv, Distinct
<1> HIDE DEF new
<1>3. \A e \in Entries' : e \in Entries \/ e = new
  BY <1>1 DEF Entries
<1>4. QED
  BY <1>1, <1>2, <1>3 DEF WholeInv, Distinct

(* The bytes a frame carries: those from its offset up to the next one.    *)
LEMMA FrameCovers ==
  ASSUME TypeOK, NEW s \in Senders, sending[s] # NoFrame, sending[s].here,
         FrameOf(s).cmd = "fill", NEW i \in 0..sending[s].len - 1, i < NextOffset(offset[s])
  PROVE  i < offset[s] \/ Covers(FrameOf(s), i)
<1> DEFINE m == sending[s]
           o == offset[s]
<1>1. m.len \in Nat /\ o \in Nat
  BY Places DEF TypeOK
<1>2. o < m.len /\ FrameOf(s) = [cmd |-> "fill", msg |-> m, at |-> o, n |-> FrameLen(o, m.len)]
  BY DEF FrameOf
<1>3. ASSUME ~(i < o) PROVE i \in o..o + FrameLen(o, m.len) - 1
  <2> HIDE DEF m, o
  <2>1. /\ i \in 0..m.len - 1 /\ i < NextOffset(o)
        /\ FillLen \in Nat /\ LongLen \in Nat /\ FillMax \in Nat
    BY CanAssumption DEF m, o
  <2>2. QED
    BY <1>1, <1>2, <1>3, <2>1 DEF FrameLen, NextOffset
<1>4. QED
  BY <1>2, <1>3 DEF Covers

(* A frame that arrives.                                                   *)
LEMMA ArriveWhole ==
  ASSUME WholeInv, NEW s \in Senders, Transmit(s), Arrive(FrameOf(s)) PROVE WholeInv'
<1> DEFINE f == FrameOf(s)
           m == sending[s]
           new == [num |-> arrived + 1, frame |-> f]
<1>1. /\ UNCHANGED <<pc, slot, rxmsg, done, buffer>> /\ sending[s] # NoFrame
      /\ arrived' = arrived + 1
      /\ \A t \in Senders \ {s} : /\ sending'[t] = sending[t] /\ offset'[t] = offset[t]
                                  /\ clean'[t] <=> clean[t] /\ f.cmd # "fill"
      /\ clean'[s] => clean[s]
      /\ f.cmd = "fill" => offset'[s] = NextOffset(offset[s]) /\ sending'[s] = sending[s]
      /\ f.cmd # "fill" => sending'[s] = NoFrame
  BY DEF Transmit, Arrive, copy, WholeInv, IInv, TypeOK
<1>2. IInv' /\ TypeOK /\ arrived \in Nat
  BY TransmitStep DEF WholeInv, IInv, TypeOK
<1>3. f \in Frames /\ f.msg = m /\ m \in Messages
  BY <1>1, <1>2, FrameType DEF TypeOK
<1>4. Orderly'
  BY <1>1, ArriveOrderly
<1>5. Distinct'
  BY <1>1, ArriveDistinct
<1> HIDE DEF f, m, new
<1>6. SentWhole'
  <2> SUFFICES ASSUME ~overrun', NEW t \in Senders, SendingNow(t)', clean'[t], sending'[t].here,
                      sending'[t].len > ShortMax, NEW i \in 0..sending'[t].len - 1,
                      i < offset'[t], NEW k \in Nat, k = arrived + 2
               PROVE  OwnAt(sending[t], i, k)'
    <3>1. arrived + 2 \in Nat /\ arrived' + 1 = arrived + 2
      BY <1>1, <1>2
    <3>2. QED
      BY <3>1, Zenon DEF SentWhole
  <2>1. ~overrun
    BY DEF Arrive
  <2>2. sending'[t] = sending[t] /\ clean[t]
    BY <1>1 DEF SendingNow
  <2>3. /\ i < offset[t] /\ ~Covers(f, i) => OwnAt(sending[t], i, arrived + 1)
        /\ f.cmd = "fill" /\ t = s => i < offset[t] \/ Covers(f, i)
    <3>1. SendingNow(t) /\ sending[t].here /\ sending[t].len > ShortMax
      BY <1>1, <2>2 DEF SendingNow
    <3>2. i < offset[t] => OwnAt(sending[t], i, arrived + 1)
      BY <2>1, <2>2, <3>1 DEF WholeInv, SentWhole
    <3>3. CASE f.cmd = "fill" /\ t = s
      <4>1. i < NextOffset(offset[s]) /\ i \in 0..sending[s].len - 1
        BY <1>1, <2>2, <3>3
      <4>2. QED
        BY <1>1, <1>2, <2>2, <3>1, <3>2, <3>3, <4>1, FrameCovers DEF f
    <3>4. QED
      BY <3>2, <3>3
  <2>4. CASE t = s
    <3>1. f.cmd = "fill"
      BY <1>1, <2>4 DEF SendingNow
    <3>2. i < offset[t] \/ Covers(f, i)
      BY <2>3, <2>4, <3>1
    <3>3. PICK o : o = sending[t]
      OBVIOUS
    <3>4. /\ f.msg = o
          /\ i < offset[t] /\ ~Covers(f, i) => OwnAt(o, i, arrived + 1)
      BY <1>3, <2>3, <2>4, <3>3 DEF m
    <3>5. OwnAt(o, i, k)'
      BY <1>1, <3>2, <3>4, ArriveOwn DEF f
    <3>6. QED
      BY <2>2, <3>3, <3>5 DEF OwnAt, Fills
  <2>5. CASE t # s
    <3>1. i < offset[t] /\ ~Covers(f, i)
      BY <1>1, <2>5 DEF Covers
    <3>2. PICK o : o = sending[t]
      OBVIOUS
    <3>3. OwnAt(o, i, arrived + 1)
      BY <2>3, <3>1, <3>2
    <3>4. OwnAt(o, i, k)'
      BY <1>1, <3>1, <3>3, ArriveOwn DEF f
    <3>5. QED
      BY <2>2, <3>2, <3>4 DEF OwnAt, Fills
  <2>6. QED
    BY <2>4, <2>5
<1>7. ProcessWhole'
  <2> SUFFICES ASSUME ~overrun', NEW e \in Entries', done < e.num, e.frame.cmd = "process",
                      e.frame.clean, e.frame.msg.here, NEW i \in 0..e.frame.msg.len - 1
               PROVE  OwnAt(e.frame.msg, i, e.num)'
    BY <1>1 DEF ProcessWhole
  <2>1. ~overrun
    BY DEF Arrive
  <2>2. e \in Entries \/ e = new
    BY <1>1, <2>1, ArriveFills, ZenonT(40) DEF f, new
  <2>3. e.num \in Nat /\ e.num <= arrived + 1
    BY <1>1, <1>2, <1>5 DEF IInv, TypeOK, Entries, Entry, Distinct
  <2>4. SUFFICES OwnAt(e.frame.msg, i, e.num)
    BY <1>1, <2>3, ArriveOwn DEF f
  <2>5. CASE e \in Entries
    BY <2>1, <2>5 DEF WholeInv, ProcessWhole
  <2>6. CASE e = new
    <3>1. /\ SendingNow(s) /\ clean[s] /\ sending[s].here /\ sending[s].len > ShortMax
          /\ ~(offset[s] < sending[s].len) /\ e.frame.msg = sending[s] /\ e.num = arrived + 1
      <4>1. f.cmd = "process" /\ f.clean /\ f.msg = sending[s] /\ e.num = arrived + 1
        BY <1>3, <2>6 DEF new, m
      <4>2. m.len \in Nat /\ ShortMax \in Nat
        BY <1>3, Places, CanAssumption
      <4>3. ~(m.len <= ShortMax) /\ ~(offset[s] < m.len) /\ f.clean = clean[s]
        BY <4>1 DEF f, m, FrameOf
      <4>4. QED
        BY <1>1, <2>6, <4>1, <4>2, <4>3 DEF SendingNow, m, new
    <3>2. i \in 0..sending[s].len - 1 /\ i < offset[s]
      <4>1. sending[s].len \in Nat /\ offset[s] \in Nat
        BY <1>2, <1>3, Places DEF m, TypeOK
      <4>2. QED
        BY <3>1, <4>1
    <3>3. QED
      BY <2>1, <3>1, <3>2 DEF WholeInv, SentWhole
  <2>7. QED
    BY <2>2, <2>5, <2>6
<1>8. QED
  BY <1>2, <1>4, <1>5, <1>6, <1>7 DEF WholeInv

LEMMA WholeInit == Init => WholeInv
<1> SUFFICES ASSUME Init PROVE WholeInv
  OBVIOUS
<1>1. IInv
  BY InitInvariant
<1>2. \A e \in Entries : e.num = 0 /\ e = Empty
  BY DEF Init, Entries, Empty
<1>3. Distinct
  BY <1>2 DEF Init, Distinct
<1>4. Orderly
  BY DEF Init, Orderly, Fetched, Empty
<1>5. SentWhole
  BY DEF Init, SentWhole, SendingNow
<1>6. ProcessWhole
  BY <1>2 DEF Init, ProcessWhole
<1>7. QED
  BY <1>1, <1>3, <1>4, <1>5, <1>6 DEF WholeInv

LEMMA WholeStep == WholeInv /\ [Next]_vars => WholeInv'
<1> SUFFICES ASSUME WholeInv, [Next]_vars PROVE WholeInv'
  OBVIOUS
<1>1. ASSUME NEW s \in Senders, Transmit(s) PROVE WholeInv'
  <2>1. Lost \/ Arrive(FrameOf(s))
    BY <1>1 DEF Transmit
  <2>2. QED
    BY <1>1, <2>1, LostWhole, ArriveWhole
<1>2. QED
  BY <1>1, StartWhole, QuietWhole, CopyWhole, DecodeWhole DEF Next, ProcessThread, Decode

(* A buffer whose frames all arrived, with no other sender's between them  *)
(* and the ring never filled up, passes the checksum: no byte of an        *)
(* earlier buffer is left in it.                                           *)
THEOREM CleanAcceptedHolds == Spec => []CleanAccepted
<1>1. WholeInv => CleanAccepted
  <2> SUFFICES ASSUME WholeInv, pc = "decode", ~overrun, rxmsg.frame.msg.here,
                      rxmsg.frame.cmd = "process", rxmsg.frame.clean
               PROVE  CrcMatches(rxmsg.frame.msg)
    BY DEF CleanAccepted, ForThis
  <2>1. rxmsg \in Entries /\ done < rxmsg.num /\ rxmsg.num = done + 1 /\ done \in Nat
    BY DecodeType, EntryNumbers DEF WholeInv, IInv, Entries, Orderly, Fetched
  <2>2. ASSUME NEW i \in 0..rxmsg.frame.msg.len - 1
        PROVE  buffer[i] = <<rxmsg.frame.msg.num, i>>
    <3>1. \A e \in Entries : ~(done < e.num /\ e.num < rxmsg.num)
      BY <2>1, EntryNumbers DEF WholeInv, IInv
    <3>2. Fills(i, rxmsg.num) = {}
      BY <3>1 DEF Fills
    <3>3. OwnAt(rxmsg.frame.msg, i, rxmsg.num)
      BY <2>1 DEF WholeInv, ProcessWhole
    <3>4. QED
      BY <3>2, <3>3 DEF OwnAt
  <2>3. QED
    BY <2>2 DEF CrcMatches, Collected, Content
<1>2. QED
  BY <1>1, WholeInit, WholeStep, PTL DEF Spec
==============================================================================

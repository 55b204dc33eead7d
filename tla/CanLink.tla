------------------------------- MODULE CanLink -------------------------------
(***************************************************************************)
(* Buffers sent over the CAN bus (comm_can.c): comm_can_send_buffer cuts   *)
(* them into frames, the read thread of the receiver puts the frames that  *)
(* arrive into the ring rx_frames, and its process thread decodes them and *)
(* puts the buffers together again.  The senders are threads of any        *)
(* controller on the bus; can_mtx is held for one frame only, so that the  *)
(* frames of different senders interleave.  can_mode is CAN_MODE_VESC and  *)
(* no callback is set.                                                     *)
(***************************************************************************)
EXTENDS Integers, Sequences

CONSTANTS
  Senders,         (* threads that send                                    *)
  IdOf,            (* the controller each of them runs on                  *)
  Lengths,         (* the lengths of the buffers that are sent             *)
  ShortMax,        (* 6, the longest buffer that fits in one frame         *)
  FillLen,         (* 7, bytes in a frame with a one byte offset           *)
  FillMax,         (* 255, the largest such offset                         *)
  LongLen,         (* 6, bytes in a frame with a two byte offset           *)
  RX_BUFFER_SIZE,
  RX_FRAMES_SIZE,
  MaxSends,        (* bound: buffers sent                                  *)
  MaxLost,         (* bound: frames that get lost                          *)
  NoFrame

ASSUME CanAssumption ==
  /\ {ShortMax, FillLen, FillMax, LongLen, RX_BUFFER_SIZE, MaxSends, MaxLost} \subseteq Nat
  /\ FillLen > 0 /\ LongLen > 0
  /\ RX_FRAMES_SIZE \in Nat \ {0, 1}
  /\ Lengths \subseteq 1..RX_BUFFER_SIZE
  /\ IdOf \in [Senders -> Nat]

VARIABLES
  sending,    \* the buffer each sender is in comm_can_send_buffer with
  lost,       \* number of frames that got lost on the way
  offset,     \* i, the offset of its next frame
  clean,      \* nothing has happened to that buffer so far
  readPc,     \* where cancom_read_thread is
  frames,     \* rx_frames
  read,       \* rx_frame_read
  write,      \* rx_frame_write
  event,      \* event flag 1 of the process thread
  pc,         \* where the process thread is
  slot,       \* the frame comm_can_get_rx_frame returned a pointer to
  head,       \* what that slot held when its copy was begun
  rxmsg,      \* and when it was done: the copy
  torn,       \* the copy is half of the one and half of the other
  buffer,     \* rx_buffer: each byte as the buffer it is from and its place in it
  lastId,     \* rx_buffer_last_id
  sends,      \* number of buffers sent so far
  submitted,  \* the buffers
  delivered,  \* those that reached the commands of this controller, in order
  arrived,    \* number of frames put into the ring
  done,       \* number of the last frame that was decoded
  overrun     \* the ring has been filled up

sender == <<sending, offset, clean, lost>>
ring == <<frames, read, write, arrived, overrun>>
inout == <<sends, submitted, delivered>>
copy == <<slot, head, rxmsg, torn>>
vars == <<sender, readPc, ring, event, pc, copy, buffer, lastId, inout, done>>

Slots == 0..RX_FRAMES_SIZE - 1
(* Bytes are told apart by where they come from.                           *)
Content(m) == [i \in 0..m.len - 1 |-> <<m.num, i>>]
Empty == [num |-> 0, frame |-> NoFrame]

Init ==
  /\ sending = [s \in Senders |-> NoFrame]
  /\ offset = [s \in Senders |-> 0]
  /\ clean = [s \in Senders |-> FALSE] /\ lost = 0
  /\ readPc = "wait"
  /\ frames = [i \in Slots |-> Empty]
  /\ read = 0 /\ write = 0 /\ arrived = 0 /\ overrun = FALSE
  /\ event = FALSE /\ pc = "wait"
  /\ slot = 0 /\ head = Empty /\ rxmsg = Empty /\ torn = FALSE
  /\ buffer = [i \in 0..RX_BUFFER_SIZE - 1 |-> NoFrame] /\ lastId = 0
  /\ sends = 0 /\ submitted = {} /\ delivered = <<>> /\ done = 0

-----------------------------------------------------------------------------
(* comm_can_send_buffer.                                                   *)

Start(s) ==
  /\ sending[s] = NoFrame /\ sends < MaxSends
  /\ \E n \in Lengths, here \in BOOLEAN :
       LET m == [num |-> sends + 1, id |-> IdOf[s], len |-> n, here |-> here]
       IN /\ sending' = [sending EXCEPT ![s] = m]
          /\ submitted' = submitted \cup {m}
  /\ sends' = sends + 1
  /\ UNCHANGED lost
  /\ offset' = [offset EXCEPT ![s] = 0]
  /\ clean' = [clean EXCEPT ![s] = \A t \in Senders \ {s} : sending[t] = NoFrame]
  /\ UNCHANGED <<readPc, ring, event, pc, copy, buffer, lastId, delivered,
                 done>>

FrameLenShort(i, n) ==   \* mutant: the last frame of a buffer is a byte short
  IF i + FillLen <= n THEN FillLen ELSE n - i - 1

FrameLen(i, n) ==
  LET full == IF i <= FillMax THEN FillLen ELSE LongLen
  IN IF i + full <= n THEN full ELSE n - i

NextOffset(i) == IF i <= FillMax THEN i + FillLen ELSE i + LongLen

FrameOf(s) ==
  LET m == sending[s]
      i == offset[s]
  IN IF m.len <= ShortMax THEN [cmd |-> "short", msg |-> m]
     ELSE IF i < m.len THEN [cmd |-> "fill", msg |-> m, at |-> i, n |-> FrameLen(i, m.len)]
     ELSE [cmd |-> "process", msg |-> m, clean |-> clean[s]]

SuccOn(i) == i + 1   \* mutant: the index does not wrap

Succ(i) == IF i + 1 = RX_FRAMES_SIZE THEN 0 ELSE i + 1

(* cancom_read_thread preempts the other threads to put a frame that       *)
(* arrives into the ring.  A full ring is not noticed: it looks empty.     *)
Arrive(f) ==
  /\ readPc = "wait" /\ readPc' = "signal"
  /\ frames' = [frames EXCEPT ![write] = [num |-> arrived + 1, frame |-> f]]
  /\ write' = Succ(write)
  /\ arrived' = arrived + 1
  /\ overrun' = (overrun \/ Succ(write) = read)
  /\ UNCHANGED read

(* canTransmit gives up after 5 ms; a frame can get lost on the bus too.   *)
Lost ==
  /\ lost < MaxLost
  /\ lost' = lost + 1
  /\ UNCHANGED <<readPc, ring>>

(* comm_can_transmit_eid_replace of one frame.                             *)
Transmit(s) ==
  /\ sending[s] # NoFrame
  /\ LET f == FrameOf(s) IN
     /\ (Arrive(f) /\ UNCHANGED lost) \/ Lost
     /\ clean' = [t \in Senders |->
                    IF t = s THEN clean[s] /\ arrived' # arrived
                    ELSE clean[t] /\ f.cmd # "fill"]
     /\ IF f.cmd = "fill"
        THEN offset' = [offset EXCEPT ![s] = NextOffset(@)] /\ UNCHANGED sending
        ELSE sending' = [sending EXCEPT ![s] = NoFrame] /\ UNCHANGED offset
  /\ UNCHANGED <<event, pc, copy, buffer, lastId, inout, done>>

ReadNoSignal ==   \* mutant: the process thread is woken by the first frame only
  /\ readPc = "signal"
  /\ event' = (event \/ arrived = 1)
  /\ readPc' = "wait"
  /\ UNCHANGED <<sender, ring, pc, copy, buffer, lastId, inout, done>>

ReadSignal ==
  /\ readPc = "signal"
  /\ event' = TRUE
  /\ readPc' = "wait"
  /\ UNCHANGED <<sender, ring, pc, copy, buffer, lastId, inout, done>>

-----------------------------------------------------------------------------
(* cancom_process_thread with comm_can_get_rx_frame.                       *)

Wake ==
  /\ pc = "wait" /\ event
  /\ event' = FALSE
  /\ pc' = "get"
  /\ UNCHANGED <<sender, readPc, ring, copy, buffer, lastId, inout, done>>

GetFrameStay ==   \* mutant: rx_frame_read is not advanced
  /\ pc = "get" /\ read # write
  /\ slot' = read
  /\ pc' = "copy"
  /\ UNCHANGED <<sender, readPc, ring, event, head, rxmsg, torn, buffer, lastId, inout,
                 done>>

GetFrame ==
  /\ pc = "get" /\ read # write
  /\ slot' = read
  /\ read' = Succ(read)
  /\ pc' = "copy"
  /\ UNCHANGED <<sender, readPc, frames, write, arrived, overrun, event, head, rxmsg,
                 torn, buffer, lastId, inout, done>>

GetNone ==
  /\ pc = "get" /\ read = write
  /\ pc' = "wait"
  /\ UNCHANGED <<sender, readPc, ring, event, copy, buffer, lastId, inout, done>>

(* The frame is copied word by word without the mutex, and the read thread *)
(* can put another frame into the slot meanwhile.  If the two differ in the*)
(* data only, a copy cut before the data is all of the later one.          *)
CopyHead ==
  /\ pc = "copy"
  /\ head' = frames[slot]
  /\ pc' = "rest"
  /\ UNCHANGED <<sender, readPc, ring, event, slot, rxmsg, torn, buffer, lastId, inout, done>>

Header(f) ==
  <<f.cmd, f.msg.here, CASE f.cmd = "fill" -> f.n
                         [] f.cmd = "short" -> f.msg.len
                         [] f.cmd = "process" -> 0>>

CopyRest ==
  /\ pc = "rest"
  /\ rxmsg' = frames[slot]
  /\ \/ torn' = (frames[slot] # head)
     \/ Header(frames[slot].frame) = Header(head.frame) /\ torn' = FALSE
  /\ pc' = "decode"
  /\ UNCHANGED <<sender, readPc, ring, event, slot, head, buffer, lastId, inout, done>>

(* decode_msg.  Buffers for other controllers than this one (or for all)   *)
(* are left alone.                                                         *)
ForThis(f) == f.msg.here

Finish ==
  /\ done' = rxmsg.num
  /\ head' = Empty /\ torn' = FALSE
  /\ pc' = "get"
  /\ UNCHANGED <<sender, readPc, ring, event, slot, rxmsg, sends, submitted>>

DecodeOther ==
  /\ pc = "decode" /\ ~torn /\ ~ForThis(rxmsg.frame)
  /\ UNCHANGED <<buffer, lastId, delivered>>
  /\ Finish

DecodeFill ==
  /\ pc = "decode" /\ ~torn
  /\ LET f == rxmsg.frame IN
     /\ ForThis(f) /\ f.cmd = "fill"
     /\ buffer' = [i \in DOMAIN buffer |->
                     IF i \in f.at..f.at + f.n - 1 THEN <<f.msg.num, i>> ELSE buffer[i]]
  /\ UNCHANGED <<lastId, delivered>>
  /\ Finish

(* A buffer that reaches the commands: who is answered, and its bytes.     *)
Deliver(m, id, content) ==
  delivered' = Append(delivered, [num |-> m.num, id |-> id, content |-> content])

Junk(id) == [num |-> 0, id |-> id, content |-> NoFrame]

Collected(n) == [i \in 0..n - 1 |-> buffer[i]]

(* The checksum is taken to tell any two contents apart.                   *)
CrcMatches(m) == Collected(m.len) = Content(m)

DecodeProcessNoCrc ==   \* mutant: the checksum is not compared
  /\ pc = "decode" /\ ~torn
  /\ LET m == rxmsg.frame.msg IN
     /\ ForThis(rxmsg.frame) /\ rxmsg.frame.cmd = "process"
     /\ lastId' = m.id
     /\ Deliver(m, lastId', Collected(m.len))
  /\ UNCHANGED buffer
  /\ Finish

DecodeProcess ==
  /\ pc = "decode" /\ ~torn
  /\ LET m == rxmsg.frame.msg IN
     /\ ForThis(rxmsg.frame) /\ rxmsg.frame.cmd = "process"
     /\ lastId' = m.id
     /\ IF CrcMatches(m) THEN Deliver(m, lastId', Collected(m.len)) ELSE UNCHANGED delivered
  /\ UNCHANGED buffer
  /\ Finish

DecodeShort ==
  /\ pc = "decode" /\ ~torn
  /\ LET m == rxmsg.frame.msg IN
     /\ ForThis(rxmsg.frame) /\ rxmsg.frame.cmd = "short"
     /\ lastId' = m.id
     /\ Deliver(m, lastId', Content(m))
  /\ UNCHANGED buffer
  /\ Finish

(* What a torn copy says and the bytes it carries belong to two frames: the*)
(* bytes, the offset and the controller to be answered can be any.  A short*)
(* buffer has no checksum, and that of a long one does not cover who sent  *)
(* it.                                                                     *)
DecodeTorn ==
  /\ pc = "decode" /\ torn
  /\ \E f \in {head.frame, rxmsg.frame} :
       \/ ~ForThis(f) /\ UNCHANGED <<buffer, lastId, delivered>>
       \/ /\ ForThis(f) /\ f.cmd = "fill"
          /\ \E at \in DOMAIN buffer, n \in 1..FillLen :
               buffer' = [i \in DOMAIN buffer |->
                            IF i \in at..at + n - 1 THEN NoFrame ELSE buffer[i]]
          /\ UNCHANGED <<lastId, delivered>>
       \/ /\ ForThis(f) /\ f.cmd # "fill"
          /\ \E s \in Senders : lastId' = IdOf[s]
          /\ delivered' = delivered \/ delivered' = Append(delivered, Junk(lastId'))
          /\ UNCHANGED buffer
  /\ Finish

ProcessThread ==
  \/ Wake \/ GetFrame \/ GetNone \/ CopyHead \/ CopyRest
  \/ DecodeOther \/ DecodeFill \/ DecodeProcess \/ DecodeShort \/ DecodeTorn

-----------------------------------------------------------------------------
Next ==
  \/ \E s \in Senders : Start(s) \/ Transmit(s)
  \/ ReadSignal \/ ProcessThread

(* The threads of the receiver get their turns; whether and when a buffer  *)
(* is sent is nobody's duty.                                               *)
Fairness == WF_vars(ReadSignal) /\ WF_vars(ProcessThread)

Spec == Init /\ [][Next]_vars /\ Fairness

-----------------------------------------------------------------------------
(* Properties.                                                             *)

Messages ==
  [num : 1..MaxSends, id : {IdOf[s] : s \in Senders}, len : Lengths, here : BOOLEAN]

Frames ==
  [cmd : {"short"}, msg : Messages]
    \cup [cmd : {"fill"}, msg : Messages, at : Nat, n : Nat]
    \cup [cmd : {"process"}, msg : Messages, clean : BOOLEAN]
Entry == [num : Nat, frame : Frames \cup {NoFrame}]

TypeOK ==
  /\ sending \in [Senders -> Messages \cup {NoFrame}]
  /\ offset \in [Senders -> Nat] /\ clean \in [Senders -> BOOLEAN]
  /\ readPc \in {"wait", "signal"} /\ pc \in {"wait", "get", "copy", "rest", "decode"}
  /\ frames \in [Slots -> Entry] /\ head \in Entry /\ rxmsg \in Entry /\ torn \in BOOLEAN
  /\ submitted \subseteq Messages
  /\ buffer \in [0..RX_BUFFER_SIZE - 1 -> (Nat \X Nat) \cup {NoFrame}]
  /\ read \in Slots /\ write \in Slots /\ slot \in Slots
  /\ arrived \in Nat /\ done \in Nat /\ lastId \in Nat /\ lost \in Nat
  /\ sends \in 0..MaxSends /\ event \in BOOLEAN /\ overrun \in BOOLEAN

Backlog == IF read <= write THEN write - read ELSE write + RX_FRAMES_SIZE - read
OldestFirst(k) == IF read + k < RX_FRAMES_SIZE THEN read + k ELSE read + k - RX_FRAMES_SIZE

(* The number of the frame that was fetched last.                          *)
Fetched ==
  IF pc \in {"copy", "rest"} THEN frames[slot].num ELSE IF pc = "decode" THEN rxmsg.num ELSE done

(* Frames are decoded in the order they arrived and none of them twice,    *)
(* even when the ring is filled up, or overtakes the copy of a frame.  As  *)
(* long as it has not been filled up none is missed either: what is unread *)
(* are the frames after the last one fetched.  The ring is written and     *)
(* read by two threads (cancom_read_thread, comm_can_get_rx_frame), and    *)
(* the copy is made without the mutex.                                     *)
Fresh == pc = "decode" => rxmsg.num > done

NoneMissed ==
  ~overrun =>
    /\ arrived = Fetched + Backlog
    /\ \A k \in 0..Backlog - 1 : frames[OldestFirst(k)].num = Fetched + k + 1

InOrder == Fresh /\ NoneMissed

(* A buffer is put together if none of its frames got lost, no other       *)
(* sender's frames came between them and the ring was not filled up: the   *)
(* frames of comm_can_send_buffer cover the whole of it, and what decode_msg *)
(* finds in rx_buffer from earlier buffers does no harm.                   *)
CleanAccepted ==
  pc = "decode" /\ ~overrun =>
    LET f == rxmsg.frame
    IN ForThis(f) /\ f.cmd = "process" /\ f.clean => CrcMatches(f.msg)

(* What reaches the commands has been sent, by the controller that will be *)
(* answered, unchanged and once, whatever frames get lost and however the  *)
(* frames of several senders mix in rx_buffer, with one exception: a copy  *)
(* that the read thread tore, which it can do only once the ring has been  *)
(* filled up, lets through at most one buffer that nobody sent.            *)
Sent(m) == [num |-> m.num, id |-> m.id, content |-> Content(m)]
Buffers == {Sent(m) : m \in Messages}

Link == INSTANCE MessageLink WITH
  Message <- Buffers,
  Spoilt <- {Junk(IdOf[s]) : s \in Senders},
  submitted <- {Sent(m) : m \in submitted}
IsLink == Link!Spec

(* No wake-up gets lost between the two threads: frames in the ring are    *)
(* fetched, all of them, and the ring is empty again and again.            *)
AllFetched == []<>(read = write)
=============================================================================

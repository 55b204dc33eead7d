------------------------------- MODULE Commands -------------------------------
(***************************************************************************)
(* The command processor (commands.c).  The thread of every interface      *)
(* calls commands_process_packet for the packets it receives; all of them  *)
(* have the same priority, so that one preempts another at any point when  *)
(* its time is up.  They share send_func, send_func_can_fwd,               *)
(* send_buffer_global and the buffer of the blocking thread, which         *)
(* executes the long commands.  Packets are told apart by their number,    *)
(* and so are the data of the replies.                                     *)
(***************************************************************************)
EXTENDS Integers, Sequences, FiniteSets

CONSTANTS
  Wired,        (* interfaces with one end: USB, UART                      *)
  Can,          (* the CAN bus                                             *)
  Peers,        (* the controllers on it                                   *)
  NoFunc,       (* a null pointer                                          *)
  SendPacket,   (* commands_send_packet                                    *)
  NoPacket,
  MaxPackets    (* bound: packets received                                 *)

Nobody == "nobody"

ASSUME CommandsAssumption ==
  /\ MaxPackets \in Nat
  /\ {Can, NoFunc, SendPacket} \cap (Wired \cup Peers) = {}
  /\ Wired \cap Peers = {} /\ Nobody \notin Wired \cup {Can}
  /\ Can # NoFunc /\ Can # SendPacket /\ SendPacket # NoFunc

Ifaces == Wired \cup {Can}
(* The functions that send through an interface are named like it.         *)
Funcs == Ifaces \cup {NoFunc, SendPacket}

VARIABLES
  received,     \* number of packets received
  pc,           \* where the thread of each interface is
  packet,       \* the packet it processes
  replyFunc,    \* its reply_func
  lastId,       \* rx_buffer_last_id
  sendFunc,     \* send_func
  fwdFunc,      \* send_func_can_fwd
  bufferOwner,  \* the owner of send_buffer_mutex
  sendBuffer,   \* send_buffer_global
  termOwner,    \* the owner of terminal_mutex
  isBlocking,   \* is_blocking
  cmdBuffer,    \* blocking_thread_cmd_buffer
  blockingFunc, \* send_func_blocking
  event,        \* the event flag of the blocking thread
  bpc,          \* where the blocking thread is
  running,      \* the command it took from the buffer
  answers,      \* the replies sent: to which packet, to whom, with which data
  forwarded,    \* the packet that was forwarded last
  raced         \* a command was stored before the blocking thread was through

dispatch == <<pc, packet, replyFunc>>
funcs == <<sendFunc, fwdFunc>>
mutexes == <<bufferOwner, termOwner>>
blocking == <<isBlocking, cmdBuffer, blockingFunc, event>>
thread == <<bpc, running>>
history == <<answers, forwarded, raced>>
vars == <<received, dispatch, lastId, funcs, mutexes, sendBuffer, blocking,
          thread, history>>

BlockingThread == "blocking_thread"

Init ==
  /\ received = 0
  /\ pc = [i \in Ifaces |-> "idle"]
  /\ packet = [i \in Ifaces |-> NoPacket]
  /\ replyFunc = [i \in Ifaces |-> NoFunc]
  /\ lastId = Nobody
  /\ sendFunc = NoFunc /\ fwdFunc = NoFunc /\ blockingFunc = NoFunc
  /\ bufferOwner = Nobody /\ termOwner = Nobody
  /\ sendBuffer = NoPacket /\ cmdBuffer = NoPacket
  /\ isBlocking = FALSE /\ event = FALSE
  /\ bpc = "wait" /\ running = NoPacket
  /\ answers = <<>> /\ forwarded = NoPacket /\ raced = FALSE

(* What is sent through a function, last being rx_buffer_last_id: to whom  *)
(* it goes, if to anybody.                                                 *)
EndOf(f, last) == IF f = Can THEN last ELSE f

Send(f, p, data, last) ==
  LET g == IF f = SendPacket THEN sendFunc ELSE f
  IN answers' = IF g = NoFunc THEN answers
                ELSE Append(answers, [packet |-> p, to |-> EndOf(g, last), data |-> data])

-----------------------------------------------------------------------------
(* A packet comes in.  From the CAN bus it may come with the request not   *)
(* to reply (quiet), and a reply to what has been forwarded comes from     *)
(* there too.  The sender of a CAN packet is noted before its checksum is  *)
(* looked at (decode_msg).                                                 *)

(* What can be asked: values, the configuration, forwarding, a terminal    *)
(* command executed at once or by the blocking thread.  The other commands *)
(* with a reply are like the first, without the buffer and its mutex, the  *)
(* other blocking ones like the last, without terminal_mutex.              *)
Kinds == {"values", "mcconf", "forward", "termSync", "terminal"}

Packets(i) ==
  [num : {received + 1}, iface : {i}, from : IF i = Can THEN Peers ELSE {i},
   kind : Kinds, quiet : IF i = Can THEN BOOLEAN ELSE {FALSE},
   alone : {\A j \in Ifaces \ {i} : pc[j] = "idle"}]

(* A packet is alone as long as no other interface processes one.          *)
WithOthers(j) == IF pc[j] = "idle" THEN packet[j] ELSE [packet[j] EXCEPT !.alone = FALSE]

Receive(i) ==
  /\ pc[i] = "idle" /\ received < MaxPackets
  /\ received' = received + 1
  /\ \E p \in Packets(i) :
       /\ packet' = [j \in Ifaces |-> IF j = i THEN p ELSE WithOthers(j)]
       /\ lastId' = IF i = Can THEN p.from ELSE lastId
  /\ pc' = [pc EXCEPT ![i] = "send"]
  /\ UNCHANGED <<replyFunc, funcs, mutexes, sendBuffer, blocking, thread, history>>

ReceiveBad ==
  /\ pc[Can] = "idle" /\ received < MaxPackets
  /\ received' = received + 1
  /\ \E id \in Peers : lastId' = id
  /\ UNCHANGED <<dispatch, funcs, mutexes, sendBuffer, blocking, thread, history>>

(* commands_send_packet_can_last; its sender is rx_buffer_last_id by now.  *)
ReceiveReply ==
  /\ pc[Can] = "idle" /\ received < MaxPackets
  /\ forwarded # NoPacket
  /\ received' = received + 1
  /\ \E id \in Peers : lastId' = id /\ Send(fwdFunc, forwarded, received', id)
  /\ UNCHANGED <<dispatch, funcs, mutexes, sendBuffer, blocking, thread,
                 forwarded, raced>>

-----------------------------------------------------------------------------
(* commands_process_packet.                                                *)

Goto(i, here, there) == pc[i] = here /\ pc' = [pc EXCEPT ![i] = there]

(* One step of the function, and its return.                               *)
Step(i, here, there) == Goto(i, here, there) /\ UNCHANGED <<packet, replyFunc>>

Return(i, here) ==
  /\ Goto(i, here, "idle")
  /\ packet' = [packet EXCEPT ![i] = NoPacket]
  /\ replyFunc' = [replyFunc EXCEPT ![i] = NoFunc]

SetSendFuncLate(i) ==   \* mutant: send_func is set after the null pointer was replaced
  /\ Goto(i, "send", IF fwdFunc = NoFunc THEN "setFwd" ELSE "switch")
  /\ replyFunc' = [replyFunc EXCEPT ![i] = IF packet[i].quiet THEN SendPacket ELSE i]
  /\ sendFunc' = replyFunc'[i]
  /\ UNCHANGED <<received, packet, lastId, fwdFunc, mutexes, sendBuffer, blocking,
                 thread, history>>

SetSendFuncKeep(i) ==   \* mutant: a null pointer is not stored
  /\ Goto(i, "send", IF fwdFunc = NoFunc THEN "setFwd" ELSE "switch")
  /\ sendFunc' = IF packet[i].quiet THEN sendFunc ELSE i
  /\ replyFunc' = [replyFunc EXCEPT ![i] = IF packet[i].quiet THEN SendPacket ELSE i]
  /\ UNCHANGED <<received, packet, lastId, fwdFunc, mutexes, sendBuffer, blocking,
                 thread, history>>

SetSendFunc(i) ==
  /\ Goto(i, "send", IF fwdFunc = NoFunc THEN "setFwd" ELSE "switch")
  /\ sendFunc' = IF packet[i].quiet THEN NoFunc ELSE i
  /\ replyFunc' = [replyFunc EXCEPT ![i] = IF packet[i].quiet THEN SendPacket ELSE i]
  /\ UNCHANGED <<received, packet, lastId, fwdFunc, mutexes, sendBuffer, blocking,
                 thread, history>>

(* send_func_can_fwd is set if it was null when it was tested.             *)
SetFwd(i) ==
  /\ Step(i, "setFwd", "switch")
  /\ fwdFunc' = replyFunc[i]
  /\ UNCHANGED <<received, lastId, sendFunc, mutexes, sendBuffer,
                 blocking, thread, history>>

Case(i, kind) == pc[i] = "switch" /\ packet[i].kind = kind

LockNot(i) ==   \* mutant: send_buffer_mutex is not locked
  /\ (Case(i, "values") \/ Case(i, "mcconf")) /\ Step(i, "switch", "fill")
  /\ bufferOwner' = i
  /\ UNCHANGED <<received, lastId, funcs, termOwner, sendBuffer,
                 blocking, thread, history>>

(* A reply from send_buffer_global under its mutex: COMM_GET_VALUES sends  *)
(* it through reply_func, commands_send_mcconf through send_func.          *)
LockBuffer(i) ==
  /\ (Case(i, "values") \/ Case(i, "mcconf")) /\ Step(i, "switch", "fill")
  /\ bufferOwner = Nobody
  /\ bufferOwner' = i
  /\ UNCHANGED <<received, lastId, funcs, termOwner, sendBuffer,
                 blocking, thread, history>>

FillBuffer(i) ==
  /\ Step(i, "fill", "reply")
  /\ sendBuffer' = packet[i].num
  /\ UNCHANGED <<received, lastId, funcs, mutexes, blocking,
                 thread, history>>

ReplyUnlock(i) ==
  /\ Return(i, "reply")
  /\ Send(IF packet[i].kind = "values" THEN replyFunc[i] ELSE SendPacket, packet[i], sendBuffer,
          lastId)
  /\ bufferOwner' = Nobody
  /\ UNCHANGED <<received, lastId, funcs, termOwner, sendBuffer, blocking, thread,
                 forwarded, raced>>

(* COMM_FORWARD_CAN                                                        *)
Forward(i) ==
  /\ Case(i, "forward") /\ Return(i, "switch")
  /\ fwdFunc' = replyFunc[i]
  /\ forwarded' = packet[i]
  /\ UNCHANGED <<received, lastId, sendFunc, mutexes, sendBuffer,
                 blocking, thread, answers, raced>>

(* COMM_TERMINAL_CMD_SYNC: what it prints goes where the blocking thread   *)
(* sends (commands_printf).                                                *)
LockTerminal(i) ==
  /\ Case(i, "termSync") /\ Step(i, "switch", "print")
  /\ termOwner = Nobody
  /\ termOwner' = i
  /\ UNCHANGED <<received, lastId, funcs, bufferOwner, sendBuffer,
                 blocking, thread, history>>

PrintUnlock(i) ==
  /\ Return(i, "print")
  /\ Send(blockingFunc, packet[i], packet[i].num, lastId)
  /\ termOwner' = Nobody
  /\ UNCHANGED <<received, lastId, funcs, bufferOwner, sendBuffer,
                 blocking, thread, forwarded, raced>>

(* A blocking command: is_blocking is tested, then set.                    *)
TestBlocking(i) ==
  /\ Case(i, "terminal")
  /\ IF isBlocking THEN Return(i, "switch") ELSE Step(i, "switch", "store")
  /\ UNCHANGED <<received, lastId, funcs, mutexes, sendBuffer,
                 blocking, thread, history>>

(* Threads between the test and the signal, and the blocking thread.       *)
Storing(i) == pc[i] \in {"store", "block", "signal"}

StoreCommand(i) ==
  /\ Step(i, "store", "block")
  /\ cmdBuffer' = packet[i]
  /\ raced' = \/ raced \/ event \/ bpc # "wait"
              \/ \E j \in Ifaces \ {i} : Storing(j)
  /\ UNCHANGED <<received, lastId, funcs, mutexes, sendBuffer,
                 isBlocking, blockingFunc, event, thread, answers, forwarded>>

SetBlocking(i) ==
  /\ Step(i, "block", "signal")
  /\ isBlocking' = TRUE
  /\ UNCHANGED <<received, lastId, funcs, mutexes, sendBuffer,
                 cmdBuffer, blockingFunc, event, thread, history>>

SignalLast(i) ==   \* mutant: the reply goes to whoever sent the last packet
  /\ Return(i, "signal")
  /\ blockingFunc' = SendPacket
  /\ event' = TRUE
  /\ UNCHANGED <<received, lastId, funcs, mutexes, sendBuffer, isBlocking, cmdBuffer,
                 thread, history>>

SignalBlocking(i) ==
  /\ Return(i, "signal")
  /\ blockingFunc' = replyFunc[i]
  /\ event' = TRUE
  /\ UNCHANGED <<received, lastId, funcs, mutexes, sendBuffer, isBlocking, cmdBuffer,
                 thread, history>>

Process(i) ==
  \/ SetSendFunc(i) \/ SetFwd(i)
  \/ Forward(i)
  \/ LockBuffer(i) \/ FillBuffer(i) \/ ReplyUnlock(i)
  \/ LockTerminal(i) \/ PrintUnlock(i)
  \/ TestBlocking(i) \/ StoreCommand(i) \/ SetBlocking(i) \/ SignalBlocking(i)

-----------------------------------------------------------------------------
(* blocking_thread.                                                        *)

BWake ==
  /\ bpc = "wait" /\ event
  /\ event' = FALSE
  /\ running' = cmdBuffer
  /\ bpc' = "start"
  /\ UNCHANGED <<received, dispatch, lastId, funcs, mutexes, sendBuffer, isBlocking,
                 cmdBuffer, blockingFunc, history>>

BStart ==
  /\ bpc = "start" /\ bpc' = "reply"
  /\ termOwner = Nobody /\ termOwner' = BlockingThread
  /\ UNCHANGED <<received, dispatch, lastId, funcs, bufferOwner, sendBuffer, blocking,
                 running, history>>

(* The parameters are still read from the buffer.                          *)
BReply ==
  /\ bpc = "reply" /\ bpc' = "free"
  /\ Send(blockingFunc, running, cmdBuffer.num, lastId)
  /\ termOwner' = Nobody
  /\ UNCHANGED <<received, dispatch, lastId, funcs, bufferOwner, sendBuffer, blocking,
                 running, forwarded, raced>>

BFreeNot ==   \* mutant: is_blocking is set to false before the loop only
  /\ bpc = "free" /\ bpc' = "wait"
  /\ running' = NoPacket
  /\ UNCHANGED <<received, dispatch, lastId, funcs, mutexes, sendBuffer, blocking, history>>

BFree ==
  /\ bpc = "free" /\ bpc' = "wait"
  /\ isBlocking' = FALSE
  /\ running' = NoPacket
  /\ UNCHANGED <<received, dispatch, lastId, funcs, mutexes, sendBuffer, cmdBuffer,
                 blockingFunc, event, history>>

Blocking == BWake \/ BStart \/ BReply \/ BFree

-----------------------------------------------------------------------------
Next ==
  \/ \E i \in Ifaces : Receive(i) \/ Process(i)
  \/ ReceiveBad \/ ReceiveReply
  \/ Blocking

(* The threads are scheduled in turns, and a mutex goes to the thread that *)
(* has waited longest.                                                     *)
Fairness == (\A i \in Ifaces : WF_vars(Process(i))) /\ WF_vars(Blocking)

Spec == Init /\ [][Next]_vars /\ Fairness

-----------------------------------------------------------------------------
(* Properties.                                                             *)

AnyPacket ==
  [num : 1..MaxPackets, iface : Ifaces, from : Wired \cup Peers, kind : Kinds,
   quiet : BOOLEAN, alone : BOOLEAN]

Places ==
  {"idle", "send", "setFwd", "switch", "fill", "reply", "print", "store", "block", "signal"}

Answer ==
  [packet : AnyPacket \cup {NoPacket}, to : Wired \cup Peers \cup {Nobody},
   data : 1..MaxPackets]

TypeOK ==
  /\ received \in 0..MaxPackets /\ pc \in [Ifaces -> Places]
  /\ packet \in [Ifaces -> AnyPacket \cup {NoPacket}]
  /\ replyFunc \in [Ifaces -> Funcs] /\ lastId \in Peers \cup {Nobody}
  /\ sendFunc \in Ifaces \cup {NoFunc} /\ {fwdFunc, blockingFunc} \subseteq Funcs
  /\ bufferOwner \in Ifaces \cup {Nobody} /\ termOwner \in Ifaces \cup {Nobody, BlockingThread}
  /\ sendBuffer \in 1..MaxPackets \cup {NoPacket}
  /\ {cmdBuffer, running, forwarded} \subseteq AnyPacket \cup {NoPacket}
  /\ {isBlocking, event, raced} \subseteq BOOLEAN
  /\ bpc \in {"wait", "start", "reply", "free"}
  /\ answers \in Seq(Answer)

Sent == {answers[k] : k \in DOMAIN answers}

(* A packet that asks for a reply through reply_func gets its own data,    *)
(* sent to the end it came from, whatever the threads of the other         *)
(* interfaces do with send_func, rx_buffer_last_id and send_buffer_global. *)
AnswersOwn ==
  \A a \in Sent : a.packet.kind = "values" /\ ~a.packet.quiet =>
    a.to = a.packet.from /\ a.data = a.packet.num

(* What goes through the shared pointers reaches the right end if no other *)
(* interface's thread comes in between: the reply with the configuration,  *)
(* which goes through send_func and has the right data always, what comes  *)
(* back from the bus to the end that has forwarded last, and nothing to a  *)
(* packet that wants no reply.                                             *)
AloneOwn ==
  \A a \in Sent :
    /\ a.packet.kind = "mcconf" =>
         /\ a.data = a.packet.num
         /\ a.packet.alone /\ ~a.packet.quiet => a.to = a.packet.from
    /\ a.packet.kind \in {"values", "mcconf"} /\ a.packet.quiet => ~a.packet.alone
    /\ a.packet.kind = "forward" /\ a.packet.iface \in Wired /\ a.packet.alone =>
         a.to = a.packet.from

(* Unless a second command was stored while the first one was on its way,  *)
(* the blocking thread replies to the interface the command came from,     *)
(* with data of that command, once.                                        *)
EndsOf(i) == IF i = Can THEN Peers ELSE {i}
AnswersTo(p) == {k \in DOMAIN answers : answers[k].packet = p}

BlockingOwn ==
  ~raced =>
    \A a \in Sent : a.packet.kind = "terminal" =>
      /\ Cardinality(AnswersTo(a.packet)) = 1
      /\ a.data = a.packet.num
      /\ ~a.packet.quiet => a.to \in EndsOf(a.packet.iface)

(* The blocking thread always becomes free again: also when two threads    *)
(* have raced to it, and no terminal command waits for another one for     *)
(* ever.                                                                   *)
BlockingEnds == [](isBlocking => <>~isBlocking)
=============================================================================

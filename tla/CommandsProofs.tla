--------------------------- MODULE CommandsProofs ---------------------------
(***************************************************************************)
(* Proofs about Commands for any interfaces, any controllers on the bus    *)
(* and any number of packets.                                              *)
(***************************************************************************)
EXTENDS Commands, FiniteSetTheorems, TLAPS

(* What the thread of an interface knows about the packet it processes.    *)
Own(i) ==
  /\ packet[i] \in AnyPacket
  /\ packet[i].iface = i
  /\ IF i = Can THEN packet[i].from \in Peers ELSE packet[i].from = i /\ ~packet[i].quiet

OwnPackets == \A i \in Ifaces : pc[i] # "idle" => Own(i)

OwnFuncs ==
  \A i \in Ifaces : pc[i] \notin {"idle", "send"} =>
    replyFunc[i] = IF packet[i].quiet THEN SendPacket ELSE i

KindAt ==
  \A i \in Ifaces :
    /\ pc[i] \in {"fill", "reply"} => packet[i].kind \in {"values", "mcconf"}
    /\ pc[i] = "print" => packet[i].kind = "termSync"
    /\ pc[i] \in {"store", "block", "signal"} => packet[i].kind = "terminal"

(* send_buffer_mutex, and what its owner has put into the buffer.          *)
Buffered ==
  \A i \in Ifaces :
    /\ pc[i] \in {"fill", "reply"} => bufferOwner = i
    /\ pc[i] = "reply" => sendBuffer = packet[i].num

(* rx_buffer_last_id is written by the one thread that uses it.            *)
LastKnown == pc[Can] # "idle" => lastId = packet[Can].from

Terminal(p) == p \in AnyPacket /\ p.kind = "terminal"

Commanded ==
  /\ event => Terminal(cmdBuffer)
  /\ bpc # "wait" => Terminal(cmdBuffer) /\ Terminal(running)
  /\ \A i \in Ifaces : pc[i] \in {"block", "signal"} => Terminal(cmdBuffer)

(* While a packet is alone the other interfaces are idle, and send_func is *)
(* what its own thread has set.                                            *)
Undisturbed ==
  \A i \in Ifaces : pc[i] # "idle" /\ packet[i].alone =>
    /\ \A j \in Ifaces \ {i} : pc[j] = "idle"
    /\ pc[i] # "send" => sendFunc = IF packet[i].quiet THEN NoFunc ELSE i

(* What has been forwarded undisturbed has set send_func_can_fwd, and no   *)
(* thread has seen it null before and sets it now.                         *)
ForwardKnown ==
  forwarded # NoPacket =>
    /\ forwarded.kind = "forward"
    /\ forwarded.iface \in Wired /\ forwarded.alone =>
         /\ fwdFunc = forwarded.iface
         /\ forwarded.from = forwarded.iface
         /\ \A i \in Ifaces : pc[i] # "setFwd"

Known ==
  /\ OwnPackets /\ OwnFuncs /\ KindAt /\ Buffered /\ LastKnown
  /\ Commanded /\ Undisturbed /\ ForwardKnown

IInv == TypeOK /\ Known /\ AnswersOwn /\ AloneOwn

-----------------------------------------------------------------------------
(* One more answer.                                                        *)
LEMMA AppendAdds ==
  ASSUME answers \in Seq(Answer), NEW r \in Answer, answers' = Append(answers, r)
  PROVE  answers' \in Seq(Answer) /\ \A a \in Sent' : a \in Sent \/ a = r
<1>1. answers' \in Seq(Answer)
  OBVIOUS
<1>2. ASSUME NEW a \in Sent' PROVE a \in Sent \/ a = r
  <2>1. PICK k \in DOMAIN answers' : a = answers'[k]
    BY DEF Sent
  <2>2. k \in 1..Len(answers) + 1
    BY <2>1
  <2>3. CASE k = Len(answers) + 1
    BY <2>1, <2>3
  <2>4. CASE k \in 1..Len(answers)
    <3>1. a = answers[k] /\ k \in DOMAIN answers
      BY <2>1, <2>4
    <3>2. QED
      BY <3>1 DEF Sent
  <2>5. QED
    BY <2>2, <2>3, <2>4
<1>3. QED
  BY <1>1, <1>2

(* The function that is called in the end.                                 *)
Dest(f) == IF f = SendPacket THEN sendFunc ELSE f

(* A reply is added to the answers, or nobody is there to get it.          *)
LEMMA SendAdds ==
  ASSUME TypeOK, NEW f \in Funcs, NEW p \in AnyPacket, NEW data \in 1..MaxPackets,
         NEW last \in Peers \cup {Nobody}, Send(f, p, data, last)
  PROVE  /\ answers' \in Seq(Answer)
         /\ \A a \in Sent' : \/ a \in Sent
                             \/ /\ a = [packet |-> p, to |-> EndOf(Dest(f), last), data |-> data]
                                /\ Dest(f) # NoFunc
<1> DEFINE g == Dest(f)
           r == [packet |-> p, to |-> EndOf(g, last), data |-> data]
<1>1. g \in Ifaces \cup {NoFunc} /\ answers \in Seq(Answer)
  BY CommandsAssumption DEF Dest, TypeOK, Funcs
<1>2. CASE g = NoFunc
  <2>1. answers' = answers
    BY <1>2 DEF Send, Dest
  <2>2. QED
    BY <1>1, <2>1 DEF Sent
<1>3. CASE g # NoFunc
  <2>1. answers' = Append(answers, r)
    BY <1>3 DEF Send, Dest
  <2>2. EndOf(g, last) \in Wired \cup Peers \cup {Nobody}
    BY <1>1, <1>3 DEF EndOf, TypeOK, Ifaces
  <2>3. r \in Answer
    BY <2>2 DEF Answer
  <2>4. QED
    BY <1>1, <1>3, <2>1, <2>3, AppendAdds
<1>4. QED
  BY <1>2, <1>3

(* What the four steps that send add to the answers: what comes back from  *)
(* the bus.                                                                *)
LEMMA ReplyAdds ==
  ASSUME TypeOK, Known, ReceiveReply
  PROVE  /\ answers' \in Seq(Answer) /\ forwarded \in AnyPacket
         /\ \A a \in Sent' : \/ a \in Sent
                             \/ /\ a.packet = forwarded
                                /\ fwdFunc \in Wired => a.to = fwdFunc
<1>1. forwarded \in AnyPacket /\ received' \in 1..MaxPackets
  <2>1. forwarded \in AnyPacket
    BY DEF TypeOK, ReceiveReply
  <2>2. received \in 0..MaxPackets /\ received < MaxPackets /\ received' = received + 1
    BY DEF TypeOK, ReceiveReply
  <2>3. QED
    BY <2>1, <2>2, CommandsAssumption
<1>2. PICK id \in Peers : Send(fwdFunc, forwarded, received', id)
  BY DEF ReceiveReply
<1>3. fwdFunc \in Funcs
  BY DEF TypeOK
<1>4. fwdFunc \in Wired => EndOf(Dest(fwdFunc), id) = fwdFunc
  BY CommandsAssumption DEF Dest, EndOf
<1>5. QED
  BY <1>1, <1>2, <1>3, <1>4, SendAdds

(* The reply from send_buffer_global.                                      *)
LEMMA UnlockAdds ==
  ASSUME TypeOK, Known, NEW i \in Ifaces, ReplyUnlock(i)
  PROVE  /\ answers' \in Seq(Answer)
         /\ \A a \in Sent' :
              \/ a \in Sent
              \/ LET f == IF packet[i].kind = "values" THEN replyFunc[i] ELSE SendPacket
                 IN /\ a = [packet |-> packet[i], to |-> EndOf(Dest(f), lastId),
                            data |-> packet[i].num]
                    /\ Dest(f) # NoFunc
<1> DEFINE f == IF packet[i].kind = "values" THEN replyFunc[i] ELSE SendPacket
<1>1. pc[i] = "reply"
  BY DEF ReplyUnlock, Return, Goto
<1>2. packet[i] \in AnyPacket /\ sendBuffer = packet[i].num /\ sendBuffer \in 1..MaxPackets
  BY <1>1 DEF Known, OwnPackets, Own, Buffered, AnyPacket
<1>3. f \in Funcs
  BY DEF TypeOK, Funcs
<1>4. Send(f, packet[i], sendBuffer, lastId)
  BY DEF ReplyUnlock
<1>5. lastId \in Peers \cup {Nobody}
  BY DEF TypeOK
<1>6. QED
  BY <1>2, <1>3, <1>4, <1>5, SendAdds

(* The output of COMM_TERMINAL_CMD_SYNC.                                   *)
LEMMA PrintAdds ==
  ASSUME TypeOK, Known, NEW i \in Ifaces, PrintUnlock(i)
  PROVE  /\ answers' \in Seq(Answer) /\ packet[i].kind = "termSync"
         /\ \A a \in Sent' : a \in Sent \/ a.packet = packet[i]
<1>1. pc[i] = "print"
  BY DEF PrintUnlock, Return, Goto
<1>2. packet[i] \in AnyPacket /\ packet[i].num \in 1..MaxPackets /\ packet[i].kind = "termSync"
  BY <1>1 DEF Known, OwnPackets, Own, KindAt, AnyPacket
<1>3. Send(blockingFunc, packet[i], packet[i].num, lastId) /\ blockingFunc \in Funcs
  BY DEF PrintUnlock, TypeOK
<1>4. lastId \in Peers \cup {Nobody}
  BY DEF TypeOK
<1>5. QED
  BY <1>2, <1>3, <1>4, SendAdds

(* The reply of the blocking thread.                                       *)
LEMMA BlockingAdds ==
  ASSUME TypeOK, Known, BReply
  PROVE  /\ answers' \in Seq(Answer) /\ running.kind = "terminal"
         /\ \A a \in Sent' : a \in Sent \/ a.packet = running
<1>1. Terminal(running) /\ Terminal(cmdBuffer)
  BY DEF BReply, Known, Commanded
<1>2. running \in AnyPacket /\ running.kind = "terminal" /\ cmdBuffer.num \in 1..MaxPackets
  BY <1>1 DEF Terminal, AnyPacket
<1>3. Send(blockingFunc, running, cmdBuffer.num, lastId) /\ blockingFunc \in Funcs
  BY DEF BReply, TypeOK
<1>4. lastId \in Peers \cup {Nobody}
  BY DEF TypeOK
<1>5. QED
  BY <1>2, <1>3, <1>4, SendAdds

-----------------------------------------------------------------------------
(* What a packet is when it comes in.                                      *)
LEMMA PacketType ==
  ASSUME TypeOK, NEW i \in Ifaces, NEW p \in Packets(i), received < MaxPackets
  PROVE  /\ p \in AnyPacket /\ p.iface = i /\ p.num = received + 1
         /\ IF i = Can THEN p.from \in Peers ELSE p.from = i /\ ~p.quiet
         /\ p.alone = (\A j \in Ifaces \ {i} : pc[j] = "idle")
<1>1. /\ p.num = received + 1 /\ p.iface = i /\ p.kind \in Kinds /\ p.quiet \in BOOLEAN
      /\ p.from \in (IF i = Can THEN Peers ELSE {i})
      /\ p.quiet \in (IF i = Can THEN BOOLEAN ELSE {FALSE})
      /\ p.alone = (\A j \in Ifaces \ {i} : pc[j] = "idle")
      /\ p = [num |-> p.num, iface |-> p.iface, from |-> p.from, kind |-> p.kind,
              quiet |-> p.quiet, alone |-> p.alone]
  BY DEF Packets
<1>2. p.num \in 1..MaxPackets
  BY <1>1, CommandsAssumption DEF TypeOK
<1>3. p.from \in Wired \cup Peers /\ p.alone \in BOOLEAN
  BY <1>1 DEF Ifaces
<1>4. p \in AnyPacket
  BY <1>1, <1>2, <1>3 DEF AnyPacket
<1>5. QED
  BY <1>1, <1>4

(* A packet that others join stays the same but for being alone.           *)
LEMMA OthersType ==
  ASSUME NEW j \in Ifaces, packet[j] \in AnyPacket, pc[j] # "idle"
  PROVE  /\ WithOthers(j) \in AnyPacket /\ ~WithOthers(j).alone
         /\ WithOthers(j).num = packet[j].num /\ WithOthers(j).iface = packet[j].iface
         /\ WithOthers(j).from = packet[j].from /\ WithOthers(j).kind = packet[j].kind
         /\ WithOthers(j).quiet = packet[j].quiet
BY DEF WithOthers, AnyPacket

(* Every action keeps every variable within its type.                      *)
LEMMA TypeStep == TypeOK /\ Known /\ [Next]_vars => TypeOK'
<1> SUFFICES ASSUME TypeOK, Known, [Next]_vars PROVE TypeOK'
  OBVIOUS
<1> USE CommandsAssumption DEF TypeOK, dispatch, funcs, mutexes, blocking, thread, history
<1> USE DEF Goto, Step, Return, Case, Funcs, Ifaces, Places
<1>1. ASSUME NEW i \in Ifaces, Receive(i) PROVE TypeOK'
  <2>1. PICK p \in Packets(i) :
          /\ packet' = [j \in Ifaces |-> IF j = i THEN p ELSE WithOthers(j)]
          /\ lastId' = IF i = Can THEN p.from ELSE lastId
    BY <1>1 DEF Receive
  <2>2. p \in AnyPacket /\ (i = Can => p.from \in Peers)
    BY <1>1, PacketType DEF Receive
  <2>3. \A j \in Ifaces : WithOthers(j) \in AnyPacket \cup {NoPacket}
    BY OthersType DEF Known, OwnPackets, Own, WithOthers
  <2>4. packet' \in [Ifaces -> AnyPacket \cup {NoPacket}]
    BY <2>1, <2>2, <2>3
  <2>5. lastId' \in Peers \cup {Nobody}
    BY <2>1, <2>2
  <2>6. received' \in 0..MaxPackets /\ pc' \in [Ifaces -> Places]
    BY <1>1 DEF Receive
  <2>7. QED
    BY <1>1, <2>4, <2>5, <2>6 DEF Receive
<1>2. CASE ReceiveBad
  BY <1>2 DEF ReceiveBad
<1>3. CASE ReceiveReply
  <2>1. received' \in 1..MaxPackets /\ received' \in 0..MaxPackets /\ lastId' \in Peers
    BY <1>3 DEF ReceiveReply
  <2>2. answers' \in Seq(Answer)
    BY <1>3, <2>1, ReplyAdds
  <2>3. QED
    BY <1>3, <2>1, <2>2 DEF ReceiveReply
<1>4. ASSUME NEW i \in Ifaces, SetSendFunc(i) PROVE TypeOK'
  BY <1>4 DEF SetSendFunc
<1>5. ASSUME NEW i \in Ifaces, SetFwd(i) PROVE TypeOK'
  BY <1>5 DEF SetFwd
<1>6. ASSUME NEW i \in Ifaces, Forward(i) PROVE TypeOK'
  BY <1>6 DEF Forward
<1>7. ASSUME NEW i \in Ifaces, LockBuffer(i) PROVE TypeOK'
  BY <1>7 DEF LockBuffer
<1>8. ASSUME NEW i \in Ifaces, FillBuffer(i) PROVE TypeOK'
  <2>1. packet[i].num \in 1..MaxPackets
    BY <1>8 DEF FillBuffer, Known, OwnPackets, Own, AnyPacket
  <2>2. QED
    BY <1>8, <2>1 DEF FillBuffer
<1>9. ASSUME NEW i \in Ifaces, ReplyUnlock(i) PROVE TypeOK'
  <2>1. answers' \in Seq(Answer)
    BY <1>9, UnlockAdds
  <2>2. QED
    BY <1>9, <2>1 DEF ReplyUnlock
<1>10. ASSUME NEW i \in Ifaces, LockTerminal(i) PROVE TypeOK'
  BY <1>10 DEF LockTerminal
<1>11. ASSUME NEW i \in Ifaces, PrintUnlock(i) PROVE TypeOK'
  <2>1. answers' \in Seq(Answer)
    BY <1>11, PrintAdds
  <2>2. QED
    BY <1>11, <2>1 DEF PrintUnlock
<1>12. ASSUME NEW i \in Ifaces, TestBlocking(i) PROVE TypeOK'
  BY <1>12 DEF TestBlocking
<1>13. ASSUME NEW i \in Ifaces, StoreCommand(i) PROVE TypeOK'
  BY <1>13 DEF StoreCommand
<1>14. ASSUME NEW i \in Ifaces, SetBlocking(i) PROVE TypeOK'
  BY <1>14 DEF SetBlocking
<1>15. ASSUME NEW i \in Ifaces, SignalBlocking(i) PROVE TypeOK'
  BY <1>15 DEF SignalBlocking
<1>16. CASE BWake
  BY <1>16 DEF BWake
<1>17. CASE BStart
  BY <1>17 DEF BStart
<1>18. CASE BReply
  <2>1. answers' \in Seq(Answer)
    BY <1>18, BlockingAdds
  <2>2. QED
    BY <1>18, <2>1 DEF BReply
<1>19. CASE BFree
  BY <1>19 DEF BFree
<1>20. CASE UNCHANGED vars
  BY <1>20 DEF vars, dispatch
<1>21. QED
  BY <1>1, <1>2, <1>3, <1>4, <1>5, <1>6, <1>7, <1>8, <1>9, <1>10,
     <1>11, <1>12, <1>13, <1>14, <1>15, <1>16, <1>17, <1>18, <1>19, <1>20
     DEF Next, Process, Blocking

(* Every action keeps what the threads know of the shared variables.       *)
LEMMA KnownStep == TypeOK /\ Known /\ [Next]_vars => Known'
<1> SUFFICES ASSUME TypeOK, Known, [Next]_vars PROVE Known'
  OBVIOUS
<1>1. ASSUME NEW i \in Ifaces, Receive(i) PROVE Known'
  <2>1. PICK p \in Packets(i) :
          /\ packet' = [j \in Ifaces |-> IF j = i THEN p ELSE WithOthers(j)]
          /\ lastId' = IF i = Can THEN p.from ELSE lastId
    BY <1>1 DEF Receive
  <2>2. /\ pc[i] = "idle" /\ pc' = [pc EXCEPT ![i] = "send"]
        /\ UNCHANGED <<replyFunc, sendFunc, fwdFunc, bufferOwner, sendBuffer>>
        /\ UNCHANGED <<cmdBuffer, event, bpc, running, forwarded>>
    BY <1>1 DEF Receive, funcs, mutexes, blocking, thread, history
  <2>3. /\ p \in AnyPacket /\ p.iface = i
        /\ IF i = Can THEN p.from \in Peers ELSE p.from = i /\ ~p.quiet
        /\ p.alone = (\A j \in Ifaces \ {i} : pc[j] = "idle")
    BY <1>1, PacketType DEF Receive
  <2>4. packet'[i] = p /\ pc'[i] = "send"
    BY <2>1, <2>2 DEF TypeOK
  <2>5. ASSUME NEW j \in Ifaces, j # i, pc'[j] # "idle"
        PROVE  /\ pc'[j] = pc[j] /\ packet[j] \in AnyPacket /\ packet'[j] \in AnyPacket
               /\ ~packet'[j].alone
               /\ packet'[j].num = packet[j].num /\ packet'[j].iface = packet[j].iface
               /\ packet'[j].from = packet[j].from /\ packet'[j].kind = packet[j].kind
               /\ packet'[j].quiet = packet[j].quiet
    BY <2>1, <2>2, <2>5, OthersType DEF TypeOK, Known, OwnPackets, Own
  <2> USE DEF Known
  <2>6. OwnPackets' /\ OwnFuncs' /\ KindAt' /\ Buffered'
    BY <2>2, <2>3, <2>4, <2>5 DEF OwnPackets, Own, OwnFuncs, KindAt, Buffered
  <2>7. LastKnown'
    <3>1. CASE i = Can
      BY <2>1, <2>4, <3>1 DEF LastKnown
    <3>2. CASE i # Can
      <4>1. lastId' = lastId /\ Can \in Ifaces
        BY <2>1, <3>2 DEF Ifaces
      <4>2. pc'[Can] # "idle" => pc[Can] # "idle" /\ packet'[Can].from = packet[Can].from
        BY <2>5, <3>2, <4>1
      <4>3. QED
        BY <4>1, <4>2 DEF LastKnown
    <3>3. QED
      BY <3>1, <3>2
  <2>8. Commanded'
    BY <2>2, <2>4, <2>5 DEF Commanded, Terminal
  <2>9. Undisturbed'
    <3>1. SUFFICES ASSUME NEW j \in Ifaces, pc'[j] # "idle", packet'[j].alone
                   PROVE  /\ \A k \in Ifaces \ {j} : pc'[k] = "idle"
                          /\ pc'[j] = "send"
      BY DEF Undisturbed
    <3>2. j = i
      BY <2>5, <3>1
    <3>3. \A k \in Ifaces \ {i} : pc[k] = "idle"
      BY <2>3, <2>4, <3>1, <3>2
    <3>4. QED
      BY <2>4, <2>5, <3>2, <3>3
  <2>10. ForwardKnown'
    BY <2>2, <2>4, <2>5 DEF ForwardKnown
  <2>11. QED
    BY <2>6, <2>7, <2>8, <2>9, <2>10
<1> USE CommandsAssumption DEF Known, TypeOK, dispatch, funcs, mutexes, blocking, thread,
      history, Goto, Step, Return, Case
<1> USE DEF Terminal, Own, OwnPackets, OwnFuncs, KindAt, Buffered, LastKnown, Commanded,
      Undisturbed, ForwardKnown
<1>2. ASSUME NEW i \in Ifaces, SetSendFunc(i) PROVE Known'
  BY <1>2 DEF SetSendFunc
<1>3. ASSUME NEW i \in Ifaces, SetFwd(i) PROVE Known'
  BY <1>3 DEF SetFwd
<1>4. ASSUME NEW i \in Ifaces, Forward(i) PROVE Known'
  BY <1>4 DEF Forward
<1>5. ASSUME NEW i \in Ifaces, LockBuffer(i) PROVE Known'
  <2>1. \A j \in Ifaces : pc[j] \notin {"fill", "reply"}
    BY <1>5 DEF LockBuffer, Ifaces
  <2>2. pc' = [pc EXCEPT ![i] = "fill"] /\ bufferOwner' = i
    BY <1>5 DEF LockBuffer
  <2>3. Buffered'
    BY <2>1, <2>2
  <2>4. (OwnPackets /\ OwnFuncs /\ KindAt /\ LastKnown)'
    BY <1>5 DEF LockBuffer
  <2>5. (Commanded /\ Undisturbed /\ ForwardKnown)'
    BY <1>5 DEF LockBuffer
  <2>6. QED
    BY <2>3, <2>4, <2>5
<1>6. ASSUME NEW i \in Ifaces, FillBuffer(i) PROVE Known'
  BY <1>6 DEF FillBuffer
<1>7. ASSUME NEW i \in Ifaces, ReplyUnlock(i) PROVE Known'
  BY <1>7 DEF ReplyUnlock
<1>8. ASSUME NEW i \in Ifaces, LockTerminal(i) PROVE Known'
  BY <1>8 DEF LockTerminal
<1>9. ASSUME NEW i \in Ifaces, PrintUnlock(i) PROVE Known'
  BY <1>9 DEF PrintUnlock
<1>10. ASSUME NEW i \in Ifaces, TestBlocking(i) PROVE Known'
  <2>1. CASE isBlocking
    <3>1. (OwnPackets /\ OwnFuncs)'
      BY <1>10, <2>1 DEF TestBlocking
    <3>2. KindAt'
      BY <1>10, <2>1 DEF TestBlocking
    <3>3. LastKnown'
      BY <1>10, <2>1 DEF TestBlocking, Ifaces
    <3>4. (Buffered /\ Commanded /\ Undisturbed /\ ForwardKnown)'
      BY <1>10, <2>1 DEF TestBlocking
    <3>5. QED
      BY <3>1, <3>2, <3>3, <3>4
  <2>2. CASE ~isBlocking
    <3>1. (OwnPackets /\ OwnFuncs)'
      BY <1>10, <2>2 DEF TestBlocking
    <3>2. KindAt'
      BY <1>10, <2>2 DEF TestBlocking
    <3>3. LastKnown'
      BY <1>10, <2>2 DEF TestBlocking, Ifaces
    <3>4. (Buffered /\ Commanded /\ Undisturbed /\ ForwardKnown)'
      BY <1>10, <2>2 DEF TestBlocking
    <3>5. QED
      BY <3>1, <3>2, <3>3, <3>4
  <2>3. QED
    BY <2>1, <2>2
<1>11. ASSUME NEW i \in Ifaces, StoreCommand(i) PROVE Known'
  BY <1>11 DEF StoreCommand
<1>12. ASSUME NEW i \in Ifaces, SetBlocking(i) PROVE Known'
  BY <1>12 DEF SetBlocking
<1>13. ASSUME NEW i \in Ifaces, SignalBlocking(i) PROVE Known'
  BY <1>13 DEF SignalBlocking
<1>14. CASE ReceiveBad
  BY <1>14 DEF ReceiveBad
<1>15. CASE ReceiveReply
  BY <1>15 DEF ReceiveReply
<1>16. CASE BWake
  BY <1>16 DEF BWake
<1>17. CASE BStart
  BY <1>17 DEF BStart
<1>18. CASE BReply
  BY <1>18 DEF BReply
<1>19. CASE BFree
  BY <1>19 DEF BFree
<1>20. CASE UNCHANGED vars
  BY <1>20 DEF vars
<1>21. QED
  BY <1>1, <1>2, <1>3, <1>4, <1>5, <1>6, <1>7, <1>8, <1>9, <1>10,
     <1>11, <1>12, <1>13, <1>14, <1>15, <1>16, <1>17, <1>18, <1>19, <1>20
     DEF Next, Process, Blocking

(* What AnswersOwn and AloneOwn say of one answer.                         *)
Good(a) ==
  /\ a.packet.kind = "values" /\ ~a.packet.quiet => a.to = a.packet.from /\ a.data = a.packet.num
  /\ a.packet.kind = "mcconf" =>
       /\ a.data = a.packet.num
       /\ a.packet.alone /\ ~a.packet.quiet => a.to = a.packet.from
  /\ a.packet.kind \in {"values", "mcconf"} /\ a.packet.quiet => ~a.packet.alone
  /\ a.packet.kind = "forward" /\ a.packet.iface \in Wired /\ a.packet.alone =>
       a.to = a.packet.from

(* The two properties are about one answer at a time.                      *)
LEMMA GoodAnswers == AnswersOwn /\ AloneOwn <=> \A a \in Sent : Good(a)
BY DEF AnswersOwn, AloneOwn, Good

(* Every answer that is added is good: the one step that replies directly, *)
(* and the one that passes on what comes back from the bus.                *)
LEMMA UnlockGood ==
  ASSUME TypeOK, Known, NEW i \in Ifaces, ReplyUnlock(i), NEW a \in Sent', a \notin Sent
  PROVE  Good(a)
<1> DEFINE p == packet[i]
           f == IF p.kind = "values" THEN replyFunc[i] ELSE SendPacket
<1>1. /\ a.packet = p /\ a.data = p.num
      /\ a.to = EndOf(Dest(f), lastId) /\ Dest(f) # NoFunc
  BY UnlockAdds
<1>2. pc[i] = "reply" /\ p.kind \in {"values", "mcconf"}
  BY DEF ReplyUnlock, Return, Goto, Known, KindAt
<1>3. replyFunc[i] = IF p.quiet THEN SendPacket ELSE i
  BY <1>2 DEF Known, OwnFuncs
<1>4. EndOf(i, lastId) = p.from
  BY <1>2 DEF EndOf, Known, LastKnown, OwnPackets, Own
<1>5. p.alone => sendFunc = IF p.quiet THEN NoFunc ELSE i
  BY <1>2 DEF Known, Undisturbed
<1>6. i # SendPacket
  BY CommandsAssumption DEF Ifaces
<1>7. ~p.quiet /\ p.kind = "values" => Dest(f) = i
  BY <1>3, <1>6 DEF Dest
<1>8. p.quiet \/ p.kind = "mcconf" => Dest(f) = sendFunc
  BY <1>2, <1>3 DEF Dest
<1>9. QED
  BY <1>1, <1>2, <1>4, <1>5, <1>7, <1>8 DEF Good

(* The one that passes on what comes back from the bus.                    *)
LEMMA ForwardGood ==
  ASSUME TypeOK, Known, ReceiveReply, NEW a \in Sent', a \notin Sent
  PROVE  Good(a)
<1>1. a.packet = forwarded /\ (fwdFunc \in Wired => a.to = fwdFunc)
  BY ReplyAdds
<1>2. forwarded # NoPacket
  BY DEF ReceiveReply
<1>3. QED
  BY <1>1, <1>2 DEF Good, Known, ForwardKnown

(* Every step keeps the answers good.                                      *)
LEMMA AnswersStep == IInv /\ [Next]_vars => (AnswersOwn /\ AloneOwn)'
<1> SUFFICES ASSUME IInv, [Next]_vars, NEW a \in Sent' PROVE Good(a)
  BY GoodAnswers DEF AnswersOwn, AloneOwn, Good
<1>1. TypeOK /\ Known /\ (a \in Sent => Good(a))
  BY GoodAnswers DEF IInv
<1>2. ASSUME UNCHANGED answers PROVE Good(a)
  BY <1>1, <1>2 DEF Sent
<1> USE DEF history
<1>3. ASSUME NEW i \in Ifaces, Receive(i) PROVE Good(a)
  BY <1>2, <1>3 DEF Receive
<1>4. ASSUME NEW i \in Ifaces, Process(i) PROVE Good(a)
  <2>1. CASE ReplyUnlock(i)
    BY <1>1, <2>1, UnlockGood
  <2>2. CASE PrintUnlock(i)
    BY <1>1, <2>2, PrintAdds DEF Good
  <2>3. CASE ~ReplyUnlock(i) /\ ~PrintUnlock(i)
    BY <1>2, <1>4, <2>3 DEF Process, SetSendFunc, SetFwd, Forward, LockBuffer, FillBuffer,
         LockTerminal, TestBlocking, StoreCommand, SetBlocking, SignalBlocking
  <2>4. QED
    BY <2>1, <2>2, <2>3
<1>5. CASE ReceiveBad
  BY <1>2, <1>5 DEF ReceiveBad
<1>6. CASE ReceiveReply
  BY <1>1, <1>6, ForwardGood
<1>7. CASE BReply
  BY <1>1, <1>7, BlockingAdds DEF Good
<1>8. CASE BWake \/ BStart \/ BFree
  BY <1>2, <1>8 DEF BWake, BStart, BFree
<1>9. CASE UNCHANGED vars
  BY <1>2, <1>9 DEF vars
<1>10. QED
  BY <1>3, <1>4, <1>5, <1>6, <1>7, <1>8, <1>9 DEF Next, Blocking

-----------------------------------------------------------------------------
(* No packet has been received and nothing answered.                       *)
LEMMA InitInvariant == Init => IInv
<1> SUFFICES ASSUME Init PROVE IInv
  OBVIOUS
<1>1. TypeOK
  <2>1. /\ received \in 0..MaxPackets /\ pc \in [Ifaces -> Places]
        /\ packet \in [Ifaces -> AnyPacket \cup {NoPacket}]
        /\ replyFunc \in [Ifaces -> Funcs] /\ lastId = Nobody
    BY CommandsAssumption DEF Init, Funcs, Places
  <2>2. answers \in Seq(Answer)
    BY DEF Init
  <2>3. QED
    BY <2>1, <2>2 DEF Init, TypeOK, Funcs
<1>2. Known
  BY DEF Init, Known, OwnPackets, OwnFuncs, KindAt, Buffered, LastKnown, Commanded,
         Undisturbed, ForwardKnown, Ifaces
<1>3. Sent = {}
  BY DEF Init, Sent
<1>4. QED
  BY <1>1, <1>2, <1>3, GoodAnswers DEF IInv

(* The inductive invariant holds in every state: what each thread of an    *)
(* interface knows of its packet, of reply_func and of the shared          *)
(* pointers is enough for the answers it sends.                            *)
THEOREM Invariant == Spec => []IInv
<1>1. IInv /\ [Next]_vars => IInv'
  <2> SUFFICES ASSUME IInv, [Next]_vars PROVE IInv'
    OBVIOUS
  <2>1. TypeOK /\ Known
    BY DEF IInv
  <2>2. TypeOK' /\ Known'
    BY <2>1, TypeStep, KnownStep
  <2>3. QED
    BY <2>2, AnswersStep DEF IInv
<1>2. QED
  BY <1>1, InitInvariant, PTL DEF Spec

(* The threads of all interfaces keep the variables they share within      *)
(* their types.                                                            *)
THEOREM TypeCorrect == Spec => []TypeOK
<1>1. IInv => TypeOK
  BY DEF IInv
<1>2. QED
  BY <1>1, Invariant, PTL

(* COMM_GET_VALUES: a reply through reply_func has the data of its packet  *)
(* and goes where the packet came from, whatever the other threads do.     *)
THEOREM OwnAnswers == Spec => []AnswersOwn
<1>1. IInv => AnswersOwn
  BY DEF IInv
<1>2. QED
  BY <1>1, Invariant, PTL

(* The replies through send_func and send_func_can_fwd reach the right end *)
(* as long as no other thread comes in between.                            *)
THEOREM AloneAnswers == Spec => []AloneOwn
<1>1. IInv => AloneOwn
  BY DEF IInv
<1>2. QED
  BY <1>1, Invariant, PTL

-----------------------------------------------------------------------------
(* BlockingOwn.  The packets under way have numbers of their own.          *)
Numbered ==
  \A i \in Ifaces : pc[i] # "idle" =>
    /\ packet[i].num <= received
    /\ \A j \in Ifaces \ {i} : pc[j] # "idle" => packet[j].num # packet[i].num

(* As long as no two threads have raced to the blocking thread, a command  *)
(* is with the thread that has stored it, signalled, or being executed.    *)
OneCommand ==
  /\ \A i \in Ifaces : pc[i] \in {"block", "signal"} =>
       /\ bpc = "wait" /\ ~event
       /\ cmdBuffer.num = packet[i].num
       /\ cmdBuffer.iface = i /\ cmdBuffer.quiet = packet[i].quiet
       /\ \A j \in Ifaces \ {i} : pc[j] \notin {"block", "signal"}
  /\ event => bpc = "wait"
  /\ bpc \in {"start", "reply"} => running = cmdBuffer

(* It has been handed over with the function that answers it, and its      *)
(* interface is busy with later packets only.                              *)
Handed == event \/ bpc \in {"start", "reply"}

HandedKnown ==
  Handed =>
    /\ cmdBuffer.num <= received
    /\ \A i \in Ifaces : pc[i] # "idle" => packet[i].num # cmdBuffer.num
    /\ ~cmdBuffer.quiet => blockingFunc = cmdBuffer.iface
    /\ cmdBuffer.iface = Can => lastId \in Peers

(* What has been answered is over.                                         *)
AnsweredOnce ==
  \A k \in DOMAIN answers : answers[k].packet.kind = "terminal" =>
    /\ answers[k].packet \in AnyPacket /\ answers[k].packet.num <= received
    /\ answers[k].data = answers[k].packet.num
    /\ ~answers[k].packet.quiet => answers[k].to \in EndsOf(answers[k].packet.iface)
    /\ \A i \in Ifaces : pc[i] # "idle" => packet[i].num # answers[k].packet.num
    /\ Handed => cmdBuffer.num # answers[k].packet.num
    /\ \A l \in DOMAIN answers :
         answers[l].packet.kind = "terminal" /\ answers[l].packet.num = answers[k].packet.num
           => l = k

BlockingInv == Numbered /\ (~raced => OneCommand /\ HandedKnown /\ AnsweredOnce)

(* A packet keeps its number on its way, and a new one gets a new number.  *)
PacketsKept ==
  /\ received \in Nat /\ received' \in Nat /\ received' >= received
  /\ \A j \in Ifaces : pc'[j] # "idle" =>
       \/ /\ pc[j] # "idle" /\ packet'[j].num = packet[j].num
          /\ packet'[j].quiet = packet[j].quiet
       \/ /\ received' = received + 1 /\ packet'[j].num = received'
          /\ pc[j] = "idle" /\ pc'[j] = "send"
          /\ \A l \in Ifaces \ {j} : pc'[l] = pc[l]

LEMMA ReceiveKeeps ==
  ASSUME TypeOK, Known, NEW i \in Ifaces, Receive(i)
  PROVE  PacketsKept
<1>1. PICK p \in Packets(i) : packet' = [j \in Ifaces |-> IF j = i THEN p ELSE WithOthers(j)]
  BY DEF Receive
<1>2. /\ pc[i] = "idle" /\ pc' = [pc EXCEPT ![i] = "send"]
      /\ received' = received + 1 /\ p.num = received + 1
  BY <1>1, PacketType DEF Receive
<1>3. ASSUME NEW j \in Ifaces, j # i, pc'[j] # "idle"
      PROVE  /\ pc[j] # "idle" /\ packet'[j].num = packet[j].num
             /\ packet'[j].quiet = packet[j].quiet
  BY <1>1, <1>2, <1>3, OthersType DEF TypeOK, Known, OwnPackets, Own
<1>4. packet'[i].num = received' /\ pc'[i] = "send" /\ \A l \in Ifaces \ {i} : pc'[l] = pc[l]
  BY <1>1, <1>2 DEF TypeOK
<1>5. received \in Nat
  BY CommandsAssumption DEF TypeOK
<1>6. QED
  BY <1>2, <1>3, <1>4, <1>5 DEF PacketsKept

LEMMA ProcessKeeps ==
  ASSUME TypeOK, NEW i \in Ifaces, Process(i)
  PROVE  received' = received /\ lastId' = lastId
         /\ \A j \in Ifaces : pc'[j] # "idle" => pc[j] # "idle" /\ packet'[j] = packet[j]
<1> USE DEF TypeOK, Step, Return, Goto, Case
<1>1. CASE SetSendFunc(i) \/ SetFwd(i) \/ Forward(i)
  BY <1>1 DEF SetSendFunc, SetFwd, Forward
<1>2. CASE LockBuffer(i) \/ FillBuffer(i) \/ ReplyUnlock(i)
  BY <1>2 DEF LockBuffer, FillBuffer, ReplyUnlock
<1>3. CASE LockTerminal(i) \/ PrintUnlock(i)
  BY <1>3 DEF LockTerminal, PrintUnlock
<1>4. CASE TestBlocking(i)
  BY <1>4 DEF TestBlocking
<1>5. CASE StoreCommand(i) \/ SetBlocking(i) \/ SignalBlocking(i)
  BY <1>5 DEF StoreCommand, SetBlocking, SignalBlocking
<1>6. QED
  BY <1>1, <1>2, <1>3, <1>4, <1>5 DEF Process

LEMMA StepKeeps ==
  ASSUME TypeOK, Known, [Next]_vars
  PROVE  PacketsKept /\ (lastId \in Peers => lastId' \in Peers)
<1>0. received \in Nat
  BY CommandsAssumption DEF TypeOK
<1>1. ASSUME NEW i \in Ifaces, Receive(i) PROVE lastId \in Peers => lastId' \in Peers
  <2>1. PICK p \in Packets(i) : lastId' = IF i = Can THEN p.from ELSE lastId
    BY <1>1 DEF Receive
  <2>2. i = Can => p.from \in Peers
    BY <1>1, <2>1, PacketType DEF Receive
  <2>3. QED
    BY <2>1, <2>2
<1>2. ASSUME NEW i \in Ifaces, Process(i)
      PROVE  PacketsKept /\ (lastId \in Peers => lastId' \in Peers)
  BY <1>0, <1>2, ProcessKeeps DEF PacketsKept
<1>3. CASE ReceiveBad \/ ReceiveReply
  BY <1>0, <1>3 DEF ReceiveBad, ReceiveReply, PacketsKept, dispatch
<1>4. CASE Blocking \/ UNCHANGED vars
  BY <1>0, <1>4 DEF Blocking, BWake, BStart, BReply, BFree, vars, PacketsKept, dispatch
<1>5. QED
  BY <1>1, <1>2, <1>3, <1>4, ReceiveKeeps DEF Next

LEMMA NumberedStep ==
  ASSUME TypeOK, Known, Numbered, [Next]_vars
  PROVE  Numbered'
<1>1. PacketsKept /\ received \in Nat
  BY StepKeeps, CommandsAssumption DEF TypeOK
<1>2. \A j \in Ifaces : pc[j] # "idle" => packet[j].num \in Nat
  BY DEF Known, OwnPackets, Own, AnyPacket
<1>3. SUFFICES ASSUME NEW i \in Ifaces, pc'[i] # "idle"
               PROVE  /\ packet'[i].num <= received'
                      /\ \A j \in Ifaces \ {i} : pc'[j] # "idle" => packet'[j].num # packet'[i].num
  BY DEF Numbered
<1>4. packet'[i].num <= received'
  BY <1>1, <1>2, <1>3 DEF PacketsKept, Numbered
<1>5. ASSUME NEW j \in Ifaces \ {i}, pc'[j] # "idle" PROVE packet'[j].num # packet'[i].num
  BY <1>1, <1>2, <1>3, <1>5 DEF PacketsKept, Numbered
<1>6. QED
  BY <1>4, <1>5

(* Only the blocking thread answers terminal commands.                     *)
TerminalKept ==
  \A k \in DOMAIN answers' : answers'[k].packet.kind = "terminal" =>
    k \in DOMAIN answers /\ answers'[k] = answers[k]

LEMMA SendKeepsTerminal ==
  ASSUME TypeOK, NEW f, NEW p, NEW data, NEW last, Send(f, p, data, last), p.kind # "terminal"
  PROVE  TerminalKept
<1>1. answers \in Seq(Answer)
  BY DEF TypeOK
<1>2. PICK r : answers' = answers \/ (answers' = Append(answers, r) /\ r.packet.kind # "terminal")
  BY DEF Send
<1>3. CASE answers' = answers
  BY <1>3 DEF TerminalKept
<1>4. CASE answers' = Append(answers, r) /\ r.packet.kind # "terminal"
  <2>1. SUFFICES ASSUME NEW k \in DOMAIN answers', answers'[k].packet.kind = "terminal"
                 PROVE  k \in DOMAIN answers /\ answers'[k] = answers[k]
    BY DEF TerminalKept
  <2>2. k \in 1..Len(answers) + 1 /\ k # Len(answers) + 1
    BY <1>1, <1>4, <2>1
  <2>3. QED
    BY <1>1, <1>4, <2>2
<1>5. QED
  BY <1>2, <1>3, <1>4

(* A terminal command has been answered by the blocking thread only.       *)
LEMMA AnswersKept ==
  ASSUME TypeOK, Known, [Next]_vars, ~BReply
  PROVE  TerminalKept
<1>1. ASSUME UNCHANGED answers PROVE TerminalKept
  BY <1>1 DEF TerminalKept
<1> USE DEF history
<1>2. ASSUME NEW i \in Ifaces, Process(i) PROVE TerminalKept
  <2>1. CASE ReplyUnlock(i)
    <3>1. packet[i].kind # "terminal"
      BY <2>1 DEF ReplyUnlock, Return, Goto, Known, KindAt
    <3>2. QED
      BY <2>1, <3>1, SendKeepsTerminal DEF ReplyUnlock
  <2>2. CASE PrintUnlock(i)
    <3>1. packet[i].kind # "terminal"
      BY <2>2 DEF PrintUnlock, Return, Goto, Known, KindAt
    <3>2. QED
      BY <2>2, <3>1, SendKeepsTerminal DEF PrintUnlock
  <2>3. CASE ~ReplyUnlock(i) /\ ~PrintUnlock(i)
    BY <1>1, <1>2, <2>3 DEF Process, SetSendFunc, SetFwd, Forward, LockBuffer, FillBuffer,
         LockTerminal, TestBlocking, StoreCommand, SetBlocking, SignalBlocking
  <2>4. QED
    BY <2>1, <2>2, <2>3
<1>3. CASE ReceiveReply
  <2>1. forwarded.kind # "terminal"
    BY <1>3 DEF ReceiveReply, Known, ForwardKnown
  <2>2. PICK id \in Peers : Send(fwdFunc, forwarded, received', id)
    BY <1>3 DEF ReceiveReply
  <2>3. QED
    BY <2>1, <2>2, SendKeepsTerminal
<1>4. ASSUME NEW i \in Ifaces, Receive(i) PROVE TerminalKept
  BY <1>1, <1>4 DEF Receive
<1>5. CASE ReceiveBad \/ BWake \/ BStart \/ BFree \/ UNCHANGED vars
  BY <1>1, <1>5 DEF ReceiveBad, BWake, BStart, BFree, vars
<1>6. QED
  BY <1>2, <1>3, <1>4, <1>5 DEF Next, Blocking

(* The answers stay once they are: no packet under way, and no command     *)
(* that has not been executed, gets the number of an answered one.         *)
LEMMA AnsweredStep ==
  ASSUME TypeOK, Known, Numbered, [Next]_vars, TerminalKept, AnsweredOnce,
         Handed' => \/ Handed /\ cmdBuffer' = cmdBuffer
                    \/ \E i \in Ifaces : pc[i] # "idle" /\ cmdBuffer'.num = packet[i].num
  PROVE  AnsweredOnce'
<1>1. PacketsKept
  BY StepKeeps
<1>2. \A j \in Ifaces : pc[j] # "idle" => packet[j].num \in Nat
  BY DEF Known, OwnPackets, Own, AnyPacket
<1>3. SUFFICES ASSUME NEW k \in DOMAIN answers', answers'[k].packet.kind = "terminal"
               PROVE  /\ answers[k].packet \in AnyPacket /\ answers[k].packet.num <= received'
                      /\ answers[k].data = answers[k].packet.num
                      /\ ~answers[k].packet.quiet =>
                           answers[k].to \in EndsOf(answers[k].packet.iface)
                      /\ \A i \in Ifaces : pc'[i] # "idle" =>
                           packet'[i].num # answers[k].packet.num
                      /\ Handed' => cmdBuffer'.num # answers[k].packet.num
                      /\ \A l \in DOMAIN answers' :
                           answers'[l].packet.kind = "terminal"
                             /\ answers'[l].packet.num = answers[k].packet.num => l = k
  <2>1. \A k \in DOMAIN answers' : answers'[k].packet.kind = "terminal" =>
          answers'[k] = answers[k]
    BY DEF TerminalKept
  <2>2. QED
    BY <2>1, <1>3, SMTT(40) DEF AnsweredOnce, EndsOf
<1>4. k \in DOMAIN answers /\ answers'[k] = answers[k]
  BY <1>3 DEF TerminalKept
<1>5. /\ answers[k].packet \in AnyPacket /\ answers[k].packet.num <= received
      /\ answers[k].data = answers[k].packet.num
      /\ ~answers[k].packet.quiet => answers[k].to \in EndsOf(answers[k].packet.iface)
      /\ \A i \in Ifaces : pc[i] # "idle" => packet[i].num # answers[k].packet.num
      /\ Handed => cmdBuffer.num # answers[k].packet.num
  BY <1>3, <1>4 DEF AnsweredOnce
<1>6. answers[k].packet.num \in Nat
  BY <1>5 DEF AnyPacket
<1>7. answers[k].packet.num <= received'
  BY <1>1, <1>5, <1>6 DEF PacketsKept
<1>8. \A i \in Ifaces : pc'[i] # "idle" => packet'[i].num # answers[k].packet.num
  BY <1>1, <1>2, <1>5, <1>6 DEF PacketsKept
<1>9. \A l \in DOMAIN answers' :
        answers'[l].packet.kind = "terminal" /\ answers'[l].packet.num = answers[k].packet.num
          => l = k
  BY <1>3, <1>4 DEF TerminalKept, AnsweredOnce
<1>10. Handed' => cmdBuffer'.num # answers[k].packet.num
  BY <1>5
<1>11. QED
  BY <1>5, <1>7, <1>8, <1>9, <1>10

(* Steps that leave the blocking thread and its buffer alone.              *)
Hands == <<cmdBuffer, blockingFunc, event, bpc, running, raced>>

HandsKept ==
  /\ UNCHANGED Hands
  /\ \A i \in Ifaces : pc'[i] \in {"block", "signal"} <=> pc[i] \in {"block", "signal"}

LEMMA OthersKeepHands ==
  ASSUME TypeOK, [Next]_vars, ~Blocking,
         \A i \in Ifaces : ~StoreCommand(i) /\ ~SetBlocking(i) /\ ~SignalBlocking(i)
  PROVE  HandsKept
<1> USE DEF HandsKept, Hands, TypeOK, blocking, thread, history, dispatch
<1>1. ASSUME NEW i \in Ifaces, Receive(i) PROVE HandsKept
  BY <1>1 DEF Receive
<1>2. CASE ReceiveBad \/ ReceiveReply \/ UNCHANGED vars
  BY <1>2 DEF ReceiveBad, ReceiveReply, vars
<1> USE DEF Step, Return, Goto, Case
<1>3. ASSUME NEW i \in Ifaces, SetSendFunc(i) \/ SetFwd(i) \/ Forward(i) PROVE HandsKept
  BY <1>3 DEF SetSendFunc, SetFwd, Forward
<1>4. ASSUME NEW i \in Ifaces, LockBuffer(i) \/ FillBuffer(i) \/ ReplyUnlock(i) PROVE HandsKept
  BY <1>4 DEF LockBuffer, FillBuffer, ReplyUnlock
<1>5. ASSUME NEW i \in Ifaces, LockTerminal(i) \/ PrintUnlock(i) \/ TestBlocking(i)
      PROVE  HandsKept
  BY <1>5 DEF LockTerminal, PrintUnlock, TestBlocking
<1>6. QED
  BY <1>1, <1>2, <1>3, <1>4, <1>5 DEF Next, Process

LEMMA HandsStep ==
  ASSUME TypeOK, Known, Numbered, [Next]_vars, HandsKept, OneCommand, HandedKnown
  PROVE  OneCommand' /\ HandedKnown'
<1>1. PacketsKept /\ (lastId \in Peers => lastId' \in Peers)
  BY StepKeeps
<1>2. OneCommand'
  BY <1>1 DEF PacketsKept, HandsKept, Hands, OneCommand
<1>3. HandedKnown'
  <2> SUFFICES ASSUME Handed PROVE HandedKnown'
    BY DEF HandedKnown, Handed, HandsKept, Hands
  <2>1. cmdBuffer.num \in Nat
    BY DEF Handed, Known, Commanded, Terminal, AnyPacket
  <2>2. /\ cmdBuffer.num <= received
        /\ \A i \in Ifaces : pc[i] # "idle" => packet[i].num # cmdBuffer.num
        /\ ~cmdBuffer.quiet => blockingFunc = cmdBuffer.iface
        /\ cmdBuffer.iface = Can => lastId \in Peers
    BY DEF HandedKnown
  <2>3. \A i \in Ifaces : pc'[i] # "idle" => packet'[i].num # cmdBuffer.num
    BY <1>1, <2>1, <2>2 DEF PacketsKept
  <2>4. cmdBuffer.num <= received'
    BY <1>1, <2>1, <2>2 DEF PacketsKept
  <2>5. QED
    BY <1>1, <2>2, <2>3, <2>4 DEF HandedKnown, HandsKept, Hands
<1>4. QED
  BY <1>2, <1>3

(* The three steps that hand a command over.                               *)
LEMMA StoreHands ==
  ASSUME TypeOK, Known, NEW i \in Ifaces, StoreCommand(i), ~raced'
  PROVE  OneCommand' /\ ~Handed' /\ ~raced
<1>1. /\ pc[i] = "store" /\ pc' = [pc EXCEPT ![i] = "block"] /\ packet' = packet
      /\ cmdBuffer' = packet[i] /\ ~raced /\ ~event /\ bpc = "wait" /\ event' = event /\ bpc' = bpc
      /\ \A j \in Ifaces \ {i} : pc[j] \notin {"store", "block", "signal"}
  BY DEF StoreCommand, Step, Goto, Storing, thread
<1>2. packet[i].iface = i
  BY <1>1 DEF Known, OwnPackets, Own
<1>3. OneCommand'
  BY <1>1, <1>2 DEF OneCommand, TypeOK
<1>4. QED
  BY <1>1, <1>3 DEF Handed

LEMMA SetHands ==
  ASSUME TypeOK, Known, NEW i \in Ifaces, SetBlocking(i), OneCommand, HandedKnown
  PROVE  OneCommand' /\ ~Handed'
<1>1. /\ pc[i] = "block" /\ pc' = [pc EXCEPT ![i] = "signal"] /\ packet' = packet
      /\ cmdBuffer' = cmdBuffer /\ event' = event /\ bpc' = bpc
  BY DEF SetBlocking, Step, Goto, thread
<1>2. QED
  BY <1>1 DEF OneCommand, TypeOK, Handed

LEMMA SignalHands ==
  ASSUME TypeOK, Known, Numbered, NEW i \in Ifaces, SignalBlocking(i), OneCommand
  PROVE  /\ OneCommand' /\ HandedKnown' /\ cmdBuffer' = cmdBuffer
         /\ pc[i] # "idle" /\ cmdBuffer.num = packet[i].num
<1>1. /\ pc[i] = "signal" /\ pc' = [pc EXCEPT ![i] = "idle"]
      /\ packet' = [packet EXCEPT ![i] = NoPacket]
      /\ blockingFunc' = replyFunc[i] /\ event' = TRUE
      /\ UNCHANGED <<received, lastId, cmdBuffer, bpc, running>>
  BY DEF SignalBlocking, Return, Goto, thread
<1>2. /\ bpc = "wait" /\ cmdBuffer.num = packet[i].num
      /\ cmdBuffer.iface = i /\ cmdBuffer.quiet = packet[i].quiet
      /\ \A j \in Ifaces \ {i} : pc[j] \notin {"block", "signal"}
  BY <1>1 DEF OneCommand
<1>3. OneCommand'
  BY <1>1, <1>2 DEF OneCommand, TypeOK
<1>4. /\ cmdBuffer.num <= received
      /\ \A j \in Ifaces \ {i} : pc[j] # "idle" => packet[j].num # cmdBuffer.num
  BY <1>1, <1>2 DEF Numbered
<1>5. ~cmdBuffer.quiet => replyFunc[i] = i
  BY <1>1, <1>2 DEF Known, OwnFuncs
<1>6. i = Can => lastId \in Peers
  BY <1>1 DEF Known, LastKnown, OwnPackets, Own
<1>7. HandedKnown'
  BY <1>1, <1>2, <1>4, <1>5, <1>6 DEF HandedKnown, TypeOK
<1>8. QED
  BY <1>1, <1>2, <1>3, <1>7

(* The steps of the blocking thread.                                       *)
LEMMA WakeHands ==
  ASSUME TypeOK, Known, OneCommand, HandedKnown, BWake \/ BStart \/ BFree
  PROVE  OneCommand' /\ HandedKnown' /\ (Handed' => Handed) /\ cmdBuffer' = cmdBuffer
<1>1. UNCHANGED <<received, pc, packet, lastId, cmdBuffer, blockingFunc>>
  BY DEF BWake, BStart, BFree, dispatch, blocking
<1>2. CASE BWake
  <2>1. /\ bpc = "wait" /\ event /\ ~event' /\ bpc' = "start" /\ running' = cmdBuffer
    BY <1>2 DEF BWake
  <2>2. \A i \in Ifaces : pc[i] \notin {"block", "signal"}
    BY <2>1 DEF OneCommand
  <2>3. QED
    BY <1>1, <2>1, <2>2 DEF OneCommand, HandedKnown, Handed
<1>3. CASE BStart
  <2>1. bpc = "start" /\ bpc' = "reply" /\ running' = running /\ event' = event
    BY <1>3 DEF BStart, blocking
  <2>2. QED
    BY <1>1, <2>1 DEF OneCommand, HandedKnown, Handed
<1>4. CASE BFree
  <2>1. bpc = "free" /\ bpc' = "wait" /\ event' = event
    BY <1>4 DEF BFree
  <2>2. ~event /\ \A i \in Ifaces : pc[i] \notin {"block", "signal"}
    BY <2>1 DEF OneCommand
  <2>3. QED
    BY <1>1, <2>1, <2>2 DEF OneCommand, HandedKnown, Handed
<1>5. QED
  BY <1>2, <1>3, <1>4

LEMMA ReplyHands ==
  ASSUME TypeOK, Known, BReply, OneCommand, HandedKnown, AnsweredOnce
  PROVE  OneCommand' /\ HandedKnown' /\ AnsweredOnce'
<1>1. /\ bpc = "reply" /\ bpc' = "free" /\ event' = event
      /\ UNCHANGED <<received, pc, packet, lastId, cmdBuffer, blockingFunc, running, sendFunc>>
      /\ Send(blockingFunc, running, cmdBuffer.num, lastId)
  BY DEF BReply, dispatch, blocking, funcs
<1>2. running = cmdBuffer /\ ~event
      /\ \A i \in Ifaces : pc[i] \notin {"block", "signal"}
  BY <1>1 DEF OneCommand
<1>3. OneCommand' /\ HandedKnown' /\ ~Handed'
  BY <1>1, <1>2 DEF OneCommand, HandedKnown, Handed
<1> DEFINE p == cmdBuffer
           r == [packet |-> p, to |-> EndOf(Dest(blockingFunc), lastId), data |-> p.num]
<1>4. /\ p \in AnyPacket /\ p.num <= received
      /\ \A i \in Ifaces : pc[i] # "idle" => packet[i].num # p.num
      /\ ~p.quiet => blockingFunc = p.iface
      /\ p.iface = Can => lastId \in Peers
  BY <1>1 DEF Known, Commanded, Terminal, HandedKnown, Handed
<1>5. \A k \in DOMAIN answers : answers[k].packet.kind = "terminal" =>
        answers[k].packet.num # p.num
  BY <1>1 DEF AnsweredOnce, Handed
<1>6. ~p.quiet => EndOf(Dest(blockingFunc), lastId) \in EndsOf(p.iface)
  <2>1. p.iface \in Ifaces /\ p.iface # SendPacket
    BY <1>4, CommandsAssumption DEF AnyPacket, Ifaces
  <2>2. QED
    BY <1>4, <2>1 DEF Dest, EndOf, EndsOf
<1>7. answers \in Seq(Answer)
  BY DEF TypeOK
<1>8. answers' = answers \/ answers' = Append(answers, r)
  BY <1>1, <1>2 DEF Send, Dest
<1>9. CASE answers' = answers
  BY <1>1, <1>3, <1>9 DEF AnsweredOnce
<1>10. CASE answers' = Append(answers, r)
  <2>1. \A k \in DOMAIN answers' :
          \/ k \in DOMAIN answers /\ answers'[k] = answers[k]
          \/ k = Len(answers) + 1 /\ answers'[k] = r
    <3> HIDE DEF r
    <3>1. QED
      BY <1>7, <1>10
  <2>2. ASSUME NEW k \in DOMAIN answers', answers'[k].packet.kind = "terminal"
        PROVE  /\ answers'[k].packet \in AnyPacket /\ answers'[k].packet.num <= received
               /\ answers'[k].data = answers'[k].packet.num
               /\ ~answers'[k].packet.quiet => answers'[k].to \in EndsOf(answers'[k].packet.iface)
               /\ \A i \in Ifaces : pc[i] # "idle" => packet[i].num # answers'[k].packet.num
    <3>1. CASE k \in DOMAIN answers /\ answers'[k] = answers[k]
      BY <2>2, <3>1 DEF AnsweredOnce
    <3>2. CASE answers'[k] = r
      <4>1. r.packet = p /\ r.to = EndOf(Dest(blockingFunc), lastId) /\ r.data = p.num
        OBVIOUS
      <4> HIDE DEF r
      <4>2. QED
        BY <1>4, <1>6, <3>2, <4>1
    <3>3. QED
      BY <2>1, <3>1, <3>2
  <2>3. ASSUME NEW k \in DOMAIN answers', NEW l \in DOMAIN answers',
               answers'[k].packet.kind = "terminal", answers'[l].packet.kind = "terminal",
               answers'[l].packet.num = answers'[k].packet.num
        PROVE  l = k
    <3>1. r.packet = p
      OBVIOUS
    <3> HIDE DEF r, p
    <3>2. CASE k \in DOMAIN answers /\ answers'[k] = answers[k] /\ l \in DOMAIN answers
               /\ answers'[l] = answers[l]
      BY <2>3, <3>2 DEF AnsweredOnce
    <3>3. QED
      BY <1>5, <2>1, <2>3, <3>1, <3>2
  <2>4. EndsOf(Can)' = EndsOf(Can) /\ UNCHANGED <<received, pc, packet>>
    BY <1>1 DEF EndsOf
  <2>5. QED
    BY <1>3, <2>2, <2>3, <2>4 DEF AnsweredOnce, EndsOf
<1>11. QED
  BY <1>3, <1>8, <1>9, <1>10

LEMMA BlockingStep ==
  ASSUME TypeOK, Known, BlockingInv, [Next]_vars
  PROVE  BlockingInv'
<1>1. Numbered /\ Numbered'
  BY NumberedStep DEF BlockingInv
<1>2. SUFFICES ASSUME ~raced' PROVE OneCommand' /\ HandedKnown' /\ AnsweredOnce'
  BY <1>1 DEF BlockingInv
<1>3. ASSUME ~raced, HandsKept
      PROVE  OneCommand' /\ HandedKnown' /\ (Handed' => Handed /\ cmdBuffer' = cmdBuffer)
  BY <1>1, <1>3, HandsStep DEF BlockingInv, HandsKept, Hands, Handed
<1>4. CASE \E i \in Ifaces : StoreCommand(i)
  <2>1. OneCommand' /\ ~Handed' /\ ~raced /\ ~BReply
    BY <1>2, <1>4, StoreHands DEF StoreCommand, BReply, thread
  <2>2. QED
    BY <1>1, <2>1, AnswersKept, AnsweredStep DEF BlockingInv, HandedKnown
<1>5. CASE \E i \in Ifaces : SetBlocking(i)
  <2>1. ~raced /\ ~BReply
    BY <1>2, <1>5 DEF SetBlocking, history, BReply, thread
  <2>2. OneCommand' /\ ~Handed'
    BY <1>5, <2>1, SetHands DEF BlockingInv
  <2>3. QED
    BY <1>1, <2>1, <2>2, AnswersKept, AnsweredStep DEF BlockingInv, HandedKnown
<1>6. CASE \E i \in Ifaces : SignalBlocking(i)
  <2>1. ~raced /\ ~BReply
    BY <1>2, <1>6 DEF SignalBlocking, history, BReply, thread
  <2>2. /\ OneCommand' /\ HandedKnown' /\ cmdBuffer' = cmdBuffer
        /\ \E i \in Ifaces : pc[i] # "idle" /\ cmdBuffer.num = packet[i].num
    BY <1>1, <1>6, <2>1, SignalHands DEF BlockingInv
  <2>3. QED
    BY <1>1, <2>1, <2>2, AnswersKept, AnsweredStep DEF BlockingInv
<1>7. CASE BReply
  <2>1. ~raced
    BY <1>2, <1>7 DEF BReply
  <2>2. QED
    BY <1>7, <2>1, ReplyHands DEF BlockingInv
<1>8. CASE BWake \/ BStart \/ BFree
  <2>1. ~raced /\ ~BReply
    BY <1>2, <1>8 DEF BWake, BStart, BFree, history, BReply
  <2>2. OneCommand' /\ HandedKnown' /\ (Handed' => Handed) /\ cmdBuffer' = cmdBuffer
    BY <1>8, <2>1, WakeHands DEF BlockingInv
  <2>3. QED
    BY <1>1, <2>1, <2>2, AnswersKept, AnsweredStep DEF BlockingInv
<1>9. CASE ~Blocking /\ \A i \in Ifaces : ~StoreCommand(i) /\ ~SetBlocking(i) /\ ~SignalBlocking(i)
  <2>1. HandsKept /\ ~raced /\ ~BReply
    BY <1>2, <1>9, OthersKeepHands DEF HandsKept, Hands, Blocking
  <2>2. OneCommand' /\ HandedKnown' /\ (Handed' => Handed /\ cmdBuffer' = cmdBuffer)
    BY <1>3, <2>1
  <2>3. QED
    BY <1>1, <2>1, <2>2, AnswersKept, AnsweredStep DEF BlockingInv
<1>10. QED
  BY <1>4, <1>5, <1>6, <1>7, <1>8, <1>9 DEF Blocking

(* The commands that take long: unless two threads raced to the blocking   *)
(* thread, each is answered once, with its own data and at the interface it*)
(* came from, although the pointer it is answered through and the buffer it*)
(* is read from are shared by all.                                         *)
THEOREM BlockingAnswers == Spec => []BlockingOwn
<1>1. Init => BlockingInv
  BY DEF Init, BlockingInv, Numbered, OneCommand, HandedKnown, AnsweredOnce, Handed
<1>2. IInv => TypeOK /\ Known
  BY DEF IInv
<1>3. BlockingInv => BlockingOwn
  <2> SUFFICES ASSUME AnsweredOnce, NEW a \in Sent, a.packet.kind = "terminal"
               PROVE  /\ Cardinality(AnswersTo(a.packet)) = 1
                      /\ a.data = a.packet.num
                      /\ ~a.packet.quiet => a.to \in EndsOf(a.packet.iface)
    BY DEF BlockingInv, BlockingOwn
  <2>1. PICK k \in DOMAIN answers : a = answers[k]
    BY DEF Sent
  <2>2. AnswersTo(a.packet) = {k}
    BY <2>1 DEF AnswersTo, AnsweredOnce
  <2>3. Cardinality({k}) = 1
    BY FS_Singleton
  <2>4. QED
    BY <2>1, <2>2, <2>3 DEF AnsweredOnce
<1>4. QED
  BY <1>1, <1>2, <1>3, Invariant, BlockingStep, PTL DEF Spec
=============================================================================

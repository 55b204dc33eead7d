-------------------------- MODULE FlashHelperProofs --------------------------
(***************************************************************************)
(* Proofs about FlashHelper for any number of threads, any size of the     *)
(* firmware and of the user interface, and any number of power cuts,       *)
(* failures and corruptions.                                               *)
(***************************************************************************)
EXTENDS FlashHelper, TLAPS

-----------------------------------------------------------------------------
(* The firmware only loses content: what is intact now was so when the     *)
(* integrity thread came by and when the checksum was stored.              *)
Checksum ==
  /\ crcOf # <<>> => \A c \in 1..Chunks : image[c] => crcOf[c]
  /\ boot = "run" => crcOf # <<>>
  /\ crcFlag /\ crcOf = <<>> => firstCut \/ boot = "crc"

Passed ==
  crcIndex > 0 =>
    /\ boot = "run" /\ Len(crcUnit) = crcIndex
    /\ \A c \in 1..crcIndex : (image[c] => crcUnit[c]) /\ (crcUnit[c] => crcOf[c])

(* The system lock and the lock of the flash controller.                   *)
Locks ==
  \A t \in Threads :
    /\ boot # "run" => pc[t] = "idle"
    /\ pc[t] \in {"work", "leave"} => sysLock = t /\ watchdog = "slow"
    /\ pc[t] \in {"wait", "work"} /\ crLock => relocked[t]

(* The cache while nobody has come in between.                             *)
Writing(t) == pc[t] \in {"resetOk", "unlock", "wait", "work", "leave"}

Cached ==
  ~raced =>
    /\ checkDone => uiOk = Valid(ui)
    /\ \A t \in Threads :
         /\ Writing(t) => ~checkDone /\ \A u \in Others(t) : pc[u] = "idle"
         /\ pc[t] = "setOk" => found[t] = Valid(ui)
         /\ pc[t] = "setDone" => uiOk = Valid(ui)

IInv == TypeOK /\ Checksum /\ Passed /\ IntactRuns /\ Locks /\ Cached

-----------------------------------------------------------------------------
(* The start, the integrity thread and the faults.                         *)
LEMMA InitInvariant == Init => IInv
<1> SUFFICES ASSUME Init PROVE IInv
  OBVIOUS
<1>1. TypeOK
  <2>1. /\ image \in [1..Chunks -> BOOLEAN]
        /\ ui \in [1..Pieces -> {"erased", "written", "garbled"}]
        /\ crcIndex \in 0..Chunks - 1 /\ crcUnit \in Seq(BOOLEAN) /\ Len(crcUnit) \in 0..Chunks
    BY FlashAssumption DEF Init
  <2>2. /\ pc \in [Threads -> {"idle"}] /\ op \in [Threads -> 0..Read]
        /\ found \in [Threads -> BOOLEAN] /\ relocked \in [Threads -> BOOLEAN]
    BY FlashAssumption DEF Init, Read
  <2>3. QED
    BY <2>1, <2>2 DEF Init, TypeOK
<1>2. Checksum /\ Passed /\ IntactRuns
  BY DEF Init, Checksum, Passed, IntactRuns
<1>3. Locks /\ Cached
  BY DEF Init, Locks, Cached, Writing
<1>4. QED
  BY <1>1, <1>2, <1>3 DEF IInv

(* After a reset the threads are idle and nothing is cached.               *)
LEMMA ResetType ==
  ASSUME Reset
  PROVE  /\ boot' = "off" /\ crcIndex' = 0 /\ crcUnit' = <<>>
         /\ checkDone' = FALSE /\ uiOk' = FALSE /\ raced' = FALSE
         /\ crLock' = TRUE /\ sysLock' = NoThread /\ watchdog' = "fast"
         /\ pc' \in [Threads -> {"idle"}] /\ op' \in [Threads -> 0..Read]
         /\ found' \in [Threads -> BOOLEAN] /\ relocked' \in [Threads -> BOOLEAN]
         /\ Passed' /\ IntactRuns' /\ Locks' /\ Cached'
<1>1. /\ boot' = "off" /\ crcIndex' = 0 /\ checkDone' = FALSE
      /\ pc' \in [Threads -> {"idle"}]
  BY DEF Reset
<1>2. op' \in [Threads -> 0..Read]
  BY FlashAssumption DEF Reset, Read
<1>3. Passed' /\ IntactRuns' /\ Locks' /\ Cached'
  BY <1>1 DEF Passed, IntactRuns, Locks, Cached, Writing
<1>4. QED
  BY <1>1, <1>2, <1>3 DEF Reset

(* What the CRC unit has been fed with after one more chunk.               *)
LEMMA FedType ==
  ASSUME TypeOK, Checksum, Passed, boot = "run"
  PROVE  /\ Fed \in Seq(BOOLEAN) /\ Len(Fed) = crcIndex + 1 /\ crcIndex + 1 \in 1..Chunks
         /\ \A c \in 1..crcIndex + 1 : (image[c] => Fed[c]) /\ (Fed[c] => crcOf[c])
<1> DEFINE unit == IF crcIndex = 0 THEN <<>> ELSE crcUnit
<1>1. crcIndex \in 0..Chunks - 1 /\ crcIndex + 1 \in 1..Chunks /\ image[crcIndex + 1] \in BOOLEAN
  BY FlashAssumption DEF TypeOK
<1>2. unit \in Seq(BOOLEAN) /\ Len(unit) = crcIndex
  <2>1. CASE crcIndex = 0
    BY <2>1
  <2>2. CASE crcIndex # 0
    <3>1. unit = crcUnit /\ crcIndex > 0
      BY <1>1, <2>2
    <3>2. QED
      BY <3>1 DEF TypeOK, Passed
  <2>3. QED
    BY <2>1, <2>2
<1>3. \A c \in 1..crcIndex : (image[c] => unit[c]) /\ (unit[c] => crcOf[c])
  BY <1>1 DEF Passed
<1>4. image[crcIndex + 1] => crcOf[crcIndex + 1]
  BY <1>1 DEF Checksum
<1>5. Fed = Append(unit, image[crcIndex + 1])
  BY DEF Fed
<1> HIDE DEF unit
<1>6. Fed \in Seq(BOOLEAN) /\ Len(Fed) = crcIndex + 1
  BY <1>1, <1>2, <1>5
<1>7. Fed[crcIndex + 1] = image[crcIndex + 1] /\ \A c \in 1..crcIndex : Fed[c] = unit[c]
  BY <1>1, <1>2, <1>5
<1>8. ASSUME NEW c \in 1..crcIndex + 1 PROVE (image[c] => Fed[c]) /\ (Fed[c] => crcOf[c])
  <2>1. CASE c = crcIndex + 1
    BY <1>4, <1>7, <2>1
  <2>2. CASE c \in 1..crcIndex
    BY <1>3, <1>7, <2>2
  <2>3. QED
    BY <1>1, <2>1, <2>2
<1>9. QED
  BY <1>1, <1>6, <1>8

(* What an operation that is cut short leaves in sector 7.                 *)
LEMMA GarbledType ==
  ASSUME TypeOK, NEW t \in Threads
  PROVE  Garbled(t) \in [1..Pieces -> {"erased", "written", "garbled"}]
BY DEF TypeOK, Garbled

(* The start, the integrity thread and the faults keep the invariant.      *)
LEMMA MainStep ==
  ASSUME IInv, \/ PowerOn \/ Verify \/ WriteFlag \/ WriteCrc \/ WriteFails
               \/ Chunk \/ LastChunk \/ Corrupt \/ PowerCut
  PROVE  IInv'
<1> USE FlashAssumption DEF IInv, firmware, check, cache, controller, threads
<1>1. CASE PowerOn
  <2>1. TypeOK'
    BY <1>1 DEF TypeOK, PowerOn
  <2>2. Checksum'
    BY <1>1 DEF TypeOK, Checksum, PowerOn
  <2>3. (Passed /\ IntactRuns)'
    BY <1>1 DEF TypeOK, Passed, IntactRuns, Checksum, PowerOn
  <2>4. (Locks /\ Cached)'
    BY <1>1 DEF TypeOK, Locks, Cached, Writing, PowerOn
  <2>5. QED
    BY <2>1, <2>2, <2>3, <2>4
<1>2. CASE Verify
  <2>1. TypeOK'
    BY <1>2 DEF TypeOK, Verify
  <2>2. Checksum'
    BY <1>2 DEF TypeOK, Checksum, Verify
  <2>3. (Passed /\ IntactRuns)'
    BY <1>2 DEF TypeOK, Passed, IntactRuns, Checksum, Verify
  <2>4. (Locks /\ Cached)'
    BY <1>2 DEF TypeOK, Locks, Cached, Writing, Verify
  <2>5. QED
    BY <2>1, <2>2, <2>3, <2>4
<1>3. CASE WriteFlag
  <2>1. TypeOK'
    BY <1>3 DEF TypeOK, WriteFlag
  <2>2. Checksum'
    BY <1>3 DEF TypeOK, Checksum, WriteFlag
  <2>3. (Passed /\ IntactRuns)'
    BY <1>3 DEF TypeOK, Passed, IntactRuns, Checksum, WriteFlag
  <2>4. (Locks /\ Cached)'
    BY <1>3 DEF TypeOK, Locks, Cached, Writing, WriteFlag
  <2>5. QED
    BY <2>1, <2>2, <2>3, <2>4
<1>4. CASE WriteCrc
  <2>1. TypeOK'
    BY <1>4, ResetType DEF TypeOK, WriteCrc
  <2>2. Checksum'
    BY <1>4, ResetType DEF TypeOK, Checksum, WriteCrc
  <2>3. (Passed /\ IntactRuns)'
    BY <1>4, ResetType DEF TypeOK, Passed, IntactRuns, WriteCrc
  <2>4. (Locks /\ Cached)'
    BY <1>4, ResetType DEF TypeOK, Locks, Cached, Writing, WriteCrc
  <2>5. QED
    BY <2>1, <2>2, <2>3, <2>4
<1>5. CASE WriteFails
  <2>1. TypeOK'
    BY <1>5 DEF TypeOK, WriteFails
  <2>2. Checksum'
    BY <1>5 DEF TypeOK, Checksum, WriteFails
  <2>3. (Passed /\ IntactRuns)'
    BY <1>5 DEF TypeOK, Passed, IntactRuns, Checksum, WriteFails
  <2>4. (Locks /\ Cached)'
    BY <1>5 DEF TypeOK, Locks, Cached, Writing, WriteFails
  <2>5. QED
    BY <2>1, <2>2, <2>3, <2>4
<1>6. CASE Chunk
  <2>1. TypeOK'
    <3>1. crcUnit' \in Seq(BOOLEAN) /\ Len(crcUnit') \in 0..Chunks /\ crcIndex' \in 0..Chunks - 1
      BY <1>6, FedType DEF TypeOK, Chunk
    <3>2. QED
      BY <1>6, <3>1 DEF TypeOK, Chunk
  <2>2. Checksum'
    BY <1>6 DEF TypeOK, Checksum, Chunk
  <2>3. (Passed /\ IntactRuns)'
    BY <1>6, FedType DEF Passed, IntactRuns, Chunk
  <2>4. (Locks /\ Cached)'
    BY <1>6 DEF TypeOK, Locks, Cached, Writing, Chunk
  <2>5. QED
    BY <2>1, <2>2, <2>3, <2>4
<1>7. CASE LastChunk
  <2>1. TypeOK'
    <3>1. CASE Fed = crcOf
      <4>1. crcUnit' \in Seq(BOOLEAN) /\ Len(crcUnit') \in 0..Chunks /\ crcIndex' \in 0..Chunks - 1
        BY <1>7, <3>1, FedType DEF TypeOK, LastChunk
      <4>2. QED
        BY <1>7, <3>1, <4>1 DEF TypeOK, LastChunk
    <3>2. CASE Fed # crcOf
      BY <1>7, <3>2, ResetType DEF TypeOK, LastChunk
    <3>3. QED
      BY <3>1, <3>2
  <2>2. Checksum'
    BY <1>7, ResetType DEF TypeOK, Checksum, LastChunk
  <2>3. (Passed /\ IntactRuns)'
    <3>1. CASE Fed = crcOf
      BY <1>7, <3>1 DEF Passed, IntactRuns, LastChunk
    <3>2. CASE Fed # crcOf
      BY <1>7, <3>2, ResetType DEF LastChunk
    <3>3. QED
      BY <3>1, <3>2
  <2>4. (Locks /\ Cached)'
    BY <1>7, ResetType DEF TypeOK, Locks, Cached, Writing, LastChunk
  <2>5. QED
    BY <2>1, <2>2, <2>3, <2>4
<1>8. CASE Corrupt
  <2>1. TypeOK'
    BY <1>8 DEF TypeOK, Corrupt
  <2>2. Checksum'
    BY <1>8 DEF TypeOK, Checksum, Corrupt
  <2>3. (Passed /\ IntactRuns)'
    BY <1>8 DEF TypeOK, Passed, IntactRuns, Checksum, Corrupt
  <2>4. (Locks /\ Cached)'
    BY <1>8 DEF TypeOK, Locks, Cached, Writing, Corrupt
  <2>5. QED
    BY <2>1, <2>2, <2>3, <2>4
<1>9. CASE PowerCut
  <2>1. TypeOK'
    <3>1. ui' \in [1..Pieces -> {"erased", "written", "garbled"}]
      BY <1>9, GarbledType DEF TypeOK, PowerCut
    <3>2. firstCut' \in BOOLEAN
      BY <1>9 DEF TypeOK, PowerCut
    <3>3. QED
      BY <1>9, <3>1, <3>2, ResetType DEF TypeOK, PowerCut
  <2>2. Checksum'
    BY <1>9, ResetType DEF TypeOK, Checksum, PowerCut
  <2>3. (Passed /\ IntactRuns)'
    BY <1>9, ResetType DEF TypeOK, Passed, IntactRuns, PowerCut
  <2>4. (Locks /\ Cached)'
    BY <1>9, ResetType DEF TypeOK, Locks, Cached, Writing, PowerCut
  <2>5. QED
    BY <2>1, <2>2, <2>3, <2>4
<1>10. QED
  BY <1>1, <1>2, <1>3, <1>4, <1>5, <1>6, <1>7, <1>8, <1>9

(* A thread at work on the user interface.                                 *)
LEMMA ThreadStep ==
  ASSUME IInv, NEW t \in Threads,
         StartWrite(t) \/ StartRead(t) \/ Serve(t) \/ WaitFails(t) \/ WorkFails(t)
  PROVE  IInv'
<1> USE FlashAssumption DEF IInv, firmware, check, cache, controller, threads, Goto, Start
<1>1. UNCHANGED <<firmware, boot, check>> => (Checksum /\ Passed /\ IntactRuns)'
  BY DEF Checksum, Passed, IntactRuns
<1>2. CASE StartWrite(t)
  <2>1. TypeOK'
    BY <1>2 DEF TypeOK, StartWrite, Read, Erase
  <2>2. Locks'
    BY <1>2 DEF TypeOK, Locks, StartWrite
  <2>3. Cached'
    BY <1>2, ZenonT(40) DEF TypeOK, Cached, Writing, Busy, Others, StartWrite
  <2>4. QED
    BY <1>1, <1>2, <2>1, <2>2, <2>3 DEF StartWrite
<1>3. CASE StartRead(t)
  <2>1. TypeOK'
    BY <1>3 DEF TypeOK, StartRead, Read, Erase
  <2>2. Locks'
    BY <1>3 DEF TypeOK, Locks, StartRead
  <2>3. Cached'
    BY <1>3, ZenonT(40) DEF TypeOK, Cached, Writing, Busy, Others, StartRead
  <2>4. QED
    BY <1>1, <1>3, <2>1, <2>2, <2>3 DEF StartRead
<1>4. CASE ResetDone(t)
  <2>1. TypeOK'
    BY <1>4 DEF TypeOK, ResetDone, Read, Erase
  <2>2. Locks'
    BY <1>4 DEF TypeOK, Locks, ResetDone
  <2>3. Cached'
    BY <1>4 DEF TypeOK, Cached, Writing, Busy, Others, ResetDone
  <2>4. QED
    BY <1>1, <1>4, <2>1, <2>2, <2>3 DEF ResetDone
<1>5. CASE ResetOk(t)
  <2>1. TypeOK'
    BY <1>5 DEF TypeOK, ResetOk, Read, Erase
  <2>2. Locks'
    BY <1>5 DEF TypeOK, Locks, ResetOk
  <2>3. Cached'
    BY <1>5 DEF TypeOK, Cached, Writing, Busy, Others, ResetOk
  <2>4. QED
    BY <1>1, <1>5, <2>1, <2>2, <2>3 DEF ResetOk
<1>6. CASE Unlock(t)
  <2>1. TypeOK'
    BY <1>6 DEF TypeOK, Unlock, Read, Erase
  <2>2. Locks'
    BY <1>6 DEF TypeOK, Locks, Unlock
  <2>3. Cached'
    BY <1>6 DEF TypeOK, Cached, Writing, Busy, Others, Unlock
  <2>4. QED
    BY <1>1, <1>6, <2>1, <2>2, <2>3 DEF Unlock
<1>7. CASE Enter(t)
  <2>1. TypeOK'
    BY <1>7 DEF TypeOK, Enter, Read, Erase
  <2>2. Locks'
    BY <1>7 DEF TypeOK, Locks, Enter
  <2>3. Cached'
    BY <1>7 DEF TypeOK, Cached, Writing, Busy, Others, Enter
  <2>4. QED
    BY <1>1, <1>7, <2>1, <2>2, <2>3 DEF Enter
<1>8. CASE Work(t)
  <2>1. TypeOK'
    BY <1>8 DEF TypeOK, Work, Read, Erase
  <2>2. Locks'
    BY <1>8 DEF TypeOK, Locks, Work
  <2>3. Cached'
    BY <1>8 DEF TypeOK, Cached, Writing, Busy, Others, Work
  <2>4. QED
    BY <1>1, <1>8, <2>1, <2>2, <2>3 DEF Work
<1>9. CASE Leave(t)
  <2>1. TypeOK'
    BY <1>9 DEF TypeOK, Leave, Read, Erase
  <2>2. Locks'
    BY <1>9 DEF TypeOK, Locks, Leave
  <2>3. Cached'
    BY <1>9 DEF TypeOK, Cached, Writing, Busy, Others, Leave
  <2>4. QED
    BY <1>1, <1>9, <2>1, <2>2, <2>3 DEF Leave
<1>10. CASE Scan(t)
  <2>1. TypeOK'
    <3>1. Valid(ui) \in BOOLEAN
      BY DEF Valid
    <3>2. QED
      BY <1>10, <3>1 DEF TypeOK, Scan
  <2>2. Locks'
    BY <1>10 DEF TypeOK, Locks, Scan
  <2>3. Cached'
    BY <1>10 DEF TypeOK, Cached, Writing, Busy, Others, Scan
  <2>4. QED
    BY <1>1, <1>10, <2>1, <2>2, <2>3 DEF Scan
<1>11. CASE SetOk(t)
  <2>1. TypeOK'
    BY <1>11 DEF TypeOK, SetOk, Read, Erase
  <2>2. Locks'
    BY <1>11 DEF TypeOK, Locks, SetOk
  <2>3. Cached'
    BY <1>11 DEF TypeOK, Cached, Writing, Busy, Others, SetOk
  <2>4. QED
    BY <1>1, <1>11, <2>1, <2>2, <2>3 DEF SetOk
<1>12. CASE SetDone(t)
  <2>1. TypeOK'
    BY <1>12 DEF TypeOK, SetDone, Read, Erase
  <2>2. Locks'
    BY <1>12 DEF TypeOK, Locks, SetDone
  <2>3. Cached'
    BY <1>12 DEF TypeOK, Cached, Writing, Busy, Others, SetDone
  <2>4. QED
    BY <1>1, <1>12, <2>1, <2>2, <2>3 DEF SetDone
<1>13. CASE Use(t)
  <2>1. TypeOK'
    BY <1>13 DEF TypeOK, Use, Read, Erase
  <2>2. Locks'
    BY <1>13 DEF TypeOK, Locks, Use
  <2>3. Cached'
    BY <1>13 DEF TypeOK, Cached, Writing, Busy, Others, Use
  <2>4. QED
    BY <1>1, <1>13, <2>1, <2>2, <2>3 DEF Use
<1>14. CASE WaitFails(t)
  <2>1. TypeOK'
    BY <1>14 DEF TypeOK, WaitFails, Read, Erase
  <2>2. Locks'
    BY <1>14 DEF TypeOK, Locks, WaitFails
  <2>3. Cached'
    BY <1>14 DEF TypeOK, Cached, Writing, Busy, Others, WaitFails
  <2>4. QED
    BY <1>1, <1>14, <2>1, <2>2, <2>3 DEF WaitFails
<1>15. CASE WorkFails(t)
  <2>1. TypeOK'
    BY <1>15, GarbledType DEF TypeOK, WorkFails
  <2>2. Locks'
    BY <1>15 DEF TypeOK, Locks, WorkFails
  <2>3. Cached'
    BY <1>15 DEF TypeOK, Cached, Writing, Busy, Others, WorkFails
  <2>4. QED
    BY <1>1, <1>15, <2>1, <2>2, <2>3 DEF WorkFails
<1>16. QED
  BY <1>2, <1>3, <1>4, <1>5, <1>6, <1>7, <1>8, <1>9, <1>10, <1>11, <1>12,
     <1>13, <1>14, <1>15 DEF Serve

(* Every step keeps the invariant.                                         *)
LEMMA InvariantStep == IInv /\ [Next]_vars => IInv'
<1>1. ASSUME IInv, UNCHANGED vars PROVE IInv'
  <2> USE DEF IInv, vars, firmware, check, cache, controller, threads
  <2>1. TypeOK'
    BY <1>1 DEF TypeOK
  <2>2. (Checksum /\ Passed /\ IntactRuns)'
    BY <1>1 DEF Checksum, Passed, IntactRuns
  <2>3. (Locks /\ Cached)'
    BY <1>1 DEF Locks, Cached, Writing, Others, Valid
  <2>4. QED
    BY <2>1, <2>2, <2>3
<1>2. QED
  BY <1>1, MainStep, ThreadStep DEF Next, Main, IntegrityThread

(* The inductive invariant of flash_helper.c: the types, the system lock   *)
(* with its owner, what the flag and the checksum say of the image, and    *)
(* the cached check of the user interface.                                 *)
THEOREM Invariant == Spec => []IInv
BY InitInvariant, InvariantStep, PTL DEF Spec

(* Each variable stays within its type.                                    *)
THEOREM TypeCorrect == Spec => []TypeOK
<1>1. IInv => TypeOK
  BY DEF IInv
<1>2. QED
  BY <1>1, Invariant, PTL

(* flash_helper_verify_flash_memory: an intact firmware runs.              *)
THEOREM IntactRunsHolds == Spec => []IntactRuns
<1>1. IInv => IntactRuns
  BY DEF IInv
<1>2. QED
  BY <1>1, Invariant, PTL

(* erase_sector and write_data: the slow watchdog and an unlocked          *)
(* controller, whatever threads are at work.                               *)
THEOREM WorkProtectedHolds == Spec => []WorkProtected
<1>1. IInv => WorkProtected
  BY DEF IInv, Locks, WorkProtected
<1>2. QED
  BY <1>1, Invariant, PTL

(* qmlui_check: what is cached is true.                                    *)
THEOREM CacheTrueHolds == Spec => []CacheTrue
<1>1. IInv => CacheTrue
  BY DEF IInv, Cached, CacheTrue
<1>2. QED
  BY <1>1, Invariant, PTL

(* The integrity thread resets nothing while the firmware is as it was     *)
(* when its checksum was stored: each chunk has been the same whenever it  *)
(* was looked at.                                                          *)
LEMMA SameWhileIntact ==
  ASSUME IInv, boot = "run", crcIndex + 1 = Chunks, image = crcOf
  PROVE  Fed = crcOf
<1>1. /\ Fed \in Seq(BOOLEAN) /\ Len(Fed) = Chunks
      /\ \A c \in 1..Chunks : (image[c] => Fed[c]) /\ (Fed[c] => crcOf[c])
  BY FedType DEF IInv
<1>2. image \in [1..Chunks -> BOOLEAN]
  BY DEF IInv, TypeOK
<1>3. \A c \in 1..Chunks : Fed[c] = image[c]
  BY <1>1, <1>2
<1>4. Fed \in [1..Chunks -> BOOLEAN]
  BY <1>1
<1>5. Fed = [c \in 1..Chunks |-> Fed[c]] /\ image = [c \in 1..Chunks |-> image[c]]
  BY <1>2, <1>4
<1>6. Fed = image
  <2> HIDE DEF Fed
  <2>1. QED
    BY <1>3, <1>5
<1>7. QED
  BY <1>6

(* Only a pass that found a difference, or a fault, resets the             *)
(* controller.                                                             *)
LEMMA ResetStep ==
  ASSUME IInv, [Next]_vars, boot = "run", boot' = "off", faults' = faults
  PROVE  image # crcOf
<1> USE DEF firmware, check, cache, controller, threads, Goto, Start
<1>1. CASE LastChunk
  BY <1>1, SameWhileIntact DEF LastChunk
<1>2. CASE PowerCut
  BY <1>2, FlashAssumption DEF PowerCut, IInv, TypeOK
<1>3. QED
  BY <1>1, <1>2 DEF vars, Next, Main, PowerOn, Verify, WriteFlag, WriteCrc, WriteFails,
     IntegrityThread, Chunk, Corrupt, StartWrite, StartRead, WaitFails, WorkFails, Serve,
     ResetDone, ResetOk, Unlock, Enter, Work, Leave, Scan, SetOk, SetDone, Use

(* flash_integrity_check_thread resets nothing while the image is the one  *)
(* whose checksum was stored.                                              *)
THEOREM NoNeedlessResetHolds == Spec => NoNeedlessReset
<1>1. IInv /\ [Next]_vars =>
        [boot = "run" /\ boot' = "off" /\ faults' = faults => image # crcOf]_vars
  BY ResetStep
<1>2. QED
  BY <1>1, Invariant, PTL DEF Spec, NoNeedlessReset
==============================================================================

----------------------------- MODULE FlashHelper -----------------------------
(***************************************************************************)
(* The program memory (flash_helper.c): the verification of the running    *)
(* firmware when it starts and, chunk by chunk, while it runs; and the     *)
(* erasing and writing of the user interface in sector 7 by the threads of *)
(* the interfaces, with the cached result of its check.  The areas for a   *)
(* new firmware and the bootloader are erased and written by the same      *)
(* steps without the cache.  The power can be cut at any time.             *)
(***************************************************************************)
EXTENDS Integers, Sequences

CONSTANTS
  Threads,      (* threads that serve an interface                         *)
  NoThread,
  Chunks,       (* number of chunks the firmware is verified in            *)
  Pieces,       (* number of pieces the user interface is written in       *)
  MaxOps,       (* bound: operations started                               *)
  MaxFaults     (* bound: power cuts, failures and corruptions             *)

ASSUME FlashAssumption ==
  /\ Chunks \in Nat \ {0} /\ Pieces \in Nat \ {0}
  /\ MaxOps \in Nat /\ MaxFaults \in Nat
  /\ NoThread \notin Threads

VARIABLES
  (* What stays when the power is cut.                                     *)
  image,      \* the chunks of the firmware: intact or not
  crcFlag,    \* the flag that the checksum has been calculated is set
  crcOf,      \* the image the stored checksum is of, <<>> if none is
  ui,         \* sector 7: each piece erased, written or garbled
  (* What does not.                                                        *)
  boot,       \* where main is
  crcIndex,   \* index of flash_helper_verify_flash_memory_chunk, in chunks
  crcUnit,    \* what the CRC unit has been fed with
  checkDone,  \* qmlui_check_done
  uiOk,       \* qmlui_ok
  crLock,     \* the lock bit of the flash controller
  sysLock,    \* who holds the system lock
  watchdog,   \* the setting of the watchdog
  pc,         \* where each thread is
  op,         \* the piece it writes, Erase or Read
  found,      \* what its qmlui_check has found
  (* Bookkeeping.                                                          *)
  ops,        \* number of operations started
  faults,     \* number of power cuts, failures and corruptions
  firstCut,   \* the first start has been cut short
  relocked,   \* another thread has locked the flash since this one unlocked it
  raced       \* a thread has come in between the reset of the cache and the end

firmware == <<image, crcFlag, crcOf, firstCut>>
check == <<crcIndex, crcUnit>>
cache == <<checkDone, uiOk, raced>>
controller == <<crLock, sysLock, watchdog>>
threads == <<pc, op, found, relocked>>
vars == <<firmware, ui, boot, check, cache, controller, threads, ops, faults>>

Erase == 0
Read == Pieces + 1
Valid(sector) == \A k \in 1..Pieces : sector[k] = "written"

(* The state of the memory after a reset.                                  *)
Reset ==
  /\ boot' = "off"
  /\ crcIndex' = 0 /\ crcUnit' = <<>>
  /\ checkDone' = FALSE /\ uiOk' = FALSE /\ raced' = FALSE
  /\ crLock' = TRUE /\ sysLock' = NoThread /\ watchdog' = "fast"
  /\ pc' = [t \in Threads |-> "idle"] /\ op' = [t \in Threads |-> Read]
  /\ found' = [t \in Threads |-> FALSE] /\ relocked' = [t \in Threads |-> FALSE]

Init ==
  /\ image = [c \in 1..Chunks |-> TRUE] /\ crcFlag = FALSE /\ crcOf = <<>>
  /\ firstCut = FALSE
  /\ ui = [k \in 1..Pieces |-> "erased"]
  /\ boot = "off"
  /\ crcIndex = 0 /\ crcUnit = <<>>
  /\ checkDone = FALSE /\ uiOk = FALSE /\ raced = FALSE
  /\ crLock = TRUE /\ sysLock = NoThread /\ watchdog = "fast"
  /\ pc = [t \in Threads |-> "idle"] /\ op = [t \in Threads |-> Read]
  /\ found = [t \in Threads |-> FALSE] /\ relocked = [t \in Threads |-> FALSE]
  /\ ops = 0 /\ faults = 0

-----------------------------------------------------------------------------
(* flash_helper_verify_flash_memory and the start (main).                  *)

PowerOn ==
  /\ boot = "off" /\ boot' = "verify"
  /\ UNCHANGED <<firmware, ui, check, cache, controller, threads, ops, faults>>

Verify ==
  /\ boot = "verify" /\ crcFlag
  /\ boot' = IF crcOf = image THEN "run" ELSE "halted"
  /\ UNCHANGED <<firmware, ui, check, cache, controller, threads, ops, faults>>

(* The first start: the flag, then the checksum, then a reset.             *)
WriteFlag ==
  /\ boot = "verify" /\ ~crcFlag
  /\ crLock' = FALSE
  /\ crcFlag' = TRUE
  /\ boot' = "crc"
  /\ UNCHANGED <<image, crcOf, firstCut, ui, check, cache, sysLock, watchdog, threads,
                 ops, faults>>

WriteCrcNot ==   \* mutant: the checksum is that of the blank image
  /\ boot = "crc"
  /\ crcOf' = [c \in 1..Chunks |-> FALSE]
  /\ Reset
  /\ UNCHANGED <<image, crcFlag, firstCut, ui, ops, faults>>

WriteCrc ==
  /\ boot = "crc"
  /\ crcOf' = image
  /\ Reset
  /\ UNCHANGED <<image, crcFlag, firstCut, ui, ops, faults>>

(* The flag or the checksum cannot be programmed.                          *)
WriteFails ==
  /\ boot \in {"verify", "crc"} /\ ~(boot = "verify" /\ crcFlag)
  /\ faults < MaxFaults
  /\ boot' = "halted"
  /\ crLock' = TRUE
  /\ firstCut' = (firstCut \/ boot = "crc")
  /\ faults' = faults + 1
  /\ UNCHANGED <<image, crcFlag, crcOf, ui, check, cache, sysLock, watchdog, threads, ops>>

(* flash_helper_verify_flash_memory_chunk by flash_integrity_check_thread. *)
FedStale ==   \* mutant: the CRC unit is not reset for a new pass
  Append(crcUnit, image[crcIndex + 1])

Fed == Append(IF crcIndex = 0 THEN <<>> ELSE crcUnit, image[crcIndex + 1])

Chunk ==
  /\ boot = "run" /\ sysLock = NoThread
  /\ crcIndex + 1 < Chunks
  /\ crcUnit' = Fed
  /\ crcIndex' = crcIndex + 1
  /\ UNCHANGED <<firmware, ui, boot, cache, controller, threads, ops, faults>>

LastChunkOn ==   \* mutant: the index is not set back
  /\ boot = "run" /\ sysLock = NoThread
  /\ crcIndex + 1 = Chunks
  /\ crcUnit' = Fed /\ crcIndex' = crcIndex + 1
  /\ UNCHANGED <<firmware, ui, boot, cache, controller, threads, ops, faults>>

LastChunkIgnored ==   \* mutant: the result is not looked at
  /\ boot = "run" /\ sysLock = NoThread
  /\ crcIndex + 1 = Chunks
  /\ crcUnit' = Fed /\ crcIndex' = 0
  /\ UNCHANGED <<firmware, ui, boot, cache, controller, threads, ops, faults>>

LastChunk ==
  /\ boot = "run" /\ sysLock = NoThread
  /\ crcIndex + 1 = Chunks
  /\ IF Fed = crcOf
     THEN /\ crcUnit' = Fed /\ crcIndex' = 0
          /\ UNCHANGED <<boot, cache, controller, threads>>
     ELSE Reset
  /\ UNCHANGED <<firmware, ui, ops, faults>>

(* What can happen at any time: a chunk of the firmware loses its content, *)
(* the power is cut.  What is being erased or written then is garbled.     *)
Corrupt ==
  /\ faults < MaxFaults /\ faults' = faults + 1
  /\ \E c \in 1..Chunks : image[c] /\ image' = [image EXCEPT ![c] = FALSE]
  /\ UNCHANGED <<crcFlag, crcOf, firstCut, ui, boot, check, cache, controller, threads, ops>>

Garbled(t) ==
  [k \in 1..Pieces |-> IF op[t] \in {Erase, k} /\ ~crLock THEN "garbled" ELSE ui[k]]

PowerCut ==
  /\ boot # "off"
  /\ faults < MaxFaults /\ faults' = faults + 1
  /\ firstCut' = (firstCut \/ boot = "crc")
  /\ ui' \in {ui} \cup {Garbled(t) : t \in {u \in Threads : pc[u] = "work"}}
  /\ Reset
  /\ UNCHANGED <<image, crcFlag, crcOf, ops>>

-----------------------------------------------------------------------------
(* flash_helper_erase_qmlui and flash_helper_write_qmlui with erase_sector *)
(* and write_data.  While a thread holds the system lock no other one runs.*)

Goto(t, here, there) ==
  /\ boot = "run" /\ sysLock \in {NoThread, t}
  /\ pc[t] = here /\ pc' = [pc EXCEPT ![t] = there]

Busy(t) == pc[t] \in {"reset", "resetOk", "unlock", "wait", "work", "leave"}
Others(t) == Threads \ {t}

(* Somebody begins with the user interface while another one writes it.    *)
Start(t, there) ==
  /\ Goto(t, "idle", there)
  /\ ops < MaxOps /\ ops' = ops + 1
  /\ raced' = (raced \/ \E u \in Others(t) : Busy(u))
  /\ UNCHANGED <<firmware, ui, boot, check, checkDone, uiOk, controller, found, relocked,
                 faults>>

StartWrite(t) ==
  /\ Start(t, "reset")
  /\ \E o \in {Erase} \cup (1..Pieces) : op' = [op EXCEPT ![t] = o]

ResetDoneNot(t) ==   \* mutant: the cached result is kept
  /\ Goto(t, "reset", "resetOk")
  /\ raced' = \E u \in Others(t) : pc[u] # "idle"
  /\ UNCHANGED <<firmware, ui, boot, check, checkDone, uiOk, controller, op, found,
                 relocked, ops, faults>>

ResetDone(t) ==
  /\ Goto(t, "reset", "resetOk")
  /\ checkDone' = FALSE
  /\ raced' = \E u \in Others(t) : pc[u] # "idle"
  /\ UNCHANGED <<firmware, ui, boot, check, uiOk, controller, op, found, relocked,
                 ops, faults>>

ResetOk(t) ==
  /\ Goto(t, "resetOk", "unlock")
  /\ uiOk' = FALSE
  /\ UNCHANGED <<firmware, ui, boot, check, checkDone, raced, controller, op, found,
                 relocked, ops, faults>>

(* FLASH_Unlock, then mc_interface_wait_for_motor_release.                 *)
Unlock(t) ==
  /\ Goto(t, "unlock", "wait")
  /\ crLock' = FALSE
  /\ relocked' = [relocked EXCEPT ![t] = FALSE]
  /\ UNCHANGED <<firmware, ui, boot, check, cache, sysLock, watchdog, op, found, ops, faults>>

(* The motor has not stopped in time: the function returns.                *)
WaitFails(t) ==
  /\ Goto(t, "wait", "idle")
  /\ UNCHANGED <<firmware, ui, boot, check, cache, controller, op, found, relocked, ops,
                 faults>>

EnterNoLock(t) ==   \* mutant: the system is not locked
  /\ Goto(t, "wait", "work")
  /\ watchdog' = "slow"
  /\ UNCHANGED <<firmware, ui, boot, check, cache, crLock, sysLock, op, found, relocked,
                 ops, faults>>

(* utils_sys_lock_cnt and timeout_configure_IWDT_slowest.                  *)
Enter(t) ==
  /\ Goto(t, "wait", "work")
  /\ sysLock' = t
  /\ watchdog' = "slow"
  /\ UNCHANGED <<firmware, ui, boot, check, cache, crLock, op, found, relocked, ops, faults>>

(* FLASH_EraseSector, FLASH_ProgramByte: a locked controller ignores the   *)
(* first and refuses the second.  Without an erase in between, what has    *)
(* been garbled stays so.                                                  *)
Work(t) ==
  /\ Goto(t, "work", "leave")
  /\ ui' = [k \in 1..Pieces |->
              IF crLock THEN ui[k]
              ELSE IF op[t] = Erase THEN "erased"
              ELSE IF op[t] = k /\ ui[k] = "erased" THEN "written" ELSE ui[k]]
  /\ UNCHANGED <<firmware, boot, check, cache, controller, op, found, relocked, ops, faults>>

(* The operation ends with an error.                                       *)
WorkFails(t) ==
  /\ Goto(t, "work", "leave")
  /\ faults < MaxFaults /\ faults' = faults + 1
  /\ ui' = Garbled(t)
  /\ UNCHANGED <<firmware, boot, check, cache, controller, op, found, relocked, ops>>

Leave(t) ==
  /\ Goto(t, "leave", "idle")
  /\ crLock' = TRUE
  /\ watchdog' = "fast"
  /\ sysLock' = NoThread
  /\ relocked' = [u \in Threads |-> relocked[u] \/ pc[u] = "wait"]
  /\ UNCHANGED <<firmware, ui, boot, check, cache, op, found, ops, faults>>

-----------------------------------------------------------------------------
(* flash_helper_qmlui_data with qmlui_check.                               *)

StartRead(t) ==
  /\ Start(t, IF checkDone THEN "use" ELSE "scan")
  /\ op' = [op EXCEPT ![t] = Read]

Scan(t) ==
  /\ Goto(t, "scan", "setOk")
  /\ found' = [found EXCEPT ![t] = Valid(ui)]
  /\ UNCHANGED <<firmware, ui, boot, check, cache, controller, op, relocked, ops, faults>>

SetOk(t) ==
  /\ Goto(t, "setOk", "setDone")
  /\ uiOk' = found[t]
  /\ UNCHANGED <<firmware, ui, boot, check, checkDone, raced, controller, op, found,
                 relocked, ops, faults>>

SetDone(t) ==
  /\ Goto(t, "setDone", "use")
  /\ checkDone' = TRUE
  /\ UNCHANGED <<firmware, ui, boot, check, uiOk, raced, controller, op, found, relocked,
                 ops, faults>>

(* The caller gets the address of the data, or 0.                          *)
Use(t) ==
  /\ Goto(t, "use", "idle")
  /\ UNCHANGED <<firmware, ui, boot, check, cache, controller, op, found, relocked, ops,
                 faults>>

-----------------------------------------------------------------------------
Main == PowerOn \/ Verify \/ WriteFlag \/ WriteCrc
IntegrityThread == Chunk \/ LastChunk
Serve(t) ==
  \/ ResetDone(t) \/ ResetOk(t) \/ Unlock(t) \/ Enter(t) \/ Work(t) \/ Leave(t)
  \/ Scan(t) \/ SetOk(t) \/ SetDone(t) \/ Use(t)

Next ==
  \/ Main \/ IntegrityThread \/ WriteFails \/ Corrupt \/ PowerCut
  \/ \E t \in Threads :
       StartWrite(t) \/ StartRead(t) \/ Serve(t) \/ WaitFails(t) \/ WorkFails(t)

(* The controller is switched on, every operation takes a limited time and *)
(* the integrity thread, of the lowest priority, runs when the others      *)
(* wait for something.                                                     *)
Fairness ==
  /\ WF_vars(Main) /\ SF_vars(IntegrityThread)
  /\ \A t \in Threads : WF_vars(Serve(t))

Spec == Init /\ [][Next]_vars /\ Fairness

-----------------------------------------------------------------------------
(* Properties.                                                             *)

TypeOK ==
  /\ image \in [1..Chunks -> BOOLEAN]
  /\ crcOf \in [1..Chunks -> BOOLEAN] \cup {<<>>}
  /\ ui \in [1..Pieces -> {"erased", "written", "garbled"}]
  /\ boot \in {"off", "verify", "crc", "run", "halted"}
  /\ crcIndex \in 0..Chunks - 1 /\ crcUnit \in Seq(BOOLEAN) /\ Len(crcUnit) \in 0..Chunks
  /\ crcFlag \in BOOLEAN /\ checkDone \in BOOLEAN /\ uiOk \in BOOLEAN
  /\ crLock \in BOOLEAN /\ firstCut \in BOOLEAN /\ raced \in BOOLEAN
  /\ sysLock \in Threads \cup {NoThread} /\ watchdog \in {"fast", "slow"}
  /\ pc \in [Threads -> {"idle", "reset", "resetOk", "unlock", "wait", "work", "leave",
                         "scan", "setOk", "setDone", "use"}]
  /\ op \in [Threads -> 0..Read] /\ found \in [Threads -> BOOLEAN]
  /\ relocked \in [Threads -> BOOLEAN]

(* A firmware that is as it was flashed is run: it halts only if one of    *)
(* its chunks is not intact, or the very first start has been cut short.   *)
IntactRuns == boot = "halted" => (\E c \in 1..Chunks : ~image[c]) \/ firstCut \/ ~crcFlag

(* While the firmware is as it was when its checksum was stored, the       *)
(* integrity thread resets nothing, wherever the user interface is being   *)
(* written meanwhile.                                                      *)
NoNeedlessReset == [][boot = "run" /\ boot' = "off" /\ faults' = faults => image # crcOf]_vars

(* A firmware that changes while it runs stops running: the integrity      *)
(* thread finds it within two passes, and the next start does not run it.  *)
CorruptHalts == [](boot = "run" /\ image # crcOf => <>(boot = "halted"))

(* Nothing is erased or programmed with the fast watchdog, which would     *)
(* reset the controller in the middle of it, nor with the controller       *)
(* locked, unless another thread has locked it since this one unlocked it. *)
WorkProtected ==
  \A t \in Threads : pc[t] = "work" => watchdog = "slow" /\ (crLock => relocked[t])

(* What is cached about the user interface is true, also while it is being *)
(* written, unless somebody has come in between the reset of the cache and *)
(* the end of the writing; the next one to write it alone repairs that.    *)
CacheTrue == checkDone /\ ~raced => uiOk = Valid(ui)
=============================================================================

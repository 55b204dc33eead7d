-------------------------------- MODULE Eeprom --------------------------------
(***************************************************************************)
(* The EEPROM emulation (eeprom.c): two flash pages, each a status and a   *)
(* list of slots that is only appended to; the last slot of a variable     *)
(* holds its value.  A full page is copied to the other one.  A step is one*)
(* flash operation, the unit a power loss or a flash error can cut off.    *)
(* The routines run one at a time, so reads need no steps of their own.    *)
(***************************************************************************)
EXTENDS Integers

CONSTANTS
  Vars,         (* virtual addresses in use                                *)
  Table,        (* those in VirtAddVarTab                                  *)
  Data,         (* 16 bit values                                           *)
  Blank,        (* 0xFFFF as a value: what erased flash reads              *)
  NoVar,        (* 0xFFFF as a virtual address                             *)
  None,         (* a read that finds nothing                               *)
  NoJob,
  Slots,        (* slots of a page                                         *)
  BootLosses,   (* power losses in a row while EE_Init runs                *)
  WindowLoss,   (* may power fail between the last two steps of EE_Init?   *)
  FailIn        (* the jobs in which a flash operation may report an error *)

ASSUME EepromAssumption ==
  /\ Table \subseteq Vars /\ NoVar \notin Vars
  /\ Blank \in Data /\ None \notin Data
  /\ NoJob \notin [var : Vars, data : Data]
  /\ Slots \in Nat \ {0} /\ BootLosses \in Nat
  /\ WindowLoss \in BOOLEAN
  /\ FailIn \subseteq {"write", "transfer", "init", "finish"}

VARIABLES
  page,      \* the flash: status and slots of the two pages
  pc,        \* the next flash operation
  ctx,       \* for whom: EE_WriteVariable, EE_PageTransfer or EE_Init
  new,       \* the page that is becoming valid
  cur,       \* the variable and data being programmed
  spot,      \* its slot
  todo,      \* variables the copying loop has not come to
  req,       \* the variable and data EE_WriteVariable was called with
  result,    \* what it returned
  losses     \* power losses since EE_Init was last completed

locals == <<new, cur, spot, todo>>
vars == <<page, pc, ctx, locals, req, result, losses>>

Pages == {0, 1}
Other(p) == 1 - p
Indices == 1..Slots
Empty == [data |-> Blank, var |-> NoVar]
ErasedPage == [status |-> "erased", slots |-> [i \in Indices |-> Empty]]

Status(p) == page[p].status
Valid(p) == Status(p) = "valid"
Receives(p) == Status(p) = "receive"

(* The last slot of v, looked for from the end of the page.                *)
Uses(p, v) == {i \in Indices : page[p].slots[i].var = v}
LastUse(p, v) == CHOOSE i \in Uses(p, v) : \A j \in Uses(p, v) : j <= i
Last(p, v) == IF Uses(p, v) = {} THEN None ELSE page[p].slots[LastUse(p, v)].data

FirstUse(p, v) == CHOOSE i \in Uses(p, v) : \A j \in Uses(p, v) : i <= j
ReadFirst(v) ==   \* mutant: looks for a variable from the start of the page
  LET p == IF Valid(0) THEN 0 ELSE 1
  IN IF ~Valid(p) \/ Uses(p, v) = {} THEN None ELSE page[p].slots[FirstUse(p, v)].data

(* EE_FindValidPage(READ_FROM_VALID_PAGE), EE_ReadVariable.                *)
ReadPage == IF Valid(0) THEN 0 ELSE 1
ReadVariable(v) == IF Valid(ReadPage) THEN Last(ReadPage, v) ELSE None

(* EE_FindValidPage(WRITE_IN_VALID_PAGE): a page that receives data first. *)
WritePage == IF Valid(1) THEN (IF Receives(0) THEN 0 ELSE 1)
                         ELSE (IF Receives(1) THEN 1 ELSE 0)
HasValid == \E p \in Pages : Valid(p)

(* Where EE_VerifyPageFullWriteVariable finds 0xFFFFFFFF.                  *)
Free(p) == {i \in Indices : page[p].slots[i] = Empty}
FirstFree(p) == CHOOSE i \in Free(p) : \A j \in Free(p) : i <= j

Init ==
  /\ page = [p \in Pages |-> ErasedPage]
  /\ pc = "boot" /\ ctx = "init"
  /\ new = 0 /\ cur = NoJob /\ spot = 1 /\ todo = {} /\ req = NoJob
  /\ result = "none" /\ losses = 0

-----------------------------------------------------------------------------
Forget == new' = 0 /\ cur' = NoJob /\ spot' = 1 /\ todo' = {}

(* Leaving a routine; what EE_Init returns is not looked at.               *)
Return(r) ==
  /\ pc' = "idle" /\ ctx' = "none"
  /\ result' = IF ctx \in {"init", "finish"} THEN result ELSE r
  /\ losses' = 0
  /\ Forget

Continue(to) == pc' = to /\ UNCHANGED <<ctx, locals, result, losses>>

(* EE_WriteVariable: nothing to do; supply voltage too low or no valid     *)
(* page; or a slot to program.                                             *)
WriteSame(v, d) ==
  /\ pc = "idle" /\ ReadVariable(v) = d
  /\ req' = [var |-> v, data |-> d]
  /\ result' = "ok"
  /\ UNCHANGED <<page, pc, ctx, new, cur, spot, todo, losses>>

WriteRefused(v, d) ==
  /\ pc = "idle" /\ ReadVariable(v) # d
  /\ req' = [var |-> v, data |-> d]
  /\ result' = "error"
  /\ UNCHANGED <<page, pc, ctx, new, cur, spot, todo, losses>>

WriteSlot(v, d) ==
  /\ pc = "idle" /\ ReadVariable(v) # d /\ HasValid
  /\ req' = [var |-> v, data |-> d] /\ cur' = req'
  /\ pc' = "data" /\ ctx' = "write"
  /\ UNCHANGED <<page, new, spot, todo, result, losses>>

(* EE_VerifyPageFullWriteVariable: the data first, then the address.       *)
ProgramData ==
  /\ pc = "data" /\ Free(WritePage) # {}
  /\ spot' = FirstFree(WritePage)
  /\ page' = [page EXCEPT ![WritePage].slots[spot'].data = cur.data]
  /\ pc' = "vaddr"
  /\ UNCHANGED <<ctx, new, cur, todo, req, result, losses>>

ProgramVar ==
  /\ pc = "vaddr"
  /\ page' = [page EXCEPT ![WritePage].slots[spot].var = cur.var]
  /\ IF ctx = "write" THEN Return("ok") ELSE Continue("copy")
  /\ UNCHANGED req

(* PAGE_FULL makes EE_WriteVariable call EE_PageTransfer, and is an error  *)
(* everywhere else.                                                        *)
PageFull ==
  /\ pc = "data" /\ Free(WritePage) = {}
  /\ IF ctx = "write"
     THEN /\ new' = Other(ReadPage)
          /\ pc' = "receive" /\ ctx' = "transfer"
          /\ UNCHANGED <<cur, spot, todo, result, losses>>
     ELSE Return("full")
  /\ UNCHANGED <<page, req>>

-----------------------------------------------------------------------------
(* EE_PageTransfer: mark the new page, write the variable, copy the others,*)
(* erase the old page, mark the new one valid.                             *)

MarkReceive ==
  /\ pc = "receive"
  /\ page' = [page EXCEPT ![new].status = "receive"]
  /\ todo' = Table \ {req.var}
  /\ pc' = "data"
  /\ UNCHANGED <<ctx, new, cur, spot, req, result, losses>>

(* EE_Init leaves out the variable the cut off transfer began with.        *)
Skip(v) == ctx = "init" /\ page[new].slots[1].var = v

CopyAll(v) ==   \* mutant: EE_Init copies the old value of that variable too
  /\ pc = "copy" /\ v \in todo
  /\ todo' = todo \ {v}
  /\ IF ReadVariable(v) = None
     THEN UNCHANGED <<pc, cur>>
     ELSE cur' = [var |-> v, data |-> ReadVariable(v)] /\ pc' = "data"
  /\ UNCHANGED <<page, ctx, new, spot, req, result, losses>>

CopyMissing(v) ==   \* mutant: the status of the read is not looked at
  /\ pc = "copy" /\ v \in todo
  /\ todo' = todo \ {v}
  /\ IF Skip(v)
     THEN UNCHANGED <<pc, cur>>
     ELSE cur' = [var |-> v, data |-> ReadVariable(v)] /\ pc' = "data"
  /\ UNCHANGED <<page, ctx, new, spot, req, result, losses>>

(* The loop over VirtAddVarTab; its order plays no part.                   *)
Copy(v) ==
  /\ pc = "copy" /\ v \in todo
  /\ todo' = todo \ {v}
  /\ IF Skip(v) \/ ReadVariable(v) = None
     THEN UNCHANGED <<pc, cur>>
     ELSE cur' = [var |-> v, data |-> ReadVariable(v)] /\ pc' = "data"
  /\ UNCHANGED <<page, ctx, new, spot, req, result, losses>>

(* EE_PageTransfer erases before it marks, EE_Init marks before it erases. *)
CopyDone ==
  /\ pc = "copy" /\ todo = {}
  /\ Continue(IF ctx = "transfer" THEN "erase" ELSE "mark")
  /\ UNCHANGED <<page, req>>

EraseMarked ==   \* mutant: a page whose status reads ERASED is not looked at
  /\ pc = "erase"
  /\ page' = IF Status(Other(new)) = "erased" THEN page
             ELSE [page EXCEPT ![Other(new)] = ErasedPage]
  /\ IF ctx = "init" THEN Return("ok") ELSE Continue("mark")
  /\ UNCHANGED req

(* EE_EraseSectorIfNotEmpty looks at the whole page, not at its status.    *)
Erase ==
  /\ pc = "erase"
  /\ page' = [page EXCEPT ![Other(new)] = ErasedPage]
  /\ IF ctx = "init" THEN Return("ok") ELSE Continue("mark")
  /\ UNCHANGED req

MarkOnly ==   \* mutant: EE_Init leaves the old page as it is
  /\ pc = "mark"
  /\ page' = [page EXCEPT ![new].status = "valid"]
  /\ Return("ok")
  /\ UNCHANGED req

Mark ==
  /\ pc = "mark"
  /\ page' = [page EXCEPT ![new].status = "valid"]
  /\ IF ctx = "init" THEN Continue("erase") ELSE Return("ok")
  /\ UNCHANGED req

-----------------------------------------------------------------------------
(* EE_Init: the states a power loss can have left, and anything else.      *)

Boot(p, to, for) ==
  /\ pc = "boot"
  /\ new' = p /\ pc' = to /\ ctx' = for
  /\ todo' = IF to = "copy" THEN Table ELSE {}
  /\ UNCHANGED <<page, cur, spot, req, result, losses>>

Settled(p) == Valid(p) /\ Status(Other(p)) = "erased"
Received(p) == Receives(p) /\ Status(Other(p)) = "erased"
HalfCopied(p) == Receives(p) /\ Valid(Other(p))

BootSettled(p) == Settled(p) /\ Boot(p, "erase", "init")
BootReceived(p) == Received(p) /\ Boot(p, "erase", "finish")
BootHalfCopied(p) == HalfCopied(p) /\ Boot(p, "copy", "init")
BootFormat ==
  /\ ~\E p \in Pages : Settled(p) \/ Received(p) \/ HalfCopied(p)
  /\ Boot(0, "format", "init")

(* EE_Format goes on like EE_Init: mark page 0, then erase page 1.         *)
Format ==
  /\ pc = "format"
  /\ page' = [page EXCEPT ![0] = ErasedPage]
  /\ Continue("mark")
  /\ UNCHANGED req

-----------------------------------------------------------------------------
(* A flash operation reports an error and has no effect.                   *)
Fail ==
  /\ ctx \in FailIn
  /\ pc \in {"data", "vaddr", "receive", "erase", "mark", "format"}
  /\ pc = "data" => Free(WritePage) # {}
  /\ Return("error")
  /\ UNCHANGED <<page, req>>

(* Power fails: an erase that is cut off may leave the status erased and   *)
(* the slots as they were.                                                 *)
Booting == ctx \in {"init", "finish"}
Window == pc = "erase" /\ Valid(new) /\ Valid(Other(new))
CutOff ==
  {page} \cup (IF pc = "erase" THEN {[page EXCEPT ![Other(new)].status = "erased"]}
               ELSE IF pc = "format" THEN {[page EXCEPT ![0].status = "erased"]} ELSE {})

PowerLoss ==
  /\ pc # "boot"
  /\ Window => WindowLoss
  /\ Booting => losses < BootLosses
  /\ losses' = IF Booting THEN losses + 1 ELSE losses
  /\ page' \in CutOff
  /\ pc' = "boot" /\ ctx' = "init" /\ result' = "none"
  /\ req' = NoJob /\ Forget

-----------------------------------------------------------------------------
Step ==
  \/ ProgramData \/ ProgramVar \/ PageFull \/ MarkReceive
  \/ CopyDone \/ Erase \/ Mark \/ BootFormat \/ Format
  \/ \E v \in Vars : Copy(v)
  \/ \E p \in Pages : BootSettled(p) \/ BootReceived(p) \/ BootHalfCopied(p)

Write == \E v \in Vars, d \in Data : WriteSame(v, d) \/ WriteRefused(v, d) \/ WriteSlot(v, d)

Next == Step \/ Write \/ Fail \/ PowerLoss

Spec == Init /\ [][Next]_vars

-----------------------------------------------------------------------------
(* Type invariant. *)
Requests == [var : Vars, data : Data]
Slot == [data : Data, var : Vars \cup {NoVar}]
Page == [status : {"erased", "receive", "valid"}, slots : [Indices -> Slot]]
TypeOK ==
  /\ page \in [Pages -> Page]
  /\ pc \in {"boot", "idle", "data", "vaddr", "receive", "copy", "erase", "mark", "format"}
  /\ ctx \in {"none", "write", "transfer", "init", "finish"}
  /\ new \in Pages
  /\ cur \in Requests \cup {NoJob}
  /\ (pc \in {"data", "vaddr", "receive"} => cur \in Requests)
  /\ spot \in Indices
  /\ todo \subseteq Table
  /\ req \in Requests \cup {NoJob}
  /\ (ctx \in {"write", "transfer"} => req \in Requests)
  /\ result \in {"none", "ok", "error", "full"}
  /\ losses \in 0..BootLosses

(* Between two calls there is one valid page and the other one is erased to*)
(* the last slot, whatever was cut off before: the next transfer finds room*)
OnePage ==
  pc = "idle" => \E p \in Pages : Valid(p) /\ page[Other(p)] = ErasedPage

(* EE_ReadVariable: "Returns the last stored variable data" (eeprom.c:262).*)
(* A write that returned success is what a read then finds.                *)
ReadBack == pc = "idle" /\ result = "ok" => ReadVariable(req.var) = req.data

(* A page transfer never runs out of slots, nor does the copying EE_Init   *)
(* starts over after each power loss.                                      *)
RoomForCopy == pc = "data" /\ ctx # "write" => Free(WritePage) # {}

(* What each variable will read once EE_Init has repaired the pages: the   *)
(* first slot of a page that receives data is where a transfer commits.    *)
Stored(v) ==
  IF Window THEN Last(new, v)
  ELSE IF HasValid
  THEN LET q == Other(ReadPage)
       IN IF Receives(q) /\ page[q].slots[1].var = v THEN page[q].slots[1].data
          ELSE Last(ReadPage, v)
  ELSE IF \E p \in Pages : Receives(p)
  THEN Last(CHOOSE p \in Pages : Receives(p), v)
  ELSE None

Store == INSTANCE AbstractStore WITH
  value <- [v \in Vars |-> Stored(v)],
  job <- IF ctx \in {"write", "transfer"} THEN req ELSE NoJob,
  result <- IF result = "full" THEN "error" ELSE result

(* The emulation is a store in which a write happens at once or not at all,*)
(* at whatever flash operation the power fails.                            *)
IsStore == Store!Spec

(* conf_general.c:63: "make sure that all relevant virtual addresses are   *)
(* assigned for page swapping": a transfer loses no variable.              *)
KeptBySwap ==
  [][ctx = "transfer" /\ pc \in {"erase", "mark"} => \A v \in Vars : Stored(v)' = Stored(v)]_vars

(* eeprom.c:629: "prevent the memory from getting erased in case of        *)
(* unstable voltage at boot": what is stored is never lost.                *)
NeverLost == [][\A v \in Vars : Stored(v) # None => Stored(v)' # None]_vars
=============================================================================

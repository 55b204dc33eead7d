---------------------------- MODULE EepromProofs ----------------------------
(***************************************************************************)
(* Theorems about the EEPROM emulation, for any variables, values, page    *)
(* size and number of power losses.                                        *)
(***************************************************************************)
EXTENDS Eeprom, WellFoundedInduction, TLAPS

(* What EE_VerifyPageFullWriteVariable and EE_ReadVariable look for exists.*)
LEMMA Smallest ==
  ASSUME NEW S \in SUBSET Nat, S # {}
  PROVE  \E i \in S : \A j \in S : i <= j
<1>. DEFINE R == {x \in Nat \X Nat : x[1] < x[2]}
<1>1. IsWellFoundedOn(R, Nat)
  BY NatLessThanWellFounded DEF OpToRel
<1>2. PICK i \in S : \A j \in S : ~ (<<j, i>> \in R)
  BY <1>1, WFMin
<1>3. ASSUME NEW j \in S PROVE i <= j
  <2>1. i \in Nat /\ j \in Nat
    OBVIOUS
  <2>2. ~(j < i)
    BY <1>2, <2>1
  <2>. QED BY <2>1, <2>2
<1>. QED BY <1>3

LEMMA Largest ==
  ASSUME NEW n \in Nat, NEW S \in SUBSET (1..n), S # {}
  PROVE  \E i \in S : \A j \in S : j <= i
<1>. DEFINE T == {n - i : i \in S}
<1>0. PICK k \in S : TRUE
  OBVIOUS
<1>1. T \in SUBSET Nat /\ T # {}
  <2>1. \A i \in S : n - i \in Nat
    OBVIOUS
  <2>2. n - k \in T
    OBVIOUS
  <2>. QED BY <2>1, <2>2
<1>2. PICK t \in T : \A u \in T : t <= u
  BY <1>1, Smallest
<1>3. PICK i \in S : t = n - i
  OBVIOUS
<1>4. ASSUME NEW j \in S PROVE j <= i
  <2>1. n - j \in T
    OBVIOUS
  <2>. QED BY <1>2, <1>3, <2>1
<1>. QED BY <1>4

LEMMA FirstFreeIs ==
  ASSUME NEW p, Free(p) # {}
  PROVE  FirstFree(p) \in Free(p) /\ \A j \in Free(p) : FirstFree(p) <= j
<1>1. Free(p) \in SUBSET Nat
  BY EepromAssumption DEF Free, Indices
<1>. QED BY <1>1, Smallest DEF FirstFree

LEMMA LastUseIs ==
  ASSUME NEW p, NEW v, Uses(p, v) # {}
  PROVE  LastUse(p, v) \in Uses(p, v) /\ \A j \in Uses(p, v) : j <= LastUse(p, v)
<1>1. Uses(p, v) \in SUBSET (1..Slots) /\ Slots \in Nat
  BY EepromAssumption DEF Uses, Indices
<1>. QED BY <1>1, Largest DEF LastUse

-----------------------------------------------------------------------------
(* Types. *)

LEMMA PageTypes ==
  ASSUME NEW pg \in [Pages -> Page], NEW p \in Pages, NEW i \in Indices
  PROVE  /\ \A d \in Data : [pg EXCEPT ![p].slots[i].data = d] \in [Pages -> Page]
         /\ \A v \in Vars : [pg EXCEPT ![p].slots[i].var = v] \in [Pages -> Page]
         /\ \A s \in {"erased", "receive", "valid"} :
              [pg EXCEPT ![p].status = s] \in [Pages -> Page]
         /\ [pg EXCEPT ![p] = ErasedPage] \in [Pages -> Page]
<1>1. /\ pg[p] \in Page /\ pg[p].slots \in [Indices -> Slot] /\ pg[p].slots[i] \in Slot
  BY DEF Page
<1>2. ASSUME NEW d \in Data PROVE [pg EXCEPT ![p].slots[i].data = d] \in [Pages -> Page]
  <2>1. [pg[p].slots[i] EXCEPT !.data = d] \in Slot
    BY <1>1 DEF Slot
  <2>2. [pg[p].slots EXCEPT ![i] = [pg[p].slots[i] EXCEPT !.data = d]] \in [Indices -> Slot]
    BY <1>1, <2>1
  <2>3. [pg[p] EXCEPT !.slots =
           [pg[p].slots EXCEPT ![i] = [pg[p].slots[i] EXCEPT !.data = d]]] \in Page
    BY <1>1, <2>2 DEF Page
  <2>. QED BY <2>3
<1>3. ASSUME NEW v \in Vars PROVE [pg EXCEPT ![p].slots[i].var = v] \in [Pages -> Page]
  <2>1. [pg[p].slots[i] EXCEPT !.var = v] \in Slot
    BY <1>1 DEF Slot
  <2>2. [pg[p].slots EXCEPT ![i] = [pg[p].slots[i] EXCEPT !.var = v]] \in [Indices -> Slot]
    BY <1>1, <2>1
  <2>3. [pg[p] EXCEPT !.slots =
           [pg[p].slots EXCEPT ![i] = [pg[p].slots[i] EXCEPT !.var = v]]] \in Page
    BY <1>1, <2>2 DEF Page
  <2>. QED BY <2>3
<1>4. ASSUME NEW s \in {"erased", "receive", "valid"}
      PROVE [pg EXCEPT ![p].status = s] \in [Pages -> Page]
  <2>1. [pg[p] EXCEPT !.status = s] \in Page
    BY <1>1 DEF Page
  <2>. QED BY <2>1
<1>5. [pg EXCEPT ![p] = ErasedPage] \in [Pages -> Page]
  <2>1. Empty \in Slot
    BY EepromAssumption DEF Empty, Slot
  <2>2. ErasedPage \in Page
    BY <2>1 DEF ErasedPage, Page
  <2>. QED BY <2>2
<1>. QED BY <1>2, <1>3, <1>4, <1>5

LEMMA ReadTypes ==
  ASSUME TypeOK
  PROVE  /\ ReadPage \in Pages /\ WritePage \in Pages
         /\ \A v \in Vars : ReadVariable(v) \in Data \cup {None}
         /\ Free(WritePage) # {} => FirstFree(WritePage) \in Indices
<1>1. ReadPage \in Pages /\ WritePage \in Pages
  BY DEF ReadPage, WritePage, Pages
<1>2. ASSUME NEW v \in Vars PROVE ReadVariable(v) \in Data \cup {None}
  <2>1. CASE Uses(ReadPage, v) = {}
    BY <2>1 DEF ReadVariable, Last
  <2>2. CASE Uses(ReadPage, v) # {}
    <3>1. LastUse(ReadPage, v) \in Indices
      BY <2>2, LastUseIs DEF Uses
    <3>2. page[ReadPage] \in Page
      BY <1>1 DEF TypeOK
    <3>3. page[ReadPage].slots[LastUse(ReadPage, v)] \in Slot
      BY <3>1, <3>2 DEF Page
    <3>4. page[ReadPage].slots[LastUse(ReadPage, v)].data \in Data
      BY <3>3 DEF Slot
    <3>. QED BY <3>4, <2>2 DEF ReadVariable, Last
  <2>. QED BY <2>1, <2>2
<1>3. Free(WritePage) # {} => FirstFree(WritePage) \in Indices
  BY FirstFreeIs DEF Free
<1>. QED BY <1>1, <1>2, <1>3

LEMMA TypeInit == Init => TypeOK
<1>. SUFFICES ASSUME Init PROVE TypeOK
  OBVIOUS
<1>1. Empty \in Slot
  BY EepromAssumption DEF Empty, Slot
<1>2. page \in [Pages -> Page]
  BY <1>1 DEF Init, ErasedPage, Page
<1>. QED BY <1>2, EepromAssumption DEF Init, TypeOK, Pages, Indices

LEMMA ReturnTypes ==
  ASSUME TypeOK, NEW r \in {"ok", "error", "full"}, Return(r), page' \in [Pages -> Page],
         req' = req
  PROVE  TypeOK'
<1>1. result' \in {"none", "ok", "error", "full"}
  BY DEF Return, TypeOK
<1>. QED BY <1>1, EepromAssumption DEF Return, Forget, TypeOK, Pages, Indices

LEMMA ContinueTypes ==
  ASSUME TypeOK, NEW to \in {"copy", "erase", "mark"}, Continue(to),
         page' \in [Pages -> Page], req' = req
  PROVE  TypeOK'
BY DEF Continue, locals, TypeOK

LEMMA TypeStep == TypeOK /\ [Next]_vars => TypeOK'
<1>. SUFFICES ASSUME TypeOK, [Next]_vars PROVE TypeOK'
  OBVIOUS
<1>. /\ page \in [Pages -> Page] /\ new \in Pages /\ spot \in Indices
     /\ WritePage \in Pages /\ ReadPage \in Pages
  BY ReadTypes DEF TypeOK
<1>1. CASE ProgramData
  <2>1. cur.data \in Data /\ spot' \in Indices
    BY <1>1, ReadTypes DEF ProgramData, TypeOK, Requests
  <2>2. page' \in [Pages -> Page]
    BY <1>1, <2>1, PageTypes DEF ProgramData
  <2>. QED BY <1>1, <2>1, <2>2 DEF ProgramData, TypeOK
<1>2. CASE ProgramVar
  <2>1. cur.var \in Vars
    BY <1>2 DEF ProgramVar, TypeOK, Requests
  <2>2. page' \in [Pages -> Page]
    BY <1>2, <2>1, PageTypes DEF ProgramVar
  <2>. QED BY <1>2, <2>2, ReturnTypes, ContinueTypes DEF ProgramVar
<1>3. CASE PageFull
  <2>1. Other(ReadPage) \in Pages
    BY DEF Other, Pages
  <2>2. CASE ctx = "write"
    BY <1>3, <2>1, <2>2 DEF PageFull, TypeOK
  <2>3. CASE ctx # "write"
    BY <1>3, <2>3, ReturnTypes DEF PageFull
  <2>. QED BY <2>2, <2>3
<1>4. CASE MarkReceive
  <2>1. page' \in [Pages -> Page]
    BY <1>4, PageTypes DEF MarkReceive
  <2>2. todo' \subseteq Table
    BY <1>4 DEF MarkReceive
  <2>. QED BY <1>4, <2>1, <2>2 DEF MarkReceive, TypeOK
<1>5. CASE CopyDone
  BY <1>5, ContinueTypes DEF CopyDone
<1>6. CASE Erase
  <2>1. Other(new) \in Pages
    BY DEF Other, Pages
  <2>2. page' \in [Pages -> Page]
    BY <1>6, <2>1, PageTypes DEF Erase
  <2>. QED BY <1>6, <2>2, ReturnTypes, ContinueTypes DEF Erase
<1>7. CASE Mark
  <2>1. page' \in [Pages -> Page]
    BY <1>7, PageTypes DEF Mark
  <2>. QED BY <1>7, <2>1, ReturnTypes, ContinueTypes DEF Mark
<1>8. CASE Format
  <2>1. page' \in [Pages -> Page]
    BY <1>8, PageTypes DEF Format, Pages
  <2>. QED BY <1>8, <2>1, ContinueTypes DEF Format
<1>9. ASSUME NEW p \in Pages, NEW to \in {"erase", "copy", "format"},
             NEW for \in {"init", "finish"}, Boot(p, to, for)
      PROVE TypeOK'
  <2>1. todo' \subseteq Table
    BY <1>9 DEF Boot
  <2>. QED BY <1>9, <2>1 DEF Boot, TypeOK
<1>10. ASSUME NEW p \in Pages, BootSettled(p) \/ BootReceived(p) \/ BootHalfCopied(p)
       PROVE TypeOK'
  BY <1>9, <1>10 DEF BootSettled, BootReceived, BootHalfCopied
<1>11. CASE BootFormat
  BY <1>9, <1>11 DEF BootFormat, Pages
<1>12. ASSUME NEW v \in Vars, Copy(v) PROVE TypeOK'
  <2>1. todo' \subseteq Table
    BY <1>12 DEF Copy, TypeOK
  <2>2. CASE UNCHANGED <<pc, cur>>
    BY <1>12, <2>1, <2>2 DEF Copy, TypeOK
  <2>3. CASE /\ cur' = [var |-> v, data |-> ReadVariable(v)]
             /\ ReadVariable(v) # None /\ pc' = "data"
    <3>1. cur' \in Requests
      BY <2>3, ReadTypes DEF Requests
    <3>. QED BY <1>12, <2>1, <2>3, <3>1 DEF Copy, TypeOK
  <2>. QED BY <1>12, <2>2, <2>3 DEF Copy
<1>13. ASSUME NEW v \in Vars, NEW d \in Data,
              WriteSame(v, d) \/ WriteRefused(v, d) \/ WriteSlot(v, d)
       PROVE TypeOK'
  <2>1. [var |-> v, data |-> d] \in Requests
    BY DEF Requests
  <2>2. CASE WriteSame(v, d)
    BY <2>1, <2>2 DEF WriteSame, TypeOK
  <2>3. CASE WriteRefused(v, d)
    BY <2>1, <2>3 DEF WriteRefused, TypeOK
  <2>4. CASE WriteSlot(v, d)
    BY <2>1, <2>4 DEF WriteSlot, TypeOK
  <2>. QED BY <1>13, <2>2, <2>3, <2>4
<1>14. CASE Fail
  BY <1>14, ReturnTypes DEF Fail
<1>15. CASE PowerLoss
  <2>1. Other(new) \in Pages /\ 0 \in Pages
    BY DEF Other, Pages
  <2>2. page' \in [Pages -> Page]
    <3>1. /\ [page EXCEPT ![Other(new)].status = "erased"] \in [Pages -> Page]
          /\ [page EXCEPT ![0].status = "erased"] \in [Pages -> Page]
      BY <2>1, PageTypes
    <3>2. CutOff \subseteq [Pages -> Page]
      BY <3>1 DEF CutOff
    <3>. QED BY <1>15, <3>2 DEF PowerLoss
  <2>3. losses' \in 0..BootLosses
    BY <1>15, EepromAssumption DEF PowerLoss, TypeOK
  <2>. QED BY <1>15, <2>2, <2>3, EepromAssumption
           DEF PowerLoss, Forget, TypeOK, Pages, Indices
<1>16. CASE UNCHANGED vars
  BY <1>16 DEF vars, locals, TypeOK
<1>. QED BY <1>1, <1>2, <1>3, <1>4, <1>5, <1>6, <1>7, <1>8, <1>10, <1>11, <1>12, <1>13, <1>14,
            <1>15, <1>16 DEF Next, Step, Write

(* Every slot, pointer and pending write keeps its type: a copied value is *)
(* always one that was found, and no slot outside a page is programmed.    *)
THEOREM TypeCorrect == Spec => []TypeOK
BY TypeInit, TypeStep, PTL DEF Spec
=============================================================================

-------------------------- MODULE EepromRefinement --------------------------
(***************************************************************************)
(* The EEPROM emulation implements AbstractStore, for any number of        *)
(* variables and power losses, when the pages are just large enough, every *)
(* variable is in VirtAddVarTab, power does not fail in the one window of  *)
(* EE_Init and flash errors hit plain writes only.  Whatever fails, every  *)
(* call ends.                                                              *)
(***************************************************************************)
EXTENDS EepromProofs, FiniteSetTheorems

Old == Other(new)
N == Cardinality(Vars)
First(p) == page[p].slots[1].var
Fresh == page = [p \in Pages |-> ErasedPage]
Copying == ctx \in {"transfer", "init"} /\ pc \in {"data", "vaddr", "copy"}
(* A transfer is writing the variable it was called for.                   *)
Leading == ctx = "transfer" /\ pc \in {"data", "vaddr"} /\ cur.var = req.var

(* What v reads once p has received everything.                            *)
Holds(p, v) == IF First(p) = v THEN page[p].slots[1].data ELSE Last(Other(p), v)

(* Slots are filled from the front; at most the first k are used.          *)
Dense(p) ==
  \A i, j \in Indices : i < j /\ page[p].slots[i] = Empty => page[p].slots[j] = Empty
UsedTo(p, k) == \A i \in Indices : i > k => page[p].slots[i] = Empty

(* The page that receives data holds nothing that contradicts the other    *)
(* one; it holds all there is of the variables in S.                       *)
Agrees(p) == \A v \in Vars : Last(p, v) \in {None, Holds(p, v)}
Copied(p, S) == \A v \in S : Last(p, v) = Holds(p, v)

(* What the pages can be at each flash operation.                          *)
AtRest ==
  /\ pc = "idle" <=> ctx = "none"
  /\ ctx \in {"none", "write"} => \E p \in Pages : Valid(p) /\ page[Other(p)] = ErasedPage
  /\ ctx = "write" => pc \in {"data", "vaddr"} /\ cur = req
  /\ ctx \notin {"init", "finish"} => losses = 0
  /\ ctx \in {"init", "finish"} => result = "none"

InTransfer ==
  ctx = "transfer" =>
    /\ pc \in {"receive", "data", "vaddr", "copy", "erase", "mark"}
    /\ pc = "receive" => Valid(Old) /\ page[new] = ErasedPage /\ cur = req
    /\ pc \in {"data", "vaddr", "copy", "erase"} => HalfCopied(new)
    /\ pc = "mark" => Receives(new) /\ page[Old] = ErasedPage

InInit ==
  ctx = "init" =>
    /\ pc \in {"boot", "copy", "data", "vaddr", "mark", "erase", "format"}
    /\ pc = "boot" => Fresh \/ \E p \in Pages : Settled(p) \/ Received(p) \/ HalfCopied(p)
    /\ pc \in {"copy", "data", "vaddr"} => HalfCopied(new)
    /\ pc = "mark" => HalfCopied(new) \/ (Fresh /\ new = 0)
    /\ pc = "erase" => Valid(new) /\ (Valid(Old) \/ Status(Old) = "erased")
    /\ pc = "format" => Fresh /\ new = 0

InFinish ==
  ctx = "finish" =>
    /\ pc \in {"erase", "mark"} /\ Received(new)
    /\ pc = "mark" => page[Old] = ErasedPage

Phase == AtRest /\ InTransfer /\ InInit /\ InFinish

(* The variable a transfer is called for is the first one it writes.       *)
Leads ==
  ctx = "transfer" =>
    /\ Leading => /\ cur = req /\ todo = Vars \ {req.var}
                  /\ pc = "data" => page[new].slots = ErasedPage.slots
                  /\ pc = "vaddr" => spot = 1
    /\ ~Leading /\ pc # "receive" =>
         /\ First(new) = req.var /\ Last(new, req.var) = req.data
         /\ Holds(new, req.var) = req.data
         /\ req.var \notin todo

Programs ==
  pc = "vaddr" =>
    /\ page[WritePage].slots[spot] = [data |-> cur.data, var |-> NoVar]
    /\ \A i \in Indices : i < spot => page[WritePage].slots[i] # Empty
    /\ \A i \in Indices : i > spot => page[WritePage].slots[i] = Empty

Consistent ==
  /\ \A p \in Pages : Dense(p) /\ (HalfCopied(p) => Agrees(p))
  /\ Copying =>
       /\ Copied(new, (Vars \ todo) \ (IF pc = "copy" THEN {} ELSE {cur.var}))
       /\ pc # "copy" /\ ~Leading => cur.data = Holds(new, cur.var)
       /\ pc # "copy" => cur.var \notin todo
  /\ (ctx = "transfer" /\ pc = "erase") \/ (ctx = "init" /\ pc = "mark" /\ HalfCopied(new)) =>
       Copied(new, Vars)

(* How many slots of a receiving page a transfer and r rounds of copying in*)
(* EE_Init can have used, f being its first variable.  A transfer cut off  *)
(* before it has programmed an address leaves one slot, and then nothing   *)
(* tells EE_Init which variable to leave out.                              *)
Used(f, r) == IF f = NoVar THEN 1 + N * r ELSE N + (N - 1) * r

(* How many can be used by now, with the slot that is being programmed.    *)
Limit == IF ctx = "transfer" THEN N - Cardinality(todo)
         ELSE Used(First(new), losses + 1) - Cardinality(todo \ {First(new)})
Bounded ==
  /\ pc = "boot" => \A p \in Pages : HalfCopied(p) => UsedTo(p, Used(First(p), losses))
  /\ Copying => UsedTo(new, Limit - (IF pc = "data" THEN 1 ELSE 0))
  /\ Copying /\ pc = "vaddr" => spot <= Limit
  /\ ctx \in {"transfer", "init"} /\ pc \in {"erase", "mark"} /\ HalfCopied(new) =>
       UsedTo(new, Used(First(new), IF ctx = "init" THEN losses + 1 ELSE 0))

(* What a write that returned success has stored stays stored.             *)
Answered == ctx = "none" /\ result = "ok" => ReadVariable(req.var) = req.data

IInv == TypeOK /\ Phase /\ Leads /\ Programs /\ Consistent /\ Bounded /\ Answered

-----------------------------------------------------------------------------
(* What a flash operation does to what is read.                            *)

LEMMA PagesTwo == \A p \in Pages : Other(p) \in Pages /\ Other(p) # p /\ Other(Other(p)) = p
BY DEF Pages, Other

LEMMA SlotTypes ==
  ASSUME TypeOK, NEW p \in Pages
  PROVE  /\ 1 \in Indices
         /\ Status(p) \in {"erased", "receive", "valid"}
         /\ \A i \in Indices : /\ page[p].slots[i].data \in Data
                               /\ page[p].slots[i] = [data |-> page[p].slots[i].data,
                                                      var |-> page[p].slots[i].var]
<1>1. page[p] \in Page
  BY DEF TypeOK
<1>2. ASSUME NEW i \in Indices
      PROVE  /\ page[p].slots[i].data \in Data
             /\ page[p].slots[i] = [data |-> page[p].slots[i].data,
                                    var |-> page[p].slots[i].var]
  <2>1. page[p].slots[i] \in Slot
    BY <1>1 DEF Page
  <2>. QED BY <2>1 DEF Slot
<1>. QED BY <1>1, <1>2, EepromAssumption DEF Page, Status, Indices

LEMMA LastTypes ==
  ASSUME TypeOK, NEW p \in Pages, NEW v
  PROVE  Last(p, v) \in Data \cup {None} /\ (Uses(p, v) # {} => Last(p, v) # None)
<1>1. CASE Uses(p, v) = {}
  BY <1>1 DEF Last
<1>2. CASE Uses(p, v) # {}
  <2>1. LastUse(p, v) \in Indices
    BY <1>2, LastUseIs DEF Uses
  <2>2. page[p].slots[LastUse(p, v)].data \in Data
    BY <2>1, SlotTypes
  <2>. QED BY <1>2, <2>2, EepromAssumption DEF Last
<1>. QED BY <1>1, <1>2

(* A write to a slot that names no variable, and a page whose slots stay.  *)
LEMMA SameReads ==
  ASSUME TypeOK, NEW p \in Pages,
         \A i \in Indices : page'[p].slots[i].var = page[p].slots[i].var,
         \A i \in Indices : page[p].slots[i].var = NoVar \/ page'[p].slots[i] = page[p].slots[i]
  PROVE  \A v \in Vars : Uses(p, v)' = Uses(p, v) /\ Last(p, v)' = Last(p, v)
<1>. SUFFICES ASSUME NEW v \in Vars
     PROVE Uses(p, v)' = Uses(p, v) /\ Last(p, v)' = Last(p, v)
  OBVIOUS
<1>1. Uses(p, v)' = Uses(p, v)
  BY DEF Uses
<1>2. LastUse(p, v)' = LastUse(p, v)
  BY <1>1 DEF LastUse
<1>3. CASE Uses(p, v) = {}
  BY <1>1, <1>3 DEF Last
<1>4. CASE Uses(p, v) # {}
  <2>1. LastUse(p, v) \in Indices /\ page[p].slots[LastUse(p, v)].var = v
    BY <1>4, LastUseIs DEF Uses
  <2>2. page'[p].slots[LastUse(p, v)] = page[p].slots[LastUse(p, v)]
    BY <2>1, EepromAssumption
  <2>. QED BY <1>1, <1>2, <1>4, <2>2 DEF Last
<1>. QED BY <1>1, <1>3, <1>4

(* Naming the variable of the slot behind the used ones: only this variable*)
(* reads differently.                                                      *)
LEMMA NewLast ==
  ASSUME TypeOK, NEW p \in Pages, NEW s \in Indices, NEW x \in Vars, NEW d,
         page[p].slots[s] = [data |-> d, var |-> NoVar],
         \A i \in Indices : i > s => page[p].slots[i] = Empty,
         page' = [page EXCEPT ![p].slots[s].var = x]
  PROVE  /\ Last(p, x)' = d
         /\ \A v \in Vars \ {x} : Uses(p, v)' = Uses(p, v) /\ Last(p, v)' = Last(p, v)
<1>. page[p] \in Page
  BY DEF TypeOK
<1>1. page'[p].slots = [page[p].slots EXCEPT ![s] = [page[p].slots[s] EXCEPT !.var = x]]
  BY DEF TypeOK, Page
<1>2. page'[p].slots[s] = [data |-> d, var |-> x]
  BY <1>1 DEF Page
<1>3. \A i \in Indices \ {s} : page'[p].slots[i] = page[p].slots[i]
  BY <1>1 DEF Page
<1>4. Last(p, x)' = d
  <2>1. s \in Uses(p, x)'
    BY <1>2 DEF Uses
  <2>2. \A i \in Uses(p, x)' : i <= s
    <3>1. ASSUME NEW i \in Indices, i > s PROVE page'[p].slots[i].var # x
      <4>1. i # s
        BY <3>1 DEF Indices
      <4>. QED BY <1>3, <3>1, <4>1, EepromAssumption DEF Empty
    <3>. QED BY <3>1, EepromAssumption DEF Uses, Indices
  <2>3. LastUse(p, x)' \in Uses(p, x)' /\ \A j \in Uses(p, x)' : j <= LastUse(p, x)'
    BY <2>1, <2>2 DEF LastUse
  <2>4. LastUse(p, x)' = s
    BY <2>1, <2>2, <2>3, EepromAssumption DEF Uses, Indices
  <2>. QED BY <1>2, <2>1, <2>4 DEF Last
<1>5. ASSUME NEW v \in Vars \ {x} PROVE Uses(p, v)' = Uses(p, v) /\ Last(p, v)' = Last(p, v)
  <2>1. page[p].slots[s].var # v
    BY EepromAssumption
  <2>2. Uses(p, v)' = Uses(p, v)
    BY <1>2, <1>3, <2>1 DEF Uses
  <2>3. LastUse(p, v)' = LastUse(p, v)
    BY <2>2 DEF LastUse
  <2>4. CASE Uses(p, v) # {}
    <3>1. LastUse(p, v) \in Indices \ {s}
      BY <2>4, <2>1, LastUseIs DEF Uses
    <3>. QED BY <1>3, <2>2, <2>3, <3>1 DEF Last
  <2>. QED BY <2>2, <2>4 DEF Last
<1>. QED BY <1>4, <1>5

LEMMA ErasedReads ==
  /\ \A i \in Indices : ErasedPage.slots[i] = Empty /\ ErasedPage.slots[i].var = NoVar
  /\ ErasedPage.status = "erased"
  /\ \A p : page[p] = ErasedPage =>
       /\ First(p) = NoVar /\ Status(p) = "erased" /\ Dense(p) /\ UsedTo(p, 0)
       /\ \A v \in Vars : Uses(p, v) = {} /\ Last(p, v) = None
<1>1. \A i \in Indices : ErasedPage.slots[i] = Empty /\ ErasedPage.slots[i].var = NoVar
  BY DEF ErasedPage, Empty
<1>2. ErasedPage.status = "erased"
  BY DEF ErasedPage
<1>3. ASSUME NEW p, page[p] = ErasedPage
      PROVE  /\ First(p) = NoVar /\ Status(p) = "erased" /\ Dense(p) /\ UsedTo(p, 0)
             /\ \A v \in Vars : Uses(p, v) = {} /\ Last(p, v) = None
  <2>1. \A v \in Vars : Uses(p, v) = {}
    BY <1>1, <1>3, EepromAssumption DEF Uses
  <2>2. 1 \in Indices
    BY EepromAssumption DEF Indices
  <2>. QED BY <1>1, <1>2, <1>3, <2>1, <2>2 DEF First, Status, Dense, UsedTo, Last
<1>. QED BY <1>1, <1>2, <1>3

-----------------------------------------------------------------------------
(* Which page is read and which one written.                               *)

ReadsAs ==
  \A p \in Pages :
    /\ HalfCopied(p) => ReadPage = Other(p) /\ WritePage = p /\ HasValid
    /\ Valid(p) /\ Status(Other(p)) = "erased" => ReadPage = p /\ WritePage = p /\ HasValid
    /\ Received(p) => ~HasValid

LEMMA Reading == ReadsAs
<1>. SUFFICES ASSUME NEW p \in Pages
     PROVE  /\ HalfCopied(p) => ReadPage = Other(p) /\ WritePage = p /\ HasValid
            /\ Valid(p) /\ Status(Other(p)) = "erased" =>
                 ReadPage = p /\ WritePage = p /\ HasValid
            /\ Received(p) => ~HasValid
  BY DEF ReadsAs
<1>1. (p = 0 /\ Other(p) = 1) \/ (p = 1 /\ Other(p) = 0)
  <2>1. CASE p = 0
    BY <2>1 DEF Other
  <2>2. CASE p = 1
    BY <2>2 DEF Other
  <2>. QED BY <2>1, <2>2 DEF Pages
<1>2. HalfCopied(p) => ReadPage = Other(p) /\ WritePage = p
  BY <1>1 DEF HalfCopied, ReadPage, WritePage, Valid, Receives
<1>3. Valid(p) /\ Status(Other(p)) = "erased" => ReadPage = p /\ WritePage = p
  BY <1>1 DEF ReadPage, WritePage, Valid, Receives
<1>4. HalfCopied(p) \/ Valid(p) => HasValid
  BY PagesTwo DEF HalfCopied, HasValid
<1>5. Received(p) => ~HasValid
  BY <1>1 DEF Received, HasValid, Valid, Receives, Pages
<1>. QED BY <1>2, <1>3, <1>4, <1>5

LEMMA ReadingNext == ReadsAs'
BY Reading, PTL

(* Stored, told apart by what the pages are.                               *)
StoredAs ==
  \A v \in Vars, p \in Pages :
    /\ Valid(p) /\ Status(Other(p)) = "erased" => Stored(v) = Last(p, v)
    /\ HalfCopied(p) => Stored(v) = Holds(p, v)
    /\ Received(p) => Stored(v) = Last(p, v)
    /\ Window => Stored(v) = Last(new, v)
    /\ Fresh => Stored(v) = None

LEMMA StoredIs == TypeOK => StoredAs
<1>. SUFFICES ASSUME TypeOK, NEW v \in Vars, NEW p \in Pages
     PROVE  /\ Valid(p) /\ Status(Other(p)) = "erased" => Stored(v) = Last(p, v)
            /\ HalfCopied(p) => Stored(v) = Holds(p, v)
            /\ Received(p) => Stored(v) = Last(p, v)
            /\ Window => Stored(v) = Last(new, v)
            /\ Fresh => Stored(v) = None
  BY DEF StoredAs
<1>. Other(p) \in Pages /\ Other(p) # p /\ Other(Other(p)) = p /\ new \in Pages
  BY PagesTwo DEF TypeOK
<1>0. Window => \A q \in Pages : Valid(q)
  BY DEF Window, Pages, Other
<1>1. ASSUME Valid(p), Status(Other(p)) = "erased" PROVE Stored(v) = Last(p, v)
  <2>1. ~Window /\ ~Receives(Other(p))
    BY <1>0, <1>1 DEF Valid, Receives
  <2>. QED BY <1>1, <2>1, Reading DEF ReadsAs, Stored
<1>2. ASSUME HalfCopied(p) PROVE Stored(v) = Holds(p, v)
  <2>1. ~Window /\ Receives(p)
    BY <1>0, <1>2 DEF HalfCopied, Valid, Receives
  <2>. QED BY <1>2, <2>1, Reading DEF ReadsAs, Stored, Holds, First
<1>3. ASSUME Received(p) PROVE Stored(v) = Last(p, v)
  <2>1. ~Window /\ Receives(p) /\ ~HasValid
    BY <1>0, <1>3, Reading DEF ReadsAs, Received, Valid, Receives
  <2>2. \A q \in Pages : Receives(q) => q = p
    BY <1>3 DEF Received, Receives, Pages, Other
  <2>. QED BY <2>1, <2>2 DEF Stored
<1>4. Fresh => Stored(v) = None
  BY <1>0, ErasedReads DEF Stored, Fresh, HasValid, Valid, Receives
<1>. QED BY <1>1, <1>2, <1>3, <1>4 DEF Stored

LEMMA StoredIsNext == TypeOK' => StoredAs'
BY StoredIs, PTL

-----------------------------------------------------------------------------
(* Counting.                                                               *)

(* Where IInv holds.  No page can be smaller: with a slot less TLC finds   *)
(* RoomForCopy violated.                                                   *)
Fits ==
  /\ Table = Vars /\ IsFiniteSet(Vars)
  /\ WindowLoss = FALSE /\ FailIn \subseteq {"write"}
  /\ Slots >= 1 + N * (BootLosses + 1) /\ Slots >= N + (N - 1) * (BootLosses + 1)

LEMMA Counts ==
  ASSUME Fits, NEW S \in SUBSET Vars
  PROVE  /\ N \in Nat /\ Cardinality(S) \in 0..N
         /\ \A v \in S : Cardinality(S \ {v}) = Cardinality(S) - 1
         /\ \A v \in Vars \ S : Cardinality(S) + 1 <= N
         /\ \A T \in SUBSET S : Cardinality(T) \in Nat /\ Cardinality(T) <= Cardinality(S)
<1>1. IsFiniteSet(Vars) /\ IsFiniteSet(S) /\ N \in Nat /\ Cardinality(S) \in Nat
  BY FS_Subset, FS_CardinalityType DEF Fits, N
<1>2. Cardinality(S) <= N
  BY <1>1, FS_Subset DEF N
<1>3. ASSUME NEW v \in S PROVE Cardinality(S \ {v}) = Cardinality(S) - 1
  BY <1>1, FS_RemoveElement
<1>4. ASSUME NEW v \in Vars \ S PROVE Cardinality(S) + 1 <= N
  <2>1. S \cup {v} \in SUBSET Vars
    OBVIOUS
  <2>2. Cardinality(S \cup {v}) = Cardinality(S) + 1
    BY <1>1, FS_AddElement
  <2>3. Cardinality(S \cup {v}) <= N
    BY <1>1, <2>1, FS_Subset DEF N
  <2>. QED BY <2>2, <2>3
<1>5. ASSUME NEW T \in SUBSET S PROVE Cardinality(T) \in Nat /\ Cardinality(T) <= Cardinality(S)
  BY <1>1, FS_Subset, FS_CardinalityType
<1>. QED BY <1>1, <1>2, <1>3, <1>4, <1>5

LEMMA FirstType ==
  ASSUME TypeOK, NEW p \in Pages
  PROVE  First(p) \in Vars \cup {NoVar}
<1>1. page[p] \in Page /\ 1 \in Indices
  BY EepromAssumption DEF TypeOK, Indices
<1>2. page[p].slots[1] \in Slot
  BY <1>1 DEF Page
<1>. QED BY <1>2 DEF Slot, First

(* How much room each round of copying takes, and that there is enough.    *)
LEMMA Room ==
  ASSUME Fits, NEW f \in Vars \cup {NoVar}, NEW l \in 0..BootLosses
  PROVE  /\ Used(f, l) \in Nat /\ Used(f, l) >= 1
         /\ Used(f, l + 1) = Used(f, l) + Cardinality(Vars \ {f})
         /\ Cardinality(Vars \ {f}) \in Nat
         /\ Used(f, l + 1) \in Nat /\ Used(f, l + 1) <= Slots
         /\ Used(f, 0) = IF f = NoVar THEN 1 ELSE N
<1>1. N \in Nat /\ BootLosses \in Nat /\ Slots \in Nat /\ l \in Nat /\ l <= BootLosses
  BY Counts, EepromAssumption
<1>2. CASE f = NoVar
  <2>1. Vars \ {f} = Vars
    BY <1>2, EepromAssumption
  <2>2. \A n, a, b \in Nat : a <= b => n * a <= n * b /\ n * a \in Nat
    OBVIOUS
  <2>3. \A n, a \in Nat : n * (a + 1) = n * a + n /\ n * 0 = 0
    OBVIOUS
  <2>4. N * (l + 1) <= N * (BootLosses + 1) /\ N * (l + 1) \in Nat /\ N * l \in Nat
    BY <1>1, <2>2
  <2>5. N * (l + 1) = N * l + N /\ N * (BootLosses + 1) \in Nat /\ N * 0 = 0
    BY <1>1, <2>2, <2>3
  <2>6. Used(f, l) = 1 + N * l /\ Used(f, l + 1) = 1 + N * (l + 1) /\ Used(f, 0) = 1 + N * 0
    BY <1>2 DEF Used
  <2>7. 1 + N * (BootLosses + 1) <= Slots
    BY DEF Fits
  <2>8. Cardinality(Vars \ {f}) = N
    BY <2>1 DEF N
  <2>. QED BY <1>1, <1>2, <2>4, <2>5, <2>6, <2>7, <2>8
<1>3. CASE f # NoVar
  <2>1. PICK m \in Nat : N = m + 1 /\ Cardinality(Vars \ {f}) = m
    <3>1. f \in Vars /\ Vars \ {f} \in SUBSET Vars /\ Cardinality(Vars) = N
      BY <1>3 DEF N
    <3>2. Cardinality(Vars \ {f}) = N - 1 /\ Cardinality(Vars \ {f}) \in Nat
      BY <3>1, Counts
    <3>. QED BY <1>1, <3>2
  <2>2. \A n, a, b \in Nat : a <= b => n * a <= n * b /\ n * a \in Nat
    OBVIOUS
  <2>3. \A n, a \in Nat : n * (a + 1) = n * a + n /\ n * 0 = 0
    OBVIOUS
  <2>4. m * (l + 1) <= m * (BootLosses + 1) /\ m * (l + 1) \in Nat /\ m * l \in Nat
    BY <1>1, <2>1, <2>2
  <2>5. m * (l + 1) = m * l + m /\ m * (BootLosses + 1) \in Nat /\ m * 0 = 0
    BY <1>1, <2>1, <2>2, <2>3
  <2>6. N - 1 = m
    BY <2>1
  <2>7. /\ Used(f, l) = N + m * l /\ Used(f, l + 1) = N + m * (l + 1)
        /\ Used(f, 0) = N + m * 0
    BY <1>3, <2>6 DEF Used
  <2>8. N + m * (BootLosses + 1) <= Slots
    BY <2>6 DEF Fits
  <2>. QED BY <1>1, <1>3, <2>1, <2>4, <2>5, <2>7, <2>8
<1>. QED BY <1>2, <1>3

-----------------------------------------------------------------------------
(* The steps of the store.                                                 *)

Job == IF ctx \in {"write", "transfer"} THEN req ELSE NoJob
Answer == IF result = "full" THEN "error" ELSE result
StoreStep == [Store!Next]_(Store!vars)
Keeps == \A v \in Vars : Stored(v)' = Stored(v)

LEMMA Stutters ==
  ASSUME Keeps, Job' = Job, Answer' = Answer
  PROVE  StoreStep
BY DEF Keeps, Job, Answer, StoreStep, Store!vars

LEMMA Starts ==
  ASSUME Keeps, Job = NoJob, Job' \in Requests, Answer' = Answer
  PROVE  StoreStep
BY DEF Keeps, Job, Answer, StoreStep, Store!vars, Store!Next, Store!Start, Store!Jobs, Requests

LEMMA Immediates ==
  ASSUME Keeps, Job = NoJob, Job' = NoJob, NEW j \in Requests,
         Answer' = "error" \/ (Answer' = "ok" /\ Stored(j.var) = j.data)
  PROVE  StoreStep
<1>1. j.var \in Vars /\ j \in Store!Jobs
  BY DEF Requests, Store!Jobs
<1>. QED BY <1>1 DEF Keeps, Job, Answer, StoreStep, Store!Next, Store!Immediate

LEMMA TakesEffect ==
  ASSUME NEW j \in Requests, Job = j, Job' = j, Answer' = Answer,
         \A v \in Vars : Stored(v)' = IF v = j.var THEN j.data ELSE Stored(v)
  PROVE  StoreStep
<1>1. Job # NoJob
  BY EepromAssumption DEF Requests
<1>2. [v \in Vars |-> Stored(v)]' = [[v \in Vars |-> Stored(v)] EXCEPT ![j.var] = j.data]
  OBVIOUS
<1>. QED BY <1>1, <1>2 DEF Job, Answer, StoreStep, Store!Next, Store!TakeEffect

LEMMA Finishes ==
  ASSUME NEW j \in Requests, Job = j, Job' = NoJob,
         \/ Keeps
         \/ \A v \in Vars : Stored(v)' = IF v = j.var THEN j.data ELSE Stored(v),
         Answer' = "error" \/ (Answer' = "ok" /\ Stored(j.var)' = j.data)
  PROVE  StoreStep
<1>1. Job # NoJob /\ j.var \in Vars
  BY EepromAssumption DEF Requests
<1>2. [v \in Vars |-> Stored(v)]' \in
        {[v \in Vars |-> Stored(v)],
         [[v \in Vars |-> Stored(v)] EXCEPT ![j.var] = j.data]}
  BY DEF Keeps
<1>3. [v \in Vars |-> Stored(v)]'[j.var] = Stored(j.var)'
  BY <1>1
<1>. QED BY <1>1, <1>2, <1>3 DEF Job, Answer, StoreStep, Store!Next, Store!Finish

LEMMA LosesPower ==
  ASSUME Keeps, Job' = NoJob, Answer' = "none"
  PROVE  StoreStep
BY DEF Keeps, Job, Answer, StoreStep, Store!Next, Store!PowerLoss

-----------------------------------------------------------------------------
(* Programming the data of a slot.                                         *)

LEMMA DataEffect ==
  ASSUME IInv, ProgramData
  PROVE  /\ WritePage \in Pages /\ spot' \in Indices /\ cur.data \in Data
         /\ \A i \in Indices : i < spot' => page[WritePage].slots[i] # Empty
         /\ page[WritePage].slots[spot'] = Empty
         /\ \A i \in Indices : i > spot' => page[WritePage].slots[i] = Empty
         /\ page'[Other(WritePage)] = page[Other(WritePage)]
         /\ page'[WritePage].slots[spot'] = [data |-> cur.data, var |-> NoVar]
         /\ \A i \in Indices : i # spot' => page'[WritePage].slots[i] = page[WritePage].slots[i]
         /\ \A p \in Pages :
              /\ Status(p)' = Status(p) /\ First(p)' = First(p) /\ Dense(p)'
              /\ \A v \in Vars : Last(p, v)' = Last(p, v) /\ Holds(p, v)' = Holds(p, v)
<1>. DEFINE w == WritePage  s == FirstFree(WritePage)
<1>. TypeOK
  BY DEF IInv
<1>1. w \in Pages /\ Other(w) \in Pages /\ Other(w) # w /\ s \in Indices /\ cur.data \in Data
  BY PagesTwo, ReadTypes DEF ProgramData, TypeOK, Requests
<1>2. s \in Free(w) /\ \A i \in Free(w) : s <= i
  BY FirstFreeIs DEF ProgramData
<1>3. spot' = s
  BY DEF ProgramData
<1>4. \A i \in Indices : i < s => page[w].slots[i] # Empty
  <2>1. \A i \in Indices : i < s => ~(s <= i)
    BY <1>1 DEF Indices
  <2>. QED BY <1>2, <2>1 DEF Free
<1>5. page[w].slots[s] = Empty
  BY <1>2 DEF Free
<1>6. \A i \in Indices : i > s => page[w].slots[i] = Empty
  BY <1>1, <1>5 DEF IInv, Consistent, Dense, Indices
<1>7. page'[w] = [page[w] EXCEPT !.slots = [page[w].slots EXCEPT ![s] =
                     [page[w].slots[s] EXCEPT !.data = cur.data]]]
      /\ \A p \in Pages : p # w => page'[p] = page[p]
  BY <1>1, <1>3 DEF ProgramData, TypeOK
<1>8. /\ page'[w].slots[s] = [data |-> cur.data, var |-> NoVar]
      /\ \A i \in Indices : i # s => page'[w].slots[i] = page[w].slots[i]
      /\ page'[w].status = page[w].status
  <2>1. page[w] \in Page
    BY <1>1 DEF TypeOK
  <2>. QED BY <1>1, <1>5, <1>7, <2>1 DEF Page, Empty
<1>9. ASSUME NEW p \in Pages
      PROVE  /\ Status(p)' = Status(p) /\ First(p)' = First(p) /\ Dense(p)'
             /\ \A v \in Vars : Last(p, v)' = Last(p, v)
  <2>1. CASE p # w
    <3>1. page'[p] = page[p] /\ Dense(p)
      BY <1>7, <2>1 DEF IInv, Consistent
    <3>2. \A v \in Vars : Last(p, v)' = Last(p, v)
      BY <3>1, SameReads
    <3>. QED BY <3>1, <3>2 DEF Status, First, Dense
  <2>2. CASE p = w
    <3>1. \A i \in Indices : page'[p].slots[i].var = page[p].slots[i].var
      BY <1>5, <1>8, <2>2 DEF Empty
    <3>2. \A i \in Indices : page[p].slots[i].var = NoVar \/ page'[p].slots[i] = page[p].slots[i]
      BY <1>5, <1>8, <2>2 DEF Empty
    <3>3. \A v \in Vars : Last(p, v)' = Last(p, v)
      BY <3>1, <3>2, SameReads
    <3>4. First(p)' = First(p) /\ Status(p)' = Status(p)
      BY <1>8, <2>2, <3>1, SlotTypes DEF First, Status
    <3>5. \A i \in Indices : i > s => page'[p].slots[i] = Empty
      BY <1>1, <1>6, <1>8, <2>2 DEF Indices
    <3>6. \A i \in Indices : i < s => page'[p].slots[i] # Empty
      BY <1>1, <1>4, <1>8, <2>2 DEF Indices
    <3>7. Dense(p)'
      BY <1>1, <3>5, <3>6 DEF Dense, Indices
    <3>. QED BY <3>3, <3>4, <3>7
  <2>. QED BY <2>1, <2>2
<1>10. ASSUME NEW p \in Pages, NEW v \in Vars PROVE Holds(p, v)' = Holds(p, v)
  <2>1. First(p)' = First(p) /\ Last(Other(p), v)' = Last(Other(p), v)
    BY <1>9, PagesTwo
  <2>2. CASE First(p) = v
    <3>1. page[p].slots[1].var # NoVar /\ 1 \in Indices
      BY <2>2, EepromAssumption, SlotTypes DEF First
    <3>2. page'[p].slots[1] = page[p].slots[1]
      <4>1. CASE p = w
        BY <1>5, <1>8, <3>1, <4>1 DEF Empty
      <4>2. CASE p # w
        BY <1>7, <4>2
      <4>. QED BY <4>1, <4>2
    <3>. QED BY <2>1, <2>2, <3>2 DEF Holds
  <2>3. CASE First(p) # v
    BY <2>1, <2>3 DEF Holds
  <2>. QED BY <2>2, <2>3
<1>. QED BY <1>1, <1>3, <1>4, <1>5, <1>6, <1>7, <1>8, <1>9, <1>10

(* One slot more is used.                                                  *)
LEMMA DataUses ==
  ASSUME IInv, ProgramData, NEW k \in Nat, UsedTo(WritePage, k)
  PROVE  /\ spot' <= k + 1
         /\ \A i \in Indices : i > k + 1 => page'[WritePage].slots[i] = Empty
<1>1. spot' \in Indices /\ \A i \in Indices : i < spot' => page[WritePage].slots[i] # Empty
  BY DataEffect
<1>2. spot' <= k + 1
  <2>1. CASE spot' > k + 1
    <3>1. k + 1 \in Indices /\ k + 1 > k
      BY <1>1, <2>1, EepromAssumption DEF Indices
    <3>. QED BY <1>1, <2>1, <3>1 DEF UsedTo
  <2>. QED BY <1>1, <2>1 DEF Indices
<1>3. \A i \in Indices : i > k + 1 => i > k /\ i # spot'
  BY <1>1, <1>2 DEF Indices
<1>. QED BY <1>2, <1>3, DataEffect DEF UsedTo

LEMMA LimitBound ==
  ASSUME Fits, IInv, Copying
  PROVE  Limit \in 0..Slots /\ (pc # "copy" => Limit >= 1)
<1>1. /\ todo \in SUBSET Vars /\ losses \in 0..BootLosses /\ new \in Pages
      /\ Slots \in Nat
      /\ pc # "copy" => cur.var \in Vars \ todo
  BY EepromAssumption DEF IInv, TypeOK, Consistent, Copying, Requests, Fits
<1>2. N \in Nat /\ Cardinality(todo) \in 0..N /\ (pc # "copy" => Cardinality(todo) + 1 <= N)
  BY <1>1, Counts
<1>3. PICK f \in Vars \cup {NoVar} : First(new) = f
  BY <1>1, FirstType DEF IInv
<1>4. CASE ctx = "transfer"
  <2>1. Limit = N - Cardinality(todo)
    BY <1>4 DEF Limit
  <2>2. N <= Slots
    <3>1. PICK l \in Nat : l = losses /\ 0 \in 0..BootLosses
      BY <1>1, EepromAssumption
    <3>2. Used(NoVar, 0 + 1) <= Slots /\ Used(NoVar, 0 + 1) = 1 + N * (0 + 1)
      BY <3>1, Room, Zenon DEF Used
    <3>3. N * (0 + 1) = N
      BY <1>2
    <3>. QED BY <1>1, <1>2, <3>2, <3>3
  <2>. QED BY <1>1, <1>2, <2>1, <2>2
<1>5. CASE ctx # "transfer"
  <2>1. Limit = Used(f, losses + 1) - Cardinality(todo \ {f})
    BY <1>3, <1>5 DEF Limit
  <2>2. /\ Used(f, losses) \in Nat /\ Used(f, losses) >= 1
        /\ Used(f, losses + 1) = Used(f, losses) + Cardinality(Vars \ {f})
        /\ Used(f, losses + 1) \in Nat /\ Used(f, losses + 1) <= Slots
    BY <1>1, Room, Zenon
  <2>3. /\ Cardinality(todo \ {f}) \in Nat /\ Cardinality(Vars \ {f}) \in Nat
        /\ Cardinality(todo \ {f}) <= Cardinality(Vars \ {f})
    <3>1. Vars \ {f} \in SUBSET Vars /\ todo \ {f} \in SUBSET (Vars \ {f})
      BY <1>1
    <3>. QED BY <3>1, Counts
  <2>. QED BY <1>1, <2>1, <2>2, <2>3
<1>. QED BY <1>4, <1>5

(* A round leaves no more slots used than it may.                          *)
LEMMA RoundBound ==
  ASSUME Fits, IInv, Copying
  PROVE  LET u == Used(First(new), IF ctx = "init" THEN losses + 1 ELSE 0)
         IN  u \in Nat /\ Limit <= u
<1>1. /\ todo \in SUBSET Vars /\ losses \in 0..BootLosses /\ new \in Pages
      /\ ctx \in {"transfer", "init"} /\ N \in Nat
  BY Counts DEF IInv, TypeOK, Copying, Fits
<1>2. PICK f \in Vars \cup {NoVar} : First(new) = f
  BY <1>1, FirstType DEF IInv
<1>3. CASE ctx = "init"
  <2>1. Limit = Used(f, losses + 1) - Cardinality(todo \ {f})
    BY <1>2, <1>3 DEF Limit
  <2>2. Cardinality(todo \ {f}) \in Nat
    <3>1. todo \ {f} \in SUBSET Vars
      BY <1>1
    <3>. QED BY <3>1, Counts
  <2>3. Used(f, losses + 1) \in Nat
    BY <1>1, Room, Zenon
  <2>. QED BY <1>2, <1>3, <2>1, <2>2, <2>3
<1>4. CASE ctx = "transfer"
  <2>1. Limit = N - Cardinality(todo) /\ Cardinality(todo) \in 0..N
    BY <1>1, <1>4, Counts DEF Limit
  <2>2. Used(f, 0) = IF f = NoVar THEN 1 ELSE N
    BY <1>1, Room, Zenon
  <2>3. CASE f = NoVar
    <3>1. Leading
      BY <1>2, <1>4, <2>3, EepromAssumption DEF IInv, Leads, Copying, TypeOK, Requests
    <3>2. PICK r \in Vars : r = req.var /\ todo = Vars \ {r}
      BY <1>4, <3>1 DEF IInv, Leads, TypeOK, Requests
    <3>3. Cardinality(todo) = N - 1
      BY <3>2, Counts DEF N
    <3>. QED BY <1>1, <1>2, <1>4, <2>1, <2>2, <2>3, <3>3
  <2>4. CASE f # NoVar
    BY <1>1, <1>2, <1>4, <2>1, <2>2, <2>4
  <2>. QED BY <2>3, <2>4
<1>. QED BY <1>1, <1>3, <1>4

LEMMA StepData ==
  ASSUME Fits, IInv, ProgramData
  PROVE  (Phase /\ Leads /\ Programs /\ Consistent /\ Bounded /\ Answered)' /\ StoreStep
<1>. TypeOK /\ TypeOK' /\ new \in Pages
  BY TypeStep DEF IInv, TypeOK, Next, Step
<1>. USE DEF Valid, Receives, HalfCopied, Settled, Received
<1>1. /\ pc = "data" /\ pc' = "vaddr"
      /\ UNCHANGED <<ctx, new, cur, todo, req, result, losses>>
  BY DEF ProgramData
<1>2. \A p \in Pages : Status(p)' = Status(p)
  BY DataEffect
<1>3. ctx \in {"write", "transfer", "init"}
  BY <1>1 DEF IInv, Phase, AtRest, InFinish, TypeOK
<1>4. ctx # "write" => HalfCopied(new) /\ WritePage = new
  <2>1. ctx # "write" => HalfCopied(new)
    BY <1>1, <1>3 DEF IInv, Phase, InTransfer, InInit
  <2>. QED BY <2>1, Reading DEF ReadsAs
<1>5. WritePage' = WritePage
  BY <1>2 DEF WritePage, Pages
<1>6. Phase'
  <2>1. ctx = "write" => \E p \in Pages : Valid(p)' /\ page'[Other(p)] = ErasedPage
    <3>1. SUFFICES ASSUME ctx = "write"
                   PROVE \E p \in Pages : Valid(p)' /\ page'[Other(p)] = ErasedPage
      OBVIOUS
    <3>2. PICK p \in Pages : Valid(p) /\ page[Other(p)] = ErasedPage
      BY <3>1 DEF IInv, Phase, AtRest
    <3>3. WritePage = p
      BY <3>2, Reading, ErasedReads DEF ReadsAs
    <3>. QED BY <1>2, <3>2, <3>3, DataEffect
  <2>2. AtRest'
    BY <1>1, <1>3, <2>1 DEF AtRest, IInv, Phase
  <2>3. InTransfer' /\ InInit'
    BY <1>1, <1>2, <1>4, PagesTwo DEF InTransfer, InInit
  <2>. QED BY <1>1, <1>3, <2>2, <2>3 DEF Phase, InFinish
<1>7. Leads'
  <2>1. ASSUME ctx = "transfer", Leading PROVE spot' = 1
    <3>1. page[new].slots = ErasedPage.slots
      BY <1>1, <2>1 DEF IInv, Leads
    <3>2. page[new].slots[1] = Empty /\ 1 \in Indices
      BY <3>1, ErasedReads, SlotTypes
    <3>. QED BY <1>4, <2>1, <3>2, DataEffect DEF Indices
  <2>2. Leading' = Leading
    BY <1>1 DEF Leading
  <2>3. ctx = "transfer" => /\ First(new)' = First(new)
                            /\ Last(new, req.var)' = Last(new, req.var)
                            /\ Holds(new, req.var)' = Holds(new, req.var)
    <3>1. SUFFICES ASSUME ctx = "transfer"
                   PROVE /\ First(new)' = First(new)
                         /\ Last(new, req.var)' = Last(new, req.var)
                         /\ Holds(new, req.var)' = Holds(new, req.var)
      OBVIOUS
    <3>2. req.var \in Vars /\ req' = req /\ new' = new
      BY <1>1, <3>1 DEF TypeOK, Requests
    <3>. QED BY <3>2, DataEffect
  <2>. QED BY <1>1, <2>1, <2>2, <2>3 DEF IInv, Leads
<1>8. Programs'
  BY <1>1, <1>5, DataEffect DEF Programs, Indices
<1>9. Consistent'
  <2>1. \A p \in Pages : Dense(p)' /\ (HalfCopied(p)' => Agrees(p)')
    <3>1. SUFFICES ASSUME NEW p \in Pages, HalfCopied(p)' PROVE Agrees(p)'
      BY DataEffect
    <3>2. Agrees(p)
      BY <1>2, <3>1, PagesTwo DEF IInv, Consistent
    <3>. QED BY <3>2, DataEffect DEF Agrees
  <2>2. Copying' => ctx # "write" /\ Copying /\ pc # "copy"
    BY <1>1 DEF Copying
  <2>3. ASSUME Copying' PROVE Copied(new, (Vars \ todo) \ {cur.var})'
    <3>1. Copied(new, (Vars \ todo) \ {cur.var})
      BY <1>1, <2>2, <2>3 DEF IInv, Consistent
    <3>. QED BY <1>1, <3>1, DataEffect DEF Copied
  <2>4. ASSUME Copying' PROVE /\ ~Leading' => cur'.data = Holds(new, cur.var)'
                              /\ cur'.var \notin todo'
    <3>1. /\ ~Leading => cur.data = Holds(new, cur.var)
          /\ cur.var \notin todo /\ cur.var \in Vars
      BY <1>1, <2>2, <2>4 DEF IInv, Consistent, TypeOK, Requests
    <3>2. Leading' = Leading
      BY <1>1 DEF Leading
    <3>. QED BY <1>1, <3>1, <3>2, DataEffect
  <2>. QED BY <1>1, <2>1, <2>3, <2>4 DEF Consistent
<1>10. Bounded'
  <2>1. Copying' => ctx # "write" /\ Copying /\ pc # "copy"
    BY <1>1 DEF Copying
  <2>2. Limit' = Limit
    <3>1. PICK n \in Pages : n = new
      OBVIOUS
    <3>2. First(n)' = First(n)
      BY DataEffect
    <3>. QED BY <1>1, <3>1, <3>2, Zenon DEF Limit, Used
  <2>3. ASSUME Copying' PROVE UsedTo(new, Limit - 0)' /\ spot' <= Limit'
    <3>1. UsedTo(new, Limit - 1)
      BY <1>1, <2>1, <2>3 DEF IInv, Bounded
    <3>. DEFINE k == Limit - 1
    <3>2. k \in Nat /\ k + 1 = Limit /\ Limit \in Nat
      BY <1>1, <2>1, <2>3, LimitBound, EepromAssumption
    <3>3. spot' <= k + 1 /\ \A i \in Indices : i > k + 1 => page'[new].slots[i] = Empty
      BY <1>3, <1>4, <2>1, <2>3, <3>1, <3>2, DataUses
    <3>. QED BY <1>1, <2>2, <3>2, <3>3 DEF UsedTo, Indices
  <2>. QED BY <1>1, <2>3 DEF Bounded
<1>11. Answered'
  BY <1>1, <1>3 DEF Answered
<1>12. StoreStep
  <2>1. ASSUME NEW v \in Vars PROVE Stored(v)' = Stored(v)
    <3>1. CASE ctx = "write"
      <4>1. PICK p \in Pages : Valid(p) /\ page[Other(p)] = ErasedPage
        BY <3>1 DEF IInv, Phase, AtRest
      <4>2. Status(Other(p)) = "erased"
        BY <4>1, ErasedReads
      <4>3. Stored(v) = Last(p, v) /\ Stored(v)' = Last(p, v)'
        BY <1>2, <4>1, <4>2, PagesTwo, StoredIs, StoredIsNext DEF StoredAs
      <4>. QED BY <4>3, DataEffect
    <3>2. CASE ctx # "write"
      <4>1. HalfCopied(new) /\ HalfCopied(new)'
        BY <1>1, <1>2, <1>4, <3>2, PagesTwo
      <4>2. Stored(v) = Holds(new, v) /\ Stored(v)' = Holds(new, v)'
        BY <1>1, <4>1, StoredIs, StoredIsNext DEF StoredAs
      <4>. QED BY <1>1, <4>2, DataEffect
    <3>. QED BY <3>1, <3>2
  <2>. QED BY <1>1, <2>1, Stutters DEF Keeps, Job, Answer
<1>. QED BY <1>6, <1>7, <1>8, <1>9, <1>10, <1>11, <1>12

-----------------------------------------------------------------------------
(* Programming the virtual address: the slot counts from now on.           *)

LEMMA VarEffect ==
  ASSUME IInv, ProgramVar
  PROVE  \E w \in Pages, s \in Indices, x \in Vars, d \in Data :
           /\ w = WritePage /\ s = spot /\ cur = [var |-> x, data |-> d]
           /\ page[w].slots[s].var = NoVar
           /\ page'[Other(w)] = page[Other(w)]
           /\ \A i \in Indices : i # s => page'[w].slots[i] = page[w].slots[i]
           /\ \A p \in Pages : Status(p)' = Status(p) /\ Dense(p)'
           /\ First(w)' = IF s = 1 THEN x ELSE First(w)
           /\ Last(w, x)' = d
           /\ Holds(w, x)' = IF s = 1 THEN d ELSE Holds(w, x)
           /\ \A v \in Vars \ {x} : Last(w, v)' = Last(w, v) /\ Holds(w, v)' = Holds(w, v)
<1>. TypeOK
  BY DEF IInv
<1>1. PICK w \in Pages : w = WritePage
  BY ReadTypes
<1>2. PICK s \in Indices : s = spot
  BY DEF TypeOK
<1>3. PICK x \in Vars, d \in Data : cur = [var |-> x, data |-> d]
  BY DEF ProgramVar, TypeOK, Requests
<1>4. Other(w) \in Pages /\ Other(w) # w
  BY PagesTwo
<1>5. /\ page[w].slots[s] = [data |-> d, var |-> NoVar]
      /\ \A i \in Indices : i < s => page[w].slots[i] # Empty
      /\ \A i \in Indices : i > s => page[w].slots[i] = Empty
  BY <1>1, <1>2, <1>3 DEF ProgramVar, IInv, Programs
<1>6. page' = [page EXCEPT ![w].slots[s].var = x]
  BY <1>1, <1>2, <1>3 DEF ProgramVar
<1>7. page[w] \in Page
  BY DEF TypeOK
<1>8. /\ page'[w].slots[s] = [data |-> d, var |-> x]
      /\ \A i \in Indices : i # s => page'[w].slots[i] = page[w].slots[i]
      /\ page'[w].status = page[w].status
      /\ \A p \in Pages : p # w => page'[p] = page[p]
  <2>1. page'[w] = [page[w] EXCEPT !.slots = [page[w].slots EXCEPT ![s] =
                      [page[w].slots[s] EXCEPT !.var = x]]]
    BY <1>6 DEF TypeOK
  <2>2. \A p \in Pages : p # w => page'[p] = page[p]
    BY <1>6 DEF TypeOK
  <2>. QED BY <1>5, <1>7, <2>1, <2>2 DEF Page
<1>9. \A p \in Pages : Status(p)' = Status(p)
  BY <1>8 DEF Status
<1>10. ASSUME NEW p \in Pages PROVE Dense(p)'
  <2>1. CASE p # w
    BY <1>8, <2>1 DEF IInv, Consistent, Dense
  <2>2. CASE p = w
    <3>1. \A i \in Indices : i > s => page'[p].slots[i] = Empty
      BY <1>5, <1>8, <2>2 DEF Indices
    <3>2. \A i \in Indices : i <= s => page'[p].slots[i] # Empty
      BY <1>5, <1>8, <2>2, EepromAssumption DEF Indices, Empty
    <3>. QED BY <3>1, <3>2 DEF Dense, Indices
  <2>. QED BY <2>1, <2>2
<1>11. /\ Last(w, x)' = d
       /\ \A v \in Vars \ {x} : Last(w, v)' = Last(w, v)
  BY <1>5, <1>6, NewLast
<1>12. \A v \in Vars : Last(Other(w), v)' = Last(Other(w), v)
  BY <1>4, <1>8, SameReads
<1>13. First(w)' = IF s = 1 THEN x ELSE First(w)
  BY <1>8, SlotTypes DEF First
<1>14. s = 1 => First(w) = NoVar
  BY <1>5 DEF First
<1>15. Holds(w, x)' = IF s = 1 THEN d ELSE Holds(w, x)
  BY <1>8, <1>12, <1>13, SlotTypes DEF Holds
<1>16. ASSUME NEW v \in Vars \ {x} PROVE Holds(w, v)' = Holds(w, v)
  BY <1>8, <1>12, <1>13, <1>14, SlotTypes, EepromAssumption DEF Holds
<1>17. page[w].slots[s].var = NoVar
  BY <1>5
<1>. QED BY <1>1, <1>2, <1>3, <1>4, <1>8, <1>9, <1>10, <1>11, <1>13, <1>15, <1>16, <1>17

LEMMA StepVar ==
  ASSUME Fits, IInv, ProgramVar
  PROVE  (Phase /\ Leads /\ Programs /\ Consistent /\ Bounded /\ Answered)' /\ StoreStep
<1>. TypeOK /\ TypeOK' /\ new \in Pages
  BY TypeStep DEF IInv, TypeOK, Next, Step
<1>. USE DEF Valid, Receives, HalfCopied, Settled, Received
<1>1. PICK w \in Pages, s \in Indices, x \in Vars, d \in Data :
         /\ w = WritePage /\ s = spot /\ cur = [var |-> x, data |-> d]
         /\ page[w].slots[s].var = NoVar
         /\ page'[Other(w)] = page[Other(w)]
         /\ \A i \in Indices : i # s => page'[w].slots[i] = page[w].slots[i]
         /\ \A p \in Pages : Status(p)' = Status(p) /\ Dense(p)'
         /\ First(w)' = IF s = 1 THEN x ELSE First(w)
         /\ Last(w, x)' = d
         /\ Holds(w, x)' = IF s = 1 THEN d ELSE Holds(w, x)
         /\ \A v \in Vars \ {x} : Last(w, v)' = Last(w, v) /\ Holds(w, v)' = Holds(w, v)
  BY VarEffect
<1>2. pc = "vaddr" /\ req' = req
  BY DEF ProgramVar
<1>3. ctx \in {"write", "transfer", "init"}
  BY <1>2 DEF IInv, Phase, AtRest, InFinish, TypeOK
<1>4. CASE ctx = "write"
  <2>1. /\ cur = req /\ pc' = "idle" /\ ctx' = "none" /\ losses' = 0 /\ result' = "ok"
    BY <1>2, <1>4 DEF ProgramVar, Return, IInv, Phase, AtRest
  <2>2. Valid(w) /\ page[Other(w)] = ErasedPage
    <3>1. PICK p \in Pages : Valid(p) /\ page[Other(p)] = ErasedPage
      BY <1>4 DEF IInv, Phase, AtRest
    <3>2. WritePage = p
      BY <3>1, Reading, ErasedReads DEF ReadsAs
    <3>. QED BY <1>1, <3>1, <3>2
  <2>3. /\ Valid(w)' /\ page'[Other(w)] = ErasedPage
        /\ Status(Other(w)) = "erased" /\ Status(Other(w))' = "erased"
    BY <1>1, <2>2, ErasedReads, PagesTwo
  <2>4. Phase' /\ Leads' /\ Programs'
    BY <2>1, <2>3 DEF Phase, AtRest, InTransfer, InInit, InFinish, Leads, Programs
  <2>5. Consistent'
    <3>1. \A p \in Pages : ~HalfCopied(p)'
      BY <2>3 DEF Pages, Other
    <3>. QED BY <1>1, <2>1, <3>1 DEF Consistent, Copying
  <2>6. Bounded'
    BY <2>1 DEF Bounded, Copying
  <2>7. \A v \in Vars : Stored(v) = Last(w, v) /\ Stored(v)' = Last(w, v)'
    BY <2>2, <2>3, StoredIs, StoredIsNext DEF StoredAs
  <2>8. req = [var |-> x, data |-> d]
    BY <1>1, <2>1
  <2>9. Answered'
    <3>1. ReadPage' = w
      BY <2>3, ReadingNext DEF ReadsAs
    <3>2. ReadVariable(x)' = d
      BY <1>1, <2>3, <3>1 DEF ReadVariable
    <3>3. req'.var = x /\ req'.data = d
      BY <1>2, <2>8
    <3>. QED BY <3>2, <3>3 DEF Answered
  <2>10. StoreStep
    <3>. DEFINE j == [var |-> x, data |-> d]
    <3>1. j \in Requests /\ j.var = x /\ j.data = d
      BY DEF Requests
    <3>2. Job = j /\ Job' = NoJob /\ Answer' = "ok"
      BY <1>4, <2>1, <2>8 DEF Job, Answer
    <3>3. \A v \in Vars : Stored(v)' = IF v = j.var THEN j.data ELSE Stored(v)
      BY <1>1, <2>7, <3>1
    <3>. HIDE DEF j
    <3>. QED BY <3>1, <3>2, <3>3, Finishes
  <2>. QED BY <2>4, <2>5, <2>6, <2>9, <2>10
<1>5. CASE ctx # "write"
  <2>1. /\ pc' = "copy" /\ ctx \in {"transfer", "init"} /\ Copying /\ Copying' /\ ~Leading'
        /\ UNCHANGED <<ctx, new, cur, spot, todo, result, losses>>
    BY <1>2, <1>3, <1>5 DEF ProgramVar, Continue, locals, Copying, Leading
  <2>2. HalfCopied(new) /\ new = w
    <3>1. HalfCopied(new)
      BY <1>2, <2>1 DEF IInv, Phase, InTransfer, InInit
    <3>. QED BY <1>1, <3>1, Reading DEF ReadsAs
  <2>3. HalfCopied(w)' /\ (\A p \in Pages : HalfCopied(p)' => p = w)
    BY <1>1, <2>2, PagesTwo DEF Pages, Other
  <2>4. Phase'
    BY <1>1, <2>1, <2>2, <2>3 DEF Phase, AtRest, InTransfer, InInit, InFinish, IInv
  <2>5. Programs'
    BY <2>1 DEF Programs
  <2>6. /\ x \notin todo
        /\ ~Leading => d = Holds(w, x)
        /\ Leading => s = 1 /\ req = [var |-> x, data |-> d] /\ todo = Vars \ {x}
    <3>1. cur.var = x /\ cur.data = d
      BY <1>1
    <3>. QED BY <1>1, <1>2, <2>1, <2>2, <3>1 DEF IInv, Consistent, Leads, Leading
  <2>7. Holds(w, x)' = d
    <3>1. CASE Leading
      BY <1>1, <2>6, <3>1
    <3>2. CASE ~Leading
      BY <1>1, <2>6, <3>2
    <3>. QED BY <3>1, <3>2
  <2>8. ctx = "transfer" => /\ First(w)' = req.var /\ Last(w, req.var)' = req.data
                            /\ Holds(w, req.var)' = req.data
                            /\ req.var \notin todo
    <3>0. SUFFICES ASSUME ctx = "transfer"
                   PROVE  /\ First(w)' = req.var /\ Last(w, req.var)' = req.data
                          /\ Holds(w, req.var)' = req.data
                          /\ req.var \notin todo
      OBVIOUS
    <3>1. PICK r \in Vars, e \in Data : req = [var |-> r, data |-> e]
      BY <3>0 DEF TypeOK, Requests
    <3>2. CASE Leading
      <4>1. r = x /\ e = d
        BY <2>6, <3>1, <3>2
      <4>. QED BY <1>1, <1>2, <2>6, <2>7, <3>1, <3>2, <4>1
    <3>3. CASE ~Leading
      <4>1. /\ First(w) = r /\ Last(w, r) = e /\ Holds(w, r) = e /\ r \notin todo
        BY <1>2, <2>2, <3>0, <3>1, <3>3 DEF IInv, Leads
      <4>2. x # r
        BY <1>1, <1>2, <3>0, <3>1, <3>3 DEF Leading
      <4>3. s # 1
        BY <1>1, <3>1, <4>1, EepromAssumption DEF First
      <4>. QED BY <1>1, <1>2, <3>1, <4>1, <4>2, <4>3
    <3>. QED BY <3>2, <3>3
  <2>9. Leads'
    BY <1>2, <2>1, <2>2, <2>8 DEF Leads
  <2>10. Consistent'
    <3>1. Agrees(w)
      BY <2>2 DEF IInv, Consistent
    <3>2. \A v \in Vars : Last(w, v)' \in {None, Holds(w, v)'}
      BY <1>1, <2>7, <3>1 DEF Agrees
    <3>3. Copied(w, (Vars \ todo) \ {x})
      BY <1>1, <1>2, <2>1, <2>2 DEF IInv, Consistent
    <3>4. \A v \in Vars \ todo : Last(w, v)' = Holds(w, v)'
      BY <1>1, <2>7, <3>3 DEF Copied
    <3>5. Agrees(w)'
      BY <3>2 DEF Agrees
    <3>6. Copied(new, (Vars \ todo) \ {})'
      BY <2>1, <2>2, <3>4 DEF Copied
    <3>. QED BY <1>1, <2>1, <2>3, <3>5, <3>6 DEF Consistent
  <2>11. Bounded'
    <3>1. Limit \in Nat /\ Limit - 0 = Limit /\ Limit >= 1
      BY <1>2, <2>1, LimitBound, EepromAssumption
    <3>2. s <= Limit /\ \A i \in Indices : i > Limit => page[w].slots[i] = Empty
      BY <1>1, <1>2, <2>1, <2>2, <3>1 DEF IInv, Bounded, UsedTo
    <3>3. \A i \in Indices : i > s => page'[w].slots[i] = Empty
      BY <1>1, <1>2, Zenon DEF IInv, Programs, Indices
    <3>4. PICK m \in Nat : m = Limit' /\ (m = Limit \/ m >= s)
      <4>1. CASE ctx = "transfer" \/ s # 1
        <5>1. First(w)' = First(w) \/ ctx = "transfer"
          BY <1>1, <4>1
        <5>2. Limit' = Limit
          BY <2>1, <2>2, <5>1, Zenon DEF Limit, Used
        <5>. QED BY <3>1, <5>2
      <4>2. CASE ctx = "init" /\ s = 1
        <5>1. First(w)' = x
          BY <1>1, <4>2
        <5>2. Limit' = Used(x, losses + 1) - Cardinality(todo \ {x})
          BY <2>1, <2>2, <4>2, <5>1 DEF Limit, Used
        <5>3. todo \ {x} \in SUBSET (Vars \ {x}) /\ Vars \ {x} \in SUBSET Vars
          BY DEF TypeOK, Fits
        <5>4. /\ Cardinality(todo \ {x}) \in Nat
              /\ Cardinality(todo \ {x}) <= Cardinality(Vars \ {x})
          BY <5>3, Counts
        <5>5. /\ Used(x, losses) \in Nat /\ Used(x, losses) >= 1
              /\ Used(x, losses + 1) = Used(x, losses) + Cardinality(Vars \ {x})
              /\ Cardinality(Vars \ {x}) \in Nat
          BY Room DEF TypeOK
        <5>. QED BY <4>2, <5>2, <5>4, <5>5
      <4>. QED BY <2>1, <4>1, <4>2
    <3>5. \A i \in Indices : i > m => page'[w].slots[i] = Empty
      <4>1. CASE m = Limit
        BY <1>1, <3>1, <3>2, <4>1 DEF Indices
      <4>2. CASE m >= s
        BY <3>3, <4>2 DEF Indices
      <4>. QED BY <3>4, <4>1, <4>2
    <3>6. UsedTo(new, Limit - 0)'
      BY <2>1, <2>2, <3>4, <3>5 DEF UsedTo
    <3>. QED BY <2>1, <3>6 DEF Bounded
  <2>12. Answered'
    BY <2>1 DEF Answered
  <2>13. \A v \in Vars : Stored(v) = Holds(w, v) /\ Stored(v)' = Holds(w, v)'
    BY <2>2, <2>3, StoredIs, StoredIsNext DEF StoredAs
  <2>14. StoreStep
    <3>1. CASE Leading
      <4>. DEFINE j == [var |-> x, data |-> d]
      <4>1. j \in Requests /\ j.var = x /\ j.data = d
        BY DEF Requests
      <4>2. Job = j /\ Job' = j /\ Answer' = Answer
        BY <1>2, <2>1, <2>6, <3>1 DEF Job, Answer, Leading
      <4>3. \A v \in Vars : Stored(v)' = IF v = j.var THEN j.data ELSE Stored(v)
        BY <1>1, <2>7, <2>13, <4>1
      <4>. HIDE DEF j
      <4>. QED BY <4>1, <4>2, <4>3, TakesEffect
    <3>2. CASE ~Leading
      <4>1. Keeps
        BY <1>1, <2>6, <2>7, <2>13, <3>2 DEF Keeps
      <4>. QED BY <1>2, <2>1, <4>1, Stutters DEF Job, Answer
    <3>. QED BY <3>1, <3>2
  <2>. QED BY <2>4, <2>5, <2>9, <2>10, <2>11, <2>12, <2>14
<1>. QED BY <1>4, <1>5

-----------------------------------------------------------------------------
(* The other flash operations, and steps that leave the flash alone.       *)

ErasedAs ==
  \A p \in Pages : page[p] = ErasedPage =>
    /\ First(p) = NoVar /\ Status(p) = "erased" /\ Dense(p)
    /\ \A v \in Vars : Last(p, v) = None

LEMMA ErasedNow == ErasedAs
BY ErasedReads DEF ErasedAs

LEMMA ErasedNext == ErasedAs'
BY ErasedNow, PTL

(* What is read from p does not change.                                    *)
SamePage(p) ==
  /\ First(p)' = First(p) /\ Dense(p)' = Dense(p)
  /\ \A v \in Vars : Last(p, v)' = Last(p, v)

LEMMA SameSlots ==
  ASSUME TypeOK, NEW p \in Pages, page'[p].slots = page[p].slots
  PROVE  SamePage(p)
<1>1. \A v \in Vars : Last(p, v)' = Last(p, v)
  BY SameReads
<1>. QED BY <1>1 DEF SamePage, First, Dense

LEMMA SameHolds ==
  ASSUME NEW p \in Pages, SamePage(p), SamePage(Other(p)), page'[p].slots = page[p].slots
  PROVE  \A v \in Vars : Holds(p, v)' = Holds(p, v)
BY DEF SamePage, Holds

LEMMA Unchanged ==
  ASSUME TypeOK, page' = page
  PROVE  \A p \in Pages :
           /\ SamePage(p) /\ Status(p)' = Status(p) /\ page'[p] = page[p]
           /\ \A v \in Vars : Holds(p, v)' = Holds(p, v)
BY SameSlots, SameHolds, PagesTwo DEF Status

LEMMA Marks ==
  ASSUME TypeOK, NEW n \in Pages, NEW st, page' = [page EXCEPT ![n].status = st]
  PROVE  /\ Status(n)' = st /\ Status(Other(n))' = Status(Other(n))
         /\ page'[Other(n)] = page[Other(n)]
         /\ \A p \in Pages :
              /\ SamePage(p) /\ page'[p].slots = page[p].slots
              /\ \A v \in Vars : Holds(p, v)' = Holds(p, v)
<1>1. page[n] \in Page /\ Other(n) \in Pages /\ Other(n) # n
  BY PagesTwo DEF TypeOK
<1>2. page'[Other(n)] = page[Other(n)] /\ page'[n] = [page[n] EXCEPT !.status = st]
  BY <1>1 DEF TypeOK
<1>3. page'[n].slots = page[n].slots /\ page'[n].status = st
  BY <1>1, <1>2 DEF Page
<1>4. \A p \in Pages : p = n \/ p = Other(n)
  BY DEF Pages, Other
<1>5. \A p \in Pages : SamePage(p) /\ page'[p].slots = page[p].slots
  BY <1>2, <1>3, <1>4, SameSlots
<1>6. \A p \in Pages : \A v \in Vars : Holds(p, v)' = Holds(p, v)
  BY <1>5, SameHolds, PagesTwo
<1>. QED BY <1>2, <1>3, <1>5, <1>6 DEF Status

LEMMA Erases ==
  ASSUME TypeOK, NEW n \in Pages, page' = [page EXCEPT ![n] = ErasedPage]
  PROVE  /\ page'[n] = ErasedPage /\ Status(n)' = "erased" /\ Dense(n)'
         /\ page'[Other(n)] = page[Other(n)] /\ Status(Other(n))' = Status(Other(n))
         /\ SamePage(Other(n))
<1>1. Other(n) \in Pages /\ Other(n) # n
  BY PagesTwo
<1>2. page'[n] = ErasedPage /\ page'[Other(n)] = page[Other(n)]
  BY <1>1 DEF TypeOK
<1>. QED BY <1>1, <1>2, SameSlots, ErasedNext DEF ErasedAs, Status

(* With the same pages, IInv needs to be shown again only where it speaks  *)
(* about the operation that comes next.                                    *)
LEMMA SamePages ==
  ASSUME IInv, page' = page
  PROVE  /\ \A p \in Pages : /\ Dense(p)' /\ HalfCopied(p)' = HalfCopied(p)
                             /\ Settled(p)' = Settled(p) /\ Received(p)' = Received(p)
                             /\ Valid(p)' = Valid(p) /\ (HalfCopied(p) => Agrees(p)')
         /\ Fresh' = Fresh /\ ReadPage' = ReadPage /\ WritePage' = WritePage
         /\ HasValid' = HasValid
<1>. TypeOK
  BY DEF IInv
<1>1. ASSUME NEW p \in Pages, HalfCopied(p) PROVE Agrees(p)'
  BY <1>1, Unchanged DEF IInv, Consistent, Agrees, SamePage
<1>2. \A p \in Pages : Dense(p)'
  BY Unchanged DEF IInv, Consistent, SamePage
<1>. QED BY <1>1, <1>2, Unchanged, PagesTwo
         DEF HalfCopied, Settled, Received, Valid, Receives, Fresh, ReadPage, WritePage,
             HasValid, Status, Pages

-----------------------------------------------------------------------------
(* A copying page is never full.                                           *)
LEMMA RoomInv == Fits /\ IInv => RoomForCopy
<1>. SUFFICES ASSUME Fits, IInv, pc = "data", ctx # "write" PROVE Free(WritePage) # {}
  BY DEF RoomForCopy
<1>1. Copying /\ ctx \in {"transfer", "init"}
  BY DEF IInv, TypeOK, Phase, AtRest, InFinish, Copying
<1>2. HalfCopied(new)
  BY <1>1 DEF IInv, Phase, InTransfer, InInit
<1>3. WritePage = new
  BY <1>2, Reading DEF ReadsAs, IInv, TypeOK
<1>. DEFINE k == Limit - 1
<1>4. k \in Nat /\ k < Slots
  BY <1>1, LimitBound, EepromAssumption
<1>5. UsedTo(new, k)
  BY <1>1 DEF IInv, Bounded
<1>6. k + 1 \in Indices /\ k + 1 > k
  BY <1>4, EepromAssumption DEF Indices
<1>7. page[new].slots[k + 1] = Empty
  BY <1>5, <1>6 DEF UsedTo
<1>. QED BY <1>3, <1>6, <1>7 DEF Free

-----------------------------------------------------------------------------
(* The steps of a transfer.                                                *)

LEMMA StepFull ==
  ASSUME Fits, IInv, PageFull
  PROVE  (Phase /\ Leads /\ Programs /\ Consistent /\ Bounded /\ Answered)' /\ StoreStep
<1>. TypeOK /\ TypeOK' /\ new \in Pages
  BY TypeStep DEF IInv, TypeOK, Next, Step
<1>1. ctx = "write" /\ pc = "data"
  BY RoomInv DEF PageFull, RoomForCopy
<1>2. /\ pc' = "receive" /\ ctx' = "transfer" /\ new' = Other(ReadPage)
      /\ UNCHANGED <<page, req, cur, spot, todo, result, losses>>
  BY <1>1 DEF PageFull
<1>3. PICK w \in Pages : Valid(w) /\ page[Other(w)] = ErasedPage
  BY <1>1 DEF IInv, Phase, AtRest
<1>4. Status(Other(w)) = "erased"
  BY <1>3, ErasedReads
<1>5. ReadPage = w /\ new' = Other(w) /\ Old' = w
  <2>1. ReadPage = w
    BY <1>3, <1>4, Reading DEF ReadsAs
  <2>. QED BY <1>2, <2>1, PagesTwo DEF Old
<1>6. Phase'
  <2>1. Valid(w)'
    BY <1>2, <1>3, SamePages
  <2>2. cur' = req' /\ losses' = 0
    BY <1>1, <1>2 DEF IInv, Phase, AtRest
  <2>. QED BY <1>2, <1>3, <1>5, <2>1, <2>2, PagesTwo
           DEF Phase, AtRest, InTransfer, InInit, InFinish
<1>7. Leads' /\ Programs' /\ Bounded' /\ Answered'
  BY <1>2 DEF Leads, Leading, Programs, Bounded, Copying, Answered
<1>8. Consistent'
  BY <1>2, SamePages DEF Consistent, Copying
<1>9. StoreStep
  <2>1. Valid(w)' /\ Status(Other(w))' = "erased"
    BY <1>2, <1>3, <1>4, SamePages, Unchanged, PagesTwo
  <2>2. \A v \in Vars : Stored(v) = Last(w, v) /\ Stored(v)' = Last(w, v)'
    BY <1>3, <1>4, <2>1, StoredIs, StoredIsNext DEF StoredAs
  <2>3. Keeps
    BY <1>2, <2>2, Unchanged DEF Keeps, SamePage
  <2>. QED BY <1>1, <1>2, <2>3, Stutters DEF Job, Answer
<1>. QED BY <1>6, <1>7, <1>8, <1>9

LEMMA StepReceive ==
  ASSUME Fits, IInv, MarkReceive
  PROVE  (Phase /\ Leads /\ Programs /\ Consistent /\ Bounded /\ Answered)' /\ StoreStep
<1>. TypeOK /\ TypeOK' /\ new \in Pages
  BY TypeStep DEF IInv, TypeOK, Next, Step
<1>1. /\ pc = "receive" /\ pc' = "data" /\ todo' = Vars \ {req.var}
      /\ UNCHANGED <<ctx, new, cur, spot, req, result, losses>>
      /\ page' = [page EXCEPT ![new].status = "receive"]
  BY DEF MarkReceive, Fits
<1>2. ctx = "transfer"
  BY <1>1 DEF IInv, TypeOK, Phase, AtRest, InInit, InFinish
<1>3. PICK n \in Pages : n = new
  OBVIOUS
<1>4. Valid(Other(n)) /\ page[n] = ErasedPage /\ cur = req /\ losses = 0 /\ req \in Requests
  BY <1>1, <1>2, <1>3 DEF IInv, Phase, InTransfer, AtRest, TypeOK, Old
<1>5. /\ Status(n)' = "receive" /\ Status(Other(n))' = Status(Other(n))
      /\ \A p \in Pages : /\ SamePage(p) /\ page'[p].slots = page[p].slots
                          /\ \A v \in Vars : Holds(p, v)' = Holds(p, v)
  BY <1>1, <1>3, Marks
<1>6. /\ First(n) = NoVar /\ Status(n) = "erased" /\ UsedTo(n, 0)
      /\ \A v \in Vars : Last(n, v) = None
  BY <1>4, ErasedReads
<1>7. HalfCopied(n)' /\ (\A p \in Pages : HalfCopied(p)' => p = n)
  BY <1>4, <1>5 DEF HalfCopied, Valid, Receives, Pages, Other
<1>8. Phase'
  BY <1>1, <1>2, <1>3, <1>4, <1>7 DEF Phase, AtRest, InTransfer, InInit, InFinish
<1>9. Leads'
  BY <1>1, <1>2, <1>3, <1>4, <1>5 DEF Leads, Leading
<1>10. Programs' /\ Answered'
  BY <1>1, <1>2 DEF Programs, Answered
<1>11. Consistent'
  <2>1. Agrees(n)'
    BY <1>5, <1>6 DEF Agrees, SamePage
  <2>2. \A p \in Pages : Dense(p)'
    BY <1>5 DEF IInv, Consistent, SamePage
  <2>3. (Vars \ todo') \ {cur'.var} = {} /\ cur'.var \notin todo'
    BY <1>1, <1>4
  <2>4. Copied(new, (Vars \ todo) \ {cur.var})'
    BY <2>3 DEF Copied
  <2>5. Leading'
    BY <1>1, <1>2, <1>4 DEF Leading
  <2>. QED BY <1>1, <1>2, <1>7, <2>1, <2>2, <2>3, <2>4, <2>5 DEF Consistent
<1>12. Bounded'
  <2>1. req.var \in Vars /\ N \in Nat /\ Cardinality(Vars \ {req.var}) = N - 1
    <3>1. req.var \in Vars /\ Vars \in SUBSET Vars
      BY <1>4 DEF Requests
    <3>. QED BY <3>1, Counts DEF N
  <2>2. Limit' - 1 = 0
    BY <1>1, <1>2, <2>1 DEF Limit
  <2>3. UsedTo(new, Limit - 1)'
    BY <1>1, <1>3, <1>5, <1>6, <2>2 DEF UsedTo
  <2>. QED BY <1>1, <2>3 DEF Bounded
<1>13. StoreStep
  <2>1. \A v \in Vars : Stored(v) = Last(Other(n), v) /\ Stored(v)' = Holds(n, v)'
    BY <1>4, <1>6, <1>7, PagesTwo, StoredIs, StoredIsNext DEF StoredAs
  <2>2. \A v \in Vars : Holds(n, v) = Last(Other(n), v)
    BY <1>6, EepromAssumption DEF Holds
  <2>3. Keeps
    BY <1>5, <2>1, <2>2 DEF Keeps
  <2>. QED BY <1>1, <2>3, Stutters DEF Job, Answer
<1>. QED BY <1>8, <1>9, <1>10, <1>11, <1>12, <1>13

LEMMA StepCopy ==
  ASSUME Fits, IInv, NEW v \in Vars, Copy(v)
  PROVE  (Phase /\ Leads /\ Programs /\ Consistent /\ Bounded /\ Answered)' /\ StoreStep
<1>. TypeOK /\ TypeOK' /\ new \in Pages
  BY TypeStep DEF IInv, TypeOK, Next, Step
<1>1. /\ pc = "copy" /\ v \in todo /\ todo' = todo \ {v}
      /\ UNCHANGED <<page, ctx, new, spot, req, result, losses>>
  BY DEF Copy
<1>2. ctx \in {"transfer", "init"} /\ Copying
  BY <1>1 DEF IInv, TypeOK, Phase, AtRest, InFinish, Copying
<1>3. PICK n \in Pages : n = new
  OBVIOUS
<1>4. HalfCopied(n)
  BY <1>1, <1>2, <1>3 DEF IInv, Phase, InTransfer, InInit
<1>5. ReadVariable(v) = Last(Other(n), v)
  BY <1>4, Reading DEF ReadsAs, ReadVariable, HalfCopied
<1>6. ctx = "transfer" => First(n) = req.var /\ v # First(n)
  BY <1>1, <1>3 DEF IInv, Leads, Leading
<1>7. HalfCopied(n)' /\ (\A p \in Pages : HalfCopied(p)' => p = n)
  <2>1. \A p \in Pages : HalfCopied(p) => p = n
    BY <1>4 DEF HalfCopied, Valid, Receives, Pages, Other
  <2>. QED BY <1>1, <1>4, <2>1, SamePages
<1>8. \A u \in Vars : Last(n, u)' = Last(n, u) /\ Holds(n, u)' = Holds(n, u)
  BY <1>1, Unchanged DEF SamePage
<1>9. Agrees(n) /\ Copied(n, Vars \ todo)
  BY <1>1, <1>2, <1>3, <1>4 DEF IInv, Consistent
<1>10. First(n) # v /\ Last(Other(n), v) = None => Last(n, v) = Holds(n, v)
  BY <1>9 DEF Agrees, Holds
<1>11. First(n) = v => Last(n, v) = Holds(n, v)
  <2>1. First(n) = v => 1 \in Uses(n, v)
    BY SlotTypes DEF First, Uses
  <2>. QED BY <1>9, <2>1, LastTypes DEF Agrees
<1>12. Skip(v) => First(n) = v
  BY <1>3 DEF Skip, First
<1>13. Phase'
  BY <1>1, <1>2, <1>3, <1>4, <1>7 DEF Copy, IInv, Phase, AtRest, InTransfer, InInit, InFinish
<1>14. Answered'
  BY <1>1, <1>2 DEF Answered
<1>15. pc' \in {"copy", "data"} /\ Copying'
  BY <1>1, <1>2 DEF Copy, Copying
<1>16. Programs'
  BY <1>15 DEF Programs
<1>17. ~Leading'
  <2>1. CASE ctx = "transfer" /\ pc' = "data"
    BY <1>1, <1>6, <2>1 DEF Copy, Leading
  <2>2. CASE ~(ctx = "transfer" /\ pc' = "data")
    BY <1>1, <1>15, <2>2 DEF Leading
  <2>. QED BY <2>1, <2>2
<1>18. Leads'
  <2>1. SUFFICES ASSUME ctx = "transfer"
                 PROVE  /\ First(new)' = req'.var /\ Last(new, req.var)' = req'.data
                        /\ Holds(new, req.var)' = req'.data
                        /\ req'.var \notin todo'
    BY <1>1, <1>17 DEF Leads
  <2>2. PICK r \in Vars : r = req.var
    BY <2>1 DEF TypeOK, Requests
  <2>3. /\ First(n) = r /\ Last(n, r) = req.data
        /\ Holds(n, r) = req.data /\ r \notin todo
    BY <1>1, <1>3, <2>1, <2>2 DEF IInv, Leads, Leading
  <2>4. First(n)' = First(n)
    BY <1>1, Unchanged DEF SamePage
  <2>. QED BY <1>1, <1>3, <1>8, <2>2, <2>3, <2>4
<1>19. \A p \in Pages : Dense(p)' /\ (HalfCopied(p)' => Agrees(p)')
  BY <1>1, SamePages
<1>20. Keeps
  <2>1. \A u \in Vars : Stored(u) = Holds(n, u) /\ Stored(u)' = Holds(n, u)'
    BY <1>4, <1>7, StoredIs, StoredIsNext DEF StoredAs
  <2>. QED BY <1>8, <2>1 DEF Keeps
<1>21. StoreStep
  BY <1>1, <1>20, Stutters DEF Job, Answer
<1>22. /\ Limit \in Nat /\ (Limit' = Limit \/ Limit' = Limit + 1)
       /\ First(n) # v => Limit' - 1 = Limit
  <2>1. First(n)' = First(n)
    BY <1>1, Unchanged DEF SamePage
  <2>2. PICK f \in Vars \cup {NoVar} : f = First(n)
    BY FirstType
  <2>3. todo \in SUBSET Vars /\ todo \ {f} \in SUBSET Vars
    BY <1>1 DEF TypeOK, Fits
  <2>4. /\ Cardinality(todo) \in Nat /\ Cardinality(todo') = Cardinality(todo) - 1
        /\ Cardinality(todo \ {f}) \in Nat
    BY <1>1, <2>3, Counts
  <2>5. Cardinality(todo' \ {f}) = Cardinality(todo \ {f}) - (IF f = v THEN 0 ELSE 1)
    <3>1. todo' \ {f} = IF f = v THEN todo \ {f} ELSE (todo \ {f}) \ {v}
      BY <1>1
    <3>. QED BY <1>1, <2>3, <2>4, <3>1, Counts
  <2>6. Limit \in Nat
    BY <1>2, LimitBound, EepromAssumption
  <2>7. CASE ctx = "transfer"
    <3>1. Limit = N - Cardinality(todo) /\ Limit' = N - Cardinality(todo') /\ N \in Nat
      BY <1>1, <2>3, <2>7, Counts DEF Limit
    <3>. QED BY <2>4, <2>6, <3>1
  <2>8. CASE ctx = "init"
    <3>1. PICK u \in Nat : u = Used(f, losses + 1)
      BY Room DEF TypeOK
    <3>2. Limit = u - Cardinality(todo \ {f}) /\ Limit' = u - Cardinality(todo' \ {f})
      BY <1>1, <1>3, <2>1, <2>2, <2>8, <3>1 DEF Limit, Used
    <3>. QED BY <2>2, <2>4, <2>5, <2>6, <3>2
  <2>. QED BY <1>2, <2>7, <2>8
<1>23. UsedTo(n, Limit)
  BY <1>1, <1>2, <1>3, <1>22 DEF IInv, Bounded
<1>24. CASE (Skip(v) \/ ReadVariable(v) = None) /\ UNCHANGED <<pc, cur>>
  <2>1. Last(n, v) = Holds(n, v)
    BY <1>5, <1>10, <1>11, <1>12, <1>24
  <2>2. Copied(new, (Vars \ todo) \ {})'
    BY <1>1, <1>3, <1>8, <1>9, <2>1 DEF Copied
  <2>3. Consistent'
    BY <1>1, <1>19, <1>24, <2>2 DEF Consistent
  <2>4. Bounded'
    <3>1. Limit' - 0 \in {Limit, Limit + 1}
      BY <1>22
    <3>2. UsedTo(n, Limit + 1)
      BY <1>22, <1>23 DEF UsedTo, Indices
    <3>3. UsedTo(new, Limit - 0)'
      BY <1>1, <1>3, <1>23, <3>1, <3>2 DEF UsedTo
    <3>. QED BY <1>1, <1>24, <3>3 DEF Bounded
  <2>. QED BY <1>13, <1>14, <1>16, <1>18, <1>21, <2>3, <2>4
<1>25. CASE /\ ~Skip(v) /\ ReadVariable(v) # None
            /\ cur' = [var |-> v, data |-> ReadVariable(v)] /\ pc' = "data"
  <2>1. First(n) # v
    BY <1>2, <1>3, <1>6, <1>25 DEF Skip, First
  <2>2. cur'.var = v /\ cur'.data = Holds(n, v)
    BY <1>5, <1>25, <2>1 DEF Holds
  <2>3. Copied(new, (Vars \ todo) \ {cur.var})'
    BY <1>1, <1>3, <1>8, <1>9, <2>2 DEF Copied
  <2>4. cur'.data = Holds(new, cur.var)' /\ cur'.var \notin todo'
    BY <1>1, <1>3, <1>8, <2>2
  <2>5. Consistent'
    BY <1>1, <1>19, <1>25, <2>3, <2>4 DEF Consistent
  <2>6. Bounded'
    <3>1. UsedTo(new, Limit - 1)'
      BY <1>1, <1>3, <1>22, <1>23, <2>1 DEF UsedTo, Indices
    <3>. QED BY <1>1, <1>25, <3>1 DEF Bounded
  <2>. QED BY <1>13, <1>14, <1>16, <1>18, <1>21, <2>5, <2>6
<1>. QED BY <1>24, <1>25 DEF Copy

LEMMA StepCopyDone ==
  ASSUME Fits, IInv, CopyDone
  PROVE  (Phase /\ Leads /\ Programs /\ Consistent /\ Bounded /\ Answered)' /\ StoreStep
<1>. TypeOK /\ TypeOK' /\ new \in Pages
  BY TypeStep DEF IInv, TypeOK, Next, Step
<1>1. /\ pc = "copy" /\ todo = {} /\ pc' = IF ctx = "transfer" THEN "erase" ELSE "mark"
      /\ UNCHANGED <<page, ctx, new, cur, spot, todo, req, result, losses>>
  BY DEF CopyDone, Continue, locals
<1>2. ctx \in {"transfer", "init"} /\ Copying /\ ~Leading /\ ~Leading'
  BY <1>1 DEF IInv, TypeOK, Phase, AtRest, InFinish, Copying, Leading
<1>3. PICK n \in Pages : n = new
  OBVIOUS
<1>4. HalfCopied(n) /\ Copied(n, Vars) /\ Valid(Other(n)) /\ ~Valid(n)
  <2>1. HalfCopied(n)
    BY <1>1, <1>2, <1>3 DEF IInv, Phase, InTransfer, InInit
  <2>2. Copied(n, Vars)
    BY <1>1, <1>2, <1>3 DEF IInv, Consistent, Copied
  <2>. QED BY <2>1, <2>2 DEF HalfCopied, Valid, Receives
<1>5. HalfCopied(n)'
  BY <1>1, <1>4, SamePages
<1>6. \A u \in Vars : Last(n, u)' = Last(n, u) /\ Holds(n, u)' = Holds(n, u)
  BY <1>1, Unchanged DEF SamePage
<1>7. Phase'
  BY <1>1, <1>2, <1>3, <1>5 DEF IInv, Phase, AtRest, InTransfer, InInit, InFinish
<1>8. Leads'
  <2>1. SUFFICES ASSUME ctx = "transfer"
                 PROVE  /\ First(new)' = req'.var /\ Last(new, req.var)' = req'.data
                        /\ Holds(new, req.var)' = req'.data
                        /\ req'.var \notin todo'
    BY <1>1, <1>2 DEF Leads
  <2>2. PICK r \in Vars : r = req.var
    BY <2>1 DEF TypeOK, Requests
  <2>3. First(n) = r /\ Last(n, r) = req.data /\ Holds(n, r) = req.data /\ First(n)' = First(n)
    BY <1>1, <1>2, <1>3, <2>1, <2>2, Unchanged DEF IInv, Leads, SamePage
  <2>. QED BY <1>1, <1>3, <1>6, <2>2, <2>3
<1>9. Programs' /\ Answered'
  BY <1>1, <1>2 DEF Programs, Answered
<1>10. Consistent'
  <2>1. Copied(new, Vars)'
    BY <1>1, <1>3, <1>4, <1>6 DEF Copied
  <2>. QED BY <1>1, <2>1, SamePages DEF Consistent, Copying
<1>11. Bounded'
  <2>1. First(n)' = First(n)
    BY <1>1, Unchanged DEF SamePage
  <2>2. PICK u \in Nat : u = Used(First(n), IF ctx = "init" THEN losses + 1 ELSE 0) /\ Limit <= u
    BY <1>2, <1>3, RoundBound
  <2>3. UsedTo(n, u)
    BY <1>1, <1>2, <1>3, <2>2, LimitBound, EepromAssumption DEF IInv, Bounded, UsedTo, Indices
  <2>4. UsedTo(new, Used(First(new), IF ctx = "init" THEN losses + 1 ELSE 0))'
    BY <1>1, <1>3, <2>1, <2>2, <2>3 DEF UsedTo, Used
  <2>. QED BY <1>1, <1>2, <2>4 DEF Bounded, Copying
<1>12. StoreStep
  <2>1. \A u \in Vars : Stored(u) = Holds(n, u) /\ Stored(u)' = Holds(n, u)'
    BY <1>4, <1>5, StoredIs, StoredIsNext DEF StoredAs
  <2>2. Keeps
    BY <1>6, <2>1 DEF Keeps
  <2>. QED BY <1>1, <2>2, Stutters DEF Job, Answer
<1>. QED BY <1>7, <1>8, <1>9, <1>10, <1>11, <1>12

LEMMA StepErase ==
  ASSUME Fits, IInv, Erase
  PROVE  (Phase /\ Leads /\ Programs /\ Consistent /\ Bounded /\ Answered)' /\ StoreStep
<1>. TypeOK /\ TypeOK' /\ new \in Pages
  BY TypeStep DEF IInv, TypeOK, Next, Step
<1>. USE DEF Valid, Receives
<1>1. PICK n \in Pages, o \in Pages : n = new /\ o = Other(n) /\ n = Other(o) /\ n # o
  BY PagesTwo
<1>2. pc = "erase" /\ req' = req /\ page' = [page EXCEPT ![o] = ErasedPage]
  BY <1>1, Zenon DEF Erase
<1>3. ctx \in {"transfer", "init", "finish"}
  BY <1>2 DEF IInv, TypeOK, Phase, AtRest
<1>4. /\ page'[o] = ErasedPage /\ Status(o)' = "erased" /\ Dense(o)'
      /\ page'[n] = page[n] /\ Status(n)' = Status(n) /\ SamePage(n)
  BY <1>1, <1>2, Erases, Zenon
<1>5. \A p \in Pages : p = n \/ p = o
  BY <1>1 DEF Pages, Other
<1>6. (\A p \in Pages : Dense(p)' /\ ~HalfCopied(p)')
  <2>1. Dense(n)'
    BY <1>4 DEF IInv, Consistent, SamePage
  <2>. QED BY <1>1, <1>4, <1>5, <2>1, Zenon DEF HalfCopied
<1>7. CASE ctx = "transfer"
  <2>1. HalfCopied(n) /\ Copied(n, Vars) /\ ~Leading
    BY <1>1, <1>2, <1>7, Zenon DEF IInv, Phase, InTransfer, Consistent, Leading
  <2>2. pc' = "mark" /\ UNCHANGED <<ctx, new, cur, spot, todo, result, losses>>
    BY <1>7 DEF Erase, Continue, locals
  <2>3. Received(n)' /\ Status(n) = "receive"
    BY <1>1, <1>4, <2>1, Zenon DEF HalfCopied, Received
  <2>4. Phase'
    BY <1>1, <1>4, <1>7, <2>2, <2>3, Zenon
       DEF IInv, Phase, AtRest, InTransfer, InInit, InFinish, Old
  <2>5. Leads'
    <3>1. PICK r \in Vars : r = req.var
      BY <1>7 DEF TypeOK, Requests
    <3>2. /\ First(n) = r /\ Last(n, r) = req.data
          /\ Holds(n, r) = req.data /\ r \notin todo
      BY <1>1, <1>2, <1>7, <2>1, <3>1, Zenon DEF IInv, Leads
    <3>3. First(n)' = r /\ Last(n, r)' = req.data
      BY <1>4, <3>2 DEF SamePage
    <3>4. Holds(n, r)' = req.data
      BY <1>4, <3>2, <3>3 DEF Holds
    <3>. QED BY <1>1, <1>2, <1>7, <2>2, <3>1, <3>2, <3>3, <3>4, Zenon DEF Leads, Leading
  <2>6. Programs' /\ Answered' /\ Consistent' /\ Bounded'
    BY <1>1, <1>6, <1>7, <2>2, Zenon DEF Programs, Answered, Consistent, Copying, Bounded
  <2>7. \A v \in Vars : Stored(v) = Holds(n, v) /\ Stored(v)' = Last(n, v)'
    BY <2>1, <2>3, StoredIs, StoredIsNext DEF StoredAs
  <2>8. Keeps
    BY <1>4, <2>1, <2>7 DEF Keeps, Copied, SamePage
  <2>. QED BY <1>2, <2>2, <2>4, <2>5, <2>6, <2>8, Stutters DEF Job, Answer
<1>8. CASE ctx = "init"
  <2>1. Valid(n) /\ (Valid(o) \/ Status(o) = "erased") /\ result = "none"
    BY <1>1, <1>2, <1>8, Zenon DEF IInv, Phase, AtRest, InInit, Old
  <2>2. pc' = "idle" /\ ctx' = "none" /\ result' = "none" /\ losses' = 0
    BY <1>8, <2>1 DEF Erase, Return
  <2>3. Valid(n)' /\ page'[Other(n)] = ErasedPage /\ Status(Other(n))' = "erased"
    BY <1>1, <1>4, <2>1, Zenon
  <2>4. Phase'
    BY <2>2, <2>3 DEF Phase, AtRest, InTransfer, InInit, InFinish
  <2>5. Leads' /\ Programs' /\ Answered' /\ Consistent' /\ Bounded'
    BY <1>6, <2>2 DEF Leads, Programs, Answered, Consistent, Copying, Bounded
  <2>6. \A v \in Vars : Stored(v) = Last(n, v) /\ Stored(v)' = Last(n, v)'
    BY <1>1, <1>2, <2>1, <2>3, StoredIs, StoredIsNext, Zenon DEF StoredAs, Window
  <2>7. Keeps
    BY <1>4, <2>6 DEF Keeps, SamePage
  <2>. QED BY <1>2, <1>8, <2>1, <2>2, <2>4, <2>5, <2>7, Stutters DEF Job, Answer
<1>9. CASE ctx = "finish"
  <2>1. Received(n) /\ result = "none"
    BY <1>1, <1>2, <1>9, Zenon DEF IInv, Phase, AtRest, InFinish
  <2>2. pc' = "mark" /\ UNCHANGED <<ctx, new, cur, spot, todo, result, losses>>
    BY <1>9 DEF Erase, Continue, locals
  <2>3. Received(n)'
    BY <1>1, <1>4, <2>1, Zenon DEF Received
  <2>4. Phase'
    BY <1>1, <1>4, <1>9, <2>1, <2>2, <2>3, Zenon
       DEF Phase, AtRest, InTransfer, InInit, InFinish, Old
  <2>5. Leads' /\ Programs' /\ Answered' /\ Consistent' /\ Bounded'
    BY <1>6, <1>9, <2>2 DEF Leads, Programs, Answered, Consistent, Copying, Bounded
  <2>6. \A v \in Vars : Stored(v) = Last(n, v) /\ Stored(v)' = Last(n, v)'
    BY <2>1, <2>3, StoredIs, StoredIsNext DEF StoredAs
  <2>7. Keeps
    BY <1>4, <2>6 DEF Keeps, SamePage
  <2>. QED BY <1>2, <2>2, <2>4, <2>5, <2>7, Stutters DEF Job, Answer
<1>. QED BY <1>3, <1>7, <1>8, <1>9

LEMMA StepMark ==
  ASSUME Fits, IInv, Mark
  PROVE  (Phase /\ Leads /\ Programs /\ Consistent /\ Bounded /\ Answered)' /\ StoreStep
<1>. TypeOK /\ TypeOK' /\ new \in Pages
  BY TypeStep DEF IInv, TypeOK, Next, Step
<1>. USE DEF Valid, Receives
<1>1. PICK n \in Pages, o \in Pages : n = new /\ o = Other(n) /\ n = Other(o) /\ n # o
  BY PagesTwo
<1>2. pc = "mark" /\ req' = req /\ page' = [page EXCEPT ![n].status = "valid"]
  BY <1>1, Zenon DEF Mark
<1>3. ctx \in {"transfer", "init", "finish"}
  BY <1>2 DEF IInv, TypeOK, Phase, AtRest
<1>4. /\ Status(n)' = "valid" /\ Status(o)' = Status(o) /\ page'[o] = page[o]
      /\ \A p \in Pages : SamePage(p)
  BY <1>1, <1>2, Marks, Zenon
<1>5. \A p \in Pages : p = n \/ p = o
  BY <1>1 DEF Pages, Other
<1>6. \A p \in Pages : Dense(p)'
  BY <1>4 DEF IInv, Consistent, SamePage
<1>7. CASE ctx \in {"transfer", "finish"}
  <2>1. Received(n) /\ page[o] = ErasedPage
    <3>1. Status(n) = "receive" /\ page[o] = ErasedPage
      BY <1>1, <1>2, <1>7, Zenon DEF IInv, Phase, InTransfer, InFinish, Old, Received
    <3>. QED BY <1>1, <3>1, ErasedReads, Zenon DEF Received
  <2>2. /\ pc' = "idle" /\ ctx' = "none" /\ losses' = 0
        /\ result' = IF ctx = "transfer" THEN "ok" ELSE result
    BY <1>7 DEF Mark, Return
  <2>3. Valid(n)' /\ page'[Other(n)] = ErasedPage /\ Status(Other(n))' = "erased"
    BY <1>1, <1>4, <2>1, ErasedReads, Zenon
  <2>4. Phase'
    BY <2>2, <2>3 DEF Phase, AtRest, InTransfer, InInit, InFinish
  <2>5. \A p \in Pages : ~HalfCopied(p)'
    BY <1>1, <1>4, <1>5, <2>3, Zenon DEF HalfCopied
  <2>6. Leads' /\ Programs' /\ Consistent' /\ Bounded'
    BY <1>6, <2>2, <2>5 DEF Leads, Programs, Consistent, Copying, Bounded
  <2>7. \A v \in Vars : Stored(v) = Last(n, v) /\ Stored(v)' = Last(n, v)'
    BY <2>1, <2>3, StoredIs, StoredIsNext DEF StoredAs
  <2>8. Keeps
    BY <1>4, <2>7 DEF Keeps, SamePage
  <2>9. CASE ctx = "finish"
    <3>1. result = "none"
      BY <2>9 DEF IInv, Phase, AtRest
    <3>2. Answered'
      BY <2>2, <2>9, <3>1 DEF Answered
    <3>. QED BY <1>2, <2>2, <2>4, <2>6, <2>8, <2>9, <3>1, <3>2, Stutters DEF Job, Answer
  <2>10. CASE ctx = "transfer"
    <3>1. PICK r \in Vars, e \in Data : req = [var |-> r, data |-> e]
      BY <2>10 DEF TypeOK, Requests
    <3>2. Last(n, r) = e
      BY <1>1, <1>2, <2>10, <3>1, Zenon DEF IInv, Leads, Leading
    <3>3. Last(n, r)' = e
      BY <1>4, <3>2 DEF SamePage
    <3>4. ReadPage' = n
      BY <2>3, ReadingNext DEF ReadsAs
    <3>5. ReadVariable(r)' = e
      BY <2>3, <3>3, <3>4 DEF ReadVariable
    <3>6. Answered'
      BY <1>2, <3>1, <3>5 DEF Answered
    <3>. DEFINE j == [var |-> r, data |-> e]
    <3>7. j \in Requests /\ j.var = r /\ j.data = e
      BY DEF Requests
    <3>8. Job = j /\ Job' = NoJob /\ Answer' = "ok"
      BY <2>2, <2>10, <3>1 DEF Job, Answer
    <3>9. Stored(r)' = e
      BY <2>7, <3>3
    <3>10. StoreStep
      <4>. HIDE DEF j
      <4>. QED BY <2>8, <3>7, <3>8, <3>9, Finishes
    <3>. QED BY <2>4, <2>6, <3>6, <3>10
  <2>. QED BY <1>7, <2>9, <2>10
<1>8. CASE ctx = "init"
  <2>1. HalfCopied(n) \/ (Fresh /\ n = 0)
    BY <1>1, <1>2, <1>8, Zenon DEF IInv, Phase, InInit
  <2>2. pc' = "erase" /\ UNCHANGED <<ctx, new, cur, spot, todo, result, losses>>
    BY <1>8 DEF Mark, Continue, locals
  <2>3. Valid(o)' \/ Status(o)' = "erased"
    BY <1>1, <1>4, <2>1, ErasedReads, Zenon DEF HalfCopied, Fresh
  <2>4. Phase'
    BY <1>1, <1>4, <1>8, <2>2, <2>3, Zenon
       DEF IInv, Phase, AtRest, InTransfer, InInit, InFinish, Old
  <2>5. \A p \in Pages : ~HalfCopied(p)'
    BY <1>1, <1>4, <1>5, <2>3, Zenon DEF HalfCopied
  <2>6. Leads' /\ Programs' /\ Consistent' /\ Bounded' /\ Answered'
    BY <1>1, <1>6, <1>8, <2>2, <2>5, Zenon
       DEF Leads, Programs, Consistent, Copying, Bounded, Answered
  <2>7. \A v \in Vars : Stored(v)' = Last(n, v)'
    <3>1. CASE Valid(o)'
      <4>1. Window'
        BY <1>1, <1>4, <2>2, <3>1, Zenon DEF Window
      <4>. QED BY <1>1, <2>2, <4>1, StoredIsNext, Zenon DEF StoredAs
    <3>2. CASE Status(o)' = "erased"
      BY <1>1, <1>4, <3>2, StoredIsNext, Zenon DEF StoredAs
    <3>. QED BY <2>3, <3>1, <3>2
  <2>8. \A v \in Vars : Stored(v) = Last(n, v)
    <3>1. CASE HalfCopied(n)
      <4>1. Copied(n, Vars)
        BY <1>1, <1>2, <1>8, <3>1, Zenon DEF IInv, Consistent
      <4>. QED BY <3>1, <4>1, StoredIs DEF StoredAs, Copied
    <3>2. CASE Fresh
      BY <3>2, StoredIs, ErasedReads DEF StoredAs, Fresh
    <3>. QED BY <2>1, <3>1, <3>2
  <2>9. Keeps
    BY <1>4, <2>7, <2>8 DEF Keeps, SamePage
  <2>. QED BY <1>2, <2>2, <2>4, <2>6, <2>9, Stutters DEF Job, Answer
<1>. QED BY <1>3, <1>7, <1>8

-----------------------------------------------------------------------------
(* EE_Init and what a power loss leaves.                                   *)

LEMMA StepFormat ==
  ASSUME Fits, IInv, Format
  PROVE  (Phase /\ Leads /\ Programs /\ Consistent /\ Bounded /\ Answered)' /\ StoreStep
<1>. TypeOK /\ TypeOK'
  BY TypeStep DEF IInv, TypeOK, Next, Step
<1>1. /\ pc = "format" /\ pc' = "mark" /\ page' = [page EXCEPT ![0] = ErasedPage]
      /\ UNCHANGED <<ctx, new, cur, spot, todo, req, result, losses>>
  BY DEF Format, Continue, locals
<1>2. ctx = "init"
  BY <1>1 DEF IInv, TypeOK, Phase, AtRest, InTransfer, InFinish
<1>3. Fresh /\ new = 0
  BY <1>1, <1>2 DEF IInv, Phase, InInit
<1>4. page' = page
  <2>1. page' \in [Pages -> Page] /\ page \in [Pages -> Page]
    BY DEF TypeOK
  <2>2. \A p \in Pages : page'[p] = page[p]
    BY <1>1, <1>3 DEF Fresh
  <2>. QED BY <2>1, <2>2
<1>5. Fresh' /\ \A p \in Pages : ~HalfCopied(p)'
  <2>1. \A p \in Pages : ~HalfCopied(p)
    BY <1>3, ErasedReads DEF Fresh, HalfCopied, Receives
  <2>. QED BY <1>3, <1>4, <2>1, SamePages
<1>6. Phase'
  BY <1>1, <1>2, <1>3, <1>5 DEF IInv, Phase, AtRest, InTransfer, InInit, InFinish
<1>7. Leads' /\ Programs' /\ Consistent' /\ Bounded' /\ Answered'
  BY <1>1, <1>2, <1>3, <1>4, <1>5, SamePages
     DEF Leads, Programs, Consistent, Copying, Bounded, Answered, Pages
<1>8. Keeps
  <2>1. 0 \in Pages
    BY DEF Pages
  <2>. QED BY <1>3, <1>5, <2>1, StoredIs, StoredIsNext DEF StoredAs, Keeps
<1>. QED BY <1>1, <1>6, <1>7, <1>8, Stutters DEF Job, Answer

LEMMA StepBoot ==
  ASSUME Fits, IInv,
         \/ BootFormat
         \/ \E p \in Pages : BootSettled(p) \/ BootReceived(p) \/ BootHalfCopied(p)
  PROVE  (Phase /\ Leads /\ Programs /\ Consistent /\ Bounded /\ Answered)' /\ StoreStep
<1>. TypeOK /\ TypeOK'
  BY TypeStep DEF IInv, TypeOK, Next, Step
<1>1. pc = "boot" /\ UNCHANGED <<page, cur, spot, req, result, losses>>
  BY DEF BootFormat, BootSettled, BootReceived, BootHalfCopied, Boot
<1>2. ctx = "init" /\ result = "none"
  <2>1. ctx = "init"
    BY <1>1 DEF IInv, TypeOK, Phase, AtRest, InTransfer, InFinish
  <2>. QED BY <2>1 DEF IInv, Phase, AtRest
<1>3. ctx' \in {"init", "finish"} /\ Job' = Job /\ Answer' = Answer
  BY <1>1, <1>2 DEF BootFormat, BootSettled, BootReceived, BootHalfCopied, Boot, Job, Answer
<1>4. \A p \in Pages : Dense(p)' /\ (HalfCopied(p)' => Agrees(p)')
  BY <1>1, SamePages
<1>5. AtRest' /\ InTransfer' /\ Leads' /\ Answered'
  BY <1>1, <1>2, <1>3
     DEF AtRest, InTransfer, Leads, Answered, BootFormat, BootSettled, BootReceived,
         BootHalfCopied, Boot
<1>6. CASE BootFormat
  <2>1. pc' = "format" /\ ctx' = "init" /\ new' = 0
    BY <1>6 DEF BootFormat, Boot
  <2>2. Fresh /\ Fresh'
    BY <1>1, <1>2, <1>6, SamePages DEF BootFormat, IInv, Phase, InInit
  <2>3. Phase'
    BY <1>5, <2>1, <2>2 DEF Phase, InInit, InFinish
  <2>4. Programs' /\ Consistent' /\ Bounded'
    BY <1>4, <2>1 DEF Programs, Consistent, Copying, Bounded
  <2>5. Keeps
    <3>1. 0 \in Pages
      BY DEF Pages
    <3>. QED BY <2>2, <3>1, StoredIs, StoredIsNext DEF StoredAs, Keeps
  <2>. QED BY <1>3, <1>5, <2>3, <2>4, <2>5, Stutters
<1>7. ASSUME NEW p \in Pages, BootSettled(p)
      PROVE (Phase /\ Programs /\ Consistent /\ Bounded)' /\ Keeps
  <2>1. pc' = "erase" /\ ctx' = "init" /\ new' = p
    BY <1>7 DEF BootSettled, Boot
  <2>2. Valid(p) /\ Status(Other(p)) = "erased" /\ Valid(p)' /\ Status(Other(p))' = "erased"
    BY <1>1, <1>7, SamePages, Unchanged, PagesTwo DEF BootSettled, Settled
  <2>3. \A q \in Pages : ~HalfCopied(q)'
    BY <2>2 DEF HalfCopied, Valid, Receives, Pages, Other
  <2>4. Phase'
    BY <1>5, <2>1, <2>2 DEF Phase, InInit, InFinish, Old
  <2>5. Programs' /\ Consistent' /\ Bounded'
    BY <1>4, <2>1, <2>3 DEF Programs, Consistent, Copying, Bounded
  <2>6. Keeps
    BY <1>1, <2>2, StoredIs, StoredIsNext, Unchanged DEF StoredAs, Keeps, SamePage
  <2>. QED BY <2>4, <2>5, <2>6
<1>8. ASSUME NEW p \in Pages, BootReceived(p)
      PROVE (Phase /\ Programs /\ Consistent /\ Bounded)' /\ Keeps
  <2>1. pc' = "erase" /\ ctx' = "finish" /\ new' = p
    BY <1>8 DEF BootReceived, Boot
  <2>2. Received(p) /\ Received(p)'
    BY <1>1, <1>8, SamePages DEF BootReceived
  <2>4. Phase'
    BY <1>5, <2>1, <2>2 DEF Phase, InInit, InFinish
  <2>5. Programs' /\ Consistent' /\ Bounded'
    BY <1>4, <2>1 DEF Programs, Consistent, Copying, Bounded
  <2>6. Keeps
    BY <1>1, <2>2, StoredIs, StoredIsNext, Unchanged DEF StoredAs, Keeps, SamePage
  <2>. QED BY <2>4, <2>5, <2>6
<1>9. ASSUME NEW p \in Pages, BootHalfCopied(p)
      PROVE (Phase /\ Programs /\ Consistent /\ Bounded)' /\ Keeps
  <2>1. pc' = "copy" /\ ctx' = "init" /\ new' = p /\ todo' = Vars
    BY <1>9 DEF BootHalfCopied, Boot, Fits
  <2>2. HalfCopied(p) /\ HalfCopied(p)'
    BY <1>1, <1>9, SamePages DEF BootHalfCopied
  <2>4. Phase'
    BY <1>5, <2>1, <2>2 DEF Phase, InInit, InFinish
  <2>5. Consistent'
    <3>1. (Vars \ todo') \ {} = {}
      BY <2>1
    <3>2. Copied(new, (Vars \ todo) \ {})'
      BY <3>1 DEF Copied
    <3>. QED BY <1>4, <2>1, <3>2 DEF Consistent, Copying
  <2>6. Bounded'
    <3>1. First(p)' = First(p)
      BY <1>1, Unchanged DEF SamePage
    <3>2. PICK f \in Vars \cup {NoVar} : f = First(p)
      BY FirstType
    <3>3. /\ Used(f, losses) \in Nat /\ Cardinality(Vars \ {f}) \in Nat
          /\ Used(f, losses + 1) = Used(f, losses) + Cardinality(Vars \ {f})
      BY Room DEF TypeOK
    <3>4. Limit' = Used(f, losses + 1) - Cardinality(Vars \ {f})
      BY <1>1, <2>1, <3>1, <3>2 DEF Limit, Used
    <3>5. Limit' - 0 = Used(f, losses)
      BY <3>3, <3>4
    <3>6. UsedTo(p, Used(f, losses))
      BY <1>1, <2>2, <3>2 DEF IInv, Bounded
    <3>7. UsedTo(new, Limit - 0)'
      BY <1>1, <2>1, <3>5, <3>6 DEF UsedTo
    <3>. QED BY <2>1, <3>7 DEF Bounded
  <2>7. Programs'
    BY <2>1 DEF Programs
  <2>8. Keeps
    BY <1>1, <2>2, StoredIs, StoredIsNext, Unchanged DEF StoredAs, Keeps
  <2>. QED BY <2>4, <2>5, <2>6, <2>7, <2>8
<1>10. CASE \E p \in Pages : BootSettled(p) \/ BootReceived(p) \/ BootHalfCopied(p)
  BY <1>3, <1>5, <1>7, <1>8, <1>9, <1>10, Stutters
<1>. QED BY <1>6, <1>10

LEMMA StepFail ==
  ASSUME Fits, IInv, Fail
  PROVE  (Phase /\ Leads /\ Programs /\ Consistent /\ Bounded /\ Answered)' /\ StoreStep
<1>. TypeOK /\ TypeOK'
  BY TypeStep DEF IInv, TypeOK, Next
<1>1. ctx = "write" /\ pc \in {"data", "vaddr"} /\ page' = page /\ req' = req
  BY DEF Fail, Fits, IInv, Phase, AtRest
<1>2. pc' = "idle" /\ ctx' = "none" /\ result' = "error" /\ losses' = 0
  BY <1>1 DEF Fail, Return
<1>3. PICK w \in Pages : Valid(w) /\ page[Other(w)] = ErasedPage
  BY <1>1 DEF IInv, Phase, AtRest
<1>4. /\ Valid(w)' /\ Status(Other(w)) = "erased" /\ Status(Other(w))' = "erased"
  BY <1>1, <1>3, SamePages, ErasedReads, Unchanged, PagesTwo
<1>5. Phase'
  BY <1>1, <1>2, <1>3, <1>4 DEF Phase, AtRest, InTransfer, InInit, InFinish
<1>6. Leads' /\ Programs' /\ Consistent' /\ Bounded' /\ Answered'
  BY <1>1, <1>2, SamePages DEF Leads, Programs, Consistent, Copying, Bounded, Answered
<1>7. Keeps
  BY <1>1, <1>3, <1>4, StoredIs, StoredIsNext, Unchanged DEF StoredAs, Keeps, SamePage
<1>8. StoreStep
  <2>1. PICK j \in Requests : req = j
    BY <1>1 DEF TypeOK
  <2>. QED BY <1>1, <1>2, <1>7, <2>1, Finishes DEF Job, Answer
<1>. QED BY <1>5, <1>6, <1>8

LEMMA StepWrite ==
  ASSUME Fits, IInv, NEW v \in Vars, NEW d \in Data,
         WriteSame(v, d) \/ WriteRefused(v, d) \/ WriteSlot(v, d)
  PROVE  (Phase /\ Leads /\ Programs /\ Consistent /\ Bounded /\ Answered)' /\ StoreStep
<1>. TypeOK /\ TypeOK'
  BY TypeStep DEF IInv, TypeOK, Next, Write
<1>. DEFINE j == [var |-> v, data |-> d]
<1>1. j \in Requests /\ j.var = v /\ j.data = d
  BY DEF Requests
<1>2. /\ pc = "idle" /\ page' = page /\ req' = j
      /\ UNCHANGED <<new, spot, todo, losses>>
  BY DEF WriteSame, WriteRefused, WriteSlot
<1>3. ctx = "none"
  BY <1>2 DEF IInv, Phase, AtRest
<1>4. PICK w \in Pages : Valid(w) /\ page[Other(w)] = ErasedPage
  BY <1>3 DEF IInv, Phase, AtRest
<1>5. /\ Valid(w)' /\ Status(Other(w)) = "erased" /\ Status(Other(w))' = "erased"
  BY <1>2, <1>4, SamePages, ErasedReads, Unchanged, PagesTwo
<1>6. Keeps /\ Stored(v) = ReadVariable(v)
  <2>1. Keeps
    BY <1>2, <1>4, <1>5, StoredIs, StoredIsNext, Unchanged DEF StoredAs, Keeps, SamePage
  <2>2. ReadPage = w
    BY <1>4, <1>5, Reading DEF ReadsAs
  <2>. QED BY <1>4, <1>5, <2>1, <2>2, StoredIs DEF StoredAs, ReadVariable
<1>7. \A p \in Pages : Dense(p)' /\ (HalfCopied(p)' => Agrees(p)')
  BY <1>2, SamePages
<1>8. losses = 0
  BY <1>3 DEF IInv, Phase, AtRest
<1>9. CASE WriteSame(v, d) \/ WriteRefused(v, d)
  <2>1. /\ pc' = "idle" /\ ctx' = "none"
        /\ result' = "error" \/ (result' = "ok" /\ ReadVariable(v) = d)
    BY <1>2, <1>3, <1>9 DEF WriteSame, WriteRefused
  <2>2. Phase'
    BY <1>2, <1>4, <1>5, <1>8, <2>1 DEF Phase, AtRest, InTransfer, InInit, InFinish
  <2>3. Leads' /\ Programs' /\ Consistent' /\ Bounded'
    BY <1>7, <2>1 DEF Leads, Programs, Consistent, Copying, Bounded
  <2>4. Answered'
    <3>1. ReadPage = w /\ ReadPage' = w
      BY <1>4, <1>5, Reading, ReadingNext DEF ReadsAs
    <3>2. ReadVariable(v)' = ReadVariable(v)
      BY <1>2, <1>4, <1>5, <3>1, Unchanged DEF ReadVariable, SamePage
    <3>3. req'.var = v /\ req'.data = d
      BY <1>1, <1>2
    <3>. QED BY <2>1, <3>2, <3>3 DEF Answered
  <2>5. StoreStep
    <3>1. Job = NoJob /\ Job' = NoJob /\ (Answer' = "error" \/ (Answer' = "ok" /\ Stored(v) = d))
      BY <1>3, <1>6, <2>1 DEF Job, Answer
    <3>. HIDE DEF j
    <3>. QED BY <1>1, <1>6, <3>1, Immediates
  <2>. QED BY <2>2, <2>3, <2>4, <2>5
<1>10. CASE WriteSlot(v, d)
  <2>1. pc' = "data" /\ ctx' = "write" /\ cur' = req' /\ result' = result
    BY <1>10 DEF WriteSlot
  <2>2. Phase'
    BY <1>2, <1>4, <1>5, <1>8, <2>1 DEF Phase, AtRest, InTransfer, InInit, InFinish
  <2>3. Leads' /\ Programs' /\ Consistent' /\ Bounded' /\ Answered'
    BY <1>7, <2>1 DEF Leads, Programs, Consistent, Copying, Bounded, Answered
  <2>4. StoreStep
    <3>1. Job = NoJob /\ Job' = j /\ Answer' = Answer
      BY <1>2, <1>3, <2>1 DEF Job, Answer
    <3>. HIDE DEF j
    <3>. QED BY <1>1, <1>6, <3>1, Starts
  <2>. QED BY <2>2, <2>3, <2>4
<1>. QED BY <1>9, <1>10

LEMMA StepPower ==
  ASSUME Fits, IInv, PowerLoss
  PROVE  (Phase /\ Leads /\ Programs /\ Consistent /\ Bounded /\ Answered)' /\ StoreStep
<1>. TypeOK /\ TypeOK' /\ new \in Pages
  BY TypeStep DEF IInv, TypeOK, Next
<1>. USE DEF Valid, Receives
<1>1. /\ pc # "boot" /\ ~Window /\ page' \in CutOff
      /\ losses' = IF Booting THEN losses + 1 ELSE losses
      /\ pc' = "boot" /\ ctx' = "init" /\ result' = "none"
  BY DEF PowerLoss, Fits
<1>2. PICK n \in Pages, o \in Pages : n = new /\ o = Other(n) /\ n = Other(o) /\ n # o
  BY PagesTwo
<1>3. \A p \in Pages : p = n \/ p = o
  BY <1>2 DEF Pages, Other
<1>4. InTransfer' /\ InFinish' /\ AtRest' /\ Leads' /\ Programs' /\ Answered'
  BY <1>1 DEF InTransfer, InFinish, AtRest, Leads, Programs, Answered
(* The cases: what is found after the power loss, and what is kept.        *)
<1>5. SUFFICES /\ \A p \in Pages : Dense(p)' /\ (HalfCopied(p)' => Agrees(p)')
               /\ Fresh' \/ \E p \in Pages : (Settled(p) \/ Received(p) \/ HalfCopied(p))'
               /\ \A p \in Pages : HalfCopied(p)' => UsedTo(p, Used(First(p), losses))'
               /\ Keeps
  <2>1. Phase' /\ Consistent' /\ Bounded'
    BY <1>1, <1>4 DEF Phase, InInit, Consistent, Copying, Bounded
  <2>. QED BY <1>1, <1>4, <2>1, LosesPower DEF Job, Answer
<1>6. ctx \in {"transfer", "init"} => losses' = IF ctx = "init" THEN losses + 1 ELSE 0
  BY <1>1 DEF Booting, IInv, Phase, AtRest
<1>8. \/ Fresh
      \/ \E p \in Pages : Settled(p) \/ Received(p)
      \/ HalfCopied(n) /\ UsedTo(n, Used(First(n), losses'))
  <2>1. CASE ctx \in {"none", "write"}
    BY <2>1, ErasedReads DEF IInv, Phase, AtRest, Settled
  <2>2. CASE ctx = "finish"
    BY <1>2, <2>2, Zenon DEF IInv, Phase, InFinish
  <2>3. CASE /\ ctx \in {"transfer", "init"} /\ pc \in {"data", "vaddr", "copy"}
    <3>1. HalfCopied(n)
      BY <1>2, <2>3, Zenon DEF IInv, Phase, InTransfer, InInit
    <3>2. UsedTo(n, Limit - (IF pc = "data" THEN 1 ELSE 0))
      BY <1>2, <2>3, Zenon DEF IInv, Bounded, Copying
    <3>3. PICK u \in Nat : u = Used(First(n), losses') /\ Limit <= u
      BY <1>2, <1>6, <2>3, RoundBound, Zenon DEF Copying
    <3>4. UsedTo(n, u)
      BY <2>3, <3>2, <3>3, LimitBound, EepromAssumption DEF UsedTo, Indices, Copying
    <3>. QED BY <3>1, <3>3, <3>4
  <2>4. CASE ctx = "transfer" /\ pc \in {"receive", "erase", "mark"}
    <3>1. CASE pc = "erase"
      BY <1>2, <1>6, <2>4, <3>1, Zenon DEF IInv, Phase, InTransfer, Bounded
    <3>2. CASE pc = "receive"
      BY <1>2, <2>4, <3>2, ErasedReads, Zenon DEF IInv, Phase, InTransfer, Old, Settled
    <3>3. CASE pc = "mark"
      BY <1>2, <2>4, <3>3, ErasedReads, Zenon DEF IInv, Phase, InTransfer, Old, Received
    <3>. QED BY <2>4, <3>1, <3>2, <3>3
  <2>5. CASE ctx = "init" /\ pc \in {"mark", "erase", "format"}
    <3>1. CASE pc = "mark"
      <4>1. HalfCopied(n) => UsedTo(n, Used(First(n), losses'))
        BY <1>2, <1>6, <2>5, <3>1, Zenon DEF IInv, Bounded
      <4>. QED BY <1>2, <2>5, <3>1, <4>1, Zenon DEF IInv, Phase, InInit
    <3>2. CASE pc = "erase"
      BY <1>1, <1>2, <2>5, <3>2, Zenon DEF IInv, Phase, InInit, Old, Settled, Window
    <3>3. CASE pc = "format"
      BY <2>5, <3>3 DEF IInv, Phase, InInit
    <3>. QED BY <2>5, <3>1, <3>2, <3>3
  <2>6. /\ ctx = "transfer" => pc \in {"receive", "data", "vaddr", "copy", "erase", "mark"}
        /\ ctx = "init" => pc \in {"copy", "data", "vaddr", "mark", "erase", "format"}
    BY <1>1 DEF IInv, Phase, InTransfer, InInit
  <2>. QED BY <2>1, <2>2, <2>3, <2>4, <2>5, <2>6 DEF TypeOK
<1>9. ~Window' /\ 0 \in Pages
  BY <1>1 DEF Window, Pages
<1>10. CASE page' = page
  <2>1. \A p \in Pages : Dense(p)' /\ (HalfCopied(p)' => Agrees(p)')
    BY <1>10, SamePages
  <2>2. CASE Fresh
    <3>1. Fresh' /\ \A p \in Pages : ~HalfCopied(p)'
      BY <1>10, <2>2, SamePages, ErasedReads DEF Fresh, HalfCopied
    <3>2. Keeps
      BY <1>9, <2>2, <3>1, StoredIs, StoredIsNext DEF StoredAs, Keeps
    <3>. QED BY <2>1, <3>1, <3>2
  <2>3. ASSUME NEW p \in Pages, Settled(p) \/ Received(p)
        PROVE  /\ (Settled(p) \/ Received(p))' /\ Keeps
               /\ \A q \in Pages : ~HalfCopied(q)'
    <3>1. Settled(p)' = Settled(p) /\ Received(p)' = Received(p)
      BY <1>10, SamePages
    <3>2. \A q \in Pages : ~HalfCopied(q)
      BY <2>3 DEF Settled, Received, HalfCopied, Pages, Other
    <3>3. \A v \in Vars : Stored(v) = Last(p, v) /\ Stored(v)' = Last(p, v)'
      BY <2>3, <3>1, StoredIs, StoredIsNext DEF StoredAs, Settled
    <3>. QED BY <1>10, <2>3, <3>1, <3>2, <3>3, SamePages, Unchanged DEF Keeps, SamePage
  <2>4. CASE HalfCopied(n) /\ UsedTo(n, Used(First(n), losses'))
    <3>1. HalfCopied(n)' /\ (\A p \in Pages : HalfCopied(p)' => p = n)
      <4>1. \A p \in Pages : HalfCopied(p) => p = n
        BY <1>2, <1>3, <2>4, Zenon DEF HalfCopied
      <4>. QED BY <1>10, <2>4, <4>1, SamePages
    <3>2. UsedTo(n, Used(First(n), losses))'
      BY <1>10, <2>4 DEF UsedTo, Used, First
    <3>3. Keeps
      BY <1>10, <2>4, <3>1, StoredIs, StoredIsNext, Unchanged DEF StoredAs, Keeps
    <3>. QED BY <2>1, <3>1, <3>2, <3>3
  <2>. QED BY <1>8, <2>1, <2>2, <2>3, <2>4
<1>11. CASE pc = "erase" /\ page' = [page EXCEPT ![o].status = "erased"]
  <2>1. /\ Status(o)' = "erased" /\ Status(n)' = Status(n)
        /\ \A p \in Pages : SamePage(p)
    BY <1>2, <1>11, Marks, Zenon
  <2>2. \A p \in Pages : Dense(p)' /\ ~HalfCopied(p)'
    BY <1>2, <1>3, <2>1, Zenon DEF HalfCopied, IInv, Consistent, SamePage
  <2>3. ctx \in {"transfer", "init", "finish"}
    BY <1>11 DEF IInv, TypeOK, Phase, AtRest
  <2>4. Settled(n) \/ Received(n) \/ (HalfCopied(n) /\ Copied(n, Vars))
    <3>1. CASE ctx = "transfer"
      BY <1>2, <1>11, <3>1, Zenon DEF IInv, Phase, InTransfer, Consistent
    <3>2. CASE ctx = "init"
      BY <1>1, <1>2, <1>11, <3>2, Zenon DEF IInv, Phase, InInit, Old, Settled, Window
    <3>3. CASE ctx = "finish"
      BY <1>2, <1>11, <3>3, Zenon DEF IInv, Phase, InFinish
    <3>. QED BY <2>3, <3>1, <3>2, <3>3
  <2>5. (Settled(n) \/ Received(n))'
    BY <1>2, <2>1, <2>4, Zenon DEF Settled, Received, HalfCopied
  <2>6. \A v \in Vars : Stored(v)' = Last(n, v)'
    BY <2>5, StoredIsNext DEF StoredAs, Settled
  <2>7. \A v \in Vars : Stored(v) = Last(n, v)
    BY <2>4, StoredIs DEF StoredAs, Settled, Copied
  <2>8. Keeps
    BY <2>1, <2>6, <2>7 DEF Keeps, SamePage
  <2>. QED BY <2>2, <2>5, <2>8
<1>12. CASE pc = "format" /\ page' = [page EXCEPT ![0].status = "erased"]
  <2>1. ctx = "init"
    BY <1>12 DEF IInv, TypeOK, Phase, AtRest, InTransfer, InFinish
  <2>2. Fresh
    BY <1>12, <2>1 DEF IInv, Phase, InInit
  <2>3. page' = page
    <3>1. page' \in [Pages -> Page] /\ page \in [Pages -> Page]
      BY DEF TypeOK
    <3>2. page[0] = ErasedPage /\ ErasedPage.status = "erased"
      BY <1>9, <2>2, ErasedReads DEF Fresh
    <3>3. [ErasedPage EXCEPT !.status = "erased"] = ErasedPage
      BY DEF ErasedPage
    <3>4. \A p \in Pages : page'[p] = page[p]
      BY <1>12, <3>1, <3>2, <3>3
    <3>. QED BY <3>1, <3>4
  <2>. QED BY <1>10, <2>3
<1>. QED BY <1>1, <1>2, <1>10, <1>11, <1>12, Zenon DEF CutOff

LEMMA StepStutter ==
  ASSUME IInv, UNCHANGED vars
  PROVE  (Phase /\ Leads /\ Programs /\ Consistent /\ Bounded /\ Answered)' /\ StoreStep
<1>. TypeOK /\ new \in Pages
  BY DEF IInv, TypeOK
<1>1. UNCHANGED <<page, pc, ctx, new, cur, spot, todo, req, result, losses>>
  BY DEF vars, locals
<1>2. PICK n \in Pages : n = new
  OBVIOUS
<1>3. \A p \in Pages : /\ First(p)' = First(p) /\ Dense(p)' = Dense(p)
                       /\ page'[p] = page[p] /\ Status(p)' = Status(p)
                       /\ \A u \in Vars : Last(p, u)' = Last(p, u) /\ Holds(p, u)' = Holds(p, u)
  BY <1>1, Unchanged DEF SamePage
<1>4. WritePage' = WritePage /\ ReadPage' = ReadPage
  BY <1>1, SamePages
<1>5. Phase'
  BY <1>1, <1>2, SamePages, PagesTwo
     DEF IInv, Phase, AtRest, InTransfer, InInit, InFinish, Receives, Status, Old
<1>6. Leads'
  <2>1. SUFFICES ASSUME ctx = "transfer", ~Leading, pc # "receive"
                 PROVE  /\ First(new)' = req'.var /\ Last(new, req.var)' = req'.data
                        /\ Holds(new, req.var)' = req'.data
                        /\ req'.var \notin todo'
    BY <1>1 DEF IInv, Leads, Leading
  <2>2. PICK r \in Vars : r = req.var
    BY <2>1 DEF TypeOK, Requests
  <2>3. /\ First(n) = r /\ Last(n, r) = req.data
        /\ Holds(n, r) = req.data /\ r \notin todo
    BY <1>2, <2>1, <2>2 DEF IInv, Leads
  <2>. QED BY <1>1, <1>2, <1>3, <2>2, <2>3
<1>7. Programs'
  BY <1>1, <1>4 DEF IInv, Programs
<1>8. Consistent'
  <2>1. \A p \in Pages : Dense(p)' /\ (HalfCopied(p)' => Agrees(p)')
    BY <1>1, SamePages
  <2>2. ASSUME Copying
        PROVE  /\ Copied(new, (Vars \ todo) \ (IF pc = "copy" THEN {} ELSE {cur.var}))'
               /\ pc # "copy" /\ ~Leading => cur'.data = Holds(new, cur.var)'
               /\ pc # "copy" => cur'.var \notin todo'
    <3>1. Copied(n, (Vars \ todo) \ (IF pc = "copy" THEN {} ELSE {cur.var}))
      BY <1>2, <2>2 DEF IInv, Consistent
    <3>2. Copied(new, (Vars \ todo) \ (IF pc = "copy" THEN {} ELSE {cur.var}))'
      BY <1>1, <1>2, <1>3, <3>1 DEF Copied
    <3>3. CASE pc # "copy"
      <4>1. PICK c \in Vars : c = cur.var
        BY <2>2, <3>3 DEF Copying, TypeOK, Requests
      <4>2. c \notin todo /\ (~Leading => cur.data = Holds(n, c))
        BY <1>2, <2>2, <3>3, <4>1 DEF IInv, Consistent
      <4>. QED BY <1>1, <1>2, <1>3, <3>2, <4>1, <4>2
    <3>. QED BY <3>2, <3>3
  <2>3. HalfCopied(new)' = HalfCopied(new)
    BY <1>1, <1>2, SamePages
  <2>4. Copied(n, Vars) => Copied(new, Vars)'
    BY <1>1, <1>2, <1>3 DEF Copied
  <2>5. Leading' = Leading /\ Copying' = Copying
    BY <1>1 DEF Leading, Copying
  <2>. QED BY <1>1, <1>2, <2>1, <2>2, <2>3, <2>4, <2>5 DEF IInv, Consistent
<1>9. Bounded'
  <2>1. LET k == Limit - (IF pc = "data" THEN 1 ELSE 0) IN UsedTo(n, k)' = UsedTo(n, k)
    BY <1>1, <1>2, <1>3 DEF Limit, UsedTo, Used
  <2>2. /\ Limit' = Limit
        /\ \A p \in Pages : \A r : UsedTo(p, Used(First(p), r))' = UsedTo(p, Used(First(p), r))
    BY <1>1, <1>2, <1>3 DEF Limit, UsedTo, Used
  <2>. QED BY <1>1, <1>2, <2>1, <2>2, SamePages DEF IInv, Bounded, UsedTo, Copying, Used, Limit
<1>10. Answered'
  <2>1. SUFFICES ASSUME ctx = "none", result = "ok"
                 PROVE  ReadVariable(req.var)' = req'.data
    BY <1>1 DEF Answered
  <2>2. ReadVariable(req.var) = req.data
    BY <2>1 DEF IInv, Answered
  <2>. QED BY <1>1, <2>2, Zenon DEF ReadVariable, Last, LastUse, Uses, ReadPage, Valid, Status
<1>11. Keeps
  <2>. SUFFICES ASSUME NEW v \in Vars PROVE Stored(v)' = Stored(v)
    BY DEF Keeps
  <2>1. /\ Window' = Window /\ HasValid' = HasValid /\ Last(new, v)' = Last(n, v)
        /\ (CHOOSE p \in Pages : Receives(p))' = (CHOOSE p \in Pages : Receives(p))
        /\ \A p \in Pages : Receives(p)' = Receives(p)
    BY <1>1, <1>2, <1>3, SamePages, PagesTwo DEF Window, Receives, Status
  <2>2. PICK r \in Pages : r = ReadPage /\ r = ReadPage'
    BY <1>4, ReadTypes
  <2>3. CASE Window
    BY <1>2, <1>3, <2>1, <2>3 DEF Stored
  <2>4. CASE ~Window /\ HasValid
    <3>1. Stored(v) = IF Receives(Other(r)) /\ First(Other(r)) = v
                      THEN page[Other(r)].slots[1].data ELSE Last(r, v)
      BY <2>2, <2>4, Zenon DEF Stored, First
    <3>2. Stored(v)' = IF Receives(Other(r))' /\ First(Other(r))' = v
                       THEN page'[Other(r)].slots[1].data ELSE Last(r, v)'
      BY <2>1, <2>2, <2>4, Zenon DEF Stored, First
    <3>. QED BY <1>1, <1>3, <2>1, <3>1, <3>2, PagesTwo
  <2>5. CASE ~Window /\ ~HasValid /\ \E p \in Pages : Receives(p)
    <3>1. PICK c \in Pages : c = CHOOSE p \in Pages : Receives(p)
      BY <2>5
    <3>2. Stored(v) = Last(c, v)
      BY <2>5, <3>1, Zenon DEF Stored
    <3>3. Stored(v)' = Last(c, v)'
      <4>1. (CHOOSE p \in Pages : Receives(p))' = c
        BY <2>1, <3>1
      <4>. QED BY <2>1, <2>5, <4>1, Zenon DEF Stored
    <3>. QED BY <1>3, <3>2, <3>3
  <2>6. CASE ~Window /\ ~HasValid /\ ~\E p \in Pages : Receives(p)
    BY <2>1, <2>6, Zenon DEF Stored
  <2>. QED BY <2>3, <2>4, <2>5, <2>6
<1>12. StoreStep
  BY <1>1, <1>11, Stutters DEF Job, Answer
<1>. QED BY <1>5, <1>6, <1>7, <1>8, <1>9, <1>10, <1>12

-----------------------------------------------------------------------------
(* The whole.                                                              *)

LEMMA Starting == Fits /\ Init => IInv /\ Store!Init
<1>. SUFFICES ASSUME Fits, Init PROVE IInv /\ Store!Init
  OBVIOUS
<1>. TypeOK
  BY TypeInit
<1>1. Fresh /\ pc = "boot" /\ ctx = "init" /\ result = "none" /\ req = NoJob /\ losses = 0
  BY DEF Init, Fresh
<1>2. \A p \in Pages : page[p] = ErasedPage /\ Dense(p) /\ ~HalfCopied(p)
  BY <1>1, ErasedReads DEF Fresh, HalfCopied, Receives
<1>3. Phase /\ Leads /\ Programs /\ Answered
  BY <1>1 DEF Phase, AtRest, InTransfer, InInit, InFinish, Leads, Programs, Answered
<1>4. Consistent /\ Bounded
  BY <1>1, <1>2 DEF Consistent, Bounded, Copying
<1>5. \A v \in Vars : Stored(v) = None
  BY <1>1, StoredIs, Zenon DEF StoredAs, Pages
<1>6. Store!Init
  BY <1>1, <1>5 DEF Store!Init
<1>. QED BY <1>3, <1>4, <1>6 DEF IInv

LEMMA Inductive ==
  ASSUME Fits, IInv, [Next]_vars
  PROVE  IInv' /\ StoreStep
<1>. DEFINE Goal ==
       (Phase /\ Leads /\ Programs /\ Consistent /\ Bounded /\ Answered)' /\ StoreStep
<1>1. TypeOK'
  BY TypeStep DEF IInv
<1>2. Goal
  <2>1. CASE Step
    <3>1. ASSUME NEW v \in Vars, Copy(v) PROVE Goal
      BY <3>1, StepCopy
    <3>. QED BY <2>1, <3>1, StepData, StepVar, StepFull, StepReceive, StepCopyDone, StepErase,
                StepMark, StepBoot, StepFormat DEF Step
  <2>2. CASE Write
    BY <2>2, StepWrite DEF Write
  <2>3. CASE Fail
    BY <2>3, StepFail
  <2>4. CASE PowerLoss
    BY <2>4, StepPower
  <2>5. CASE UNCHANGED vars
    BY <2>5, StepStutter
  <2>. QED BY <2>1, <2>2, <2>3, <2>4, <2>5 DEF Next
<1>. QED BY <1>1, <1>2 DEF IInv

LEMMA Invariance == ASSUME Fits PROVE Spec => []IInv
<1>1. Init => IInv
  BY Starting
<1>2. IInv /\ [Next]_vars => IInv'
  BY Inductive
<1>. QED BY <1>1, <1>2, PTL DEF Spec

(* A page transfer, and the copying EE_Init starts over after each of      *)
(* BootLosses power losses, find a free slot for every variable.           *)
THEOREM RoomForCopyHolds == ASSUME Fits PROVE Spec => []RoomForCopy
<1>1. IInv => RoomForCopy
  BY RoomInv
<1>. QED BY <1>1, Invariance, PTL

(* Between two calls one page is valid and the other one erased to its last*)
(* slot, wherever power failed before.                                     *)
THEOREM OnePageHolds == ASSUME Fits PROVE Spec => []OnePage
<1>1. IInv => OnePage
  BY DEF IInv, Phase, AtRest, OnePage
<1>. QED BY <1>1, Invariance, PTL

(* A write that returned success is what EE_ReadVariable then finds.       *)
THEOREM ReadBackHolds == ASSUME Fits PROVE Spec => []ReadBack
<1>1. IInv => ReadBack
  BY DEF IInv, Phase, AtRest, Answered, ReadBack
<1>. QED BY <1>1, Invariance, PTL

(* The two pages with their transfers are one store: a write takes effect  *)
(* at one flash operation or not at all, and neither a transfer nor a power*)
(* loss nor the repair in EE_Init changes any variable.                    *)
THEOREM ImplementsStore == ASSUME Fits PROVE Spec => IsStore
<1>1. Init => Store!Init
  BY Starting
<1>2. IInv /\ [Next]_vars => [Store!Next]_(Store!vars)
  BY Inductive DEF StoreStep
<1>. QED BY <1>1, <1>2, Invariance, PTL DEF Spec, IsStore, Store!Spec

-----------------------------------------------------------------------------
(* Every call ends.                                                        *)

(* How many more steps the call under way can take at most: three for each *)
(* variable the copying loop has not come to, and those before and after.  *)
Work == 3 * Cardinality(Table)
Left ==
  LET m == 3 * Cardinality(todo)
  IN CASE pc = "idle"    -> 0
       [] pc = "boot"    -> Work + 4
       [] pc = "format"  -> 3
       [] pc = "receive" -> Work + 6
       [] pc = "data"    -> IF ctx = "write" THEN Work + 7 ELSE m + 5
       [] pc = "vaddr"   -> IF ctx = "write" THEN 1 ELSE m + 4
       [] pc = "copy"    -> m + 3
       [] pc = "erase"   -> IF ctx = "init" THEN 1 ELSE 2
       [] pc = "mark"    -> IF ctx = "init" THEN 2 ELSE 1

(* What no call and no failing operation leaves out: a step brings the end *)
(* nearer.  A power loss begins EE_Init anew.                              *)
StepsDown == [][Step \/ Fail => Left' < Left]_vars

CopiesFor == pc \in {"receive", "copy"} => ctx # "write"

TodoBounded ==
  /\ Work \in Nat /\ Cardinality(todo) \in Nat
  /\ 3 * Cardinality(todo) <= Work
  /\ todo = {} => Cardinality(todo) = 0
  /\ \A v \in todo : Cardinality(todo \ {v}) = Cardinality(todo) - 1

LEMMA TodoCounts == ASSUME IsFiniteSet(Table) PROVE TypeOK => TodoBounded
<1>. SUFFICES ASSUME TypeOK PROVE TodoBounded
  OBVIOUS
<1>1. IsFiniteSet(todo) /\ Cardinality(todo) <= Cardinality(Table)
  BY FS_Subset DEF TypeOK
<1>2. Cardinality(todo) \in Nat /\ Cardinality(Table) \in Nat
  BY <1>1, FS_CardinalityType
<1>3. todo = {} => Cardinality(todo) = 0
  BY FS_EmptySet
<1>4. \A v \in todo : Cardinality(todo \ {v}) = Cardinality(todo) - 1
  BY <1>1, FS_RemoveElement
<1>. QED BY <1>1, <1>2, <1>3, <1>4 DEF Work, TodoBounded

LEMMA NextTodoCounts == ASSUME IsFiniteSet(Table) PROVE TypeOK' => TodoBounded'
BY TodoCounts, PTL

LEMMA LeftBounded ==
  ASSUME IsFiniteSet(Table)
  PROVE  TypeOK => Left \in 0..(Work + 7) /\ (Left = 0 <=> pc = "idle")
<1>. SUFFICES ASSUME TypeOK PROVE Left \in 0..(Work + 7) /\ (Left = 0 <=> pc = "idle")
  OBVIOUS
<1>1. TodoBounded
  BY TodoCounts
<1>2. pc \in {"boot", "idle", "data", "vaddr", "receive", "copy", "erase", "mark", "format"}
  BY DEF TypeOK
<1>3. CASE pc \in {"boot", "idle", "receive"}
  <2>1. Left = IF pc = "idle" THEN 0 ELSE IF pc = "boot" THEN Work + 4 ELSE Work + 6
    BY <1>3 DEF Left
  <2>. QED BY <1>1, <1>3, <2>1 DEF TodoBounded
<1>4. CASE pc \in {"format", "erase", "mark"}
  <2>1. Left \in {1, 2, 3}
    BY <1>4 DEF Left
  <2>. QED BY <1>1, <1>4, <2>1 DEF TodoBounded
<1>5. CASE pc = "copy"
  BY <1>1, <1>5 DEF Left, TodoBounded
<1>6. CASE pc = "data"
  BY <1>1, <1>6 DEF Left, TodoBounded
<1>7. CASE pc = "vaddr"
  BY <1>1, <1>7 DEF Left, TodoBounded
<1>. QED BY <1>2, <1>3, <1>4, <1>5, <1>6, <1>7

LEMMA CopiesForStep == CopiesFor /\ [Next]_vars => CopiesFor'
<1>. SUFFICES ASSUME CopiesFor, [Next]_vars PROVE CopiesFor'
  OBVIOUS
<1>. USE DEF CopiesFor, Return, Continue
<1>1. CASE ProgramData \/ ProgramVar \/ PageFull \/ MarkReceive
  BY <1>1 DEF ProgramData, ProgramVar, PageFull, MarkReceive
<1>2. CASE CopyDone \/ Erase \/ Mark \/ BootFormat \/ Format
  BY <1>2 DEF CopyDone, Erase, Mark, BootFormat, Boot, Format
<1>3. CASE (\E v \in Vars : Copy(v)) \/ Write
  BY <1>3 DEF Copy, Write, WriteSame, WriteRefused, WriteSlot
<1>4. CASE \E p \in Pages : BootSettled(p) \/ BootReceived(p) \/ BootHalfCopied(p)
  BY <1>4 DEF BootSettled, BootReceived, BootHalfCopied, Boot
<1>5. CASE Fail \/ PowerLoss \/ UNCHANGED vars
  BY <1>5 DEF Fail, PowerLoss, vars
<1>. QED BY <1>1, <1>2, <1>3, <1>4, <1>5 DEF Next, Step

LEMMA StepBrings ==
  ASSUME IsFiniteSet(Table), TypeOK, TypeOK', CopiesFor, Step \/ Fail
  PROVE  Left' < Left
<1>. TodoBounded /\ TodoBounded'
  BY TodoCounts, NextTodoCounts
<1>. USE DEF TodoBounded, Return, Continue, locals
<1>1. CASE ProgramData
  BY <1>1 DEF ProgramData, Left
<1>2. CASE ProgramVar
  BY <1>2 DEF ProgramVar, Left
<1>3. CASE PageFull
  BY <1>3 DEF PageFull, Left
<1>4. CASE MarkReceive
  BY <1>4 DEF MarkReceive, CopiesFor, Left
<1>5. ASSUME NEW v \in Vars, Copy(v) PROVE Left' < Left
  <2>1. 3 * Cardinality(todo') = 3 * Cardinality(todo) - 3 /\ ctx' = ctx /\ ctx # "write"
    BY <1>5 DEF Copy, CopiesFor
  <2>. QED BY <1>5, <2>1 DEF Copy, Left
<1>6. CASE CopyDone
  <2>1. pc' \in {"erase", "mark"} /\ 3 * Cardinality(todo) = 0 /\ pc = "copy"
    BY <1>6 DEF CopyDone
  <2>2. Left = 3
    BY <2>1 DEF Left
  <2>3. Left' \in {1, 2}
    BY <2>1 DEF Left
  <2>. QED BY <2>2, <2>3
<1>7. CASE Erase
  BY <1>7 DEF Erase, Left
<1>8. CASE Mark
  BY <1>8 DEF Mark, Left
<1>9. ASSUME NEW p \in Pages, NEW to \in {"erase", "copy", "format"}, NEW for, Boot(p, to, for)
      PROVE  Left' < Left
  <2>1. todo' = Table \/ to # "copy"
    BY <1>9 DEF Boot
  <2>. QED BY <1>9, <2>1 DEF Boot, Left
<1>10. CASE BootFormat \/ \E p \in Pages : BootSettled(p) \/ BootReceived(p) \/ BootHalfCopied(p)
  BY <1>9, <1>10 DEF BootFormat, BootSettled, BootReceived, BootHalfCopied, Pages
<1>11. CASE Format
  BY <1>11 DEF Format, Left
<1>12. CASE Fail
  BY <1>12 DEF Fail, Left
<1>. QED BY <1>1, <1>2, <1>3, <1>4, <1>5, <1>6, <1>7, <1>8, <1>10, <1>11, <1>12 DEF Step

(* EE_WriteVariable, a page transfer and EE_Init each end after at most    *)
(* 3 |Table| + 7 steps, whatever the pages hold, also when an operation    *)
(* fails: every step but a power loss brings the end nearer.  No hypothesis*)
(* but that the table is finite.                                           *)
THEOREM CallsEnd ==
  ASSUME IsFiniteSet(Table)
  PROVE  Spec => StepsDown /\ [](Left \in 0..(Work + 7) /\ (Left = 0 <=> pc = "idle"))
<1>1. Init => CopiesFor
  BY DEF Init, CopiesFor
<1>2. TypeOK /\ TypeOK' /\ CopiesFor /\ [Next]_vars => [Step \/ Fail => Left' < Left]_vars
  BY StepBrings
<1>3. TypeOK => Left \in 0..(Work + 7) /\ (Left = 0 <=> pc = "idle")
  BY LeftBounded
<1>. QED BY <1>1, <1>2, <1>3, CopiesForStep, TypeCorrect, PTL DEF Spec, StepsDown

-----------------------------------------------------------------------------
(* The two promises the source breaks hold where its two gaps are closed.  *)

(* A step of the store changes a value by storing the data of the write    *)
(* that is under way, and in no other way.                                 *)
LEMMA StoresOnlyData ==
  ASSUME TypeOK, StoreStep, NEW v \in Vars
  PROVE  Stored(v)' = Stored(v) \/ (Job \in Requests /\ v = req.var /\ Stored(v)' = req.data)
<1>. DEFINE value == [w \in Vars |-> Stored(w)]
<1>1. value' = value \/ (Job # NoJob /\ value' = [value EXCEPT ![Job.var] = Job.data])
  BY DEF StoreStep, Store!Next, Store!Start, Store!Immediate, Store!TakeEffect, Store!Finish,
         Store!PowerLoss, Store!vars, Job
<1>2. value'[v] = Stored(v)' /\ value[v] = Stored(v)
  OBVIOUS
<1>3. CASE value' = value
  BY <1>2, <1>3
<1>4. CASE Job # NoJob /\ value' = [value EXCEPT ![Job.var] = Job.data]
  <2>1. Job = req /\ Job \in Requests
    BY <1>4 DEF Job, TypeOK
  <2>2. value'[v] = IF v = Job.var THEN Job.data ELSE value[v]
    BY <1>4
  <2>. QED BY <1>2, <2>1, <2>2
<1>. QED BY <1>1, <1>3, <1>4

(* With the variable and data of its own write in place, a transfer that   *)
(* erases or marks has nothing left to store.                              *)
LEMMA TransferStored ==
  ASSUME IInv, ctx = "transfer", pc \in {"erase", "mark"}
  PROVE  req.var \in Vars /\ Stored(req.var) = req.data
<1>1. TypeOK /\ InTransfer /\ Leads /\ new \in Pages
  BY DEF IInv, Phase, TypeOK
<1>2. req.var \in Vars
  BY <1>1 DEF TypeOK, Requests
<1>3. Last(new, req.var) = req.data /\ Holds(new, req.var) = req.data
  BY <1>1 DEF Leads, Leading
<1>4. HalfCopied(new) \/ Received(new)
  BY <1>1 DEF Old, InTransfer, Received, ErasedPage, Status
<1>5. StoredAs
  BY <1>1, StoredIs
<1>. QED BY <1>1, <1>2, <1>3, <1>4, <1>5 DEF StoredAs

(* "prevent the memory from getting erased in case of unstable voltage at  *)
(* boot": without a power loss in that one window of EE_Init no step of the*)
(* emulation, and no other power loss, leaves a stored variable without a  *)
(* value, so the window EepromBoot finds is the only one.                  *)
THEOREM NeverLostHolds == ASSUME Fits PROVE Spec => NeverLost
<1>1. ASSUME IInv, [Next]_vars, NEW v \in Vars, Stored(v) # None PROVE Stored(v)' # None
  <2>1. TypeOK /\ StoreStep
    BY <1>1, Inductive DEF IInv
  <2>2. Stored(v)' = Stored(v) \/ (Job \in Requests /\ Stored(v)' = req.data)
    BY <2>1, StoresOnlyData
  <2>3. Job \in Requests => req.data \in Data
    BY EepromAssumption DEF Job, Requests
  <2>. QED BY <1>1, <2>2, <2>3, EepromAssumption
<1>2. IInv /\ [Next]_vars => [\A v \in Vars : Stored(v) # None => Stored(v)' # None]_vars
  BY <1>1
<1>. QED BY <1>2, Invariance, PTL DEF Spec, NeverLost

(* "make sure that all relevant virtual addresses are assigned for page    *)
(* swapping": with every variable in VirtAddVarTab the erase and the mark  *)
(* that end a transfer change no variable, and no power loss there does.   *)
THEOREM KeptBySwapHolds == ASSUME Fits PROVE Spec => KeptBySwap
<1>1. ASSUME IInv, [Next]_vars, ctx = "transfer", pc \in {"erase", "mark"}, NEW v \in Vars
      PROVE  Stored(v)' = Stored(v)
  <2>1. TypeOK /\ StoreStep
    BY <1>1, Inductive DEF IInv
  <2>2. Stored(v)' = Stored(v) \/ (v = req.var /\ Stored(v)' = req.data)
    BY <2>1, StoresOnlyData
  <2>3. Stored(req.var) = req.data
    BY <1>1, TransferStored
  <2>. QED BY <2>2, <2>3
<1>2. IInv /\ [Next]_vars =>
        [ctx = "transfer" /\ pc \in {"erase", "mark"} =>
           \A v \in Vars : Stored(v)' = Stored(v)]_vars
  BY <1>1
<1>. QED BY <1>2, Invariance, PTL DEF Spec, KeptBySwap
=============================================================================

---------------------------- MODULE AbstractStore ----------------------------
(***************************************************************************)
(* What the EEPROM emulation promises: a set of variables, one write at a  *)
(* time, and a power supply that can fail at any moment.  A write that     *)
(* returns success has taken effect, one that fails or is cut off has taken*)
(* effect or not, and nothing else ever changes a value.                   *)
(***************************************************************************)
CONSTANTS
  Vars,     (* virtual addresses                                           *)
  Data,     (* 16 bit values                                               *)
  None,     (* a variable that has never been stored                       *)
  NoJob     (* no write is under way                                       *)

VARIABLES
  value,    \* what a variable holds, across restarts
  job,      \* the write under way
  result    \* what the last write returned

vars == <<value, job, result>>

Jobs == [var : Vars, data : Data]
Done == job # NoJob /\ value[job.var] = job.data

Init ==
  /\ value = [v \in Vars |-> None]
  /\ job = NoJob
  /\ result = "none"

Start(j) ==
  /\ job = NoJob
  /\ job' = j
  /\ UNCHANGED <<value, result>>

TakeEffect ==
  /\ job # NoJob
  /\ value' = [value EXCEPT ![job.var] = job.data]
  /\ UNCHANGED <<job, result>>

(* Only the first alternative reports success.  The last step of a write   *)
(* may be the one that takes effect.                                       *)
Finish ==
  /\ job # NoJob
  /\ value' \in {value, [value EXCEPT ![job.var] = job.data]}
  /\ job' = NoJob
  /\ result' \in {"error"} \cup (IF value'[job.var] = job.data THEN {"ok"} ELSE {})

(* Storing what is stored already, or a write refused before it starts.    *)
Immediate(j) ==
  /\ job = NoJob
  /\ result' \in {"error"} \cup (IF value[j.var] = j.data THEN {"ok"} ELSE {})
  /\ UNCHANGED <<value, job>>

PowerLoss ==
  /\ job' = NoJob
  /\ result' = "none"
  /\ UNCHANGED value

Next ==
  \/ \E j \in Jobs : Start(j) \/ Immediate(j)
  \/ TakeEffect \/ Finish \/ PowerLoss

Spec == Init /\ [][Next]_vars
=============================================================================

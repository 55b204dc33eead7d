----------------------------- MODULE MessageLink -----------------------------
(***************************************************************************)
(* What the CAN bus promises to comm_can_send_buffer: a message may get    *)
(* lost and messages may overtake each other, but what comes out has been  *)
(* put in, from the controller it names, byte for byte, and at most once.  *)
(* A receiver that was overrun can tear a frame, and each one it tears lets*)
(* at most one spoilt message through.                                     *)
(***************************************************************************)
EXTENDS Sequences, Naturals

CONSTANTS
  Message,      (* messages that can be sent, each of them different *)
  Spoilt        (* messages nobody sends                             *)

VARIABLES
  submitted,    \* messages handed over so far
  delivered,    \* messages that came out so far, in the order they did
  overrun,      \* the receiver has been overrun
  torn          \* the frame it is at is torn

Init == submitted = {} /\ delivered = <<>> /\ overrun = FALSE /\ torn = FALSE

Submit ==
  /\ submitted' # submitted
  /\ \E m \in Message : submitted' = submitted \cup {m}
  /\ UNCHANGED <<delivered, overrun, torn>>

Deliver(m) ==
  /\ ~torn
  /\ m \in submitted
  /\ \A i \in 1..Len(delivered) : delivered[i] # m
  /\ delivered' = Append(delivered, m)
  /\ UNCHANGED <<submitted, overrun, torn>>

Overrun == overrun' = TRUE /\ UNCHANGED <<submitted, delivered, torn>>

Tear ==
  /\ overrun /\ torn' = TRUE
  /\ UNCHANGED <<submitted, delivered, overrun>>

(* The torn frame is done with, and it may spoil the link.                 *)
Spoil ==
  /\ torn /\ torn' = FALSE
  /\ delivered' = delivered \/ \E m \in Spoilt : delivered' = Append(delivered, m)
  /\ UNCHANGED <<submitted, overrun>>

Next ==
  \/ \E m \in submitted : Deliver(m)
  \/ Submit \/ Overrun \/ Tear \/ Spoil

Spec == Init /\ [][Next]_<<submitted, delivered, overrun, torn>>
=============================================================================

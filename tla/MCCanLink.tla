------------------------------ MODULE MCCanLink ------------------------------
(***************************************************************************)
(* Model checking CanLink: two senders, frames of 3 bytes with one byte of *)
(* offset up to offset 2 and of 2 bytes above, buffers of 1 byte (a frame of*)
(* its own), 2 bytes (the frame is not full) and 6 bytes (frames of 3, 2 and*)
(* 1 bytes), and a ring of three frames, which one buffer fills up.        *)
(***************************************************************************)
EXTENDS CanLink

OwnId == [s \in Senders |-> IF s = CHOOSE t \in Senders : TRUE THEN 1 ELSE 2]
=============================================================================

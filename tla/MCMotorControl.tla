--------------------------- MODULE MCMotorControl ---------------------------
(***************************************************************************)
(* Model checking MotorControl.  The configurations give the threads and   *)
(* the fault codes as model values.  Nothing is added to the state or to   *)
(* the next-state relation; the thread sets have one element per run       *)
(* because a second thread of a kind only adds to the interleavings that   *)
(* the storing thread, the detection and the timeout thread already make.  *)
(***************************************************************************)
EXTENDS MotorControl
=============================================================================

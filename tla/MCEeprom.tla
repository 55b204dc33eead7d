------------------------------ MODULE MCEeprom ------------------------------
(***************************************************************************)
(* Model checking Eeprom: two variables, the value 0xFFFF and another one, *)
(* and pages just large enough for a transfer that is cut off in its first *)
(* slot and copied again in BootLosses + 1 attempts.                       *)
(***************************************************************************)
EXTENDS Eeprom

ASSUME PagesLargeEnough == Slots >= 1 + 2 * (BootLosses + 1)
=============================================================================

------------------------- MODULE MCConditionBridge -------------------------
(* The bridge instantiated for TLC: two 2-bit registers, one instruction   *)
(* address, two translated conditions.                                     *)
EXTENDS ConditionBridge

CONSTANTS r1, r2

MCRegs == {r1, r2}
=============================================================================

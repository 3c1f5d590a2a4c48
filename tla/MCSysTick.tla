------------------------------ MODULE MCSysTick ------------------------------
(* A SysTick with two-bit registers, where a reload of 3 is the 0xffffffff  *)
(* of the code.                                                             *)
EXTENDS SysTick
=============================================================================

------------------------------ MODULE MCV7mCpu ------------------------------
(***************************************************************************)
(* Instances of V7mCpu: a fault or the SysTick beside one external line.   *)
(* Guests that never touch PRIMASK or WFI, and write 0xd24 in thread mode  *)
(* only (Plain), are explored at a greater depth, where priority changes   *)
(* under active handlers and resets inside them lead to the walk of        *)
(* gic_complete_irq.                                                       *)
(***************************************************************************)
EXTENDS V7mCpu

MCTwoIrqs == {SYSTICK, 32}
MCFaultAndLine == {USAGE, 32}
MCPriorities == {0, 64, 128}
MCTwoPriorities == {0, 64}

Plain == ~primask' /\ ~halted' /\ (hist'.stale => exc' = 0)
=============================================================================

----------------------------- MODULE MCV7mStack -----------------------------
(***************************************************************************)
(* TLC instance of V7mStack: the stacks lie one above the other.           *)
(***************************************************************************)
EXTENDS V7mStack

MCPspTop == [t \in Tasks |-> IF t = MAIN THEN 100 ELSE 151]
=============================================================================

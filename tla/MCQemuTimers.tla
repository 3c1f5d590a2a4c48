---------------------------- MODULE MCQemuTimers ----------------------------
(***************************************************************************)
(* TLC instance of QemuTimers: two timers on vm_clock, which are           *)
(* exchangeable, and one on rt_clock.                                      *)
(***************************************************************************)
EXTENDS QemuTimers, TLC

MCDelays == {-1, 2}
MCSymmetry == Permutations(VmTimers)
=============================================================================

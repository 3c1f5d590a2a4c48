-------------------------- MODULE InterruptNesting --------------------------
(***************************************************************************)
(* What the interrupt controller and the exception logic of the CPU        *)
(* promise together: handlers nest like a stack, and the one that is       *)
(* entered is the best of the interrupts that are requested at that        *)
(* moment.                                                                 *)
(*                                                                         *)
(* loose marks the states for which nothing is promised.                   *)
(***************************************************************************)
EXTENDS Naturals, Sequences

CONSTANTS Irqs,       \* the interrupts
          Threshold,  \* the greatest priority value that is served
          Idle        \* the priority value of thread mode

VARIABLES requests,  \* the interrupts that are enabled and pending
          prio,      \* their priorities; a smaller value is more urgent
          stack,     \* the interrupts being handled, the running one last
          loose      \* nothing is promised

vars == <<requests, prio, stack, loose>>

Top == stack[Len(stack)]
RunningPrio == IF stack = <<>> THEN Idle ELSE prio[Top]

(* i comes before j: it is more urgent or, of two equal ones, the first. *)
Before(i, j) == prio[i] < prio[j] \/ (prio[i] = prio[j] /\ i <= j)

Best(i) == /\ i \in requests /\ prio[i] <= Threshold
           /\ \A j \in requests : Before(i, j)

Init == requests = {} /\ stack = <<>> /\ loose = FALSE

(* A handler is entered, and its request is taken away. *)
Enter(i) == /\ Best(i) /\ prio[i] < RunningPrio
            /\ stack' = Append(stack, i)
            /\ requests' = requests \ {i}
            /\ prio' = prio

(* The last handler returns; its interrupt may be requested again. *)
Leave == /\ stack # <<>>
         /\ stack' = SubSeq(stack, 1, Len(stack) - 1)
         /\ requests' \in {requests, requests \cup {Top}}
         /\ prio' = prio

(* Requests come and go, and priorities change, but not those in use. *)
Change == /\ stack' = stack
          /\ \A k \in DOMAIN stack : prio'[stack[k]] = prio[stack[k]]

Next == \/ loose \/ loose'
        \/ \E i \in Irqs : Enter(i)
        \/ Leave
        \/ Change

Spec == Init /\ [][Next]_vars
=============================================================================

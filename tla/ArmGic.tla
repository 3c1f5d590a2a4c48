------------------------------- MODULE ArmGic -------------------------------
(***************************************************************************)
(* The interrupt controller of the board: hw/arm_gic.c compiled for the    *)
(* NVIC, and the part of hw/armv7m_nvic.c that drives it.                  *)
(*                                                                         *)
(* gic is the C structure gic_state for its single CPU.  A bit that every  *)
(* interrupt has (enabled, pending, level) is the set of the interrupts    *)
(* that have it.  Interrupts are numbered as inside the GIC: below 16 the  *)
(* system exceptions, from 32 on the external lines.  line is the          *)
(* CPU_INTERRUPT_HARD request that parent_irq sets and clears.             *)
(*                                                                         *)
(* The bit "active" is left out: no code sets it, so every register that   *)
(* shows it reads 0.                                                       *)
(***************************************************************************)
EXTENDS Naturals, FiniteSets

CONSTANTS Irqs,       \* the interrupts that are modelled
          Priorities  \* the priorities that are written

ASSUME IrqsAssumption == Irqs \subseteq 0..95 /\ IsFiniteSet(Irqs)
ASSUME PrioritiesAssumption == Priorities \subseteq 0..255 /\ 0 \in Priorities

VARIABLES
    gic,   \* gic_state
    line,  \* CPU_INTERRUPT_HARD is requested
    fate,  \* "runs", or how the emulator stops for good
    hist   \* history, read by no action (see GicHistory)

gicVars == <<gic, line, fate, hist>>

GIC_NIRQ == 96
GIC_BASE_IRQ == 32       \* first interrupt of the registers at 0x100..0x7ff
None == 1023             \* no interrupt
IDLE_PRIORITY == 256     \* running_priority when none is active
PRIORITY_MASK == 240     \* priority_mask, which the NVIC never writes

NMI == 2
MEM == 4
BUS == 5
USAGE == 6
SVC == 11
DEBUG == 12
PENDSV == 14
SYSTICK == 15

External == {i \in Irqs : i >= GIC_BASE_IRQ}

(* Trigger bit 0: gic_reset makes those below 16 edge triggered. *)
LevelTriggered == {i \in Irqs : i >= 16}

GicState == [enabled : SUBSET Irqs, pending : SUBSET Irqs, level : SUBSET Irqs,
             priority : [Irqs -> Priorities],
             last_active : [Irqs -> Irqs \cup {0, None}],
             running_irq : Irqs \cup {None},
             running_priority : Priorities \cup {IDLE_PRIORITY},
             current_pending : Irqs \cup {None}]

(* History of the controller:                                              *)
(*   stale    the CPU line was not recomputed by gic_update since a write  *)
(*            to an enable bit, or was cleared by a reset of the CPU       *)
(*   cleared  raised interrupts whose pending bit the guest cleared last   *)
GicHistory == [stale : BOOLEAN, cleared : SUBSET Irqs]

-----------------------------------------------------------------------------
(* gic_reset, on the zeroed structure: last_active is not initialised. *)
ResetGic == [enabled |-> {i \in Irqs : i < 16}, pending |-> {}, level |-> {},
             priority |-> [i \in Irqs |-> 0],
             last_active |-> [i \in Irqs |-> 0],
             running_irq |-> None, running_priority |-> IDLE_PRIORITY,
             current_pending |-> None]

GicInit == /\ gic = ResetGic
           /\ line = FALSE
           /\ fate = "runs"
           /\ hist = [stale |-> FALSE, cleared |-> {}]

-----------------------------------------------------------------------------
(* gic_update *)

Candidates(g) == g.enabled \cap g.pending

(* The interrupt its loop selects: the first of those of least priority. *)
BestLast(g) ==  \* mutant: of equal priorities the last one (<= in the loop)
    IF Candidates(g) = {}
    THEN {None}
    ELSE {i \in Candidates(g) :
            \A j \in Candidates(g) :
               g.priority[i] < g.priority[j] \/ (g.priority[i] = g.priority[j] /\ i >= j)}
Best(g) ==
    IF Candidates(g) = {}
    THEN {None}
    ELSE {i \in Candidates(g) :
            \A j \in Candidates(g) :
               g.priority[i] < g.priority[j] \/ (g.priority[i] = g.priority[j] /\ i <= j)}

Unmasked(g, i) == i # None /\ g.priority[i] <= PRIORITY_MASK

PreemptsOrEqual(g, i) == i # None /\ g.priority[i] <= g.running_priority  \* mutant
Preempts(g, i) == i # None /\ g.priority[i] < g.running_priority

UpdateGic(g, cleared) ==
    \E best \in Best(g) :
       LET current == IF Unmasked(g, best) THEN best ELSE None
       IN  /\ gic' = [g EXCEPT !.current_pending = current]
           /\ line' = Preempts(g, current)
           /\ hist' = [stale |-> FALSE,
                       cleared |-> (cleared \cap g.level) \ g.pending]

-----------------------------------------------------------------------------
(* Raising and lowering interrupts *)

(* gic_set_pending_private, reached through armv7m_nvic_set_pending *)
SetPendingPrivate(i) ==
    /\ fate' = fate
    /\ IF i \in gic.pending
       THEN UNCHANGED <<gic, line, hist>>
       ELSE UpdateGic([gic EXCEPT !.pending = @ \cup {i}], hist.cleared)

(* gic_set_irq for an external line whose level changes; when the level is *)
(* the old one the function returns at once.                               *)
SetIrq(i, level) ==
    /\ level # (i \in gic.level)
    /\ fate' = fate
    /\ UpdateGic(IF level
                 THEN [gic EXCEPT !.level = @ \cup {i},
                                  !.pending = IF i \in gic.enabled
                                              THEN @ \cup {i} ELSE @]
                 ELSE [gic EXCEPT !.level = @ \ {i}], hist.cleared)

-----------------------------------------------------------------------------
(* gic_dist_write: the registers of the external interrupts.  A write      *)
(* names a set s of those that share a word.                               *)
RegisterWords == {{i \in External : i \div 32 = w} : w \in 1..2}

SetEnable(s) ==
    /\ fate' = fate
    /\ UpdateGic([gic EXCEPT !.enabled = @ \cup s,
                             !.pending = @ \cup (s \cap gic.level)], hist.cleared)

ClearEnableLate(s) ==  \* mutant: no gic_update
    /\ gic' = [gic EXCEPT !.enabled = @ \ s]
    /\ UNCHANGED <<line, fate, hist>>
ClearEnable(s) ==
    /\ fate' = fate
    /\ UpdateGic([gic EXCEPT !.enabled = @ \ s], hist.cleared)

SetPending(s) ==
    /\ fate' = fate
    /\ UpdateGic([gic EXCEPT !.pending = @ \cup s], hist.cleared)

ClearPending(s) ==
    /\ fate' = fate
    /\ UpdateGic([gic EXCEPT !.pending = @ \ s], hist.cleared \cup s)

(* The interrupts one access to the priority registers can change: a byte  *)
(* for an external one, a word of four for the system handlers.            *)
PriorityGroups == {{i} : i \in External}
                  \cup {{i \in Irqs : i \div 4 = w} : w \in 1..3}

WritePriorityLate(s, p) ==  \* mutant: no gic_update
    /\ fate' = fate
    /\ gic' = [gic EXCEPT !.priority = [i \in Irqs |-> IF i \in s THEN p[i] ELSE @[i]]]
    /\ UNCHANGED <<line, hist>>
WritePriority(s, p) ==
    /\ fate' = fate
    /\ UpdateGic([gic EXCEPT !.priority = [i \in Irqs |-> IF i \in s THEN p[i] ELSE @[i]]],
                 hist.cleared)

(* A write to 0xf00, for an interrupt that exists; the target mask may     *)
(* select no CPU.  The number is not offset by GIC_BASE_IRQ.               *)
SoftInt(i, mask) ==
    /\ fate' = fate
    /\ UpdateGic([gic EXCEPT !.pending = IF mask THEN @ \cup {i} ELSE @], hist.cleared)

-----------------------------------------------------------------------------
(* nvic_writel: the registers of the system exceptions *)

(* 0xd04: NMI, PendSV and SysTick are set or cleared; set wins. *)
WriteIcsr(set, clear) ==
    /\ fate' = fate
    /\ IF set \subseteq gic.pending /\ clear \subseteq set
       THEN UNCHANGED <<gic, line, hist>>
       ELSE UpdateGic([gic EXCEPT !.pending = (@ \ clear) \cup set], hist.cleared)

(* 0xd24: the enable bits are assigned and gic_update is not called. *)
WriteHandlerControl(on) ==
    /\ gic' = [gic EXCEPT !.enabled = (@ \ {MEM, BUS, USAGE}) \cup on]
    /\ hist' = [hist EXCEPT !.stale = TRUE]
    /\ UNCHANGED <<line, fate>>

-----------------------------------------------------------------------------
(* Acknowledging and completing *)

(* gic_set_running_irq *)
Running(g, i) ==
    [g EXCEPT !.running_irq = i,
              !.running_priority = IF i = None THEN IDLE_PRIORITY ELSE g.priority[i]]

(* armv7m_nvic_acknowledge_irq: hw_error when the GIC has no vector. *)
AcknowledgeUnlinked ==  \* mutant: last_active is not set
    /\ UpdateGic(Running([gic EXCEPT !.pending = @ \ {gic.current_pending}],
                         gic.current_pending), hist.cleared)
    /\ fate' = fate
Acknowledge ==
    LET new == gic.current_pending
    IN  IF Preempts(gic, new)
        THEN /\ UpdateGic(Running([gic EXCEPT !.last_active[new] = gic.running_irq,
                                              !.pending = @ \ {new}], new),
                          hist.cleared)
             /\ fate' = fate
        ELSE /\ fate' = "no_vector"
             /\ UNCHANGED <<gic, line, hist>>

(* A level triggered interrupt that is still raised and enabled. *)
StillRaisedNever(i) == FALSE  \* mutant: the level is not looked at again
StillRaised(i) == i \in LevelTriggered \cap gic.enabled \cap gic.level

(* The walk along last_active, from the running interrupt to the one whose *)
(* successor is i, or to the last one: where it is after so many steps     *)
(* that it has either stopped or goes round in a cycle.                    *)
WalkEnd(g, i) ==
    LET walk[n \in Nat] ==
          IF n = 0 THEN g.running_irq
          ELSE LET at == walk[n - 1]
               IN  IF g.last_active[at] \in {None, i} THEN at ELSE g.last_active[at]
    IN  walk[Cardinality(Irqs)]

(* gic_complete_irq: an interrupt that is still raised is pending again.   *)
(* One that is not the running one is unlinked from the chain.             *)
Complete(i) ==
    LET g == IF StillRaised(i) THEN [gic EXCEPT !.pending = @ \cup {i}] ELSE gic
        end == WalkEnd(g, i)
        unlinked == [g EXCEPT !.last_active[end] = IF @ = i THEN g.last_active[i] ELSE @]
    IN  \/ /\ gic.running_irq = None
           /\ UNCHANGED gicVars
        \/ /\ gic.running_irq = i
           /\ fate' = fate
           /\ UpdateGic(Running(g, g.last_active[i]), hist.cleared)
        \/ /\ gic.running_irq \notin {None, i}
           /\ g.last_active[end] \in {None, i}
           /\ fate' = fate
           /\ IF StillRaised(i)
              THEN UpdateGic(unlinked, hist.cleared)
              ELSE gic' = unlinked /\ UNCHANGED <<line, hist>>
        \/ /\ gic.running_irq \notin {None, i}
           /\ g.last_active[end] \notin {None, i}
           /\ fate' = "spins"
           /\ UNCHANGED <<gic, line, hist>>

(* cpu_reset clears the CPU's interrupt requests behind the GIC's back. *)
DropLine == /\ line' = FALSE
            /\ hist' = [hist EXCEPT !.stale = TRUE]
            /\ UNCHANGED <<gic, fate>>

-----------------------------------------------------------------------------
(* What the peripherals, the timer and the registers do to the controller. *)
Peripheral == \E i \in External, level \in BOOLEAN : SetIrq(i, level)

RegisterWrite ==
    \/ \E word \in RegisterWords : \E s \in SUBSET word :
          SetEnable(s) \/ ClearEnable(s) \/ SetPending(s) \/ ClearPending(s)
    \/ \E i \in Irqs, mask \in BOOLEAN : SoftInt(i, mask)
    \/ \E set \in SUBSET ({NMI, PENDSV, SYSTICK} \cap Irqs),
          clear \in SUBSET ({PENDSV, SYSTICK} \cap Irqs) : WriteIcsr(set, clear)
    \/ \E on \in SUBSET ({MEM, BUS, USAGE} \cap Irqs) : WriteHandlerControl(on)

-----------------------------------------------------------------------------
(* Types of the controller, the CPU line and the history. *)
GicTypeOK == /\ gic \in GicState
             /\ line \in BOOLEAN
             /\ fate \in {"runs", "no_vector", "spins"}
             /\ hist \in GicHistory

(* gic_update and gic_acknowledge_irq compare the same priorities at       *)
(* different times: whenever the CPU is asked to take an interrupt, the    *)
(* acknowledge still finds one, and hw_error("Interrupt but no vector") is *)
(* not reached.                                                            *)
RequestHasVector == /\ line => Preempts(gic, gic.current_pending)
                    /\ fate # "no_vector"

(* "Update interrupt status after enabled or pending bits have been        *)
(* changed" (arm_gic.c:110): the interrupt offered to the CPU is the best  *)
(* of those that are enabled and pending.                                  *)
OfferCurrent ==
    \E best \in Best(gic) :
       gic.current_pending = IF Unmasked(gic, best) THEN best ELSE None

(* The offered interrupt is the best one, and the CPU line is up exactly   *)
(* when it preempts, except after a write to 0xd24 or a CPU reset.         *)
StatusCurrentUnlessStale ==
    ~hist.stale => OfferCurrent /\ line = Preempts(gic, gic.current_pending)

(* gic_reset leaves the zeros of the allocation in last_active: nothing    *)
(* that gic_complete_irq or the RETTOBASE read follows is one of them.     *)
LastActiveDefined ==
    LET acked == {i \in Irqs : gic.last_active[i] # 0}
    IN  /\ gic.running_irq \in acked \cup {None}
        /\ \A i \in acked : gic.last_active[i] \in acked \cup {None}
=============================================================================

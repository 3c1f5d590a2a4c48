------------------------------- MODULE V7mCpu -------------------------------
(***************************************************************************)
(* Exception entry and return of the Cortex-M3 (cpu-exec.c and             *)
(* target-arm/helper.c), composed with its interrupt controller (ArmGic).  *)
(*                                                                         *)
(* The guest is any program whose handlers return through the value that   *)
(* exception entry left in lr.  Its data is left out: a stack frame is the *)
(* exception number in its xPSR, and whether its pc is a magic address.    *)
(*                                                                         *)
(* Actors: the CPU thread, which tests the request line before every block *)
(* of guest code, the peripherals and the SysTick timer, which run under   *)
(* the same lock between two blocks, and the monitor, which may reset the  *)
(* machine.  A block goes on after a register write that raises the line;  *)
(* every other step of the guest below ends it.                            *)
(***************************************************************************)
EXTENDS ArmGic, Sequences

CONSTANT MaxFrames   \* bound on the depth of the exception stack

ASSUME FramesAssumption == MaxFrames \in Nat
ASSUME VectorsAssumption == \A i \in Irqs : i \in 1..15 \/ i >= GIC_BASE_IRQ

VARIABLES
    exc,      \* env->v7m.exception, 0 in thread mode
    frames,   \* the frames exception entry pushed, the last one on top
    magic,    \* pc holds a magic address (0xfffffff0 or above)
    primask,  \* the CPSR_I bit
    halted,   \* the CPU sleeps in WFI
    block,    \* the CPU is inside a block of guest code
    sane      \* history: no reset inside a handler, no change of the
              \* priority of an active interrupt

cpuVars == <<exc, frames, magic, primask, halted, block, sane>>
vars == <<gicVars, cpuVars>>

-----------------------------------------------------------------------------
(* The two numberings: "the external routines use the hardware vector      *)
(* numbering, the internal GIC routines use #32 as the first IRQ".         *)
VectorOf(i) == IF i >= 32 THEN i - 16 ELSE i
IrqOfShort(v) == v   \* mutant: the vector is not converted
IrqOf(v) == IF v >= 16 THEN v + 16 ELSE v

Vectors == {VectorOf(i) : i \in Irqs}
Frame == [exc : Vectors \cup {0}, magic : BOOLEAN]

(* The interrupts that have been taken and have not returned. *)
Active == {IrqOf(exc)} \cup {IrqOf(frames[k].exc) : k \in DOMAIN frames}

Init == /\ GicInit
        /\ exc = 0
        /\ frames = <<>>
        /\ magic = FALSE
        /\ primask = FALSE
        /\ halted = FALSE
        /\ block = FALSE
        /\ sane = TRUE

-----------------------------------------------------------------------------
(* Once hw_error or an endless loop has stopped the emulator, its state is *)
(* of no consequence.                                                      *)
Runs == fate = "runs"

(* cpu_exec: an interrupt is accepted at a normal pc, or at any pc while   *)
(* PRIMASK is clear.                                                       *)
Accepts == Runs /\ line /\ ~block /\ ~halted /\ (~magic \/ ~primask)

(* do_interrupt_v7m(EXCP_IRQ) *)
TakeIrq == /\ Accepts
           /\ Len(frames) < MaxFrames
           /\ Acknowledge
           /\ exc' = VectorOf(gic.current_pending)
           /\ frames' = Append(frames, [exc |-> exc, magic |-> magic])
           /\ magic' = FALSE
           /\ UNCHANGED <<primask, halted, block, sane>>

(* do_v7m_exception_exit, when the CPU tries to execute a magic address *)
ExceptionExit ==
    /\ Runs /\ magic /\ ~halted /\ ~Accepts
    /\ Complete(IrqOf(exc))
    /\ LET top == frames[Len(frames)]
       IN  exc' = top.exc /\ magic' = top.magic
    /\ frames' = SubSeq(frames, 1, Len(frames) - 1)
    /\ UNCHANGED <<primask, halted, block, sane>>

-----------------------------------------------------------------------------
(* Guest instructions *)
Executes == Runs /\ ~halted /\ ~magic /\ (block \/ ~line)

(* A handler jumps to the address in lr. *)
HandlerReturns == /\ Executes /\ exc # 0
                  /\ magic' = TRUE
                  /\ block' = FALSE
                  /\ UNCHANGED <<gicVars, exc, frames, primask, halted, sane>>

(* do_interrupt_v7m for a synchronous exception only marks it pending. *)
Raise(i) == /\ Executes /\ i \in {MEM, USAGE, SVC, DEBUG}
            /\ SetPendingPrivate(i)
            /\ block' = FALSE
            /\ UNCHANGED <<exc, frames, magic, primask, halted, sane>>

(* v7m_msr(PRIMASK) *)
MsrPrimask == /\ Executes
              /\ primask' = ~primask
              /\ block' = FALSE
              /\ UNCHANGED <<gicVars, exc, frames, magic, halted, sane>>

(* WFI, used in thread mode *)
Wfi == /\ Executes /\ exc = 0
       /\ halted' = TRUE
       /\ block' = FALSE
       /\ UNCHANGED <<gicVars, exc, frames, magic, primask, sane>>

(* cpu_exec: a halted CPU runs again when it has work. *)
WakeUnmasked ==  \* mutant: PRIMASK keeps the CPU asleep
    /\ Runs /\ halted /\ line /\ ~primask
    /\ halted' = FALSE
    /\ UNCHANGED <<gicVars, exc, frames, magic, primask, block, sane>>
Wake == /\ Runs /\ halted /\ line
        /\ halted' = FALSE
        /\ UNCHANGED <<gicVars, exc, frames, magic, primask, block, sane>>

Register == /\ Executes
            /\ RegisterWrite
            /\ block' = TRUE
            /\ UNCHANGED <<exc, frames, magic, primask, halted, sane>>

ChangePriority(s, p) ==
    /\ Executes
    /\ WritePriority(s, p)
    /\ block' = TRUE
    /\ sane' = (sane /\ \A i \in s \cap Active : p[i] = gic.priority[i])
    /\ UNCHANGED <<exc, frames, magic, primask, halted>>

EndBlock == /\ Runs /\ block
            /\ block' = FALSE
            /\ UNCHANGED <<gicVars, exc, frames, magic, primask, halted, sane>>

-----------------------------------------------------------------------------
(* The rest of the machine *)
Timer == /\ Runs /\ ~block /\ SYSTICK \in Irqs
         /\ SetPendingPrivate(SYSTICK)
         /\ UNCHANGED cpuVars

Line == Runs /\ ~block /\ Peripheral /\ UNCHANGED cpuVars

(* armv7m_reset resets the CPU and not the NVIC. *)
Reset == /\ Runs /\ ~block
         /\ DropLine
         /\ exc' = 0 /\ frames' = <<>> /\ magic' = FALSE
         /\ primask' = FALSE /\ halted' = FALSE /\ block' = FALSE
         /\ sane' = (sane /\ exc = 0)

Stopped == ~Runs /\ UNCHANGED vars

Next == \/ TakeIrq \/ ExceptionExit \/ HandlerReturns \/ Wake
        \/ \E i \in Irqs : Raise(i)
        \/ MsrPrimask \/ Wfi \/ Register \/ EndBlock
        \/ \E s \in PriorityGroups : \E p \in [s -> Priorities] : ChangePriority(s, p)
        \/ Timer \/ Line \/ Reset
        \/ Stopped

Spec == Init /\ [][Next]_vars

(* The CPU thread keeps running, blocks end and handlers return. *)
Fairness == /\ WF_vars(TakeIrq)
            /\ WF_vars(EndBlock)
            /\ WF_vars(ExceptionExit)
            /\ WF_vars(HandlerReturns)
            /\ WF_vars(Wake)

FairSpec == Spec /\ Fairness

-----------------------------------------------------------------------------
(* nvic_readl, the Interrupt Control State Register *)
IcsrInternal ==  \* mutant: VECTACTIVE is the number inside the GIC
    [vectactive |-> IF gic.running_irq = None THEN 0 ELSE gic.running_irq,
     rettobase |-> \/ gic.running_irq = None
                   \/ gic.last_active[gic.running_irq] = None,
     vectpending |-> IF gic.current_pending = None THEN 0 ELSE gic.current_pending]
Icsr == [vectactive |-> IF gic.running_irq = None THEN 0 ELSE VectorOf(gic.running_irq),
         rettobase |-> \/ gic.running_irq = None
                       \/ gic.last_active[gic.running_irq] = None,
         vectpending |-> IF gic.current_pending = None THEN 0 ELSE gic.current_pending]

-----------------------------------------------------------------------------
(* Types of the CPU and of its interrupt controller. *)
TypeOK == /\ GicTypeOK
          /\ exc \in Vectors \cup {0}
          /\ frames \in Seq(Frame)
          /\ magic \in BOOLEAN /\ primask \in BOOLEAN
          /\ halted \in BOOLEAN /\ block \in BOOLEAN /\ sane \in BOOLEAN

(* The exception numbers on the CPU's stack and the GIC's chain of         *)
(* last_active, two records of the same nesting, agree at every depth.     *)
Depth == Len(frames) + 1
ExcAt(k) == IF k = Depth THEN exc ELSE frames[k].exc
GicIrq(v) == IF v = 0 THEN None ELSE IrqOf(v)

StackMatchesChain ==
    sane => /\ gic.running_irq = GicIrq(exc)
            /\ ExcAt(1) = 0
            /\ \A k \in 2..Depth :
                  /\ ExcAt(k) # 0
                  /\ gic.last_active[IrqOf(ExcAt(k))] = GicIrq(ExcAt(k - 1))

(* A handler is only interrupted by one of strictly lower priority value,  *)
(* so none is entered twice, and the priority the GIC compares with is     *)
(* that of the handler the CPU runs, after returns as after entries.       *)
PreemptionIsStrict ==
    sane => /\ gic.running_priority =
                 IF exc = 0 THEN IDLE_PRIORITY ELSE gic.priority[IrqOf(exc)]
            /\ \A j, k \in 2..Depth :
                  j < k => gic.priority[IrqOf(ExcAt(k))] < gic.priority[IrqOf(ExcAt(j))]

(* A raised and enabled external line is pending or being handled, unless  *)
(* the guest itself cleared its pending bit: gic_set_irq, the set-enable   *)
(* register and gic_complete_irq together forget no level.                 *)
LevelNotLost ==
    sane => \A i \in External \cap gic.level \cap gic.enabled :
               i \in gic.pending \/ i \in Active \/ i \in hist.cleared

(* gic_complete_irq always ends, and the acknowledge always has a vector. *)
EmulatorRuns == sane => fate = "runs"

(* A handler that reads the ICSR finds its own number there, and learns    *)
(* from RETTOBASE whether its return leads to thread mode.                 *)
IcsrShowsStack ==
    sane => Icsr.vectactive = exc /\ (Icsr.rettobase <=> Len(frames) <= 1)

(* "The external routines use the hardware vector numbering, ie. the first *)
(* IRQ is #16" (armv7m_nvic.c:88-89): VECTPENDING is the number of the     *)
(* exception that the CPU would enter.                                     *)
IcsrShowsNext ==
    line => Icsr.vectpending = VectorOf(gic.current_pending)

(* The interrupt the GIC offers is not left waiting: it is taken, or a     *)
(* better one takes its place, or it is withdrawn, through WFI, nested     *)
(* handlers and returns.  A write to 0xd24 or a reset may leave it behind. *)
OfferedIsTaken ==
    \A i \in Irqs : gic.current_pending = i
                      ~> (gic.current_pending # i \/ hist.stale \/ ~sane)

(* The stack of handlers, as InterruptNesting sees it.  It promises        *)
(* nothing once a priority in use was changed or the CPU was reset in a    *)
(* handler, and until the next gic_update after a write to 0xd24 or a      *)
(* reset.                                                                  *)
HandlerStack == [k \in 1..Len(frames) |-> IrqOf(ExcAt(k + 1))]

Nesting == INSTANCE InterruptNesting
             WITH Threshold <- PRIORITY_MASK, Idle <- IDLE_PRIORITY,
                  requests <- gic.enabled \cap gic.pending,
                  prio <- gic.priority,
                  stack <- HandlerStack,
                  loose <- ~sane \/ hist.stale \/ fate # "runs"

(* The GIC's registers and chain, the acknowledge and complete callbacks   *)
(* and the CPU's frames implement the nesting of interrupts: the handler   *)
(* that is entered is the best of those requested at that very moment, and *)
(* handlers leave in the reverse order.                                    *)
HandlersNest == Nesting!Spec
=============================================================================

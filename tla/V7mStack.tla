------------------------------ MODULE V7mStack ------------------------------
(***************************************************************************)
(* The two stack pointers of the Cortex-M3 and the frames that exception   *)
(* entry and return keep in memory (target-arm/helper.c).  V7mCpu decides  *)
(* when an exception is taken; here any handler of a smaller number may    *)
(* interrupt the running one.                                              *)
(*                                                                         *)
(* The guest is a small kernel.  Two tasks run on the process stack; the   *)
(* lowest handler, KERNEL, exchanges them by reading and writing PSP, and  *)
(* may itself be interrupted between the two.  Every context pushes and    *)
(* pops words of its own.                                                  *)
(*                                                                         *)
(* Addresses count words: bit 2 of a byte address is the parity of a word  *)
(* address.  A word in memory is a record: whose registers it holds, and   *)
(* for the two words that matter to the CPU the saved pc and xPSR.  What a *)
(* word holds once it is popped is forgotten.                              *)
(***************************************************************************)
EXTENDS Integers, FiniteSets

CONSTANTS MaxNest,   \* handlers 1..MaxNest, MaxNest is the kernel's
          MaxWords,  \* words a context has on one stack at a time
          MspTop,    \* initial main stack pointer
          PspTop     \* PspTop[t], top of the stack of task t

VARIABLES
    sp, other_sp, current_sp, control,  \* regs[13] and env->v7m
    exc,      \* env->v7m.exception, 0 in thread mode
    who,      \* the context whose registers are in the CPU
    pc,       \* an address of the program, or the EXC_RETURN to execute
    lr,       \* the EXC_RETURN each handler was entered with
    mem,      \* the words in memory
    cur,      \* the task that runs, in the kernel's opinion
    table,    \* the kernel's saved PSP of each task
    phase,    \* the kernel has saved PSP and not loaded it yet
    words,    \* words each context has on each of the two stacks
    saved,    \* history: stack pointers, bank and frame of an interrupted context
    mixed     \* history: the last write to CONTROL was made in a handler

vars == <<sp, other_sp, current_sp, control, exc, who, pc, lr, mem, cur, table,
          phase, words, saved, mixed>>

Handlers == 1..MaxNest
KERNEL == MaxNest
MAIN == MaxNest + 1      \* the task that starts, on the main stack
SECOND == MaxNest + 2    \* the task the kernel has prepared
Tasks == {MAIN, SECOND}
Contexts == Handlers \cup Tasks
FRAME == 8              \* words of a frame: r0-r3, r12, lr, pc, xPSR
PC == 6
XPSR == 7
CODE == 2               \* pc is an ordinary address; 0 and 1 are the
                        \* EXC_RETURN values that select MSP and PSP

ASSUME StackAssumption ==
    /\ MaxNest \in Nat \ {0} /\ MaxWords \in Nat
    /\ MspTop \in Nat /\ PspTop \in [Tasks -> Nat]

Word == [own : Contexts, reg : 0..FRAME, pc : 0..2, exc : 0..MaxNest, align : 0..1]

(* The region below each top is large enough for what the guest does. *)
Room == MaxWords + MaxNest * (FRAME + 1 + MaxWords)
Region(top) == (top - Room)..(top - 1)
Addresses == UNION {Region(top) : top \in {MspTop, PspTop[MAIN], PspTop[SECOND]}}

(* The guest keeps its three stacks apart. *)
ASSUME LayoutAssumption ==
    /\ MspTop >= Room /\ \A t \in Tasks : PspTop[t] >= Room
    /\ \A t \in Tasks : Region(MspTop) \cap Region(PspTop[t]) = {}
    /\ Region(PspTop[MAIN]) \cap Region(PspTop[SECOND]) = {}

(* Register n of context c, as a frame holds it; n = FRAME is no register  *)
(* but a word that the context has pushed itself.                          *)
Plain(c, n) == [own |-> c, reg |-> n, pc |-> CODE, exc |-> 0, align |-> 0]
Dead == Plain(MAIN, FRAME)

NotSaved == [sp |-> 0, other |-> 0, bank |-> 0, base |-> 0]

-----------------------------------------------------------------------------
(* cpu_reset loads MSP; the kernel's table holds a frame for SECOND. *)
Init == /\ sp = MspTop
        /\ other_sp = PspTop[MAIN]
        /\ current_sp = 0 /\ control = 0
        /\ exc = 0
        /\ who = MAIN
        /\ pc = CODE
        /\ lr = [v \in Handlers |-> CODE]
        /\ mem = [a \in Addresses |->
                    IF a \in (PspTop[SECOND] - FRAME)..(PspTop[SECOND] - 1)
                    THEN Plain(SECOND, a - (PspTop[SECOND] - FRAME)) ELSE Dead]
        /\ cur = MAIN
        /\ table = [t \in Tasks |-> PspTop[t] - FRAME]
        /\ phase = 0
        /\ words = [c \in Contexts |-> [b \in 0..1 |-> 0]]
        /\ saved = [c \in Contexts |-> IF c = SECOND
                                       THEN [sp |-> PspTop[SECOND], other |-> MspTop,
                                             bank |-> 1, base |-> PspTop[SECOND] - FRAME]
                                       ELSE NotSaved]
        /\ mixed = 0

-----------------------------------------------------------------------------
(* switch_v7m_sp: the stack pointers when bank b was current with main     *)
(* pointer s and other pointer o, and process is selected.                 *)
SwitchSp(s, o, b, process) ==
    IF b # process THEN [sp |-> o, other |-> s, bank |-> process]
                   ELSE [sp |-> s, other |-> o, bank |-> b]

SetSp(r) == sp' = r.sp /\ other_sp' = r.other /\ current_sp' = r.bank

(* v7m_mrs and v7m_msr for PSP *)
MrsPsp == IF current_sp = 1 THEN sp ELSE other_sp
MsrPsp(val) == IF current_sp = 1
               THEN sp' = val /\ UNCHANGED <<other_sp, current_sp>>
               ELSE other_sp' = val /\ UNCHANGED <<sp, current_sp>>

-----------------------------------------------------------------------------
(* do_interrupt_v7m for an interrupt that the NVIC acknowledges as v *)

(* The frame starts at a multiple of two words. *)
AlignedSpUp(s) == s + (s % 2)  \* mutant: the pointer is moved the other way
AlignedSp(s) == s - (s % 2)

(* xPSR is read before v7m.exception is assigned. *)
PushedExcNew(v) == v  \* mutant: it is read after
PushedExc(v) == exc

(* Word a of the frame at base *)
FrameWord(v, base, a) ==
    [own |-> who, reg |-> a - base,
     pc |-> IF a = base + PC THEN pc ELSE CODE,
     exc |-> IF a = base + XPSR THEN PushedExc(v) ELSE 0,
     align |-> IF a = base + XPSR THEN sp % 2 ELSE 0]

EntryBankKept == current_sp  \* mutant: the handler stays on the stack in use
EntryBank == 0

Enter(v) ==
    LET base == AlignedSp(sp) - FRAME
    IN  /\ exc = 0 \/ v < exc
        /\ exc' = v
        /\ mem' = [a \in Addresses |->
                     IF a \in base..(base + FRAME - 1)
                     THEN FrameWord(v, base, a) ELSE mem[a]]
        /\ SetSp(SwitchSp(base, other_sp, current_sp, EntryBank))
        /\ lr' = [lr EXCEPT ![v] = current_sp]
        /\ who' = v
        /\ pc' = CODE
        /\ words' = [words EXCEPT ![v] = [b \in 0..1 |-> 0]]
        /\ saved' = [saved EXCEPT ![who] = [sp |-> sp, other |-> other_sp,
                                            bank |-> current_sp, base |-> base]]
        /\ UNCHANGED <<control, cur, table, phase, mixed>>

(* do_v7m_exception_exit, when pc is an EXC_RETURN *)
UndoAlignNever(s, align) == s  \* mutant: the word of the alignment is kept
UndoAlign(s, align) == IF align = 1 /\ s % 2 = 0 THEN s + 1 ELSE s  \* sp |= 4

Exit == /\ pc # CODE
        /\ LET r == SwitchSp(sp, other_sp, current_sp, pc)
               xpsr == mem[r.sp + XPSR]
           IN  /\ SetSp([r EXCEPT !.sp = UndoAlign(r.sp + FRAME, xpsr.align)])
               /\ exc' = xpsr.exc
               /\ who' = mem[r.sp].own
               /\ pc' = mem[r.sp + PC].pc
               /\ mem' = [a \in Addresses |-> IF a \in r.sp..(r.sp + FRAME - 1)
                                              THEN Dead ELSE mem[a]]
        /\ lr' = [lr EXCEPT ![exc] = CODE]
        /\ saved' = [saved EXCEPT ![who'] = NotSaved]
        /\ UNCHANGED <<control, cur, table, phase, words, mixed>>

-----------------------------------------------------------------------------
(* The guest *)
Running == pc = CODE

(* push and pop of one word *)
Push == /\ Running /\ words[who][current_sp] < MaxWords
        /\ sp' = sp - 1
        /\ mem' = [mem EXCEPT ![sp - 1] = Plain(who, FRAME)]
        /\ words' = [words EXCEPT ![who][current_sp] = @ + 1]
        /\ UNCHANGED <<other_sp, current_sp, control, exc, who, pc, lr, cur, table,
                       phase, saved, mixed>>

Pop == /\ Running /\ words[who][current_sp] > 0
       /\ sp' = sp + 1
       /\ mem' = [mem EXCEPT ![sp] = Dead]
       /\ words' = [words EXCEPT ![who][current_sp] = @ - 1]
       /\ UNCHANGED <<other_sp, current_sp, control, exc, who, pc, lr, cur, table,
                      phase, saved, mixed>>

(* A handler has popped what it pushed and branches to its lr. *)
Branch == /\ Running /\ exc # 0 /\ words[who][current_sp] = 0
          /\ exc = KERNEL => phase = 0
          /\ pc' = lr[exc]
          /\ UNCHANGED <<sp, other_sp, current_sp, control, exc, who, lr, mem, cur,
                         table, phase, words, saved, mixed>>

(* Bit 1 of CONTROL *)
SpselRaw(val) == val  \* mutant: val & 2 is not reduced to 0 or 1
Spsel(val) == val \div 2

(* v7m_msr(CONTROL), by the task that starts on MSP, or by a handler whose *)
(* stack is empty: the code makes no difference between the two modes.     *)
MsrControl(val) ==
    /\ Running
    /\ IF exc = 0 THEN who = MAIN ELSE words[who][current_sp] = 0
    /\ control' = val
    /\ SetSp(SwitchSp(sp, other_sp, current_sp, Spsel(val)))
    /\ mixed' = IF exc = 0 THEN 0 ELSE 1
    /\ UNCHANGED <<exc, who, pc, lr, mem, cur, table, phase, words, saved>>

(* The kernel interrupted a task on its process stack: it saves PSP. *)
SavePsp == /\ Running /\ exc = KERNEL /\ lr[KERNEL] = 1 /\ phase = 0
           /\ words[who][1] = 0
           /\ table' = [table EXCEPT ![cur] = MrsPsp]
           /\ phase' = 1
           /\ UNCHANGED <<sp, other_sp, current_sp, control, exc, who, pc, lr, mem,
                          cur, words, saved, mixed>>

LoadPsp(t) == /\ Running /\ exc = KERNEL /\ phase = 1
              /\ words[who][1] = 0
              /\ MsrPsp(table[t])
              /\ cur' = t
              /\ phase' = 0
              /\ UNCHANGED <<control, exc, who, pc, lr, mem, table, words, saved,
                             mixed>>

Next == \/ \E v \in Handlers : Enter(v)
        \/ Exit
        \/ Push \/ Pop \/ Branch
        \/ \E val \in {0, 2} : MsrControl(val)
        \/ SavePsp
        \/ \E t \in Tasks : LoadPsp(t)

Spec == Init /\ [][Next]_vars

-----------------------------------------------------------------------------
(* Types of the registers, the memory and the kernel's variables. *)
TypeOK == /\ sp \in Nat /\ other_sp \in Nat
          /\ current_sp \in 0..1 /\ control \in {0, 2}
          /\ exc \in 0..MaxNest
          /\ who \in Contexts
          /\ pc \in 0..2
          /\ lr \in [Handlers -> 0..2]
          /\ mem \in [Addresses -> Word]
          /\ cur \in Tasks
          /\ table \in [Tasks -> Nat]
          /\ phase \in 0..1
          /\ words \in [Contexts -> [0..1 -> 0..MaxWords]]
          /\ saved \in [Contexts -> [sp : Nat, other : Nat, bank : 0..1, base : Nat]]
          /\ mixed \in 0..1

(* do_interrupt_v7m and do_v7m_exception_exit: a return gives the context  *)
(* that resumes the stack pointer and the stack it was interrupted with,   *)
(* whatever was nested, aligned or exchanged in between, and a handler the *)
(* other stack pointer too.                                                *)
ReturnRestores ==
    [][Exit => /\ sp' = saved[who'].sp
               /\ current_sp' = saved[who'].bank
               /\ who' \in Handlers => other_sp' = saved[who'].other]_vars

(* The registers in the CPU are those of the context that xPSR and the     *)
(* kernel say is running: a handler its own, a thread those of the current *)
(* task.                                                                   *)
RightContext == who = IF exc = 0 THEN cur ELSE exc

(* switch_v7m_sp: handlers run on the main stack, and a thread on the one  *)
(* that CONTROL selects, although entry and return never touch CONTROL.    *)
(* Only a write to CONTROL in a handler separates them, until a thread     *)
(* writes it.                                                              *)
BankFollowsControl ==
    mixed = 0 => current_sp = IF exc = 0 THEN Spsel(control) ELSE 0

(* The words a context has pushed and not popped. *)
Pushed(c) ==
    IF c = who THEN sp..(sp + words[c][current_sp] - 1)
               ELSE saved[c].sp..(saved[c].sp + words[c][saved[c].bank] - 1)

(* Frames and words never overlap: what a context has on the stack it runs *)
(* on, or was interrupted on, is still there.                              *)
WordsIntact == \A c \in Contexts : \A a \in Pushed(c) : mem[a] = Plain(c, FRAME)
=============================================================================

------------------------------- MODULE IoThread -------------------------------
(***************************************************************************)
(* The two threads of the emulator (cpus.c, cpu-exec.c, main-loop.c, vl.c): *)
(* the TCG thread, which executes guest code with the global mutex held,   *)
(* and the I/O thread, which runs device handlers and timers with the same *)
(* mutex.  The I/O thread gets the mutex from a CPU that may be in an      *)
(* endless chain of translated blocks by a signal (SIG_IPI) whose handler  *)
(* runs in the TCG thread between any two of its steps.                    *)
(*                                                                         *)
(* cpu and io are program counters.  A state whose name ends in _wait      *)
(* sleeps on a condition variable; one that ends in _lock has been woken   *)
(* and waits for the mutex.                                                *)
(***************************************************************************)
EXTENDS Naturals

CONSTANT MaxSpurious   \* bound on wakeups that no one asked for

ASSUME SpuriousAssumption == MaxSpurious \in Nat

VARIABLES
    mutex,          \* qemu_global_mutex: "free", "cpu" or "io"
    cpu, io,        \* where the two threads are
    requesting,     \* iothread_requesting_mutex
    sig,            \* SIG_IPI sent and not yet delivered
    exit_request,   \* the global flag of that name
    env_exit,       \* env->exit_request
    single,         \* cpu_single_env # NULL
    current,        \* env->current_tb # NULL
    linked,         \* the block being executed may jump to others for ever
    stop, stopped,  \* env->stop, env->stopped
    running,        \* runstate_is_running()
    halted, work,   \* env->halted, cpu_has_work(env)
    purpose,        \* what pause_all_vcpus was called for
    spurious        \* unasked wakeups so far

flags == <<requesting, sig, exit_request, env_exit, single, current, linked>>
runvars == <<stop, stopped, running>>
guest == <<halted, work>>
vars == <<mutex, cpu, io, flags, runvars, guest, purpose, spurious>>

\* The part of cpu_exec from setting cpu_single_env to clearing it.
InExec == {"seen", "loop", "tb", "recheck", "run", "clear", "ret", "ret_debug"}
CpuHolding == InExec \cup
    {"init", "all", "can", "exec", "single", "end", "idle", "proceed", "common"}
CpuWaiting == {"init_wait", "halt_wait", "io_wait"}
CpuLocking == {"init_lock", "halt_lock", "io_lock"}
IoHolding == {"loop", "got", "pause", "paused"}
IoOther == {"select", "try", "kick", "lock", "pause_wait", "pause_lock"}

\* The state when main() enters main_loop: the TCG thread has been told to
\* leave its first wait; -S leaves the machine stopped.
Init ==
    /\ mutex = "io" /\ io = "loop" /\ cpu = "init_lock"
    /\ requesting = 0 /\ sig = 0
    /\ exit_request = 0 /\ env_exit = 0
    /\ single = 0 /\ current = 0 /\ linked = 0
    /\ stop = 0 /\ stopped = 0 /\ running \in {0, 1}
    /\ halted = 0 /\ work = 0
    /\ purpose = "none" /\ spurious = 0

-----------------------------------------------------------------------------
(* The TCG thread.                                                         *)

\* while (first_cpu->stopped) wait
InitLoop ==
    /\ cpu = "init"
    /\ \/ stopped = 1 /\ cpu' = "init_wait" /\ mutex' = "free"
       \/ stopped = 0 /\ cpu' = "all" /\ UNCHANGED mutex
    /\ UNCHANGED <<io, flags, runvars, guest, purpose, spurious>>

\* tcg_exec_all: the loop test
ExecAll ==
    /\ cpu = "all"
    /\ cpu' = IF exit_request = 1 THEN "end" ELSE "can"
    /\ UNCHANGED <<mutex, io, flags, runvars, guest, purpose, spurious>>

cpu_can_run_stopped == stop = 0 /\ stopped = 0  \* mutant: the run state is not tested
cpu_can_run == stop = 0 /\ stopped = 0 /\ running = 1

\* ... and its body
CanRun ==
    /\ cpu = "can"
    /\ cpu' = IF cpu_can_run THEN "exec" ELSE "end"
    /\ UNCHANGED <<mutex, io, flags, runvars, guest, purpose, spurious>>

\* cpu_exec: a halted CPU without work returns at once
ExecEnter ==
    /\ cpu = "exec"
    /\ \/ halted = 1 /\ work = 0 /\ cpu' = "end" /\ UNCHANGED halted
       \/ (halted = 0 \/ work = 1) /\ cpu' = "single" /\ halted' = 0
    /\ UNCHANGED <<mutex, io, flags, runvars, work, purpose, spurious>>

SetSingle ==
    /\ cpu = "single" /\ cpu' = "seen"
    /\ single' = 1
    /\ UNCHANGED <<mutex, io, requesting, sig, exit_request, env_exit, current,
                   linked, runvars, guest, purpose, spurious>>

\* if (unlikely(exit_request)) env->exit_request = 1
SeeRequestNot ==  \* mutant: the global flag is not copied
    /\ cpu = "seen" /\ cpu' = "loop"
    /\ UNCHANGED <<mutex, io, flags, runvars, guest, purpose, spurious>>
SeeRequest ==
    /\ cpu = "seen" /\ cpu' = "loop"
    /\ env_exit' = IF exit_request = 1 THEN 1 ELSE env_exit
    /\ UNCHANGED <<mutex, io, requesting, sig, exit_request, single, current,
                   linked, runvars, guest, purpose, spurious>>

\* The exit test of the inner loop; cpu_loop_exit forgets the current block.
CheckExit ==
    /\ cpu = "loop"
    /\ \/ env_exit = 1 /\ env_exit' = 0 /\ current' = 0 /\ cpu' = "ret"
       \/ env_exit = 0 /\ cpu' = "tb" /\ UNCHANGED <<env_exit, current>>
    /\ UNCHANGED <<mutex, io, requesting, sig, exit_request, single, linked,
                   runvars, guest, purpose, spurious>>

SetTb ==
    /\ cpu = "tb" /\ cpu' = "recheck"
    /\ current' = 1 /\ linked' = 1
    /\ UNCHANGED <<mutex, io, requesting, sig, exit_request, env_exit, single,
                   runvars, guest, purpose, spurious>>

\* The second exit test, after the barrier
Recheck ==
    /\ cpu = "recheck"
    /\ cpu' = IF env_exit = 1 THEN "clear" ELSE "run"
    /\ UNCHANGED <<mutex, io, flags, runvars, guest, purpose, spurious>>

\* Guest code: the chain of blocks comes back to cpu_exec,
GuestReturn ==
    /\ cpu = "run" /\ cpu' = "clear"
    /\ UNCHANGED <<mutex, io, flags, runvars, guest, purpose, spurious>>

\* or it leaves by cpu_loop_exit: WFI (EXCP_HLT) or a breakpoint (EXCP_DEBUG),
GuestExit ==
    /\ cpu = "run"
    /\ \/ cpu' = "ret" /\ halted' = 1
       \/ cpu' = "ret_debug" /\ UNCHANGED halted
    /\ current' = 0
    /\ UNCHANGED <<mutex, io, requesting, sig, exit_request, env_exit, single,
                   linked, runvars, work, purpose, spurious>>

\* or a device access of its own raises or lowers the interrupt.
cpu_unlink_tb ==
    /\ current' = 0
    /\ linked' = IF current = 1 THEN 0 ELSE linked

GuestInterrupt ==
    /\ cpu = "run"
    /\ \/ work' = 1 /\ cpu_unlink_tb
       \/ work = 1 /\ work' = 0 /\ UNCHANGED <<current, linked>>
    /\ UNCHANGED <<mutex, cpu, io, requesting, sig, exit_request, env_exit, single,
                   runvars, halted, purpose, spurious>>

ClearTb ==
    /\ cpu = "clear" /\ cpu' = "loop"
    /\ current' = 0
    /\ UNCHANGED <<mutex, io, requesting, sig, exit_request, env_exit, single,
                   linked, runvars, guest, purpose, spurious>>

\* cpu_exec returns; after EXCP_DEBUG cpu_handle_guest_debug stops the CPU
ExecReturn ==
    /\ cpu \in {"ret", "ret_debug"} /\ cpu' = "end"
    /\ single' = 0
    /\ stopped' = IF cpu = "ret_debug" THEN 1 ELSE stopped
    /\ UNCHANGED <<mutex, io, requesting, sig, exit_request, env_exit, current,
                   linked, stop, running, guest, purpose, spurious>>

\* exit_request = 0 at the end of tcg_exec_all
EndAll ==
    /\ cpu = "end" /\ cpu' = "idle"
    /\ exit_request' = 0
    /\ UNCHANGED <<mutex, io, requesting, sig, env_exit, single, current, linked,
                   runvars, guest, purpose, spurious>>

cpu_thread_is_idle == stop = 0 /\ (stopped = 1 \/ running = 0 \/ (halted = 1 /\ work = 0))

\* qemu_tcg_wait_io_event: sleep while idle,
WaitIdle ==
    /\ cpu = "idle"
    /\ \/ cpu_thread_is_idle /\ cpu' = "halt_wait" /\ mutex' = "free"
       \/ ~cpu_thread_is_idle /\ cpu' = "proceed" /\ UNCHANGED mutex
    /\ UNCHANGED <<io, flags, runvars, guest, purpose, spurious>>

\* then give way to an I/O thread that asked for the mutex,
WaitProceededYields ==  \* mutant: the mutex is released and taken again, without the wait
    /\ cpu = "proceed"
    /\ \/ requesting = 1 /\ cpu' = "io_lock" /\ mutex' = "free"
       \/ requesting = 0 /\ cpu' = "common" /\ UNCHANGED mutex
    /\ UNCHANGED <<io, flags, runvars, guest, purpose, spurious>>
WaitProceeded ==
    /\ cpu = "proceed"
    /\ \/ requesting = 1 /\ cpu' = "io_wait" /\ mutex' = "free"
       \/ requesting = 0 /\ cpu' = "common" /\ UNCHANGED mutex
    /\ UNCHANGED <<io, flags, runvars, guest, purpose, spurious>>

\* then answer a stop request (qemu_wait_io_event_common).
WaitCommonRunning ==  \* mutant: the CPU answers and is not marked stopped
    /\ cpu = "common" /\ cpu' = "all"
    /\ io' = IF stop = 1 /\ io = "pause_wait" THEN "pause_lock" ELSE io
    /\ UNCHANGED <<mutex, flags, runvars, guest, purpose, spurious>>
WaitCommon ==
    /\ cpu = "common" /\ cpu' = "all"
    /\ \/ /\ stop = 1 /\ stop' = 0 /\ stopped' = 1
          /\ io' = IF io = "pause_wait" THEN "pause_lock" ELSE io
       \/ stop = 0 /\ UNCHANGED <<stop, stopped, io>>
    /\ UNCHANGED <<mutex, flags, running, guest, purpose, spurious>>

\* Coming back from a condition variable: the loop around it tests again.
CpuLock ==
    /\ cpu \in CpuLocking
    /\ mutex = "free" /\ mutex' = "cpu"
    /\ cpu' = CASE cpu = "init_lock" -> "init"
                [] cpu = "halt_lock" -> "idle"
                [] cpu = "io_lock" -> "proceed"
    /\ UNCHANGED <<io, flags, runvars, guest, purpose, spurious>>

\* cpu_signal, the handler of SIG_IPI, in the TCG thread
Signal ==
    /\ sig = 1 /\ sig' = 0
    /\ exit_request' = 1
    /\ \/ single = 1 /\ env_exit' = 1 /\ cpu_unlink_tb
       \/ single = 0 /\ UNCHANGED <<env_exit, current, linked>>
    /\ UNCHANGED <<mutex, cpu, io, requesting, single, runvars, guest, purpose, spurious>>

-----------------------------------------------------------------------------
(* The I/O thread.                                                         *)

\* qemu_cpu_kick: wake the TCG thread if it sleeps on its halt condition.
qemu_cpu_kick ==
    cpu' = CASE cpu = "init_wait" -> "init_lock"
             [] cpu = "halt_wait" -> "halt_lock"
             [] OTHER -> cpu

\* main_loop_wait with a timeout unlocks around select,
Unlock ==
    /\ io = "loop" /\ io' = "select"
    /\ mutex' = "free"
    /\ UNCHANGED <<cpu, flags, runvars, guest, purpose, spurious>>

\* and qemu_mutex_lock_iothread announces the request,
Request ==
    /\ io = "select" /\ io' = "try"
    /\ requesting' = 1
    /\ UNCHANGED <<mutex, cpu, sig, exit_request, env_exit, single, current, linked,
                   runvars, guest, purpose, spurious>>

\* tries the mutex,
TryLock ==
    /\ io = "try"
    /\ \/ mutex = "free" /\ mutex' = "io" /\ io' = "got"
       \/ mutex # "free" /\ io' = "kick" /\ UNCHANGED mutex
    /\ UNCHANGED <<cpu, flags, runvars, guest, purpose, spurious>>

\* sends the signal if that failed,
KickThread ==
    /\ io = "kick" /\ io' = "lock"
    /\ sig' = 1
    /\ UNCHANGED <<mutex, cpu, requesting, exit_request, env_exit, single, current,
                   linked, runvars, guest, purpose, spurious>>

\* blocks,
Lock ==
    /\ io = "lock" /\ io' = "got"
    /\ mutex = "free" /\ mutex' = "io"
    /\ UNCHANGED <<cpu, flags, runvars, guest, purpose, spurious>>

\* and withdraws the request.
Proceeded ==
    /\ io = "got" /\ io' = "loop"
    /\ requesting' = 0
    /\ cpu' = IF cpu = "io_wait" THEN "io_lock" ELSE cpu
    /\ UNCHANGED <<mutex, sig, exit_request, env_exit, single, current, linked,
                   runvars, guest, purpose, spurious>>

\* A device handler raises or lowers the interrupt (tcg_handle_interrupt).
DeviceInterruptQuiet ==  \* mutant: the halted CPU is not woken
    /\ io = "loop"
    /\ work' = 1 - work
    /\ UNCHANGED <<mutex, cpu, io, flags, runvars, halted, purpose, spurious>>
DeviceInterrupt ==
    /\ io = "loop"
    /\ \/ work' = 1 /\ qemu_cpu_kick
       \/ work = 1 /\ work' = 0 /\ UNCHANGED cpu
    /\ UNCHANGED <<mutex, io, flags, runvars, halted, purpose, spurious>>

\* main_loop_should_exit: a reset, or a stop of a running machine, first
\* pauses the CPU.
PauseAll ==
    /\ io = "loop" /\ io' = "pause"
    /\ purpose' = "reset" \/ (running = 1 /\ purpose' = "stop")
    /\ stop' = 1 /\ qemu_cpu_kick
    /\ UNCHANGED <<mutex, flags, stopped, running, guest, spurious>>

\* while (!all_vcpus_paused()) wait
PauseLoop ==
    /\ io = "pause"
    /\ \/ stopped = 1 /\ io' = "paused" /\ UNCHANGED mutex
       \/ stopped = 0 /\ io' = "pause_wait" /\ mutex' = "free"
    /\ UNCHANGED <<cpu, flags, runvars, guest, purpose, spurious>>

PauseLockOnce ==  \* mutant: if in place of while
    /\ io = "pause_lock" /\ io' = "paused"
    /\ mutex = "free" /\ mutex' = "io"
    /\ qemu_cpu_kick
    /\ UNCHANGED <<flags, runvars, guest, purpose, spurious>>
PauseLock ==
    /\ io = "pause_lock" /\ io' = "pause"
    /\ mutex = "free" /\ mutex' = "io"
    /\ qemu_cpu_kick
    /\ UNCHANGED <<flags, runvars, guest, purpose, spurious>>

\* do_vm_stop changes the run state; a reset clears the CPU (cpu_reset) and
\* resumes it.
Stop ==
    /\ io = "paused" /\ purpose = "stop"
    /\ io' = "loop" /\ purpose' = "none"
    /\ running' = 0
    /\ UNCHANGED <<mutex, cpu, flags, stop, stopped, guest, spurious>>

resume_all_vcpus == stop' = 0 /\ stopped' = 0 /\ qemu_cpu_kick

Reset ==
    /\ io = "paused" /\ purpose = "reset"
    /\ io' = "loop" /\ purpose' = "none"
    /\ halted' = 0 /\ work' = 0 /\ env_exit' = 0 /\ current' = 0
    /\ resume_all_vcpus
    /\ UNCHANGED <<mutex, requesting, sig, exit_request, single, linked, running, spurious>>

\* vm_start, from the monitor or the debugger
Start ==
    /\ io = "loop" /\ running = 0 /\ running' = 1
    /\ resume_all_vcpus
    /\ UNCHANGED <<mutex, io, flags, guest, purpose, spurious>>

\* POSIX lets any wait on a condition variable return.
SpuriousWakeup ==
    /\ spurious < MaxSpurious /\ spurious' = spurious + 1
    /\ \/ /\ cpu \in CpuWaiting /\ UNCHANGED io
          /\ cpu' = CASE cpu = "init_wait" -> "init_lock"
                      [] cpu = "halt_wait" -> "halt_lock"
                      [] cpu = "io_wait" -> "io_lock"
       \/ io = "pause_wait" /\ io' = "pause_lock" /\ UNCHANGED cpu
    /\ UNCHANGED <<mutex, flags, runvars, guest, purpose>>

-----------------------------------------------------------------------------
CpuStep ==
    \/ InitLoop \/ ExecAll \/ CanRun \/ ExecEnter \/ SetSingle \/ SeeRequest
    \/ CheckExit \/ SetTb \/ Recheck \/ ClearTb \/ ExecReturn \/ EndAll
    \/ WaitIdle \/ WaitProceeded \/ WaitCommon

Guest == GuestReturn \/ GuestExit \/ GuestInterrupt

IoStep ==
    \/ Request \/ TryLock \/ KickThread \/ Lock \/ Proceeded
    \/ PauseLoop \/ PauseLock \/ Stop \/ Reset

Next ==
    \/ CpuStep \/ Guest \/ CpuLock \/ Signal
    \/ IoStep \/ Unlock \/ DeviceInterrupt \/ PauseAll \/ Start
    \/ SpuriousWakeup

Spec == Init /\ [][Next]_vars

(* Both threads keep running, each gets a mutex that stays free, and a      *)
(* signal is delivered.  Guest code need not return unless its blocks are   *)
(* unlinked, and nothing is assumed of a mutex that is free now and then.   *)
Fairness ==
    /\ WF_vars(CpuStep) /\ WF_vars(linked = 0 /\ GuestReturn) /\ WF_vars(Signal)
    /\ WF_vars(CpuLock) /\ WF_vars(IoStep)

FairSpec == Spec /\ Fairness
-----------------------------------------------------------------------------
\* Types of the mutex, the threads, the flags and the run state.
TypeOK ==
    /\ mutex \in {"free", "cpu", "io"}
    /\ cpu \in CpuHolding \cup CpuWaiting \cup CpuLocking
    /\ io \in IoHolding \cup IoOther
    /\ requesting \in {0, 1} /\ sig \in {0, 1}
    /\ exit_request \in {0, 1} /\ env_exit \in {0, 1}
    /\ single \in {0, 1} /\ current \in {0, 1} /\ linked \in {0, 1}
    /\ stop \in {0, 1} /\ stopped \in {0, 1} /\ running \in {0, 1}
    /\ halted \in {0, 1} /\ work \in {0, 1}
    /\ purpose \in {"none", "stop", "reset"}
    /\ spurious \in 0..MaxSpurious

\* A kick is never lost: once the I/O thread has sent SIG_IPI and blocks on
\* the mutex, guest code that is being executed either still has the signal
\* to come or has been unlinked and will be left at the next test of
\* env->exit_request (cpu_signal, the two tests in cpu_exec, and the copy of
\* exit_request at its start, against a signal at any point between them).
KickNotLost ==
    (io = "lock" /\ cpu = "run") => (sig = 1 \/ (env_exit = 1 /\ linked = 0))

\* No guest code is executed in a machine that is stopped or asked to stop:
\* the test of cpu_can_run stays valid until cpu_exec is left, whatever the
\* I/O thread, the debugger and the signal do meanwhile.
NoGuestCodeWhileStopped ==
    cpu \in InExec => stop = 0 /\ stopped = 0 /\ running = 1

\* pause_all_vcpus returns only when the TCG thread is outside cpu_exec with
\* no current block, so that cpu_reset clears the fields of a CPU nobody is
\* executing, and a signal still to come finds no cpu_single_env.
ResetFindsCpuOut ==
    io = "paused" => stopped = 1 /\ single = 0 /\ current = 0

\* No wakeup is lost: the TCG thread sleeps only while the condition it waits
\* for is still false, so an interrupt of a device, a stop, a reset, a start
\* and the end of a request each reach it, in whatever wait they find it.
NoLostWakeup ==
    /\ cpu = "init_wait" => stopped = 1
    /\ cpu = "halt_wait" => stop = 0 /\ (stopped = 1 \/ running = 0 \/ (halted = 1 /\ work = 0))
    /\ cpu = "io_wait" => requesting = 1

\* The I/O thread gets the mutex it asked for, however long the guest loops.
IoGetsMutex == (io = "try") ~> (io = "got")

\* pause_all_vcpus returns.
PauseReturns == (io = "pause") ~> (io = "paused")
=============================================================================

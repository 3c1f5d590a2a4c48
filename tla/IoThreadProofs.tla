---------------------------- MODULE IoThreadProofs ----------------------------
(* The safety properties of the two emulator threads, and how soon the TCG *)
(* thread gives way, for every number of spurious wakeups.                 *)
EXTENDS IoThread, TLAPS

\* Who holds the mutex, and what the flags say of where the threads are.
Ownership ==
    /\ mutex = "cpu" <=> cpu \in CpuHolding
    /\ mutex = "io" <=> io \in IoHolding
    /\ requesting = 1 <=> io \in {"try", "kick", "lock", "got"}
    /\ single = 1 <=> cpu \in InExec
    /\ current = 1 => cpu \in {"recheck", "run", "clear"}
    /\ (cpu \in {"recheck", "run"} /\ linked = 1) => current = 1

\* Where the kick is once SIG_IPI has been sent: still pending, in the global
\* flag until cpu_exec copies it, in env->exit_request from then on.  After
\* tcg_exec_all no trace is needed, for WaitProceeded tests the request.
Kicked ==
    io = "lock" =>
        /\ cpu \in {"init_wait", "init_lock", "init", "common", "all", "can",
                    "exec", "single", "seen"} => (sig = 1 \/ exit_request = 1)
        /\ cpu \in {"loop", "tb", "recheck", "clear"} => (sig = 1 \/ env_exit = 1)
        /\ cpu = "run" => (sig = 1 \/ (env_exit = 1 /\ linked = 0))

StopInv ==
    /\ cpu \in InExec \cup {"exec", "single"} => cpu_can_run
    /\ io = "paused" => stopped = 1

IInv == TypeOK /\ Ownership /\ Kicked /\ StopInv /\ NoLostWakeup

\* It holds when the threads are created.
LEMMA InitIInv == Init => IInv
  BY SpuriousAssumption DEF Init, IInv, TypeOK, Ownership, Kicked, StopInv, NoLostWakeup, InExec, CpuHolding,
     CpuWaiting, CpuLocking, IoHolding, IoOther

\* One step per group of actions: the TCG thread, the guest, the mutex and the
\* handler, the I/O thread inside the lock protocol, and its requests.
LEMMA NextIInv == IInv /\ [Next]_vars => IInv'
  <1> SUFFICES ASSUME IInv, [Next]_vars PROVE IInv'
    OBVIOUS
  <1> USE SpuriousAssumption DEF IInv, TypeOK, Ownership, Kicked, StopInv, NoLostWakeup, cpu_can_run,
          CpuHolding, CpuWaiting, CpuLocking, IoHolding, IoOther, InExec, flags, runvars, guest
  <1>1. CASE InitLoop \/ ExecAll \/ CanRun \/ ExecEnter \/ SetSingle
    BY <1>1 DEF InitLoop, ExecAll, CanRun, ExecEnter, SetSingle
  <1>2. CASE SeeRequest \/ CheckExit \/ SetTb \/ Recheck \/ ClearTb
    BY <1>2 DEF SeeRequest, CheckExit, SetTb, Recheck, ClearTb
  <1>3. CASE ExecReturn \/ EndAll \/ WaitIdle \/ WaitProceeded \/ WaitCommon
    BY <1>3 DEF ExecReturn, EndAll, WaitIdle, WaitProceeded, WaitCommon, cpu_thread_is_idle
  <1>4. CASE Guest
    BY <1>4 DEF Guest, GuestReturn, GuestExit, GuestInterrupt, cpu_unlink_tb
  <1>5. CASE CpuLock
    BY <1>5 DEF CpuLock
  <1>6. CASE Signal
    BY <1>6 DEF Signal, cpu_unlink_tb
  <1>7. CASE Request \/ TryLock \/ KickThread \/ Lock \/ Proceeded
    BY <1>7 DEF Request, TryLock, KickThread, Lock, Proceeded
  <1>8. CASE PauseLoop \/ PauseLock \/ Stop \/ Reset
    BY <1>8 DEF PauseLoop, PauseLock, Stop, Reset, resume_all_vcpus, qemu_cpu_kick
  <1>9. CASE Unlock \/ DeviceInterrupt \/ PauseAll \/ Start
    BY <1>9 DEF Unlock, DeviceInterrupt, PauseAll, Start, resume_all_vcpus, qemu_cpu_kick
  <1>10. CASE SpuriousWakeup
    BY <1>10 DEF SpuriousWakeup
  <1>11. CASE UNCHANGED vars
    BY <1>11 DEF vars
  <1> QED
    BY <1>1, <1>2, <1>3, <1>4, <1>5, <1>6, <1>7, <1>8, <1>9, <1>10, <1>11
       DEF Next, CpuStep, IoStep

\* The inductive invariant holds in every state: it is what KickNotLost needs
\* to be carried over every step of the two threads and of the handler.
THEOREM ThreadsInvariant == Spec => []IInv
  <1>1. Init => IInv
    BY InitIInv
  <1>2. IInv /\ [Next]_vars => IInv'
    BY NextIInv
  <1> QED
    BY <1>1, <1>2, PTL DEF Spec

\* The state of the threads, the flags and the conditions stays well formed.
THEOREM TypeCorrect == Spec => []TypeOK
  <1>1. IInv => TypeOK
    BY DEF IInv
  <1> QED
    BY <1>1, ThreadsInvariant, PTL

\* SIG_IPI is never lost, wherever in tcg_exec_all, cpu_exec or the waits of
\* the TCG thread its handler runs.
THEOREM KickIsNotLost == Spec => []KickNotLost
  <1>1. IInv => KickNotLost
    BY DEF IInv, Kicked, KickNotLost
  <1> QED
    BY <1>1, ThreadsInvariant, PTL

\* cpu_exec runs only in a machine that is running and not asked to stop.
THEOREM StoppedRunsNothing == Spec => []NoGuestCodeWhileStopped
  <1>1. IInv => NoGuestCodeWhileStopped
    BY DEF IInv, StopInv, NoGuestCodeWhileStopped, cpu_can_run
  <1> QED
    BY <1>1, ThreadsInvariant, PTL

\* A reset never overlaps cpu_exec.
THEOREM ResetIsAlone == Spec => []ResetFindsCpuOut
  <1>1. IInv => ResetFindsCpuOut
    BY DEF IInv, TypeOK, StopInv, Ownership, ResetFindsCpuOut, IoHolding, CpuHolding, InExec
  <1> QED
    BY <1>1, ThreadsInvariant, PTL

\* Every wakeup of the TCG thread arrives.
THEOREM WakeupsArrive == Spec => []NoLostWakeup
  <1>1. IInv => NoLostWakeup
    BY DEF IInv
  <1> QED
    BY <1>1, ThreadsInvariant, PTL

-----------------------------------------------------------------------------
\* How many of its own steps a TCG thread that has handled SIG_IPI takes at
\* most until it sleeps and leaves the mutex to the I/O thread: through the
\* exit tests of cpu_exec, the end of tcg_exec_all and the waits.
StepsToYield ==
    CASE cpu \in CpuWaiting -> 0
      [] cpu = "proceed" -> 1
      [] cpu \in {"idle", "io_lock"} -> 2
      [] cpu \in {"end", "halt_lock"} -> 3
      [] cpu \in {"ret", "ret_debug", "all"} -> 4
      [] cpu \in {"loop", "init", "common"} -> 5
      [] cpu \in {"clear", "seen", "init_lock"} -> 6
      [] cpu \in {"run", "recheck", "single"} -> 7
      [] cpu \in {"tb", "exec"} -> 8
      [] cpu = "can" -> 9

\* How many it takes at most until it answers a stop request.
StepsToAnswer ==
    CASE cpu = "common" -> 1
      [] cpu = "proceed" -> 2
      [] cpu \in {"idle", "io_lock"} -> 3
      [] cpu \in {"end", "halt_lock"} -> 4
      [] cpu = "can" -> 5
      [] cpu = "all" -> 6
      [] cpu = "init" -> 7
      [] OTHER -> 8

\* The steps of the TCG thread, but for those that stay in guest code.
CpuMoves == CpuStep \/ GuestReturn \/ GuestExit \/ CpuLock

\* While the I/O thread waits for the mutex, each step of the TCG thread
\* brings it nearer to its sleep, unless the signal is still to come.
YieldNearer ==
    [][io = "lock" /\ sig = 0 /\ CpuMoves => StepsToYield' < StepsToYield]_vars

\* While pause_all_vcpus waits, each step brings it nearer to the answer, or
\* is the answer.
AnswerNearer ==
    [][io = "pause_wait" /\ CpuMoves
         => io' = "pause_lock" \/ StepsToAnswer' < StepsToAnswer]_vars

\* A stop request stands until it is answered, and while pause_all_vcpus
\* sleeps it has not been.
PauseInv ==
    /\ io \in {"pause", "pause_wait", "pause_lock"} => stop = 1 \/ stopped = 1
    /\ io = "pause_wait" => stopped = 0

\* No step takes a stop request back before its answer.
LEMMA NextPauseInv == IInv /\ PauseInv /\ [Next]_vars => PauseInv'
  <1> SUFFICES ASSUME IInv, PauseInv, [Next]_vars PROVE PauseInv'
    OBVIOUS
  <1> USE DEF PauseInv, flags, runvars, guest
  <1>1. CASE CpuStep
    <2>1. CASE ExecReturn
      BY <2>1 DEF ExecReturn, IInv, TypeOK, StopInv, cpu_can_run, InExec
    <2>2. CASE WaitCommon
      BY <2>2 DEF WaitCommon
    <2>3. CASE InitLoop \/ ExecAll \/ CanRun \/ ExecEnter \/ SetSingle \/ SeeRequest
               \/ CheckExit
      BY <2>3 DEF InitLoop, ExecAll, CanRun, ExecEnter, SetSingle, SeeRequest, CheckExit
    <2>4. CASE SetTb \/ Recheck \/ ClearTb \/ EndAll \/ WaitIdle \/ WaitProceeded
      BY <2>4 DEF SetTb, Recheck, ClearTb, EndAll, WaitIdle, WaitProceeded
    <2> QED
      BY <1>1, <2>1, <2>2, <2>3, <2>4 DEF CpuStep
  <1>2. CASE Guest \/ CpuLock \/ Signal
    BY <1>2 DEF Guest, GuestReturn, GuestExit, GuestInterrupt, CpuLock, Signal
  <1>3. CASE IoStep
    BY <1>3 DEF IoStep, Request, TryLock, KickThread, Lock, Proceeded, PauseLoop,
       PauseLock, Stop, Reset, IInv, TypeOK
  <1>4. CASE Unlock \/ DeviceInterrupt \/ PauseAll \/ Start
    BY <1>4 DEF Unlock, DeviceInterrupt, PauseAll, Start
  <1>5. CASE SpuriousWakeup
    BY <1>5 DEF SpuriousWakeup
  <1>6. CASE UNCHANGED vars
    BY <1>6 DEF vars
  <1> QED
    BY <1>1, <1>2, <1>3, <1>4, <1>5, <1>6 DEF Next

\* The distances are small numbers, and none is left only to a thread that
\* sleeps without the mutex.
LEMMA YieldBound ==
    IInv => StepsToYield \in 0..9 /\ (StepsToYield = 0 => mutex # "cpu")
  <1> SUFFICES ASSUME IInv
               PROVE StepsToYield \in 0..9 /\ (StepsToYield = 0 => mutex # "cpu")
    OBVIOUS
  <1>1. cpu \in CpuHolding \cup CpuWaiting \cup CpuLocking
    BY DEF IInv, TypeOK
  <1>2. CASE cpu \in CpuWaiting
    <2>1. mutex # "cpu"
      BY <1>2 DEF IInv, Ownership, CpuWaiting, CpuHolding, InExec
    <2>2. StepsToYield = 0
      BY <1>2 DEF StepsToYield, CpuWaiting
    <2> QED
      BY <2>1, <2>2
  <1>3. CASE cpu \in CpuHolding \cup CpuLocking
    <2>1. StepsToYield \in 1..9
      BY <1>3 DEF StepsToYield, CpuWaiting, CpuHolding, CpuLocking, InExec
    <2> QED
      BY <2>1
  <1> QED
    BY <1>1, <1>2, <1>3

\* The mutex comes soon: when SIG_IPI has been handled, the TCG thread takes at
\* most nine steps of its own, CpuLock included, until it sleeps and the mutex
\* is free, from wherever in cpu_exec or the waits the signal found it.  This is the
\* measure behind IoGetsMutex.
THEOREM KickedThreadYields ==
    Spec => YieldNearer /\ [](StepsToYield \in 0..9 /\ (StepsToYield = 0 => mutex # "cpu"))
  <1>1. IInv /\ [Next]_vars
          => [io = "lock" /\ sig = 0 /\ CpuMoves => StepsToYield' < StepsToYield]_vars
    <2> SUFFICES ASSUME IInv, io = "lock", sig = 0, CpuMoves
                 PROVE StepsToYield' < StepsToYield
      OBVIOUS
    <2> USE DEF StepsToYield, CpuWaiting
    <2>0. requesting = 1
      BY DEF IInv, Ownership
    <2>1. CASE InitLoop \/ ExecAll \/ CanRun \/ ExecEnter \/ SetSingle
      BY <2>1 DEF InitLoop, ExecAll, CanRun, ExecEnter, SetSingle, IInv, Kicked
    <2>2. CASE SeeRequest \/ CheckExit \/ SetTb \/ Recheck \/ ClearTb
      BY <2>2 DEF SeeRequest, CheckExit, SetTb, Recheck, ClearTb, IInv, Kicked
    <2>3. CASE ExecReturn \/ EndAll \/ WaitIdle \/ WaitProceeded \/ WaitCommon
      BY <2>0, <2>3 DEF ExecReturn, EndAll, WaitIdle, WaitProceeded, WaitCommon
    <2>4. CASE GuestReturn \/ GuestExit \/ CpuLock
      BY <2>4 DEF GuestReturn, GuestExit, CpuLock, CpuLocking
    <2> QED
      BY <2>1, <2>2, <2>3, <2>4 DEF CpuMoves, CpuStep
  <1> QED
    BY <1>1, YieldBound, ThreadsInvariant, PTL DEF Spec, YieldNearer

\* A pause is answered soon: while pause_all_vcpus sleeps, the TCG thread takes
\* at most eight steps until it answers the stop request.  It executes no
\* guest code and goes to no sleep on the way.  This is the measure behind
\* PauseReturns.
THEOREM StopIsAnswered ==
    Spec => AnswerNearer /\ [](StepsToAnswer \in 1..8)
                         /\ [](io = "pause_wait" => cpu \notin InExec \cup CpuWaiting)
  <1>1. Init => PauseInv
    BY DEF Init, PauseInv
  <1>2. Spec => []PauseInv
    BY <1>1, NextPauseInv, ThreadsInvariant, PTL DEF Spec
  <1>3. StepsToAnswer \in 1..8
    BY DEF StepsToAnswer
  <1>4. IInv /\ PauseInv /\ io = "pause_wait"
          => stop = 1 /\ stopped = 0 /\ requesting = 0
             /\ cpu \notin InExec \cup {"exec", "single"} \cup CpuWaiting
    BY DEF IInv, PauseInv, TypeOK, Ownership, StopInv, NoLostWakeup, cpu_can_run, CpuWaiting
  <1>5. IInv /\ PauseInv /\ [Next]_vars
          => [io = "pause_wait" /\ CpuMoves
                => io' = "pause_lock" \/ StepsToAnswer' < StepsToAnswer]_vars
    <2> SUFFICES ASSUME IInv, PauseInv, io = "pause_wait", CpuMoves
                 PROVE io' = "pause_lock" \/ StepsToAnswer' < StepsToAnswer
      OBVIOUS
    <2>0. /\ stop = 1 /\ stopped = 0 /\ requesting = 0
          /\ cpu \notin InExec \cup {"exec", "single"} \cup CpuWaiting
      BY <1>4
    <2> USE <2>0 DEF StepsToAnswer
    <2>1. CASE InitLoop \/ ExecAll \/ CanRun \/ ExecEnter \/ SetSingle
      BY <2>1 DEF InitLoop, ExecAll, CanRun, ExecEnter, SetSingle, cpu_can_run
    <2>2. CASE SeeRequest \/ CheckExit \/ SetTb \/ Recheck \/ ClearTb
      BY <2>2 DEF SeeRequest, CheckExit, SetTb, Recheck, ClearTb, InExec
    <2>3. CASE ExecReturn \/ EndAll \/ WaitIdle \/ WaitProceeded \/ WaitCommon
      BY <2>3 DEF ExecReturn, EndAll, WaitIdle, WaitProceeded, WaitCommon,
         cpu_thread_is_idle, InExec
    <2>4. CASE GuestReturn \/ GuestExit \/ CpuLock
      BY <2>4 DEF GuestReturn, GuestExit, CpuLock, CpuLocking, InExec
    <2> QED
      BY <2>1, <2>2, <2>3, <2>4 DEF CpuMoves, CpuStep
  <1>6. IInv /\ PauseInv => (io = "pause_wait" => cpu \notin InExec \cup CpuWaiting)
    BY <1>4
  <1> QED
    BY <1>2, <1>3, <1>5, <1>6, ThreadsInvariant, PTL DEF Spec, AnswerNearer

=============================================================================

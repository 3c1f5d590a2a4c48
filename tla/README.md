# Verification of the STM32L-Discovery emulation

This directory holds TLA+ models of the parts of this repository that make the
emulated STM32L-Discovery board work: the GPIO ports, the button, the LEDs, the
user interface and the demonstration firmware that were written for the board,
and the parts of QEMU 1.0 they run on: the Cortex-M3 core (interrupt controller,
exception entry and return, both stack pointers, SysTick), the timers, and the two
threads of the emulator. TLC checks the models on small instances, and TLAPS
proves every safety property that a run checks for all values of the constants.

Paths below are relative to `src/project/Qemu/src/` unless they start with
`src/`.

## 1. The system

### Parts

| Part | Source | State | Operations |
|---|---|---|---|
| GPIO port | `hw/stm32_gpio.c` | MODER, PUPDR, IDR, ODR, the copy `outd_old`, storage registers | register writes, `stm32_gpio_update`, `stm32_gpio_in_recv`, reset, save and load |
| User button | `hw/stm32_button.c` | `buttonState` | `stm32_receive` |
| LEDs | `hw/stm32_led.c` | none beyond the socket | `stm32_led_recvirq` |
| Board | `hw/stm32.c` | wiring: button to pin A0, LEDs to pins B6 and B7 | creation |
| Demonstration firmware | `src/project/Demonstrations/Demo2 - Bouton/main.c` | `etat` | `SystemInit` (called twice), polling loop |
| User interface | `src/project/UI/UI.py` | three threads, sockets, images | press, release, receive, launch |
| Interrupt controller | `hw/arm_gic.c`, compiled for the NVIC | enable, pending, level, priorities, chain `last_active`, running interrupt, offered interrupt | lines, register writes, `gic_update`, acknowledge, complete |
| NVIC | `hw/armv7m_nvic.c` | the GIC, SysTick | vector conversion, ICSR, system handlers, SysTick |
| Core | `cpu-exec.c`, `target-arm/helper.c`, `target-arm/op_helper.c` | exception number, stacked frames, MSP, PSP, CONTROL, PRIMASK, halted | acceptance, entry, return, synchronous exceptions, WFI, reset |
| Machine | `hw/armv7m.c` | bit-band regions | creation, reset |
| Timers | `qemu-timer.c` | a sorted list per clock, the host alarm | set, delete, run, enable and disable a clock |
| Threads | `cpus.c`, `cpu-exec.c`, `exec.c`, `main-loop.c`, `vl.c` | global mutex, `exit_request`, `current_tb`, `stop`, `stopped`, run state | hand-over of the mutex, kick, pause, stop, start, reset |
| Character devices | `qemu-char.c` | sockets | send, receive |

`PROJECT.json` lists every part, also those that are not modelled.

### How they interact

A click in the UI sends a byte to the socket `user0`; QEMU's main loop hands it
to the button, which raises or lowers pin A0; the firmware polls IDR of port A
and writes ODR of port B; the port drives the pins that changed, and each LED
sends a byte to its socket; a UI thread reads it and changes the image. QEMU's
main loop and the CPU exclude each other (one global lock), so a callback and a
register access are each atomic and synchronous down to the socket write;
everything else interleaves. A socket that is full stops this chain inside
`send_all`, with the lock held.

The lock itself is handed over between two threads. The TCG thread holds it while
it executes guest code, possibly an endless chain of translated blocks; the I/O
thread announces that it wants it and sends a signal, whose handler breaks the
chain. The same thread pauses, stops and resets the CPU, and runs the timers,
which it is told of by one alarm of the host.

Inside the core, `gic_update` decides whether the CPU line is up and which
interrupt is offered; the CPU looks at the line before each block of guest code,
acknowledges, pushes a frame and runs the handler; the handler jumps to a magic
address and the CPU completes the interrupt and pops the frame. The nesting is
thus recorded twice, on the guest's stack and in the chain `last_active`, and
several decisions are taken at one time and used at another. That is where the
hard properties are.

### What is hard to test here

The hazards in `PROJECT.json` name the lines. In short:

- values that are copies and may be stale: `outd_old`, `current_pending`, the CPU
  line, `running_priority`, the dual-purpose `systick.tick`;
- orders nobody writes a test for: a press before the pin is an input, a byte
  between the two reads of IDR, an interrupt between the jump to a magic address
  and the return, a priority change under an active handler, a reset inside one;
- two threads that read flags the other one writes, with a signal between any two
  steps, and waits on condition variables;
- circular waits: `send_all` under the lock against the Tk thread, the pause of the
  CPU against a CPU that sleeps;
- two stack pointers in one register, an alignment word remembered in a stacked bit,
  a kernel that is interrupted in the middle of a task switch;
- a state that is saved, while the lines it drove are not;
- endless loops and aborts of the emulator itself: the walk in
  `gic_complete_irq`, `qemu_run_timers` with a callback that re-arms itself,
  `hw_error("Interrupt but no vector")`;
- boundaries: the 8 pins that the update visits, 16-bit casts, three numberings of
  the same interrupt, 32-bit sums.

## 2. Modules

| Module | Models | State | Actions |
|---|---|---|---|
| `Stm32Gpio` | one GPIO port | `gpio` (the C structure), `wire` (levels last sent to the output lines), `hist` | one per register of `stm32_gpio_write`, `BitBandWrite`, `InRecv`, `Restore` |
| `Discovery` | board, button, LEDs, sockets, UI, Demo2 firmware; two instances of `Stm32Gpio` | sockets `btnq`, `ledq`, what is being sent `tksend`, `sending`, UI threads `held`, `logging`, `image`, firmware `pc`, `boots`, `etat` | `Click`, `SendClick`, `ButtonReceive`, the firmware's register accesses, `SendLed`, `SendAgain`, `Receive`, `Show`, `Log`, `UiQuits`, `Restart` |
| `UiServers` | the three server threads of the UI, their event and sockets, and the QEMU processes that connect | `event`, `pc`, `fresh`, `kept`, `backlog`, `conn`, `run`, `qemu` | `OnButtonLancerClick`, `EditPort`, `Wait`, `Bind`, `Accept`, `EndOfSession`, `Clear`, `Connect` |
| `ArmGic` | the interrupt controller and the NVIC registers that drive it | `gic` (`gic_state`), `line`, `fate`, `hist` | one per handler |
| `V7mCpu` | exception entry and return, composed with `ArmGic` | `exc`, `frames`, `magic`, `primask`, `halted`, `block` | `TakeIrq`, `ExceptionExit`, guest instructions, `Timer`, `Line`, `Reset` |
| `InterruptNesting` | abstract specification: handlers nest like a stack, and the best request is the one that is entered | `requests`, `prio`, `stack`, `loose` | `Enter`, `Leave`, `Change` |
| `V7mStack` | frames in memory, MSP, PSP, CONTROL, stack alignment, under a small guest kernel | `sp`, `other_sp`, `current_sp`, `control`, `mem`, the kernel's `table` | `Enter`, `Exit`, `MsrControl`, `SavePsp`, `LoadPsp`, `Push`, `Pop`, `Branch` |
| `SysTick` | the SysTick registers and the QEMU timer under them | `control`, `reload`, `tick`, `timer`, `now`, `run` | register accesses, `Advance`, `RunTimers`, `Fire`, `EndRun` |
| `QemuTimers` | the lists of `vm_clock` and `rt_clock`, the host alarm, the main loop | `active`, `expire`, `alarm`, `pending`, `expired`, `enabled`, `phase` | `SetTimer`, `DeleteTimer`, `HostAlarm`, `RunAll`, `Fire`, `ClockDone`, `VmStop`, `VmStart`, `ExecAll`, `Tick` |
| `IoThread` | the TCG thread and the I/O thread | `mutex`, both program counters, `sig`, the flags of `cpu_exec`, `stop`, `stopped`, `running` | one per step that reads or writes a shared flag |
| `*Proofs` | theorems | | |
| `MC*` | instances for TLC | | |

Operators that end in a comment "mutant" are not part of the model: each is a
plausible bug in the definition below it, and `PROJECT.json` records which
property it breaks.

### How the modules fit together

`Discovery` and `Stm32Gpio` take the global lock for granted; `IoThread` shows why
they may. `V7mCpu` takes it that a timer callback runs between two blocks, which is
the same lock. `V7mCpu` decides *when* an exception is taken and returns and keeps
frames as records; `V7mStack` shows that the memory under these frames holds what
was put there, for any order in which exceptions nest. `SysTick` assumes that its
timer fires at or after its deadline, `QemuTimers` shows how late that may be.
`Discovery` begins with the sockets connected, `UiServers` is about how they come to
be.

### Abstractions

- A register whose bits are independent is a set of pins or of interrupts; MODER
  and PUPDR are functions from pins to 0..3. Storage registers (OTYPER, OSPEEDR,
  AFRL) hold a member of a small set. AFRH is beyond the 0x24 bytes the port
  maps; LCKR does nothing.
- `hist` holds history that no action reads. It serves to state the exceptions
  that the code has, for instance the pins whose last ODR change was made in
  input mode.
- A bit-band write is the read-modify-write of the byte, half-word or word around
  the bit in ODR, as the three handlers do it.
- `Restore` loads the saved registers into the port of a new process: no line is
  driven, and the input lines are low until the peripheral sets them.
- Each `|=` of the firmware on MODER and PUPDR is one step, because nothing else
  writes these registers. Polling of IDR and the second read are separate steps.
- A socket is a queue of `CapB` or `CapL` bytes. `ThreadedTcl` says whether the Tcl
  library hands calls from other threads to Tk's thread; the runs use TRUE, the
  usual build, in which the circular wait is possible.
- A connection of `UiServers` is the number of the QEMU process that made it. The
  kernel completes it as soon as the port is listened on. A port is free again once
  its listening socket is closed; the wait state of closed connections, which
  would make `bind` fail more often, is left out.
- The guest of `V7mCpu` is any program whose handlers return through the value
  that entry left in `lr`. A frame is its exception number and whether its pc is
  a magic address. WFI is used in thread mode. A register write leaves the CPU
  inside its block (`block`), so an interrupt that the write raises is taken only
  at the end of the block; the other instructions modelled end it.
- The `active` bits of the GIC are left out: no code sets them.
- `Timer` in `V7mCpu` may happen between any two blocks. Everything `SysTick` does
  to the controller is one of these events.
- `fate` is how the emulator stops: `no_vector` (`hw_error` in the acknowledge),
  `spins` (the walk of `gic_complete_irq` does not end), `divides` (SysTick).
- `V7mStack` counts addresses in words, so bit 2 of an address is the parity. A word
  records whose register it is; the stacked pc and xPSR also hold what the CPU
  takes from them. The guest is a kernel whose lowest handler saves one PSP and
  loads another, with every context pushing words of its own. `saved` is history:
  the stack pointers, the bank and the frame of each context that waits.
- `VectorsAssumption` leaves out number 0. `gic_reset` enables the numbers 0 to 15, of
  which 1 to 15 are the system exceptions of this core; number 0 is no exception, and
  only a write to 0xf00 with the target bits, which are reserved here, can set it
  pending. `SoftInt` takes its number from `Irqs`; the code does not check it
  (`value & 0x3ff`), and the models say nothing of numbers from `GIC_NIRQ` on.
- `SysTick` has one timer on its clock. `qemu_run_timers` reads the clock once and
  may be called late. A register holds `Words` values, so that `reload + 1` wraps
  as in the code. C's division truncates and TLA+'s rounds down; the operands are
  not negative where the code divides.
- `QemuTimers`: time is discrete, and passes between the steps of the main loop but
  not while it is due (`Urgent`): a host that runs the loop late delays every timer
  by as much. Timers are set and deleted in every phase of the loop, by guest code
  and by callbacks, in the past too; what a callback does to timers other than its own
  is a step after its `Fire`. SIGALRM may come between the handlers of `select` and
  `qemu_run_all_timers`, and then waits for the next turn. The cap of the deadline at
  `INT32_MAX` only makes the alarm earlier and is left out. `host_clock` carries no
  timer of the board.
- `IoThread`: `linked` says that the block being executed may jump to others for
  ever; `cpu_unlink_tb` clears it. `work` is `cpu_has_work`. The signal handler is
  one step of the TCG thread, as a handler is to the thread it interrupts. Neither
  the order in which the mutex is granted nor the end of guest code that is still
  linked is assumed.

## 3. Runs

### Passing

| Run | What it shows |
|---|---|
| `gpio` | `WireFollowsOdr`: `outd_old` equals ODR between accesses, and a driven line has the level of its ODR bit, except on a pin whose last change was made in input mode (it is consumed, not sent) or was loaded with a saved state, and on pins 8 and above (never driven). `IdrFollowsInput`: IDR has the level the peripheral last set, except a level that arrived before the pin was an input or before the state was loaded. |
| `board` | `ImageFollowsOdr`: between `stm32_gpio_update` and the UI no change is lost, duplicated or reordered. `IdleLedsShowButton`: when every byte is consumed, the LEDs show the button, provided the firmware has handled a change at all. `LedsSettle`, `PressLights`: the same as liveness. `SendEnds`: `send_all` blocks the emulator for ever only in the circular wait of emulator, LED thread and Tk thread. `WaitNeedsBurst`: that wait needs at least as many clicks as both sockets hold, and three more. |
| `cpu` | The invariants of the core, over the complete next-state relation. `HandlersNest`: it implements `InterruptNesting`. `OfferedIsTaken`: an offered interrupt is taken, replaced or withdrawn, through WFI with masked interrupts, nested handlers and returns. |
| `cpu_deep` | `EmulatorRuns`: completion always ends, as long as the guest does not change the priority of an active interrupt. `LastActiveDefined`: no uninitialised link is followed, even when it does. Both with three priorities and a deeper stack, where such changes and resets lead to the walk along the chain and to its cycles. |
| `stack` | `ReturnRestores`: a return gives back the stack pointer and the bank of the entry, and to a handler its other stack pointer too. `RightContext`: the registers in the CPU are those of the context that xPSR and the kernel say is running. `BankFollowsControl`: handlers run on MSP and threads on the stack CONTROL selects, unless a handler wrote CONTROL. `WordsIntact`: frames overwrite nothing that a context has pushed. |
| `systick` | `ArmedWhileEnabled`: the timer is active exactly while the SysTick is enabled, or was reloaded in the disabled state. `DeadlineNear`: it expires within a period, unless `now` was added to an instant. `CountsDown`: the current value decreases with time. `RunEnds`: the timer loop ends, unless the period is 0. |
| `iothread` | `KickNotLost`: once the I/O thread has sent the signal, guest code being executed will be left. `NoGuestCodeWhileStopped`. `ResetFindsCpuOut`: the CPU is reset only while the TCG thread is outside `cpu_exec`. `NoLostWakeup`: the TCG thread sleeps only while its condition is false. `IoGetsMutex`, `PauseReturns`: the I/O thread gets the mutex and a pause returns, even from a guest that loops for ever. |
| `timers` | `Sorted`: the lists are sorted, without duplicates. `AlarmCovers`: an active timer has an alarm in time or one that is being handled, except before the first alarm is set. `Prompt`: a timer that misses one turn of the main loop waits for the callbacks of that turn or for the shortest alarm, whichever is longer, and then for the callbacks of the next turn. Each stop of the machine may cost a timer of `vm_clock` one alarm more, and before the first alarm it is the timeout of `select` that counts. |
| `ui` | `FirstLaunchKillsNone`: after one click no thread runs into its own socket, however the ends of the sessions interleave. `OneSessionPerPort`: a thread serves one session, which is why the client has to be restarted between two tests (`src/project/Demonstrations/HOWTO - Qemu`, line 7). `FirstLaunchListens`: a click starts all three, unless QEMU was started too early. |

The invariants of the core:

- `RequestHasVector`: when the CPU is asked to take an interrupt the acknowledge
  finds one; `hw_error` is not reached.
- `StatusCurrentUnlessStale`: the offered interrupt is the best one and the line is
  up exactly when it preempts, except after a write to 0xd24 or a CPU reset.
- `LastActiveDefined`: the zeros `gic_reset` leaves in `last_active` are never
  followed.
- `StackMatchesChain`: stack and chain agree at every depth.
- `PreemptionIsStrict`: a handler is only interrupted by a strictly more urgent one
  and `running_priority` is that of the handler that runs.
- `LevelNotLost`: a raised and enabled line is pending, being handled, or was
  cleared by the guest itself.
- `IcsrShowsStack`: VECTACTIVE and RETTOBASE describe the stack.
- `EmulatorRuns` (run `cpu_deep`).

Those about nesting hold while the history is `sane`: no reset inside a handler
and no change of the priority of an active interrupt. Without that the chain of
the GIC can form a cycle and `gic_complete_irq` never returns.

The runs state the type invariants of `board` and `stack`, where they bound the sockets
and the nesting; elsewhere type correctness is only proved.

### Disagreements between the code and its documentation

| Run | Property | What happens |
|---|---|---|
| `gpio_bsr` | `BsrResets` | `(uint16_t)value >> 16` is 0: BSRR never clears a pin (`hw/stm32_gpio.c:109`), against "reset = high" (line 134). |
| `nvic_icsr` | `IcsrShowsNext` | VECTPENDING is in the internal numbering (`hw/armv7m_nvic.c:170`), against lines 88-89. |
| `ui_launch` | `LaunchListens` | a QEMU that is started before all threads listen connects to one, is refused by the next and exits; the end of that session clears the event, and a thread that has not seen it yet does not listen (`src/project/UI/UI.py:268`), against `src/project/UI/HOWTO`, line 15. |

Other deviations that the models contain, as behaviour of the code, and that no run
states as a property:

- With PRIMASK clear an interrupt is accepted at a magic pc (`cpu-exec.c:410`),
  against the comment at 408-409. The nested return still works
  (`StackMatchesChain`), because the frame restores the magic address.
- A system reset inside a handler resets the CPU alone (`hw/armv7m.c:152`): the NVIC
  keeps its running interrupt. This is one half of `sane`.
- A write to 0xd24 changes enable bits and does not call `gic_update`
  (`hw/armv7m_nvic.c:352`), against `hw/arm_gic.c:110`. This is `hist.stale`.
- The software interrupt register takes an internal number (`hw/arm_gic.c:551`),
  against lines 26-27.
- `init_timer_alarm` sets `pending` although no alarm has expired: timers set before
  the first turn of the main loop wait for the timeout of `select`
  (`qemu-timer.c:838`). This is `hist.set = 0`.
- A write to CONTROL in a handler moves the handler to the process stack
  (`target-arm/helper.c:2247`). This is `mixed`.

### Bounds

- `gpio`: pins 7 and 8, one on each side of the bound of the update loop, the
  values of a mode or pull field that the code tells apart (zero and non-zero) and
  two storage values. Pins do not interact except through the set operations on
  registers.
- `board`: `MaxClicks = 8` presses and releases in the life of a UI, `MaxRestarts = 1`,
  sockets of two bytes. Eight clicks cross both calls of `SystemInit`, the first
  read and several rounds of the loop, and are one more than the seven that fill
  every buffer, so that the circular wait is reached. Real sockets hold some
  thousand bytes; only the number of clicks in `WaitNeedsBurst` depends on it.
- `cpu`: a usage fault and external line 32 (the two sides of every numbering, and
  0xd24 has an enable bit to change), two priorities, `MaxFrames = 2`. The bound
  cuts nothing: a larger one adds no state to this instance. Nesting of three and
  more handlers is covered by the proofs.
- `cpu_deep`: SysTick and line 32, three priorities and three frames. The walk of
  `gic_complete_irq` and its cycles are reached here, always after the guest has
  changed the priority of an active interrupt. Strict preemption limits a sane
  stack to as many handlers as there are priorities, so the bound only cuts runs
  that are not sane. The machine may be reset at any time, inside handlers too, which
  leaves the controller with its running interrupt. An action constraint keeps to guests
  that do not touch PRIMASK and WFI, and write 0xd24 in thread mode only (`Plain`); the
  full relation is explored by `cpu`.
- `stack`: three nested handlers, one of them the kernel, two tasks, and one pushed
  word per context and stack, enough for both parities of the stack pointer at every
  entry. A handler of a smaller number may interrupt one of a larger one, so the
  depth is that of `MaxNest`. The three stacks begin at an even, an even and an odd
  address and lie apart, each with the room that this much nesting needs
  (`LayoutAssumption`).
- `systick`: registers of two bits, so that a reload of 3 stands for 0xffffffff,
  2 ns per reference tick, 1 ns per processor tick, `Horizon = 9`: more than one
  full period at the largest reload value, with room for a stop and a resumption.
  This board leaves `system_clock_scale` at 0, and there a guest that selects the
  processor clock has a period of 0 and may divide by zero; the run uses
  `CpuScale = 1`, as on the boards that set it.
- `iothread`: one CPU, as the board has, and one unasked wakeup; nothing else is
  bounded.
- `timers`: two exchangeable timers on `vm_clock` (a symmetry set) and one on
  `rt_clock`; a deadline in the past and one above the shortest alarm of 1;
  callbacks of a turn that take up to 1, so that a timer may miss the turn under way
  and wait for two rounds of callbacks; a timeout of `select` of 2; one stop of the
  machine; `MaxTime = 5`, longer than every bound of `Prompt`. The bound after the
  first alarm, with and without the stop, is reached; the one before it, 4, is not,
  because in discrete time a timer that misses a turn becomes due one unit after
  the turn began at the earliest.
- `ui`: one port more than there are threads, two clicks, one change of an entry, two
  QEMU processes. The second click and process are what the first session's
  leftovers can disturb.

Deadlock is checked in every run but those of `UiServers`, where clicks, changes and
processes run out and a thread may wait in `accept` for ever.

### Fairness

- `board`: weak fairness of the delivery by the main loop, of the firmware, of a send
  that finds room and of each UI thread. The CPU thread and the main loop alternate
  under the global lock, which is `IoGetsMutex` of `IoThread`, and a thread blocked
  in `recv` or `send` wakes when it can go on. The user owes nothing: the clicks
  are not fair.
- `cpu`: weak fairness of taking an interrupt, of the end of a block, of the
  return sequence and of waking. The CPU thread runs until it is halted, blocks are
  finite, and the property is about guests whose handlers return.
- `systick`: weak fairness of the steps of the loop in `qemu_run_timers` only.
- `iothread`: weak fairness of the steps of each thread, of the delivery of the
  signal, of taking a mutex that stays free, and of the return of guest code
  whose blocks are unlinked. A mutex that is free only now and then may be missed
  every time: that the I/O thread gets it all the same is what
  `iothread_requesting_mutex` is for. Guest code that is linked need not return.
- `ui`: weak fairness of each server thread and of the connections of a QEMU that
  starts. Neither the user nor the end of a QEMU is fair.

`stack` and `timers` check safety only; `Prompt` bounds delays without fairness,
because `Tick` may not pass what is due.

## 4. Proofs

| Theorem | Module | For |
|---|---|---|
| `TypeCorrect`, `WireCorrect`, `IdrCorrect` | `Stm32GpioProofs` | any set of pins, any reset values |
| `BoardTypes`, `LedsFollowOdr`, `LedsShowButton`, `WaitIsBurst` | `DiscoveryProofs` | sockets of any size, any number of clicks and of restarts |
| `TypeCorrect`, `ArmedCorrect`, `DeadlineCorrect`, `CountdownCorrect`, `RunsShorten` | `SysTickProofs` | any register width, clock rates and horizon |
| `BestIsUnique` | `V7mCpuProofs` | any controller state: the choice of `gic_update` is a single interrupt |
| `TypeCorrect`, `VectorOnRequest`, `StatusCorrect`, `ChainDefined`, `StackCorrect`, `PreemptionCorrect`, `NoLevelLost`, `CompletionEnds`, `IcsrCorrect` | `V7mCpuProofs` | any finite set of interrupts, any priorities, any stack depth |
| `NestingImplemented` | `V7mCpuProofs` | the same: `V7mCpu` implements `InterruptNesting` |
| `StackTypes`, `RegistersOfContext`, `BankOfMode`, `WordsStay`, `ReturnGivesBack` | `V7mStackProofs` | any depth of nesting, any number of pushed words, any three stacks that lie apart |
| `TypeCorrect`, `KickIsNotLost`, `StoppedRunsNothing`, `ResetIsAlone`, `WakeupsArrive`, `KickedThreadYields`, `StopIsAnswered` | `IoThreadProofs` | any number of unasked wakeups |
| `TypeCorrect`, `ListsStaySorted`, `AlarmIsInTime`, `TimersArePrompt` | `QemuTimersProofs` | any timers, delays, shortest alarm, callback times, number of stops, and any bounds |
| `TypeCorrect`, `FirstLaunchIsSafe`, `OneSession` | `UiServersProofs` | any ports, any number of clicks, changes and processes |

The assumptions are the named `ASSUME`s of the modules: pins are 0..15 and reset
values have their types; interrupts are in 0..95, numbered 1..15 or from 32;
priorities are bytes that include 0; clock rates are natural numbers and the
reference clock is not 0; the default ports of the three threads differ; no timer is
on two clocks; the guest's three stacks do not overlap and each has room for what is
nested on it; bounds are natural numbers. TLC evaluates them in the runs.

**GPIO.** `TypeOK`, `WireFollowsOdr` and `IdrFollowsInput` are inductive together:
`UpdatePort` re-establishes `outd_old = outd`, which the next update's set of
changed pins depends on.

**Board.** The invariant is

    DInv == TypeOK /\ NoUi /\ OneEach /\ SetUp /\ OdrFollowsEtat /\ ImageFollowsOdr
            /\ ButtonUnderWay /\ IdrFollowsLine /\ ClicksUnderWay

It follows a level from the user to the image, one hop per conjunct: the newest byte
under way to the button is the state of the button (`ButtonUnderWay`), IDR has the
level of the line (`IdrFollowsLine`), the firmware's copy of IDR and ODR agree
(`OdrFollowsEtat`), and the newest byte under way to an LED is its ODR bit
(`ImageFollowsOdr`). `SetUp` says what `SystemInit` has done at each of its steps, on
which the hops through the ports rest. When the queues are empty the hops compose to
`IdleLedsShowButton`. `ClicksUnderWay` counts instead: the changes that are somewhere
between the user and an LED are at most the clicks, and two more that a loaded state
may hold. In the circular wait both sockets are full and every thread holds a byte,
so the count bounds the clicks from below; that is `WaitNeedsBurst`.

**SysTick.** `ArmedWhileEnabled` needs two facts that no run states: a stray timer
is one of a disabled SysTick (`StrayIsDisabled`), and the instant that
`qemu_run_timers` read has passed (`RunHasStarted`). With them a deadline that is
due lies in the past, so the reload from the callback stays within a period.
`CountsDown` is an action property and rests on two facts about integers: as a number
grows by one its quotient stays or grows by one (`TickQuotient`), and its remainder
grows by one or wraps to 0 (`NextCount`).
`RunsShorten` is the measure behind `RunEnds`: during a run of the timers nothing but
callbacks happens, and each takes the expiry nearer to the instant at which the run
started (`RunLeft`), because a period is positive outside the two cases that
`RunEnds` names (`PeriodIsPositive`).

**Core.** The invariant is

    Inv == TypeOK /\ GicInv /\ FrameShape /\ StackMatchesChain
           /\ PreemptionIsStrict /\ LevelNotLost /\ EmulatorRuns

`GicInv` says that request, offered interrupt and chain of the controller are
consistent, `FrameShape` that a CPU in thread mode has no frames and one in a
handler has some. The proof goes in three layers. Each operation of the controller
is shown to keep `GicInv`, and those that do not acknowledge or complete to be
*steady*: they leave the chain alone and uncover no raised line. A steady step
keeps the invariants about nesting, once for all operations. What is left is
`TakeIrq` and `ExceptionExit`: entry pushes one frame and one link with a strictly
smaller priority value, so the new interrupt is not in the chain already, and
the stack and the chain below it stay as they were; return removes both. The
walk of `gic_complete_irq` is reached only when the interrupt that completes is
not the running one, which `StackMatchesChain` excludes; hence `EmulatorRuns`.
Well-founded induction on natural numbers gives `Best` its witness.

**Nesting.** The refinement maps `stack` to the interrupts of the frames, `requests`
to the enabled and pending ones, and `loose` to the histories in which nothing is
promised. With `Inv` on both sides of a step, `TakeIrq` is `Enter` of the offered
interrupt, which `StatusCurrentUnlessStale` makes the best one; `ExceptionExit` is
`Leave`; and every other step is a `Change`, because it keeps the stack and, while
`sane` holds, the priorities in use.

**Stacks.** The invariant is

    SInv == TypeOK /\ Shape /\ Banks /\ Suspended /\ TaskSp /\ Nested /\ Frames
            /\ Stored

The active handlers and the current task form a chain, in which each handler has
interrupted the next larger one (`Shape`). `Ptr(d, b)` is where context `d` left stack
pointer `b`, `Floor(d, b)` where it found it. `Nested` says that a handler found both
pointers where the context it interrupted left them, below the frame on one of the
two stacks, and that all contexts further out lie above; the depth of a handler then
bounds how far down a stack can grow, so that a frame stays inside its region. `Frames`
says that every waiting context has its frame, with the alignment bit that leads from
the frame back to the stack pointer; `Suspended` ties the kernel's table to the frame
of the task that does not run; `Stored` says that every word a context has pushed is
still there. A write to memory is always at or below the pointer of the running
context, and everything that `Frames` and `Stored` speak of lies above it or on another
stack. `ReturnRestores` follows from `Frames` and `Nested` at the step of the return.

**Threads.** The invariant is `IInv == TypeOK /\ Ownership /\ Kicked /\ StopInv /\
NoLostWakeup`. `Ownership` ties the mutex and the flags to where the threads are.
`Kicked` is the strengthening of `KickNotLost`: it follows the kick through every
step at which the TCG thread may be, from the pending signal to the global
`exit_request`, to `env->exit_request`, to the unlinked block. `StopInv` carries the
result of `cpu_can_run` into `cpu_exec`, which is sound because the I/O thread can
change the flags only with the mutex.

Two theorems give the measures behind `IoGetsMutex` and `PauseReturns`. While the I/O
thread blocks on the mutex and the signal has been handled, every step of the TCG thread
except the interrupts that guest code raises without leaving it decreases
`StepsToYield`, which is at most 9, and at 0 the thread sleeps without the mutex
(`KickedThreadYields`, from `Kicked`). While `pause_all_vcpus` sleeps, every step
decreases `StepsToAnswer`, at most 8, or is the answer; that the request stands
until then is `PauseInv` (`StopIsAnswered`). Fairness is needed only for the steps to be
taken at all. A wakeup that nobody asked for starts the count again, and their number is
bounded.

**Timers.** The invariant is `TInv == TypeOK /\ Sorted /\ Started /\ AlarmCovers`.
Deleting and inserting are shown to keep a sorted list sorted (`InsertOrdered`); for
the alarm there are two cases, the operations that set it (`RearmKept`) and those
that leave it alone because the head of no list became earlier (`NoRearmKept`).
`Started` says that `pending` without `expired` occurs only before the first alarm,
which is why `qemu_mod_timer_ns` may rely on `pending` later.

`Prompt` needs `PInv == TInv /\ Turn /\ DueLater /\ Done /\ Waits`. `Waits` bounds the
lateness of an active timer by where the main loop is: a timer that was due when the
turn began is run by this turn, so that its lateness grows only with the time the turn
has taken (`Old`); any other one is at most `Wait` late, and while no alarm is being
handled the time until the alarm still fits into that bound. `AlarmCovers` gives this
last fact whenever the alarm is set, and time passes only while the main loop is not
due (`Turn`). `Done` says that `qemu_run_timers` leaves no such timer in the list of
`vm_clock`, and that the callbacks of `rt_clock` put none there. The callbacks count twice: those of the turn that comes too early for the
timer, and those of the turn that runs it.

**UI.** The invariant is `UInv == TypeOK /\ RunCounted /\ FreshWhileAccepting /\
OwnPort /\ OneLaunch`. `OneLaunch` says that, until the second click, a thread that
has kept a socket is in its session or waits with the event clear.

**Only model-checked:** the liveness properties (`LedsSettle`, `PressLights`,
`SendEnds`, `OfferedIsTaken`, `RunEnds`, `IoGetsMutex`, `PauseReturns`,
`FirstLaunchListens`), which are out of the reach of this prover. For `RunEnds`,
`IoGetsMutex` and `PauseReturns` the decreasing measure is proved, and TLC checks the
rest, which is fairness. Every other property of a passing run is proved.

## 5. What is not modelled, and why

The repository is QEMU 1.0 as a whole, 1.4 million lines; the models cover what the
board adds and the part of QEMU that decides its behaviour, a small fraction of
these lines. Not modelled:

- the translator and the instruction semantics beyond those that reach the devices:
  code generation has no state that interleaves with the rest;
- the other machines, devices, targets, block layer, network and front ends of QEMU,
  which this board does not use;
- `hw/stm32_rcc.c`, which is not compiled, and the empty stubs of the system memory in
  `hw/stm32.c`;
- loading of the image, and the first demonstration, which writes constants to ODR;
- reads of GIC registers other than ICSR, which change nothing;
- saving and loading of the GIC, the SysTick and the timers (the ports and the button
  are covered): a field-by-field copy between two stopped machines;
- KVM, instruction counting, several CPUs, work queued on a CPU and the debugger's
  own protocol, none of which this board runs with by default;
- `cpu_stop_current` and `vm_stop` called in the CPU thread: on this board only the
  debugger's semihosting calls would reach them;
- alarm methods other than `dynticks`, which is the one chosen on Linux;
- in the UI the layout, the text of the log and the "Reset" button, which only writes
  to the log.

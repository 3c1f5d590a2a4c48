------------------------------ MODULE SysTick -------------------------------
(***************************************************************************)
(* The SysTick timer of the NVIC (hw/armv7m_nvic.c) and the QEMU timer     *)
(* under it (qemu-timer.c).                                                *)
(*                                                                         *)
(* The fields of systick are kept as the code keeps them: tick is one      *)
(* 64-bit variable that holds the instant of the next expiry while the     *)
(* timer runs and the time that is left while it is stopped.  The timer is *)
(* the only one of vm_clock.  The guest and the callbacks exclude each     *)
(* other; qemu_run_timers fires every timer that is due at the instant it  *)
(* read when it started, and may be called late.                           *)
(***************************************************************************)
EXTENDS Integers

CONSTANTS Words,     \* a 32-bit register holds 0 .. Words - 1
          Reference, \* nanoseconds of a tick of the reference clock
          CpuScale,  \* system_clock_scale, those of the processor clock
          Horizon    \* bound on the clock

ASSUME WordsAssumption == Words \in Nat \ {0}
ASSUME ReferenceAssumption == Reference \in Nat \ {0}
ASSUME CpuScaleAssumption == CpuScale \in Nat
ASSUME HorizonAssumption == Horizon \in Nat

VARIABLES
    now,      \* vm_clock
    control,  \* the control register
    reload,   \* the reload register
    tick,     \* systick.tick
    timer,    \* expire_time of the QEMU timer, or Off if it is not active
    run,      \* current_time of a qemu_run_timers in progress, or Off
    pending,  \* the SysTick exception is pending in the NVIC
    fate,     \* "runs", or "divides" when the emulator divided by zero
    hist      \* history, read by no action (see TickHistory)

vars == <<now, control, reload, tick, timer, run, pending, fate, hist>>

Off == -1

Control == [enable : BOOLEAN, tickint : BOOLEAN, clksource : BOOLEAN,
            countflag : BOOLEAN]

(* History of the timer:                                                   *)
(*   unit    what tick is: time "left", an "instant", or the "sum" of two  *)
(*           instants                                                      *)
(*   period  the period that the last reload added to tick                 *)
(*   stray   the timer was set while the SysTick was disabled              *)
TickHistory == [unit : {"left", "instant", "sum"}, period : Nat, stray : BOOLEAN]

(* The zeroed structure of a new NVIC. *)
Init == /\ now = 0
        /\ control = [enable |-> FALSE, tickint |-> FALSE, clksource |-> FALSE,
                      countflag |-> FALSE]
        /\ reload = 0
        /\ tick = 0
        /\ timer = Off
        /\ run = Off
        /\ pending = FALSE
        /\ fate = "runs"
        /\ hist = [unit |-> "left", period |-> 0, stray |-> FALSE]

-----------------------------------------------------------------------------
(* systick_scale *)
Scale(clksource) == IF clksource THEN CpuScale ELSE Reference

(* (reload + 1) * scale: the addition is one of 32 bits. *)
Period(clksource) == ((reload + 1) % Words) * Scale(clksource)

(* systick_reload, from the instant base. *)
ReloadUnarmed(base, c) ==  \* mutant: the timer is not modified
    /\ tick' = base + Period(c.clksource)
    /\ timer' = timer
    /\ hist' = [unit |-> "instant", period |-> Period(c.clksource), stray |-> ~c.enable]
ReloadStuck(base, c) ==    \* mutant: the period is not added
    /\ tick' = base
    /\ timer' = tick'
    /\ hist' = [unit |-> "instant", period |-> Period(c.clksource), stray |-> ~c.enable]
Reload(base, c) ==
    /\ tick' = base + Period(c.clksource)
    /\ timer' = tick'
    /\ hist' = [unit |-> "instant", period |-> Period(c.clksource),
                stray |-> ~c.enable]

-----------------------------------------------------------------------------
(* The guest runs while no timer callback does. *)
Guest == run = Off /\ fate = "runs"

(* The time left when the SysTick is disabled *)
RemainingInstant == tick     \* mutant: now is not subtracted
Remaining == IF tick < now THEN 0 ELSE tick - now

(* A write of enable, tickint and clksource to 0x10 *)
WriteControl(c) ==
    /\ Guest
    /\ c.countflag = control.countflag
    /\ control' = c
    /\ \/ /\ c.enable /\ ~control.enable /\ tick # 0
          /\ tick' = tick + now
          /\ timer' = tick'
          /\ hist' = [hist EXCEPT !.unit = IF @ = "left" THEN "instant" ELSE "sum",
                                  !.stray = FALSE]
       \/ /\ c.enable /\ ~control.enable /\ tick = 0
          /\ Reload(now, c)
       \/ /\ ~c.enable /\ control.enable
          /\ timer' = Off
          /\ tick' = Remaining
          /\ hist' = [hist EXCEPT !.unit = IF @ = "sum" THEN "sum" ELSE "left"]
       \/ /\ c.enable = control.enable /\ c.clksource # control.clksource
          /\ Reload(now, c)
       \/ /\ c.enable = control.enable /\ c.clksource = control.clksource
          /\ UNCHANGED <<tick, timer, hist>>
    /\ UNCHANGED <<now, reload, run, pending, fate>>

WriteReload(r) == /\ Guest
                  /\ reload' = r
                  /\ UNCHANGED <<now, control, tick, timer, run, pending, fate, hist>>

(* A write to 0x18 reloads the timer, whether it is enabled or not. *)
WriteCurrent == /\ Guest
                /\ Reload(now, control)
                /\ control' = [control EXCEPT !.countflag = FALSE]
                /\ UNCHANGED <<now, reload, run, pending, fate>>

ReadControl == /\ Guest
               /\ control' = [control EXCEPT !.countflag = FALSE]
               /\ UNCHANGED <<now, reload, tick, timer, run, pending, fate, hist>>

(* The value a read of 0x18 returns.  A count above reload, which shows    *)
(* during the first tick of a period, reads as 0.                          *)
Counting == control.enable /\ now < tick

CurrentFloor ==  \* mutant: the tick that has started is not counted
    LET count == ((tick - (now + 1)) \div Scale(control.clksource)) % Words
    IN  IF Counting /\ count <= reload THEN count ELSE 0
Current ==
    LET count == ((tick - (now + 1)) \div Scale(control.clksource) + 1) % Words
    IN  IF Counting /\ count <= reload THEN count ELSE 0

(* It divides by a scale that is 0 when the board sets no CPU clock. *)
ReadCurrent == /\ Guest
               /\ fate' = IF Counting /\ Scale(control.clksource) = 0
                          THEN "divides" ELSE fate
               /\ UNCHANGED <<now, control, reload, tick, timer, run, pending, hist>>

(* The exception is taken, or cleared through the ICSR. *)
Take == /\ Guest /\ pending
        /\ pending' = FALSE
        /\ UNCHANGED <<now, control, reload, tick, timer, run, fate, hist>>

-----------------------------------------------------------------------------
Advance == /\ Guest /\ now < Horizon
           /\ now' = now + 1
           /\ UNCHANGED <<control, reload, tick, timer, run, pending, fate, hist>>

(* qemu_run_timers: it reads the clock once, fires what is due and ends. *)
Due(t) == timer # Off /\ timer <= t

RunTimers == /\ Guest /\ Due(now)
             /\ run' = now
             /\ UNCHANGED <<now, control, reload, tick, timer, pending, fate, hist>>

(* systick_timer_tick, the callback of a timer that was just removed *)
Fire == /\ run # Off /\ Due(run)
        /\ pending' = (pending \/ control.tickint)
        /\ \/ /\ reload = 0
              /\ control' = [control EXCEPT !.countflag = TRUE, !.enable = FALSE]
              /\ timer' = Off
              /\ hist' = [hist EXCEPT !.unit = "instant", !.stray = FALSE]
              /\ UNCHANGED tick
           \/ /\ reload # 0
              /\ control' = [control EXCEPT !.countflag = TRUE]
              /\ Reload(tick, control)
        /\ UNCHANGED <<now, reload, run, fate>>

EndRun == /\ run # Off /\ ~Due(run)
          /\ run' = Off
          /\ UNCHANGED <<now, control, reload, tick, timer, pending, fate, hist>>

Next == \/ \E c \in Control : WriteControl(c)
        \/ \E r \in 0 .. Words - 1 : WriteReload(r)
        \/ WriteCurrent \/ ReadControl \/ ReadCurrent \/ Take
        \/ Advance \/ RunTimers \/ Fire \/ EndRun

Spec == Init /\ [][Next]_vars

(* The loop of qemu_run_timers keeps running. *)
FairSpec == Spec /\ WF_vars(Fire) /\ WF_vars(EndRun)

-----------------------------------------------------------------------------
(* Types of the registers, the timer and the history. *)
TypeOK == /\ now \in 0 .. Horizon
          /\ control \in Control
          /\ reload \in 0 .. Words - 1
          /\ tick \in Nat
          /\ timer \in Nat \cup {Off}
          /\ run \in Nat \cup {Off}
          /\ pending \in BOOLEAN
          /\ fate \in {"runs", "divides"}
          /\ hist \in TickHistory

(* The timer is active exactly while the SysTick counts, and fires when    *)
(* tick says, through every sequence of writes, expiries and late          *)
(* callbacks.  The exception: systick_reload also sets the timer when      *)
(* 0x18 is written, or the clock source switched, in the disabled state,   *)
(* and the timer then fires, and sets the exception pending, for ever.     *)
ArmedWhileEnabled == /\ timer # Off <=> (control.enable \/ hist.stray)
                     /\ timer # Off => timer = tick

(* tick is never further away than the period of the last reload, through  *)
(* stops, resumptions and clock switches.  The exception: the SysTick is   *)
(* enabled while tick is an instant, because a stray timer or a one-shot   *)
(* left one, and now is added to it.                                       *)
DeadlineNear == /\ hist.unit = "instant" => tick <= now + hist.period
                /\ hist.unit = "left" => tick <= hist.period

(* As time passes a read of 0x18 counts down by single steps: it is 0 for  *)
(* the first tick of a period, then the reload value, and 1 for the last   *)
(* tick before the expiry, even when the reload register changes half way. *)
CountsDown ==
    [][Advance /\ Scale(control.clksource) # 0
         => IF Counting'
            THEN \/ Current' \in {Current, Current - 1}
                 \/ Current = 0 /\ Current' = reload
            ELSE Counting /\ reload # 0 => Current = 1]_vars

(* qemu_run_timers ends, although systick_timer_tick sets the timer it was *)
(* called for: each expiry is later than the one before, unless the period *)
(* is 0, with a reload of 0xffffffff or no CPU clock.                      *)
RunEnds ==
    run # Off ~> \/ run = Off
                 \/ reload = Words - 1
                 \/ control.clksource /\ CpuScale = 0
=============================================================================

----------------------------- MODULE QemuTimers -----------------------------
(***************************************************************************)
(* The timers of QEMU (qemu-timer.c): the sorted list of each clock, the   *)
(* one-shot alarm of the host, and qemu_run_all_timers in the main loop.   *)
(*                                                                         *)
(* vm_clock stops with the machine and rt_clock never does; host_clock     *)
(* carries no timer of the board.  Guest code, callbacks and the main loop *)
(* hold the global lock, so an operation on the timers is one step.        *)
(* Callbacks run one after the other and time may pass between them.       *)
(***************************************************************************)
EXTENDS Integers, Sequences, FiniteSets

CONSTANTS VmTimers, RtTimers,  \* the timers of the two clocks
          Delays,              \* distances at which a timer is set
          MinRearm,            \* MIN_TIMER_REARM_NS
          SelectTimeout,       \* qemu_calculate_timeout
          MaxRun,              \* time the callbacks of one turn may take
          MaxTime, MaxStops    \* bounds on real time and on vm_stop

ASSUME TimersAssumption == VmTimers \cap RtTimers = {}
ASSUME DelaysAssumption == Delays \subseteq Int
ASSUME BoundsAssumption == /\ MinRearm \in Nat \ {0} /\ SelectTimeout \in Nat \ {0}
                           /\ MaxRun \in Nat
                           /\ MaxTime \in Nat /\ MaxStops \in Nat

VARIABLES
    now, vmnow,  \* real time and the value of vm_clock
    ticks,       \* timers_state.cpu_ticks_enabled
    enabled,     \* vm_clock->enabled
    active,      \* active_timers of each clock
    expire,      \* expire_time of each active timer
    alarm,       \* real time at which the host alarm expires, or Off
    signal,      \* SIGALRM waits to be read
    pending, expired,  \* fields of alarm_timer
    phase,       \* the main loop: "select", or the clock it runs timers of
    current,     \* current_time in qemu_run_timers
    idle,        \* time since select or qemu_run_all_timers was called
    stops,       \* calls of vm_stop
    hist         \* history, read by no action (see TimerHistory)

clocks == <<now, vmnow, ticks, stops>>
lists == <<active, expire>>
alarmVars == <<alarm, signal, pending, expired>>
loop == <<phase, current, idle>>
vars == <<clocks, enabled, lists, alarmVars, loop, hist>>

Off == -1
Clocks == {"vm", "rt"}
Timers == VmTimers \cup RtTimers
ClockOf(t) == IF t \in VmTimers THEN "vm" ELSE "rt"

(* History of the timers:                                                  *)
(*   set    the alarm has been set since the first turn of the main loop   *)
(*   due    when each active timer could first fire: its expire_time, or   *)
(*          the time at which it, or the first alarm, was set if that is   *)
(*          later                                                          *)
TimerHistory == [set : 0..1, due : [Timers -> Int]]

(* init_timer_alarm: "first event is at time 0". *)
Init == /\ now = 0 /\ vmnow = 0
        /\ ticks = 1 /\ enabled = 1 /\ stops = 0
        /\ active = [c \in Clocks |-> <<>>]
        /\ expire = [t \in Timers |-> 0]
        /\ alarm = Off /\ signal = 0
        /\ pending = 1 /\ expired = 0
        /\ phase = "select" /\ current = 0 /\ idle = 0
        /\ hist = [set |-> 0, due |-> [t \in Timers |-> 0]]

-----------------------------------------------------------------------------
(* qemu_get_clock_ns *)
Clock(c) == IF c = "vm" THEN vmnow ELSE now

(* qemu_next_alarm_deadline, over the heads of the lists *)
Deltas(act, exp) ==
    {exp[act[c][1]] - Clock(c) : c \in {k \in Clocks : act[k] # <<>>}}

(* dynticks_rearm_timer: the alarm is set at most MinRearm or the nearest  *)
(* deadline from now, unless it already comes earlier.                     *)
RearmAt(act, exp) ==
    LET nearest == CHOOSE d \in Deltas(act, exp) : \A e \in Deltas(act, exp) : d <= e
        delta == IF nearest < MinRearm THEN MinRearm ELSE nearest
    IN  IF alarm # Off /\ alarm - now <= delta THEN alarm ELSE now + delta

(* pending is still the one of init_timer_alarm. *)
AtStart == pending = 1 /\ expired = 0

(* qemu_rearm_alarm_timer, which does nothing when no timer is active *)
Rearm(act, exp, due) ==
    IF Deltas(act, exp) = {}
    THEN alarm' = alarm /\ hist' = [hist EXCEPT !.due = due]
    ELSE /\ alarm' = RearmAt(act, exp)
         /\ hist' = [set |-> IF AtStart THEN 0 ELSE 1,
                     due |-> IF hist.set = 1 THEN due
                             ELSE [t \in Timers |-> IF due[t] < Clock(ClockOf(t))
                                                    THEN Clock(ClockOf(t)) ELSE due[t]]]

NoRearm(due) == alarm' = alarm /\ hist' = [hist EXCEPT !.due = due]

-----------------------------------------------------------------------------
(* qemu_del_timer: the list is searched for t, which is unlinked. *)
Without(q, t) ==
    IF \E p \in DOMAIN q : q[p] = t
    THEN LET p == CHOOSE i \in DOMAIN q : q[i] = t
         IN  SubSeq(q, 1, p - 1) \o SubSeq(q, p + 1, Len(q))
    ELSE q

(* The timers at the front of q that expire at time e or before. *)
InsertPointFirst(q, e) == 0   \* mutant: a timer is inserted at the head
InsertPoint(q, e) ==
    CHOOSE k \in 0..Len(q) :
       /\ \A i \in 1..k : expire[q[i]] <= e
       /\ k = Len(q) \/ expire[q[k + 1]] > e

(* qemu_mod_timer_ns *)
Mod(t, e) ==
    LET c == ClockOf(t)
        q == Without(active[c], t)
        k == InsertPoint(q, e)
        due == [hist.due EXCEPT ![t] = IF e < Clock(c) THEN Clock(c) ELSE e]
    IN  /\ active' = [active EXCEPT ![c] = SubSeq(q, 1, k) \o <<t>>
                                             \o SubSeq(q, k + 1, Len(q))]
        /\ expire' = [expire EXCEPT ![t] = e]
        /\ IF k = 0 /\ pending = 0 THEN Rearm(active', expire', due)
                                   ELSE NoRearm(due)

Del(t) ==
    /\ active' = [active EXCEPT ![ClockOf(t)] = Without(@, t)]
    /\ expire' = [expire EXCEPT ![t] = 0]
    /\ NoRearm([hist.due EXCEPT ![t] = 0])

(* The guest, a callback or the main loop sets or deletes a timer.  The    *)
(* distance is zero or negative when the time asked for has already come.  *)
SetTimer(t, d) == /\ t \in VmTimers => ticks = 1
                  /\ Mod(t, Clock(ClockOf(t)) + d)
                  /\ UNCHANGED <<clocks, enabled, signal, pending, expired, loop>>

DeleteTimer(t) == /\ t \in VmTimers => ticks = 1
                  /\ Del(t)
                  /\ UNCHANGED <<clocks, enabled, signal, pending, expired, loop>>

-----------------------------------------------------------------------------
(* host_alarm_handler, when the main loop reads the signal *)
HostAlarm == /\ phase = "select" /\ signal = 1
             /\ signal' = 0
             /\ expired' = 1 /\ pending' = 1
             /\ UNCHANGED <<clocks, enabled, lists, alarm, loop, hist>>

(* qemu_run_timers reads its clock once; a disabled clock has no turn. *)
StartClock(c) == /\ phase' = c
                 /\ current' = Clock(c)

AfterVmInverted == IF enabled = 1 THEN "rt" ELSE "vm"  \* mutant
AfterVm == IF enabled = 1 THEN "vm" ELSE "rt"

(* qemu_run_all_timers: the alarm is set before the timers run.  A signal  *)
(* that comes after the handlers of select waits for the next turn.        *)
RunAllForgets ==  \* mutant: a one-shot alarm is not set again
    /\ phase = "select"
    /\ pending' = 0 /\ expired' = 0
    /\ idle' = 0
    /\ StartClock(AfterVm)
    /\ UNCHANGED <<clocks, enabled, lists, signal, alarm, hist>>
RunAll == /\ phase = "select"
          /\ pending' = 0 /\ expired' = 0
          /\ IF expired = 1 THEN Rearm(active, expire, hist.due)
                            ELSE NoRearm(hist.due)
          /\ idle' = 0
          /\ StartClock(AfterVm)
          /\ UNCHANGED <<clocks, enabled, lists, signal>>

(* The head of the list has expired: it is removed, then its callback runs *)
(* and may set it again, in the past too, as systick_reload does when the  *)
(* timer is late.  What it does to other timers is SetTimer, DeleteTimer.  *)
Expired == active[phase] # <<>> /\ expire[active[phase][1]] <= current

Fire == /\ phase # "select" /\ Expired
        /\ LET t == active[phase][1]
           IN  \/ Del(t)
               \/ \E d \in Delays : Mod(t, Clock(phase) + d)
        /\ UNCHANGED <<clocks, enabled, signal, pending, expired, loop>>

ClockDone == /\ phase # "select" /\ ~Expired
             /\ IF phase = "vm" THEN StartClock("rt")
                                ELSE phase' = "select" /\ current' = 0
             /\ idle' = IF phase = "vm" THEN idle ELSE 0
             /\ UNCHANGED <<clocks, enabled, lists, alarmVars, hist>>

-----------------------------------------------------------------------------
(* do_vm_stop and pause_all_vcpus; vm_start and resume_all_vcpus *)
VmStop == /\ phase = "select" /\ ticks = 1 /\ stops < MaxStops
          /\ ticks' = 0
          /\ enabled' = 0
          /\ stops' = stops + 1
          /\ UNCHANGED <<now, vmnow, lists, alarmVars, loop, hist>>

(* qemu_clock_enable(vm_clock, 1) *)
EnableClock == /\ enabled' = 1
               /\ IF enabled = 0 THEN Rearm(active, expire, hist.due)
                                 ELSE NoRearm(hist.due)

VmStart == /\ phase = "select" /\ ticks = 0
           /\ ticks' = 1
           /\ EnableClock
           /\ UNCHANGED <<now, vmnow, stops, lists, signal, pending, expired, loop>>

(* tcg_exec_all enables vm_clock, even when the machine is stopped. *)
ExecAll == /\ phase = "select" /\ enabled = 0
           /\ EnableClock
           /\ UNCHANGED <<clocks, lists, signal, pending, expired, loop>>

(* Time passes; the alarm of the host expires. *)
Tick == /\ now < MaxTime
        /\ now' = now + 1
        /\ vmnow' = vmnow + ticks
        /\ IF alarm = now'
           THEN alarm' = Off /\ signal' = 1
           ELSE UNCHANGED <<alarm, signal>>
        /\ idle' = idle + 1
        /\ UNCHANGED <<ticks, stops, enabled, lists, pending, expired, phase,
                       current, hist>>

(* The host runs the main loop as soon as it has something to do, and      *)
(* select returns when its time is up.                                     *)
Urgent == IF phase = "select"
          THEN signal = 1 \/ expired = 1 \/ idle = SelectTimeout
          ELSE idle = MaxRun

Next == \/ \E t \in Timers : DeleteTimer(t) \/ \E d \in Delays : SetTimer(t, d)
        \/ HostAlarm \/ RunAll \/ Fire \/ ClockDone
        \/ VmStop \/ VmStart \/ ExecAll
        \/ ~Urgent /\ Tick

Spec == Init /\ [][Next]_vars

-----------------------------------------------------------------------------
(* Types of the clocks, the lists, the alarm and the main loop. *)
TypeOK == /\ now \in 0..MaxTime /\ vmnow \in 0..now
          /\ ticks \in 0..1 /\ enabled \in 0..1 /\ stops \in 0..MaxStops
          /\ active \in [Clocks -> Seq(Timers)]
          /\ expire \in [Timers -> Int]
          /\ alarm \in Int
          /\ signal \in 0..1 /\ pending \in 0..1 /\ expired \in 0..1
          /\ phase \in Clocks \cup {"select"}
          /\ current \in Int /\ idle \in Nat
          /\ hist \in TimerHistory

(* qemu_mod_timer_ns and qemu_del_timer: each list holds timers of its     *)
(* clock, none of them twice, in the order of their expire_time, so that   *)
(* the head alone decides what qemu_run_timers and the alarm do.           *)
Sorted ==
    \A c \in Clocks : \A i, j \in DOMAIN active[c] :
       /\ ClockOf(active[c][i]) = c
       /\ i < j => /\ active[c][i] # active[c][j]
                   /\ expire[active[c][i]] <= expire[active[c][j]]

(* Whenever a timer is active, the alarm is on its way or set early enough *)
(* for the nearest deadline, through every insertion, turn of the main     *)
(* loop and stop of the machine.  The exception is the start: pending is   *)
(* set then although no alarm has expired, so that a timer set before the  *)
(* first turn of the main loop does not set the alarm, and neither does    *)
(* that turn.                                                              *)
AlarmCovers ==
    \/ signal = 1 \/ expired = 1 \/ hist.set = 0
    \/ \A d \in Deltas(active, expire) :
          /\ alarm # Off
          /\ alarm - now <= d \/ alarm - now <= MinRearm

(* The longest wait before the turn that runs a timer: the callbacks of    *)
(* the turn before, or the shortest alarm.                                 *)
Longest == IF MaxRun < MinRearm THEN MinRearm ELSE MaxRun

(* On a host that runs the main loop when it is due, a timer that expires  *)
(* too late for one turn waits for the rest of it or for the shortest      *)
(* alarm, and then for the callbacks of the next turn.  Before the first   *)
(* alarm is set it waits for the timeout of select instead.  Each stop of  *)
(* the machine may cost a timer of vm_clock one more alarm, which finds    *)
(* the clock disabled.                                                     *)
Prompt ==
    \A t \in Timers :
       LET c == ClockOf(t)
           late == Clock(c) - hist.due[t]
       IN  (\E i \in DOMAIN active[c] : active[c][i] = t)
             => late <= MaxRun + IF hist.set = 0 THEN MaxRun + SelectTimeout
                                 ELSE IF c = "rt" THEN Longest
                                 ELSE Longest + MinRearm * stops
=============================================================================

---------------------------- MODULE SysTickProofs ----------------------------
(***************************************************************************)
(* Proofs that the timer of the SysTick is active while it should be, that *)
(* its deadline is never further away than a period, that its current      *)
(* value counts down and that a run of the timers gets shorter with every  *)
(* callback, for registers of any width, any clock rates and any horizon.  *)
(***************************************************************************)
EXTENDS SysTick, TLAPS

(* A run of the timers started at an instant that has passed. *)
RunHasStarted == run # Off => run <= now

(* A stray timer is one of a disabled SysTick. *)
StrayIsDisabled == hist.stray => ~control.enable

Inv == TypeOK /\ ArmedWhileEnabled /\ DeadlineNear /\ RunHasStarted /\ StrayIsDisabled

(* systick_scale and the product in systick_reload are natural numbers. *)
LEMMA PeriodIsNat == ASSUME reload \in Nat, NEW c \in BOOLEAN
                     PROVE  Period(c) \in Nat
<1>1. Scale(c) \in Nat
  BY ReferenceAssumption, CpuScaleAssumption DEF Scale
<1>2. (reload + 1) % Words \in Nat
  BY WordsAssumption
<1>3. \A m, n \in Nat : m * n \in Nat
  OBVIOUS
<1> QED
  BY <1>1, <1>2, <1>3, Zenon DEF Period

(* What systick_reload leaves, from a base that has passed. *)
LEMMA ReloadInv == ASSUME TypeOK, NEW base \in Nat, base <= now, NEW c \in Control,
                          Reload(base, c)
                   PROVE  /\ tick' \in Nat /\ timer' \in Nat
                          /\ hist' \in TickHistory
                          /\ hist'.unit = "instant"
                          /\ hist'.stray = ~c.enable
                          /\ timer' = tick'
                          /\ timer' # Off
                          /\ tick' <= now + hist'.period
<1> DEFINE p == Period(c.clksource)
<1>0. reload \in Nat /\ now \in Nat /\ c.clksource \in BOOLEAN /\ c.enable \in BOOLEAN
  BY WordsAssumption, HorizonAssumption DEF TypeOK, Control
<1>1. p \in Nat
  BY <1>0, PeriodIsNat
<1>2. /\ tick' = base + p /\ timer' = tick'
      /\ hist' = [unit |-> "instant", period |-> p, stray |-> ~c.enable]
  BY DEF Reload
<1> HIDE DEF p
<1>3. hist' \in TickHistory /\ hist'.period = p
  BY <1>0, <1>1, <1>2 DEF TickHistory
<1> QED
  BY <1>0, <1>1, <1>2, <1>3 DEF Off

(* The zeroed structure satisfies the invariant. *)
LEMMA InitInv == Init => Inv
<1> SUFFICES ASSUME Init PROVE Inv
  OBVIOUS
<1>1. /\ hist \in TickHistory /\ hist.stray = FALSE
      /\ hist.unit = "left" /\ hist.period = 0
  BY DEF Init, TickHistory
<1>2. control \in Control /\ control.enable = FALSE
  BY DEF Init, Control
<1>3. TypeOK
  <2>1. reload \in 0 .. Words - 1 /\ now \in 0 .. Horizon
    BY WordsAssumption, HorizonAssumption DEF Init
  <2> QED
    BY <1>1, <1>2, <2>1 DEF Init, TypeOK
<1>4. DeadlineNear
  BY <1>1 DEF Init, DeadlineNear
<1>5. ArmedWhileEnabled /\ RunHasStarted /\ StrayIsDisabled
  BY <1>1, <1>2, Zenon DEF Init, ArmedWhileEnabled, RunHasStarted, StrayIsDisabled
<1> QED
  BY <1>3, <1>4, <1>5 DEF Inv

(* A write to 0x10: start, resume, stop, switch of the clock, or none.      *)
LEMMA WriteControlInv == ASSUME Inv, NEW c \in Control, WriteControl(c) PROVE Inv'
<1> USE DEF Inv
<1>0. /\ now \in Nat /\ tick \in Nat /\ control \in Control /\ now \in 0 .. Horizon
      /\ hist \in TickHistory /\ hist.period \in Nat
      /\ c.enable \in BOOLEAN /\ control.enable \in BOOLEAN /\ hist.stray \in BOOLEAN
  BY HorizonAssumption DEF TypeOK, Control, TickHistory
<1>1. /\ control' = c /\ now' = now /\ reload' = reload /\ run' = run
      /\ pending' = pending /\ fate' = fate
  BY DEF WriteControl
<1>2. CASE c.enable /\ ~control.enable /\ tick # 0 /\ tick' = tick + now /\ timer' = tick'
           /\ hist' = [hist EXCEPT !.unit = IF @ = "left" THEN "instant" ELSE "sum",
                                   !.stray = FALSE]
  <2>1. /\ hist' \in TickHistory /\ hist'.period = hist.period /\ hist'.stray = FALSE
        /\ hist'.unit \in {"instant", "sum"}
        /\ hist'.unit = "instant" => hist.unit = "left"
    BY <1>0, <1>2 DEF TickHistory
  <2>2. DeadlineNear'
    BY <1>0, <1>1, <1>2, <2>1 DEF DeadlineNear
  <2> QED
    BY <1>0, <1>1, <1>2, <2>1, <2>2
    DEF TypeOK, ArmedWhileEnabled, RunHasStarted, StrayIsDisabled, Off
<1>3. CASE Reload(now, c)
  <2>1. /\ tick' \in Nat /\ timer' \in Nat /\ hist' \in TickHistory
        /\ hist'.unit = "instant" /\ hist'.stray = ~c.enable
        /\ timer' = tick' /\ timer' # Off /\ tick' <= now + hist'.period
    BY <1>0, <1>3, ReloadInv
  <2>2. TypeOK'
    BY <1>0, <1>1, <2>1 DEF TypeOK
  <2> QED
    BY <1>0, <1>1, <2>1, <2>2
    DEF ArmedWhileEnabled, DeadlineNear, RunHasStarted, StrayIsDisabled
<1>4. CASE ~c.enable /\ control.enable /\ timer' = Off /\ tick' = Remaining
           /\ hist' = [hist EXCEPT !.unit = IF @ = "sum" THEN "sum" ELSE "left"]
  <2>1. /\ hist' \in TickHistory /\ hist'.period = hist.period /\ hist'.stray = FALSE
        /\ hist'.unit \in {"left", "sum"}
        /\ hist'.unit = "left" => hist.unit # "sum"
    BY <1>0, <1>4 DEF TickHistory, StrayIsDisabled
  <2>2. tick' \in Nat /\ (tick' = 0 \/ tick' = tick - now)
    BY <1>0, <1>4 DEF Remaining
  <2>3. DeadlineNear'
    BY <1>0, <1>1, <2>1, <2>2 DEF DeadlineNear, TickHistory
  <2> QED
    BY <1>0, <1>1, <1>4, <2>1, <2>2, <2>3
    DEF TypeOK, ArmedWhileEnabled, RunHasStarted, StrayIsDisabled
<1>5. CASE UNCHANGED <<tick, timer, hist>> /\ c.enable = control.enable
  BY <1>0, <1>1, <1>5
  DEF TypeOK, ArmedWhileEnabled, DeadlineNear, RunHasStarted, StrayIsDisabled
<1> QED
  BY <1>2, <1>3, <1>4, <1>5 DEF WriteControl

(* systick_timer_tick *)
LEMMA FireInv == ASSUME Inv, Fire PROVE Inv'
<1> USE DEF Inv
<1>0. /\ now \in Nat /\ tick \in Nat /\ control \in Control /\ now \in 0 .. Horizon
      /\ hist \in TickHistory /\ hist.period \in Nat
      /\ control.enable \in BOOLEAN /\ control.tickint \in BOOLEAN
      /\ hist.stray \in BOOLEAN /\ run \in Nat /\ run # Off
  BY HorizonAssumption DEF TypeOK, Control, TickHistory, Fire
<1>1. tick <= now
  BY <1>0 DEF Fire, Due, ArmedWhileEnabled, RunHasStarted
<1>2. /\ now' = now /\ reload' = reload /\ run' = run /\ fate' = fate
      /\ pending' \in BOOLEAN
  BY <1>0 DEF Fire, TypeOK
<1>3. CASE /\ control' = [control EXCEPT !.countflag = TRUE, !.enable = FALSE]
           /\ timer' = Off
           /\ hist' = [hist EXCEPT !.unit = "instant", !.stray = FALSE]
           /\ UNCHANGED tick
  <2>1. /\ hist' \in TickHistory /\ hist'.period = hist.period /\ hist'.stray = FALSE
        /\ hist'.unit = "instant"
    BY <1>0, <1>3 DEF TickHistory
  <2>2. control' \in Control /\ control'.enable = FALSE
    BY <1>0, <1>3 DEF Control
  <2> QED
    BY <1>0, <1>1, <1>2, <1>3, <2>1, <2>2
    DEF TypeOK, ArmedWhileEnabled, DeadlineNear, RunHasStarted, StrayIsDisabled
<1>4. CASE control' = [control EXCEPT !.countflag = TRUE] /\ Reload(tick, control)
  <2>1. control' \in Control /\ control'.enable = control.enable
    BY <1>0, <1>4 DEF Control
  <2>2. /\ tick' \in Nat /\ timer' \in Nat /\ hist' \in TickHistory
        /\ hist'.unit = "instant" /\ hist'.stray = ~control.enable
        /\ timer' = tick' /\ timer' # Off /\ tick' <= now + hist'.period
    BY <1>0, <1>1, <1>4, ReloadInv
  <2>3. TypeOK'
    BY <1>0, <1>2, <2>1, <2>2 DEF TypeOK
  <2> QED
    BY <1>0, <1>2, <2>1, <2>2, <2>3
    DEF ArmedWhileEnabled, DeadlineNear, RunHasStarted, StrayIsDisabled
<1> QED
  BY <1>3, <1>4 DEF Fire

(* A write to 0x18 *)
LEMMA WriteCurrentInv == ASSUME Inv, WriteCurrent PROVE Inv'
<1> USE DEF Inv
<1>0. /\ now \in Nat /\ control \in Control /\ control.enable \in BOOLEAN
  BY HorizonAssumption DEF TypeOK, Control
<1>1. control' \in Control /\ control'.enable = control.enable
  BY <1>0 DEF Control, WriteCurrent
<1>2. /\ tick' \in Nat /\ timer' \in Nat /\ hist' \in TickHistory
      /\ hist'.unit = "instant" /\ hist'.stray = ~control.enable
      /\ timer' = tick' /\ timer' # Off /\ tick' <= now + hist'.period
  BY <1>0, ReloadInv DEF WriteCurrent
<1>3. /\ now' = now /\ reload' = reload /\ run' = run /\ pending' = pending
      /\ fate' = fate
  BY DEF WriteCurrent
<1>4. TypeOK'
  BY <1>1, <1>2, <1>3 DEF TypeOK
<1> QED
  BY <1>0, <1>1, <1>2, <1>3, <1>4
  DEF ArmedWhileEnabled, DeadlineNear, RunHasStarted, StrayIsDisabled

(* Every step keeps the invariant. *)
LEMMA NextInv == ASSUME Inv, [Next]_vars PROVE Inv'
<1> USE DEF Inv
<1>0. control \in Control /\ now \in 0 .. Horizon /\ now \in Nat
  BY HorizonAssumption DEF TypeOK
<1>1. CASE \E c \in Control : WriteControl(c)
  BY <1>1, WriteControlInv
<1>2. CASE \E r \in 0 .. Words - 1 : WriteReload(r)
  BY <1>2 DEF WriteReload, TypeOK, ArmedWhileEnabled, DeadlineNear, RunHasStarted,
              StrayIsDisabled
<1>3. CASE WriteCurrent
  BY <1>3, WriteCurrentInv
<1>4. CASE ReadControl
  <2>1. control' \in Control /\ control'.enable = control.enable
    BY <1>0, <1>4 DEF Control, ReadControl
  <2> QED
    BY <1>4, <2>1 DEF ReadControl, TypeOK, ArmedWhileEnabled, DeadlineNear,
                      RunHasStarted, StrayIsDisabled
<1>5. CASE ReadCurrent \/ Take
  BY <1>5 DEF ReadCurrent, Take, TypeOK, ArmedWhileEnabled, DeadlineNear,
              RunHasStarted, StrayIsDisabled
<1>6. CASE Advance
  BY <1>0, <1>6, HorizonAssumption
  DEF Advance, Guest, TypeOK, TickHistory, ArmedWhileEnabled, DeadlineNear,
      RunHasStarted, StrayIsDisabled
<1>7. CASE RunTimers \/ EndRun
  BY <1>0, <1>7 DEF RunTimers, EndRun, TypeOK, ArmedWhileEnabled, DeadlineNear,
                    RunHasStarted, StrayIsDisabled
<1>8. CASE Fire
  BY <1>8, FireInv
<1>9. CASE UNCHANGED vars
  BY <1>9 DEF vars, TypeOK, ArmedWhileEnabled, DeadlineNear, RunHasStarted,
              StrayIsDisabled
<1> QED
  BY <1>1, <1>2, <1>3, <1>4, <1>5, <1>6, <1>7, <1>8, <1>9 DEF Next

(* The inductive invariant holds in every reachable state. *)
THEOREM InvHolds == Spec => []Inv
  BY InitInv, NextInv, PTL DEF Spec

(* Type correctness of the SysTick. *)
THEOREM TypeCorrect == Spec => []TypeOK
<1>1. Inv => TypeOK
  BY DEF Inv
<1> QED
  BY <1>1, InvHolds, PTL

(* The QEMU timer is active exactly while the SysTick is enabled or was    *)
(* reloaded in the disabled state (nvic_writel, systick_timer_tick).       *)
THEOREM ArmedCorrect == Spec => []ArmedWhileEnabled
<1>1. Inv => ArmedWhileEnabled
  BY DEF Inv
<1> QED
  BY <1>1, InvHolds, PTL

(* The next expiry is at most a period away, unless now was added to an    *)
(* instant (nvic_writel, systick_reload).                                  *)
THEOREM DeadlineCorrect == Spec => []DeadlineNear
<1>1. Inv => DeadlineNear
  BY DEF Inv
<1> QED
  BY <1>1, InvHolds, PTL
-----------------------------------------------------------------------------

(* Quotient and remainder of a division, for any divisor. *)
LEMMA Division == ASSUME NEW x \in Nat, NEW s \in Nat \ {0}
                  PROVE  /\ x \div s \in Nat /\ x % s \in 0 .. s - 1
                         /\ x = s * (x \div s) + (x % s)
  OBVIOUS

(* They are the only numbers of that kind. *)
LEMMA Quotient == ASSUME NEW s \in Nat \ {0}, NEW q \in Nat, NEW p \in Nat,
                         NEW r \in 0 .. s - 1, NEW t \in 0 .. s - 1,
                         s * q + r = s * p + t
                  PROVE  q = p /\ r = t
<1>1. \A a, b, m \in Nat : a >= b + 1 => m * a >= m * b + m
  OBVIOUS
<1>2. s * q \in Nat /\ s * p \in Nat
  OBVIOUS
<1> QED
  BY <1>1, <1>2

(* A nanosecond takes the number of ticks that are left down by one or     *)
(* leaves it alone.                                                        *)
LEMMA TickQuotient == ASSUME NEW x \in Nat, NEW s \in Nat \ {0}
                      PROVE  x \div s \in {(x + 1) \div s, (x + 1) \div s - 1}
<1> DEFINE q == x \div s
           r == x % s
           p == (x + 1) \div s
           t == (x + 1) % s
<1>1. q \in Nat /\ r \in 0 .. s - 1 /\ x = s * q + r
  BY Division
<1>2. p \in Nat /\ t \in 0 .. s - 1 /\ x + 1 = s * p + t
  <2>1. x + 1 \in Nat
    OBVIOUS
  <2> QED
    BY <2>1, Division, Zenon
<1> HIDE DEF q, r, p, t
<1>3. CASE r + 1 < s
  <2>1. r + 1 \in 0 .. s - 1 /\ s * q + (r + 1) = s * p + t
    BY <1>1, <1>2, <1>3
  <2> QED
    BY <1>1, <1>2, <2>1, Quotient DEF q, p
<1>4. CASE r + 1 = s
  <2>1. s * (q + 1) = s * q + s
    BY <1>1
  <2>2. q + 1 \in Nat /\ 0 \in 0 .. s - 1 /\ s * (q + 1) + 0 = s * p + t
    BY <1>1, <1>2, <1>4, <2>1
  <2>3. q + 1 = p
    BY <1>2, <2>2, Quotient
  <2> QED
    BY <1>1, <2>3 DEF q, p
<1> QED
  BY <1>1, <1>3, <1>4

(* The 32-bit count of one tick more *)
LEMMA NextCount == ASSUME NEW n \in Nat, NEW w \in Nat \ {0}
                   PROVE  /\ n % w \in 0 .. w - 1
                          /\ \/ (n + 1) % w = (n % w) + 1
                             \/ (n + 1) % w = 0 /\ n % w = w - 1
<1> DEFINE q == n \div w
           r == n % w
           p == (n + 1) \div w
           t == (n + 1) % w
<1>1. q \in Nat /\ r \in 0 .. w - 1 /\ n = w * q + r
  BY Division
<1>2. p \in Nat /\ t \in 0 .. w - 1 /\ n + 1 = w * p + t
  <2>1. n + 1 \in Nat
    OBVIOUS
  <2> QED
    BY <2>1, Division, Zenon
<1> HIDE DEF q, r, p, t
<1>3. CASE r + 1 < w
  <2>1. r + 1 \in 0 .. w - 1 /\ w * q + (r + 1) = w * p + t
    BY <1>1, <1>2, <1>3
  <2>2. r + 1 = t
    BY <1>1, <1>2, <2>1, Quotient
  <2> QED
    BY <1>1, <2>2 DEF r, t
<1>4. CASE r + 1 = w
  <2>1. w * (q + 1) = w * q + w
    BY <1>1
  <2>2. q + 1 \in Nat /\ 0 \in 0 .. w - 1 /\ w * (q + 1) + 0 = w * p + t
    BY <1>1, <1>2, <1>4, <2>1
  <2>3. 0 = t
    BY <1>2, <2>2, Quotient
  <2> QED
    BY <1>1, <1>4, <2>3 DEF r, t
<1> QED
  BY <1>1, <1>3, <1>4

(* What a read of 0x18 returns before and after a nanosecond. *)
LEMMA CountStep == ASSUME Inv, Advance, Scale(control.clksource) # 0, Counting'
                   PROVE  \/ Current' \in {Current, Current - 1}
                          \/ Current = 0 /\ Current' = reload
<1> DEFINE s == Scale(control.clksource)
           x == tick - (now + 2)
           n == (x \div s) + 1
           m == ((x + 1) \div s) + 1
<1>1. /\ now \in Nat /\ tick \in Nat /\ reload \in 0 .. Words - 1
      /\ now' = now + 1 /\ tick' = tick /\ control' = control /\ reload' = reload
  BY HorizonAssumption DEF Inv, TypeOK, Advance
<1>2. s \in Nat \ {0}
  BY ReferenceAssumption, CpuScaleAssumption DEF Scale
<1>3. Counting /\ x \in Nat /\ tick - (now + 1) = x + 1
  BY <1>1 DEF Counting
<1> HIDE DEF s
<1>4. /\ Current = IF m % Words <= reload THEN m % Words ELSE 0
      /\ Current' = IF n % Words <= reload THEN n % Words ELSE 0
  <2>1. tick' - (now' + 1) = x /\ Scale(control'.clksource) = s
    BY <1>1 DEF s
  <2>2. Current = IF m % Words <= reload THEN m % Words ELSE 0
    BY <1>3, Zenon DEF Current, s
  <2>3. Current' = IF n % Words <= reload THEN n % Words ELSE 0
    BY <1>1, <2>1, Zenon DEF Current
  <2> QED
    BY <2>2, <2>3
<1>5. n \in Nat /\ (m = n \/ m = n + 1)
  <2>1. x \div s \in Nat /\ (x + 1) \div s \in Nat
    <3>1. x + 1 \in Nat
      BY <1>3
    <3> QED
      BY <1>2, <1>3, <3>1, Division, Zenon
  <2>2. x \div s \in {(x + 1) \div s, (x + 1) \div s - 1}
    BY <1>2, <1>3, TickQuotient, Zenon
  <2> QED
    BY <2>1, <2>2
<1> HIDE DEF n, m
<1>6. CASE m = n
  BY <1>4, <1>6, Zenon
<1>7. CASE m = n + 1
  <2>1. /\ n % Words \in 0 .. Words - 1
        /\ \/ m % Words = (n % Words) + 1
           \/ m % Words = 0 /\ n % Words = Words - 1
    BY <1>5, <1>7, NextCount, WordsAssumption, Zenon
  <2> QED
    BY <1>1, <1>4, <2>1, WordsAssumption
<1> QED
  BY <1>5, <1>6, <1>7

(* The last nanosecond before an expiry. *)
LEMMA LastCount == ASSUME Inv, Advance, Scale(control.clksource) # 0, ~Counting',
                          Counting, reload # 0
                   PROVE  Current = 1
<1> DEFINE s == Scale(control.clksource)
<1>1. /\ now \in Nat /\ tick \in Nat /\ reload \in 0 .. Words - 1
      /\ now' = now + 1 /\ tick' = tick /\ control' = control
  BY HorizonAssumption DEF Inv, TypeOK, Advance
<1>2. s \in Nat \ {0}
  BY ReferenceAssumption, CpuScaleAssumption DEF Scale
<1>3. tick - (now + 1) = 0
  BY <1>1 DEF Counting
<1> HIDE DEF s
<1>4. 0 \div s = 0
  BY <1>2
<1>5. (0 + 1) % Words = 1 /\ 1 <= reload
  BY <1>1, WordsAssumption
<1> QED
  BY <1>3, <1>4, <1>5, Zenon DEF Current, s

(* While time passes a read of 0x18 counts down by single steps, and       *)
(* returns 1 in the last tick before the expiry (nvic_readl).              *)
THEOREM CountdownCorrect == Spec => CountsDown
<1>1. Inv /\ [Next]_vars
      => [Advance /\ Scale(control.clksource) # 0
            => IF Counting'
               THEN \/ Current' \in {Current, Current - 1}
                    \/ Current = 0 /\ Current' = reload
               ELSE Counting /\ reload # 0 => Current = 1]_vars
  BY CountStep, LastCount, Zenon
<1> QED
  BY <1>1, InvHolds, PTL DEF Spec, CountsDown
-----------------------------------------------------------------------------

(* What is left of a run of the timers: the nanoseconds from the expiry    *)
(* that is due to the instant at which the run started.                    *)
RunLeft == IF Due(run) THEN run + 1 - timer ELSE 0

(* The steps of a run of the timers, where the period is not 0. *)
RunShortens ==
    [][run # Off => \/ run' = Off
                    \/ reload = Words - 1
                    \/ control.clksource /\ CpuScale = 0
                    \/ RunLeft' < RunLeft]_vars

(* A period is 0 only for a reload register of all ones or without a CPU   *)
(* clock.                                                                  *)
LEMMA PeriodIsPositive == ASSUME reload \in 0 .. Words - 1, reload # Words - 1,
                                 NEW c \in BOOLEAN, ~(c /\ CpuScale = 0)
                          PROVE  Period(c) \in Nat \ {0}
<1>1. Scale(c) \in Nat \ {0}
  BY ReferenceAssumption, CpuScaleAssumption DEF Scale
<1>2. (reload + 1) % Words = reload + 1
  <2>1. \A w \in Nat \ {0} : \A n \in 0 .. w - 1 : n % w = n
    OBVIOUS
  <2>2. reload + 1 \in 0 .. Words - 1
    BY WordsAssumption
  <2> QED
    BY <2>1, <2>2, WordsAssumption, Zenon
<1>3. reload + 1 \in Nat \ {0}
  BY WordsAssumption
<1>4. \A m, n \in Nat \ {0} : m * n \in Nat \ {0}
  OBVIOUS
<1> QED
  BY <1>1, <1>2, <1>3, <1>4, Zenon DEF Period

(* A callback either removes the timer or sets it to a later instant. *)
LEMMA FireShortens == ASSUME Inv, Fire, reload # Words - 1,
                             ~(control.clksource /\ CpuScale = 0)
                      PROVE  RunLeft' < RunLeft
<1>1. /\ run \in Nat /\ run' = run /\ timer \in Nat /\ timer <= run /\ timer = tick
      /\ reload \in 0 .. Words - 1 /\ control.clksource \in BOOLEAN
  BY DEF Fire, Inv, TypeOK, Due, ArmedWhileEnabled, Control
<1>2. RunLeft = run + 1 - timer
  BY <1>1 DEF RunLeft, Due, Off
<1>3. CASE timer' = Off
  <2>1. RunLeft' = 0
    BY <1>3 DEF RunLeft, Due
  <2> QED
    BY <1>1, <1>2, <2>1
<1>4. CASE reload # 0 /\ Reload(tick, control)
  <2>1. Period(control.clksource) \in Nat \ {0}
    BY <1>1, PeriodIsPositive
  <2>2. timer' = timer + Period(control.clksource)
    BY <1>1, <1>4 DEF Reload
  <2>3. RunLeft' = IF timer' # Off /\ timer' <= run THEN run + 1 - timer' ELSE 0
    BY <1>1, Zenon DEF RunLeft, Due
  <2> QED
    BY <1>1, <1>2, <2>1, <2>2, <2>3
<1> QED
  BY <1>3, <1>4 DEF Fire

(* qemu_run_timers makes a bounded number of callbacks: every one that     *)
(* does not end the run takes the next expiry nearer to the instant at     *)
(* which the run started, and nothing but callbacks happens during a run,  *)
(* unless the period is 0 (qemu_run_timers, systick_timer_tick).  This is  *)
(* the measure behind RunEnds.                                             *)
THEOREM RunsShorten == Spec => RunShortens /\ [](RunLeft \in Nat)
<1>1. ASSUME Inv, Next, run # Off, run' # Off, reload # Words - 1,
             ~(control.clksource /\ CpuScale = 0)
      PROVE  RunLeft' < RunLeft
  <2>1. Fire
    BY <1>1 DEF Next, Guest, WriteControl, WriteReload, WriteCurrent, ReadControl,
       ReadCurrent, Take, Advance, RunTimers, EndRun
  <2> QED
    BY <1>1, <2>1, FireShortens, Zenon
<1>2. Inv /\ [Next]_vars
      => [run # Off => \/ run' = Off
                       \/ reload = Words - 1
                       \/ control.clksource /\ CpuScale = 0
                       \/ RunLeft' < RunLeft]_vars
  BY <1>1, Zenon
<1>3. Inv => RunLeft \in Nat
  BY DEF Inv, TypeOK, RunLeft, Due, Off
<1> QED
  BY <1>2, <1>3, InvHolds, PTL DEF Spec, RunShortens
=============================================================================

------------------------------ MODULE Stm32Gpio ------------------------------
(***************************************************************************)
(* One GPIO port of the STM32L board (hw/stm32_gpio.c).                    *)
(*                                                                         *)
(* A port is the C structure stm32_gpio_state.  The 16-bit data registers  *)
(* are sets of pins (bit i is set iff pin i is in the set); MODER and      *)
(* PUPDR hold two bits per pin and are functions from pins to 0..3.  The   *)
(* registers that nothing but their own read and write touches (OTYPER,    *)
(* OSPEEDR, AFRL) are plain storage.                                       *)
(*                                                                         *)
(* The operators take a port s and return the port the C function leaves;  *)
(* the actions apply them to the variable gpio.                            *)
(***************************************************************************)
EXTENDS Naturals

CONSTANTS Pins,       \* the pins of the port that are modelled
          ResetMode,  \* MODER after stm32_gpio_reset
          ResetPupd,  \* PUPDR after stm32_gpio_reset
          Config,     \* two-bit values written to the fields of MODER and PUPDR
          StoreVals,  \* values written to the storage registers
          StoreReset  \* their value after stm32_gpio_reset

ASSUME PinsAssumption == Pins \subseteq 0..15
ASSUME ConfigAssumption == Config \subseteq 0..3
ASSUME ResetAssumption == /\ ResetMode \in [Pins -> 0..3]
                          /\ ResetPupd \in [Pins -> 0..3]
                          /\ StoreReset \in StoreVals

VARIABLES
    gpio,   \* stm32_gpio_state
    wire,   \* the pins whose irq_out line was last set high
    hist    \* history of the pins, read by no action (see PortHistory)

vars == <<gpio, wire, hist>>

NB_PIN == 15            \* input and output lines the device creates
UPDATED_PINS == 8       \* stm32_gpio_update visits the pins below this one

StoreRegs == {"otype", "ospeed", "afrl"}

GpioState == [mode : [Pins -> 0..3], pupd : [Pins -> 0..3],
              ind : SUBSET Pins, outd : SUBSET Pins, outd_old : SUBSET Pins,
              store : [StoreRegs -> StoreVals]]

(* History of the port:                                                    *)
(*   hidden  pins whose ODR bit was not sent on the line: it last changed  *)
(*           in input mode, or was loaded with a saved state               *)
(*   level   pins whose input line was last raised by its peripheral       *)
(*   missed  pins whose IDR bit ignores the input line: the last level     *)
(*           arrived while the pin was not configured as an input, or IDR  *)
(*           was loaded with a saved state                                 *)
PortHistory == [hidden : SUBSET Pins, level : SUBSET Pins,
                missed : SUBSET Pins]

-----------------------------------------------------------------------------
(* stm32_gpio_reset, called once by stm32_gpio_init.                       *)
ResetPort == [mode |-> ResetMode, pupd |-> ResetPupd,
              ind |-> {}, outd |-> {}, outd_old |-> {},
              store |-> [r \in StoreRegs |-> StoreReset]]

Init == /\ gpio = ResetPort
        /\ wire = {}
        /\ hist = [hidden |-> {}, level |-> {}, missed |-> {}]

-----------------------------------------------------------------------------
(* stm32_gpio_update *)

(* outd_old ^ outd *)
Changed(s) == (s.outd_old \ s.outd) \cup (s.outd \ s.outd_old)

(* The pins for which the update calls qemu_set_irq(irq_out[i], ...). *)
DrivenAlways(s) ==  \* mutant: every pin is sent, changed or not
    {i \in Pins : i < UPDATED_PINS /\ s.mode[i] # 0}
Driven(s) == {i \in Changed(s) : i < UPDATED_PINS /\ s.mode[i] # 0}

UpdateKeepsOld(s) == s  \* mutant: outd_old is not refreshed
Update(s) == [s EXCEPT !.outd_old = s.outd]

(* ODR has just been assigned in s and stm32_gpio_update(s) runs. *)
UpdatePort(s) ==
    /\ gpio' = Update(s)
    /\ wire' = (wire \ Driven(s)) \cup (Driven(s) \cap s.outd)
    /\ hist' = [hist EXCEPT !.hidden = (@ \ Changed(s))
                                       \cup {i \in Changed(s) : s.mode[i] = 0}]

-----------------------------------------------------------------------------
(* stm32_gpio_write, one action per register *)

(* MODER and PUPDR are stored; no update follows. *)
WriteMode(m) == /\ gpio' = [gpio EXCEPT !.mode = m]
                /\ UNCHANGED <<wire, hist>>

WritePupd(m) == /\ gpio' = [gpio EXCEPT !.pupd = m]
                /\ UNCHANGED <<wire, hist>>

WriteStore(r, v) == /\ gpio' = [gpio EXCEPT !.store[r] = v]
                    /\ UNCHANGED <<wire, hist>>

WriteOdr(v) == UpdatePort([gpio EXCEPT !.outd = v])

(* The two halves of a value written to BSRR.  In (uint16_t)value >> 16    *)
(* the cast binds tighter than the shift: the upper half is always 0.      *)
Low(value) == value.low
High(value) == {}

(* Bit i is cleared if the reset half holds it, then set if the set half   *)
(* does.                                                                   *)
BsrOutd(outd, value) == (outd \ High(value)) \cup Low(value)

WriteBsr(value) ==
    UpdatePort([gpio EXCEPT !.outd = BsrOutd(gpio.outd, value)])

(* bitband_writeb, writew and writel at the alias of bit i of ODR: the     *)
(* lane of w bytes that holds the bit is read, changed and written back.   *)
(* The port takes the lane for the whole register, so that a byte clears   *)
(* the upper pins, and stops with hw_error at a lane that does not begin   *)
(* at the register.  Aliases of other registers lead to the writes above.  *)
Lane(s, w) == {i \in s.outd : i < 8 * w}

BitBandWrite(w, i, set) ==
    /\ i < 8 * w
    /\ WriteOdr(IF set THEN Lane(gpio, w) \cup {i} ELSE Lane(gpio, w) \ {i})

-----------------------------------------------------------------------------
(* stm32_gpio_in_recv: the peripheral on input line i sets its level. *)
InputConfigured(s, i) == s.pupd[i] # 0 /\ s.mode[i] = 0

SetBitOnly(bits, i, level) ==     \* mutant: a low level does not clear the bit
    IF level THEN bits \cup {i} ELSE bits
SetBit(bits, i, level) == IF level THEN bits \cup {i} ELSE bits \ {i}

InRecv(i, level) ==
    /\ i < NB_PIN
    /\ gpio' = IF InputConfigured(gpio, i)
               THEN [gpio EXCEPT !.ind = SetBit(@, i, level)]
               ELSE gpio
    /\ hist' = [hist EXCEPT
                  !.level = IF level THEN @ \cup {i} ELSE @ \ {i},
                  !.missed = IF InputConfigured(gpio, i) THEN @ \ {i} ELSE @ \cup {i}]
    /\ UNCHANGED wire

-----------------------------------------------------------------------------
(* vmstate_stm32_gpio: the registers are saved, and loaded into the port   *)
(* of a new process.  There is no post_load: no line is driven, and the    *)
(* lines of the new process are low until they are.                        *)
Loaded(s) == s

Restore == /\ gpio' = Loaded(gpio)
           /\ wire' = {}
           /\ hist' = [hidden |-> gpio.outd, level |-> {}, missed |-> gpio.ind]

-----------------------------------------------------------------------------
BsrValue == [low : SUBSET Pins, high : SUBSET Pins]

Next == \/ \E m \in [Pins -> Config] : WriteMode(m) \/ WritePupd(m)
        \/ \E r \in StoreRegs, v \in StoreVals : WriteStore(r, v)
        \/ \E v \in SUBSET Pins : WriteOdr(v)
        \/ \E value \in BsrValue : WriteBsr(value)
        \/ \E w \in {1, 2, 4}, i \in Pins, set \in BOOLEAN : BitBandWrite(w, i, set)
        \/ \E i \in Pins, level \in BOOLEAN : InRecv(i, level)
        \/ Restore

Spec == Init /\ [][Next]_vars

-----------------------------------------------------------------------------
(* Types of the port and of its history. *)
TypeOK == /\ gpio \in GpioState
          /\ wire \subseteq Pins
          /\ hist \in PortHistory

(* stm32_gpio_update: between two accesses outd_old is the output register *)
(* the last update saw, and the level on each of the pins it visits is the *)
(* ODR bit, except on a pin whose last ODR change was made in input mode   *)
(* (it is consumed without being sent) or that a loaded state holds high   *)
(* (the line is low until the pin changes).  A pin at or above 8 is never  *)
(* driven.                                                                 *)
WireFollowsOdr ==
    /\ gpio.outd_old = gpio.outd
    /\ \A i \in Pins :
         IF i < UPDATED_PINS
         THEN i \notin hist.hidden => (i \in wire <=> i \in gpio.outd)
         ELSE i \notin wire

(* stm32_gpio_in_recv: the IDR bit of a pin is the level its peripheral    *)
(* last set, except when that level came while the pin was not configured  *)
(* as an input (it is dropped and IDR keeps the older one, whatever the    *)
(* configuration becomes later) or IDR was loaded since.                   *)
IdrFollowsInput ==
    \A i \in Pins : i \notin hist.missed => (i \in gpio.ind <=> i \in hist.level)

(* BSRR, "set = low, reset = high" (stm32_gpio.c:133-134): a write clears  *)
(* every pin of its upper half that its lower half does not set.           *)
BsrResets ==
    \A value \in BsrValue :
       BsrOutd(gpio.outd, value) \cap (value.high \ value.low) = {}
=============================================================================

--------------------------- MODULE Stm32GpioProofs ---------------------------
(***************************************************************************)
(* Proofs about one GPIO port, for every set of pins, every reset value    *)
(* and every value written.                                                *)
(***************************************************************************)
EXTENDS Stm32Gpio, TLAPS

PortInv == TypeOK /\ WireFollowsOdr /\ IdrFollowsInput

(* The initialised port satisfies the invariant. *)
LEMMA InitInv == Init => PortInv
BY ResetAssumption
   DEF Init, ResetPort, PortInv, TypeOK, GpioState, PortHistory,
       WireFollowsOdr, IdrFollowsInput

(* stm32_gpio_update, run on a port in which only ODR has been assigned,   *)
(* keeps the invariant.                                                    *)
LEMMA UpdateInv ==
    ASSUME PortInv, NEW v \in SUBSET Pins,
           UpdatePort([gpio EXCEPT !.outd = v])
    PROVE  PortInv'
<1> DEFINE s == [gpio EXCEPT !.outd = v]
<1>1. /\ s \in GpioState
      /\ s.outd = v /\ s.outd_old = gpio.outd_old /\ s.mode = gpio.mode
      /\ s.ind = gpio.ind
  BY DEF PortInv, TypeOK, GpioState
<1>2. Changed(s) \subseteq Pins
  BY <1>1 DEF Changed, GpioState
<1>3. /\ gpio' = [s EXCEPT !.outd_old = v]
      /\ wire' = (wire \ Driven(s)) \cup (Driven(s) \cap v)
      /\ hist' = [hist EXCEPT !.hidden = (@ \ Changed(s))
                                 \cup {i \in Changed(s) : gpio.mode[i] = 0}]
  BY <1>1 DEF UpdatePort, Update
<1> HIDE DEF s
<1>4. /\ gpio' \in GpioState
      /\ gpio'.outd = v /\ gpio'.outd_old = v /\ gpio'.ind = gpio.ind
  BY <1>1, <1>3 DEF GpioState
<1>5. /\ hist' \in PortHistory
      /\ hist'.level = hist.level /\ hist'.missed = hist.missed
      /\ hist'.hidden = (hist.hidden \ Changed(s))
                           \cup {i \in Changed(s) : gpio.mode[i] = 0}
  BY <1>2, <1>3 DEF PortInv, TypeOK, PortHistory
<1>6. TypeOK'
  BY <1>2, <1>3, <1>4, <1>5 DEF PortInv, TypeOK, Driven
<1>7. WireFollowsOdr'
  <2> SUFFICES ASSUME NEW i \in Pins
               PROVE  IF i < UPDATED_PINS
                      THEN i \notin hist'.hidden => (i \in wire' <=> i \in v)
                      ELSE i \notin wire'
    BY <1>4 DEF WireFollowsOdr
  <2>1. i \in wire' <=> IF i \in Driven(s) THEN i \in v ELSE i \in wire
    BY <1>3
  <2>2. CASE i < UPDATED_PINS
    <3>1. CASE i \in Changed(s)
      BY <1>1, <1>5, <2>1, <2>2, <3>1 DEF Driven
    <3>2. CASE i \notin Changed(s)
      <4>1. i \in v <=> i \in gpio.outd
        BY <1>1, <3>2 DEF Changed, PortInv, WireFollowsOdr
      <4>2. i \in wire' <=> i \in wire
        BY <2>1, <3>2 DEF Driven
      <4> QED BY <1>5, <2>2, <3>2, <4>1, <4>2 DEF PortInv, WireFollowsOdr
    <3> QED BY <3>1, <3>2
  <2>3. CASE ~(i < UPDATED_PINS)
    BY <2>1, <2>3 DEF Driven, PortInv, WireFollowsOdr
  <2> QED BY <2>2, <2>3
<1>8. IdrFollowsInput'
  BY <1>4, <1>5 DEF PortInv, IdrFollowsInput
<1> QED BY <1>6, <1>7, <1>8 DEF PortInv

(* stm32_gpio_in_recv keeps the invariant, whether the level is stored in  *)
(* IDR or dropped.                                                         *)
LEMMA InRecvInv ==
    ASSUME PortInv, NEW i \in Pins, NEW level \in BOOLEAN, InRecv(i, level)
    PROVE  PortInv'
<1>1. /\ gpio' \in GpioState
      /\ gpio'.outd = gpio.outd /\ gpio'.outd_old = gpio.outd_old
      /\ gpio'.ind = IF InputConfigured(gpio, i)
                     THEN SetBit(gpio.ind, i, level) ELSE gpio.ind
  BY DEF PortInv, TypeOK, GpioState, InRecv, SetBit
<1>2. /\ hist' \in PortHistory
      /\ hist'.hidden = hist.hidden
      /\ hist'.level = IF level THEN hist.level \cup {i} ELSE hist.level \ {i}
      /\ hist'.missed = IF InputConfigured(gpio, i)
                        THEN hist.missed \ {i} ELSE hist.missed \cup {i}
  BY DEF PortInv, TypeOK, PortHistory, InRecv, InputConfigured
<1>3. wire' = wire
  BY DEF InRecv
<1>4. IdrFollowsInput'
  BY <1>1, <1>2 DEF PortInv, IdrFollowsInput, SetBit
<1>5. WireFollowsOdr'
  BY <1>1, <1>2, <1>3 DEF PortInv, WireFollowsOdr
<1> QED BY <1>1, <1>2, <1>3, <1>4, <1>5 DEF PortInv, TypeOK

(* Every access to the port and every input keeps the invariant. *)
LEMMA NextInv == PortInv /\ [Next]_vars => PortInv'
<1> SUFFICES ASSUME PortInv, [Next]_vars PROVE PortInv'
  OBVIOUS
<1>1. ASSUME NEW m \in [Pins -> Config], WriteMode(m) \/ WritePupd(m)
      PROVE  PortInv'
  <2>1. m \in [Pins -> 0..3]
    BY ConfigAssumption
  <2>2. /\ gpio' \in GpioState
        /\ gpio'.outd = gpio.outd /\ gpio'.outd_old = gpio.outd_old
        /\ gpio'.ind = gpio.ind
    BY <1>1, <2>1 DEF PortInv, TypeOK, GpioState, WriteMode, WritePupd
  <2>3. UNCHANGED <<wire, hist>>
    BY <1>1 DEF WriteMode, WritePupd
  <2> QED BY <2>2, <2>3 DEF PortInv, TypeOK, WireFollowsOdr, IdrFollowsInput
<1>2. ASSUME NEW r \in StoreRegs, NEW v \in StoreVals, WriteStore(r, v)
      PROVE  PortInv'
  <2>1. /\ gpio' \in GpioState
        /\ gpio'.outd = gpio.outd /\ gpio'.outd_old = gpio.outd_old
        /\ gpio'.ind = gpio.ind
    BY <1>2 DEF PortInv, TypeOK, GpioState, WriteStore
  <2>2. UNCHANGED <<wire, hist>>
    BY <1>2 DEF WriteStore
  <2> QED BY <2>1, <2>2 DEF PortInv, TypeOK, WireFollowsOdr, IdrFollowsInput
<1>3. ASSUME NEW v \in SUBSET Pins, WriteOdr(v) PROVE PortInv'
  BY <1>3, UpdateInv DEF WriteOdr
<1>4. ASSUME NEW value \in BsrValue, WriteBsr(value) PROVE PortInv'
  <2>1. BsrOutd(gpio.outd, value) \in SUBSET Pins
    BY DEF BsrOutd, High, Low, BsrValue, PortInv, TypeOK, GpioState
  <2> QED BY <1>4, <2>1, UpdateInv DEF WriteBsr
<1>5. ASSUME NEW i \in Pins, NEW level \in BOOLEAN, InRecv(i, level)
      PROVE  PortInv'
  BY <1>5, InRecvInv
<1>6. CASE Restore
  BY <1>6 DEF Restore, Loaded, PortInv, TypeOK, GpioState, PortHistory,
              WireFollowsOdr, IdrFollowsInput
<1>7. CASE UNCHANGED vars
  BY <1>7 DEF vars, PortInv, TypeOK, WireFollowsOdr, IdrFollowsInput
<1>8. ASSUME NEW w \in {1, 2, 4}, NEW i \in Pins, NEW set \in BOOLEAN,
             BitBandWrite(w, i, set)
      PROVE  PortInv'
  <2>1. Lane(gpio, w) \cup {i} \in SUBSET Pins /\ Lane(gpio, w) \ {i} \in SUBSET Pins
    BY DEF Lane, PortInv, TypeOK, GpioState
  <2> QED BY <1>3, <1>8, <2>1 DEF BitBandWrite
<1> QED BY <1>1, <1>2, <1>3, <1>4, <1>5, <1>6, <1>7, <1>8 DEF Next

(* Type correctness of the port. *)
THEOREM TypeCorrect == Spec => []TypeOK
<1>1. PortInv => TypeOK
  BY DEF PortInv
<1> QED BY InitInv, NextInv, <1>1, PTL DEF Spec

(* stm32_gpio_update: on every port, the pins below 8 carry their ODR bit  *)
(* unless it last changed in input mode; the others are never driven.      *)
THEOREM WireCorrect == Spec => []WireFollowsOdr
<1>1. PortInv => WireFollowsOdr
  BY DEF PortInv
<1> QED BY InitInv, NextInv, <1>1, PTL DEF Spec

(* stm32_gpio_in_recv: on every port, IDR is the level last received,      *)
(* unless it was received while the pin was not an input.                  *)
THEOREM IdrCorrect == Spec => []IdrFollowsInput
<1>1. PortInv => IdrFollowsInput
  BY DEF PortInv
<1> QED BY InitInv, NextInv, <1>1, PTL DEF Spec
=============================================================================

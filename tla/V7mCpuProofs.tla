---------------------------- MODULE V7mCpuProofs ----------------------------
(***************************************************************************)
(* Proofs that the invariants of V7mCpu hold, and that V7mCpu implements   *)
(* InterruptNesting, for any set of interrupts, any priorities and any     *)
(* depth of nesting.                                                       *)
(***************************************************************************)
EXTENDS V7mCpu, SequenceTheorems, WellFoundedInduction, TLAPS

(* Every set of natural numbers but the empty one has a least element. *)
LEMMA LeastNatural ==
    ASSUME NEW T \in SUBSET Nat, T # {}
    PROVE  \E x \in T : \A y \in T : x <= y
<1> DEFINE R == {ss \in Nat \X Nat : ss[1] < ss[2]}
<1>1. IsWellFoundedOn(R, Nat)
      BY NatLessThanWellFounded, Zenon DEF OpToRel
<1>2. PICK x \in T : \A y \in T : ~(<<y, x>> \in R)
  <2> HIDE DEF R
  <2> QED BY <1>1, WFMin
<1>3. \A y \in T : ~(y < x)
      BY <1>2
<1> QED BY <1>3

(* The loop of gic_update selects exactly one interrupt in every state, or *)
(* none: Best, which the actions choose from, holds exactly one element.   *)
THEOREM BestIsUnique ==
    ASSUME NEW g \in GicState
    PROVE  \E best : Best(g) = {best}
<1> DEFINE C == Candidates(g)
           Prio == {g.priority[i] : i \in C}
<1>1. C \subseteq Irqs /\ \A i \in Irqs : g.priority[i] \in Priorities
      BY DEF Candidates, GicState
<1>2. C \subseteq Nat /\ \A i \in C : g.priority[i] \in Nat
  <2>1. \A i \in Irqs : i \in Nat
        BY IrqsAssumption
  <2>2. \A q \in Priorities : q \in Nat
        BY PrioritiesAssumption
  <2> HIDE DEF C
  <2> QED BY <1>1, <2>1, <2>2
<1>3. CASE C = {}
      BY <1>3 DEF Best
<1>4. CASE C # {}
  <2>1. PICK p \in Prio : \A q \in Prio : p <= q
    <3>1. Prio \in SUBSET Nat /\ Prio # {}
          BY <1>2, <1>4
    <3> HIDE DEF Prio
    <3> QED BY <3>1, LeastNatural
  <2> DEFINE First == {i \in C : g.priority[i] = p}
  <2>2. First \in SUBSET Nat /\ First # {}
        BY <1>2, <2>1
  <2>3. PICK best \in First : \A j \in First : best <= j
    <3> HIDE DEF First
    <3> QED BY <2>2, LeastNatural
  <2>4. best \in Best(g)
    <3>1. ASSUME NEW j \in C
          PROVE  \/ g.priority[best] < g.priority[j]
                 \/ g.priority[best] = g.priority[j] /\ best <= j
          BY <1>2, <2>1, <2>3, <3>1
    <3> QED BY <1>4, <2>3, <3>1 DEF Best
  <2>5. ASSUME NEW i \in Best(g) PROVE i = best
    <3>1. i \in C /\ best \in C
          BY <1>4, <2>3, <2>5 DEF Best
    <3>2. \/ g.priority[i] < g.priority[best]
          \/ g.priority[i] = g.priority[best] /\ i <= best
          BY <1>4, <2>5, <3>1 DEF Best
    <3>3. \/ g.priority[best] < g.priority[i]
          \/ g.priority[best] = g.priority[i] /\ best <= i
          BY <1>4, <2>4, <3>1 DEF Best
    <3>4. /\ i \in Nat /\ best \in Nat
          /\ g.priority[i] \in Nat /\ g.priority[best] \in Nat
          BY <1>2, <3>1
    <3>5. \A a, b, m, n \in Nat :
             (a < b \/ (a = b /\ m <= n)) /\ (b < a \/ (b = a /\ n <= m)) => m = n
          OBVIOUS
    <3> QED BY <3>2, <3>3, <3>4, <3>5, Zenon
  <2> QED BY <2>4, <2>5
<1> QED BY <1>3, <1>4

(* What gic_update leaves alone, and what it establishes. *)
LEMMA UpdateGicFacts ==
    ASSUME NEW g \in GicState, NEW cleared \in SUBSET Irqs, UpdateGic(g, cleared)
    PROVE  /\ gic' \in GicState /\ line' \in BOOLEAN /\ hist' \in GicHistory
           /\ gic'.enabled = g.enabled /\ gic'.pending = g.pending
           /\ gic'.level = g.level /\ gic'.priority = g.priority
           /\ gic'.last_active = g.last_active
           /\ gic'.running_irq = g.running_irq
           /\ gic'.running_priority = g.running_priority
           /\ hist'.cleared = (cleared \cap g.level) \ g.pending
           /\ line' = Preempts(gic', gic'.current_pending)
           /\ OfferCurrent'
<1>1. PICK best \in Best(g) :
         /\ gic' = [g EXCEPT !.current_pending = IF Unmasked(g, best) THEN best ELSE None]
         /\ line' = Preempts(g, IF Unmasked(g, best) THEN best ELSE None)
         /\ hist' = [stale |-> FALSE, cleared |-> (cleared \cap g.level) \ g.pending]
      BY DEF UpdateGic
<1>2. best \in Irqs \cup {None}
      BY DEF Best, Candidates, GicState
<1>3. /\ gic' \in GicState
      /\ gic'.enabled = g.enabled /\ gic'.pending = g.pending
      /\ gic'.level = g.level /\ gic'.priority = g.priority
      /\ gic'.last_active = g.last_active
      /\ gic'.running_irq = g.running_irq
      /\ gic'.running_priority = g.running_priority
      /\ gic'.current_pending = IF Unmasked(g, best) THEN best ELSE None
      BY <1>1, <1>2 DEF GicState
<1>4. hist' \in GicHistory /\ hist'.cleared = (cleared \cap g.level) \ g.pending
      BY <1>1 DEF GicHistory
<1>5. line' = Preempts(gic', gic'.current_pending) /\ line' \in BOOLEAN
      BY <1>1, <1>3 DEF Preempts
<1>6. Best(gic') = Best(g) /\ Unmasked(gic', best) = Unmasked(g, best)
      BY <1>3 DEF Best, Candidates, Unmasked
<1>7. OfferCurrent'
      BY <1>3, <1>6 DEF OfferCurrent
<1> QED BY <1>3, <1>4, <1>5, <1>7

(* The two numberings are inverse to each other on the vectors in use. *)
LEMMA Numbering ==
    /\ \A i \in Irqs : VectorOf(i) \in Vectors /\ VectorOf(i) # 0 /\ IrqOf(VectorOf(i)) = i
    /\ \A v \in Vectors : v # 0 /\ IrqOf(v) \in Irqs
<1>1. \A i \in Irqs : i \in Nat /\ (i \in 1..15 \/ i >= 32)
      BY IrqsAssumption, VectorsAssumption DEF GIC_BASE_IRQ
<1>2. \A i \in Irqs : VectorOf(i) \in Vectors
      BY DEF Vectors
<1>3. \A i \in Irqs : VectorOf(i) # 0 /\ IrqOf(VectorOf(i)) = i
      BY <1>1 DEF VectorOf, IrqOf
<1>4. \A v \in Vectors : v # 0 /\ IrqOf(v) \in Irqs
      BY <1>3 DEF Vectors
<1> QED BY <1>2, <1>3, <1>4

-----------------------------------------------------------------------------
(* The invariant of the interrupt controller. *)
GicInv == /\ GicTypeOK
          /\ RequestHasVector
          /\ StatusCurrentUnlessStale
          /\ LastActiveDefined

(* A raised and enabled line that nothing accounts for. *)
Uncovered(i) == /\ i \in External /\ i \in gic.level /\ i \in gic.enabled
                /\ i \notin gic.pending /\ i \notin hist.cleared

(* A step that leaves the nesting alone and uncovers no raised line. *)
Chain == <<gic.running_irq, gic.running_priority, gic.last_active>>
Steady == /\ UNCHANGED <<Chain, gic.priority>>
          /\ \A i \in Irqs : Uncovered(i)' => Uncovered(i)

(* The steps of the controller that change no interrupt's nesting: they    *)
(* compute a state g and call gic_update.                                  *)
LEMMA UpdateKeepsInv ==
    ASSUME GicInv, NEW g \in GicState, NEW cleared \in SUBSET Irqs,
           UpdateGic(g, cleared), fate' = fate,
           g.running_irq = gic.running_irq, g.last_active = gic.last_active
    PROVE  GicInv'
<1>1. /\ gic' \in GicState /\ line' \in BOOLEAN /\ hist' \in GicHistory
      /\ gic'.running_irq = gic.running_irq /\ gic'.last_active = gic.last_active
      /\ line' = Preempts(gic', gic'.current_pending)
      /\ OfferCurrent'
      BY UpdateGicFacts
<1>2. GicTypeOK'
      BY <1>1 DEF GicInv, GicTypeOK
<1>3. RequestHasVector'
      BY <1>1 DEF GicInv, RequestHasVector
<1>4. StatusCurrentUnlessStale'
      BY <1>1 DEF StatusCurrentUnlessStale
<1>5. LastActiveDefined'
      BY <1>1 DEF GicInv, LastActiveDefined
<1> QED BY <1>2, <1>3, <1>4, <1>5 DEF GicInv

(* gic_update alone disturbs neither the chain nor the running interrupt. *)
LEMMA UpdateIsSteady ==
    ASSUME GicInv, NEW g \in GicState, NEW cleared \in SUBSET Irqs,
           UpdateGic(g, cleared), fate' = fate,
           g.running_irq = gic.running_irq, g.last_active = gic.last_active,
           g.running_priority = gic.running_priority, g.priority = gic.priority,
           hist.cleared \subseteq cleared,
           \A i \in External :
              i \in g.level /\ i \in g.enabled /\ i \notin g.pending /\ i \notin cleared
                 => i \in gic.level /\ i \in gic.enabled /\ i \notin gic.pending
    PROVE  GicInv' /\ Steady
<1>1. GicInv'
      BY UpdateKeepsInv
<1>2. UNCHANGED <<Chain, gic.priority>>
      BY UpdateGicFacts DEF Chain
<1>3. \A i \in Irqs : Uncovered(i)' => Uncovered(i)
      BY UpdateGicFacts DEF Uncovered
<1> QED BY <1>1, <1>2, <1>3 DEF Steady

(* A step that leaves the controller alone is steady. *)
LEMMA StutterIsSteady ==
    ASSUME GicInv, UNCHANGED gicVars
    PROVE  GicInv' /\ Steady
BY DEF GicInv, Steady, gicVars, GicTypeOK, RequestHasVector, StatusCurrentUnlessStale,
       LastActiveDefined, OfferCurrent, Best, Candidates, Unmasked, Preempts, Chain,
       Uncovered

(* gic_set_pending_private keeps the controller's invariant and is steady. *)
LEMMA SetPendingPrivateInv ==
    ASSUME GicInv, NEW i \in Irqs, SetPendingPrivate(i)
    PROVE  GicInv' /\ Steady
<1>1. CASE i \in gic.pending
      BY <1>1, StutterIsSteady DEF SetPendingPrivate, gicVars
<1>2. CASE i \notin gic.pending
  <2> DEFINE g == [gic EXCEPT !.pending = @ \cup {i}]
  <2>1. g \in GicState /\ hist.cleared \in SUBSET Irqs
        BY DEF GicInv, GicTypeOK, GicState, GicHistory
  <2>2. UpdateGic(g, hist.cleared) /\ fate' = fate
        BY <1>2 DEF SetPendingPrivate
  <2>3. /\ g.running_irq = gic.running_irq /\ g.last_active = gic.last_active
        /\ g.running_priority = gic.running_priority /\ g.priority = gic.priority
        /\ g.level = gic.level /\ g.enabled = gic.enabled
        /\ g.pending = gic.pending \cup {i}
        BY DEF GicInv, GicTypeOK, GicState
  <2> HIDE DEF g
  <2> QED BY <2>1, <2>2, <2>3, UpdateIsSteady
<1> QED BY <1>1, <1>2

(* So does gic_set_irq, *)
LEMMA SetIrqInv ==
    ASSUME GicInv, NEW i \in External, NEW level \in BOOLEAN, SetIrq(i, level)
    PROVE  GicInv' /\ Steady
<1> DEFINE g == IF level
                THEN [gic EXCEPT !.level = @ \cup {i},
                                 !.pending = IF i \in gic.enabled
                                             THEN @ \cup {i} ELSE @]
                ELSE [gic EXCEPT !.level = @ \ {i}]
<1>1. g \in GicState /\ hist.cleared \in SUBSET Irqs
      BY DEF GicInv, GicTypeOK, GicState, GicHistory, External
<1>2. UpdateGic(g, hist.cleared) /\ fate' = fate
      BY DEF SetIrq
<1>3. /\ g.running_irq = gic.running_irq /\ g.last_active = gic.last_active
      /\ g.running_priority = gic.running_priority /\ g.priority = gic.priority
      /\ g.enabled = gic.enabled
      /\ g.level = IF level THEN gic.level \cup {i} ELSE gic.level \ {i}
      /\ g.pending = IF level /\ i \in gic.enabled
                     THEN gic.pending \cup {i} ELSE gic.pending
      BY DEF GicInv, GicTypeOK, GicState
<1> HIDE DEF g
<1> QED BY <1>1, <1>2, <1>3, UpdateIsSteady

(* a write to the set-enable registers, *)
LEMMA SetEnableInv ==
    ASSUME GicInv, NEW s \in SUBSET External, SetEnable(s)
    PROVE  GicInv' /\ Steady
<1> DEFINE g == [gic EXCEPT !.enabled = @ \cup s,
                          !.pending = @ \cup (s \cap gic.level)]
<1>1. g \in GicState /\ hist.cleared \in SUBSET Irqs
      BY DEF GicInv, GicTypeOK, GicState, GicHistory, External
<1>2. UpdateGic(g, hist.cleared) /\ fate' = fate
      BY DEF SetEnable
<1>3. /\ g.running_irq = gic.running_irq /\ g.last_active = gic.last_active
      /\ g.running_priority = gic.running_priority /\ g.priority = gic.priority
      /\ g.level = gic.level /\ g.enabled = gic.enabled \cup s
      /\ g.pending = gic.pending \cup (s \cap gic.level)
      BY DEF GicInv, GicTypeOK, GicState
<1> HIDE DEF g
<1> QED BY <1>1, <1>2, <1>3, UpdateIsSteady

(* to the clear-enable registers, *)
LEMMA ClearEnableInv ==
    ASSUME GicInv, NEW s \in SUBSET External, ClearEnable(s)
    PROVE  GicInv' /\ Steady
<1> DEFINE g == [gic EXCEPT !.enabled = @ \ s]
<1>1. g \in GicState /\ hist.cleared \in SUBSET Irqs
      BY DEF GicInv, GicTypeOK, GicState, GicHistory, External
<1>2. UpdateGic(g, hist.cleared) /\ fate' = fate
      BY DEF ClearEnable
<1>3. /\ g.running_irq = gic.running_irq /\ g.last_active = gic.last_active
      /\ g.running_priority = gic.running_priority /\ g.priority = gic.priority
      /\ g.level = gic.level /\ g.enabled = gic.enabled \ s
      /\ g.pending = gic.pending
      BY DEF GicInv, GicTypeOK, GicState
<1> HIDE DEF g
<1> QED BY <1>1, <1>2, <1>3, UpdateIsSteady

(* to the set-pending registers, *)
LEMMA SetPendingInv ==
    ASSUME GicInv, NEW s \in SUBSET External, SetPending(s)
    PROVE  GicInv' /\ Steady
<1> DEFINE g == [gic EXCEPT !.pending = @ \cup s]
<1>1. g \in GicState /\ hist.cleared \in SUBSET Irqs
      BY DEF GicInv, GicTypeOK, GicState, GicHistory, External
<1>2. UpdateGic(g, hist.cleared) /\ fate' = fate
      BY DEF SetPending
<1>3. /\ g.running_irq = gic.running_irq /\ g.last_active = gic.last_active
      /\ g.running_priority = gic.running_priority /\ g.priority = gic.priority
      /\ g.level = gic.level /\ g.enabled = gic.enabled
      /\ g.pending = gic.pending \cup s
      BY DEF GicInv, GicTypeOK, GicState
<1> HIDE DEF g
<1> QED BY <1>1, <1>2, <1>3, UpdateIsSteady

(* to the clear-pending registers, *)
LEMMA ClearPendingInv ==
    ASSUME GicInv, NEW s \in SUBSET External, ClearPending(s)
    PROVE  GicInv' /\ Steady
<1> DEFINE g == [gic EXCEPT !.pending = @ \ s]
<1>1. g \in GicState /\ (hist.cleared \cup s) \in SUBSET Irqs
      BY DEF GicInv, GicTypeOK, GicState, GicHistory, External
<1>2. UpdateGic(g, hist.cleared \cup s) /\ fate' = fate
      BY DEF ClearPending
<1>3. /\ g.running_irq = gic.running_irq /\ g.last_active = gic.last_active
      /\ g.running_priority = gic.running_priority /\ g.priority = gic.priority
      /\ g.level = gic.level /\ g.enabled = gic.enabled
      /\ g.pending = gic.pending \ s
      BY DEF GicInv, GicTypeOK, GicState
<1> HIDE DEF g
<1> QED BY <1>1, <1>2, <1>3, UpdateIsSteady

(* to the software interrupt register, *)
LEMMA SoftIntInv ==
    ASSUME GicInv, NEW i \in Irqs, NEW mask \in BOOLEAN, SoftInt(i, mask)
    PROVE  GicInv' /\ Steady
<1> DEFINE g == [gic EXCEPT !.pending = IF mask THEN @ \cup {i} ELSE @]
<1>1. g \in GicState /\ hist.cleared \in SUBSET Irqs
      BY DEF GicInv, GicTypeOK, GicState, GicHistory, External
<1>2. UpdateGic(g, hist.cleared) /\ fate' = fate
      BY DEF SoftInt
<1>3. /\ g.running_irq = gic.running_irq /\ g.last_active = gic.last_active
      /\ g.running_priority = gic.running_priority /\ g.priority = gic.priority
      /\ g.level = gic.level /\ g.enabled = gic.enabled
      /\ gic.pending \subseteq g.pending
      BY DEF GicInv, GicTypeOK, GicState
<1> HIDE DEF g
<1> QED BY <1>1, <1>2, <1>3, UpdateIsSteady

(* to the ICSR, *)
LEMMA WriteIcsrInv ==
    ASSUME GicInv, NEW set \in SUBSET ({NMI, PENDSV, SYSTICK} \cap Irqs),
           NEW clear \in SUBSET ({PENDSV, SYSTICK} \cap Irqs), WriteIcsr(set, clear)
    PROVE  GicInv' /\ Steady
<1>1. CASE set \subseteq gic.pending /\ clear \subseteq set
      BY <1>1, StutterIsSteady DEF WriteIcsr, gicVars
<1>2. CASE ~(set \subseteq gic.pending /\ clear \subseteq set)
  <2> DEFINE g == [gic EXCEPT !.pending = (@ \ clear) \cup set]
  <2>1. g \in GicState /\ hist.cleared \in SUBSET Irqs
        BY DEF GicInv, GicTypeOK, GicState, GicHistory
  <2>2. UpdateGic(g, hist.cleared) /\ fate' = fate
        BY <1>2 DEF WriteIcsr
  <2>3. /\ g.running_irq = gic.running_irq /\ g.last_active = gic.last_active
        /\ g.running_priority = gic.running_priority /\ g.priority = gic.priority
        /\ g.level = gic.level /\ g.enabled = gic.enabled
        /\ g.pending = (gic.pending \ clear) \cup set
        BY DEF GicInv, GicTypeOK, GicState
  <2>4. \A i \in External : i \notin clear
        BY IrqsAssumption, SMT DEF External, GIC_BASE_IRQ, PENDSV, SYSTICK
  <2> HIDE DEF g
  <2> QED BY <2>1, <2>2, <2>3, <2>4, UpdateIsSteady
<1> QED BY <1>1, <1>2

(* and to 0xd24, which makes the status stale. *)
LEMMA WriteHandlerControlInv ==
    ASSUME GicInv, NEW on \in SUBSET ({MEM, BUS, USAGE} \cap Irqs), WriteHandlerControl(on)
    PROVE  GicInv' /\ Steady
<1>1. /\ gic' \in GicState /\ hist' \in GicHistory /\ hist'.stale
      /\ hist'.cleared = hist.cleared
      /\ gic'.pending = gic.pending /\ gic'.level = gic.level
      /\ gic'.enabled = (gic.enabled \ {MEM, BUS, USAGE}) \cup on
      /\ gic'.priority = gic.priority /\ gic'.last_active = gic.last_active
      /\ gic'.running_irq = gic.running_irq
      /\ gic'.running_priority = gic.running_priority
      /\ gic'.current_pending = gic.current_pending
      /\ line' = line /\ fate' = fate
      BY DEF WriteHandlerControl, GicInv, GicTypeOK, GicState, GicHistory
<1>2. GicTypeOK'
      BY <1>1 DEF GicInv, GicTypeOK
<1>3. RequestHasVector'
      BY <1>1 DEF GicInv, RequestHasVector, Preempts
<1>4. StatusCurrentUnlessStale'
      BY <1>1 DEF StatusCurrentUnlessStale
<1>5. LastActiveDefined'
      BY <1>1 DEF GicInv, LastActiveDefined
<1>6. \A i \in External : i \notin on
      BY IrqsAssumption, SMT DEF External, GIC_BASE_IRQ, MEM, BUS, USAGE
<1>7. Steady
      BY <1>1, <1>6 DEF Steady, Chain, Uncovered
<1> QED BY <1>2, <1>3, <1>4, <1>5, <1>7 DEF GicInv

(* All register writes but those of priorities, together. *)
LEMMA RegisterWriteInv ==
    ASSUME GicInv, RegisterWrite
    PROVE  GicInv' /\ Steady
<1>1. ASSUME NEW word \in RegisterWords, NEW s \in SUBSET word,
             SetEnable(s) \/ ClearEnable(s) \/ SetPending(s) \/ ClearPending(s)
      PROVE  GicInv' /\ Steady
  <2>1. s \in SUBSET External
        BY DEF RegisterWords
  <2> QED BY <1>1, <2>1, SetEnableInv, ClearEnableInv, SetPendingInv, ClearPendingInv
<1>2. ASSUME NEW i \in Irqs, NEW mask \in BOOLEAN, SoftInt(i, mask)
      PROVE  GicInv' /\ Steady
      BY <1>2, SoftIntInv
<1>3. ASSUME NEW set \in SUBSET ({NMI, PENDSV, SYSTICK} \cap Irqs),
             NEW clear \in SUBSET ({PENDSV, SYSTICK} \cap Irqs), WriteIcsr(set, clear)
      PROVE  GicInv' /\ Steady
      BY <1>3, WriteIcsrInv
<1>4. ASSUME NEW on \in SUBSET ({MEM, BUS, USAGE} \cap Irqs), WriteHandlerControl(on)
      PROVE  GicInv' /\ Steady
      BY <1>4, WriteHandlerControlInv
<1> QED BY <1>1, <1>2, <1>3, <1>4 DEF RegisterWrite

(* A priority write keeps the controller's invariant; it is not steady. *)
LEMMA WritePriorityInv ==
    ASSUME GicInv, NEW s \in PriorityGroups, NEW p \in [s -> Priorities],
           WritePriority(s, p)
    PROVE  /\ GicInv' /\ UNCHANGED Chain
           /\ \A i \in Irqs : gic'.priority[i] = IF i \in s THEN p[i] ELSE gic.priority[i]
           /\ \A i \in Irqs : Uncovered(i)' => Uncovered(i)
<1> DEFINE q == [i \in Irqs |-> IF i \in s THEN p[i] ELSE gic.priority[i]]
           g == [gic EXCEPT !.priority = q]
<1>0. gic \in GicState /\ hist.cleared \in SUBSET Irqs
      BY DEF GicInv, GicTypeOK, GicHistory
<1>1. q \in [Irqs -> Priorities]
      BY <1>0 DEF GicState
<1>2. g \in GicState
      BY <1>0, <1>1 DEF GicState
<1>3. UpdateGic(g, hist.cleared) /\ fate' = fate
      BY DEF WritePriority
<1>4. /\ g.running_irq = gic.running_irq /\ g.last_active = gic.last_active
      /\ g.running_priority = gic.running_priority /\ g.priority = q
      /\ g.level = gic.level /\ g.enabled = gic.enabled /\ g.pending = gic.pending
      BY <1>0 DEF GicState
<1>5. \A i \in Irqs : q[i] = IF i \in s THEN p[i] ELSE gic.priority[i]
      OBVIOUS
<1> HIDE DEF g, q
<1>6. GicInv'
      BY <1>0, <1>2, <1>3, <1>4, UpdateKeepsInv
<1>7. /\ UNCHANGED Chain /\ gic'.priority = q
      /\ \A i \in Irqs : Uncovered(i)' => Uncovered(i)
      BY <1>0, <1>2, <1>3, <1>4, UpdateGicFacts DEF Chain, Uncovered
<1> QED BY <1>5, <1>6, <1>7

(* A CPU reset clears the line and leaves the controller alone. *)
LEMMA DropLineInv ==
    ASSUME GicInv, DropLine
    PROVE  GicInv' /\ Steady
<1>1. /\ hist' \in GicHistory /\ hist'.stale /\ hist'.cleared = hist.cleared
      /\ line' = FALSE /\ gic' = gic /\ fate' = fate
      BY DEF DropLine, GicInv, GicTypeOK, GicHistory
<1> QED BY <1>1 DEF GicInv, GicTypeOK, RequestHasVector, StatusCurrentUnlessStale,
                    LastActiveDefined, Steady, Chain, Uncovered

-----------------------------------------------------------------------------
(* Taking an interrupt and returning from it *)

(* The acknowledge on a request makes the offered interrupt the running    *)
(* one and links it in front of the one that ran.                          *)
LEMMA AcknowledgeInv ==
    ASSUME GicInv, line, Acknowledge, NEW new, new = gic.current_pending
    PROVE  /\ GicInv'
           /\ new \in Irqs /\ gic.priority[new] < gic.running_priority
           /\ fate' = fate
           /\ gic'.running_irq = new /\ gic'.running_priority = gic.priority[new]
           /\ gic'.priority = gic.priority
           /\ gic'.last_active = [gic.last_active EXCEPT ![new] = gic.running_irq]
           /\ gic'.enabled = gic.enabled /\ gic'.pending = gic.pending \ {new}
           /\ \A i \in Irqs : Uncovered(i)' => Uncovered(i) \/ i = new
<1>0. /\ gic \in GicState /\ hist.cleared \in SUBSET Irqs
      /\ Preempts(gic, new)
      BY DEF GicInv, GicTypeOK, GicHistory, RequestHasVector
<1>1. new \in Irqs /\ new # None /\ gic.priority[new] < gic.running_priority
      BY <1>0 DEF GicState, Preempts
<1> DEFINE h == [gic EXCEPT !.last_active[new] = gic.running_irq, !.pending = @ \ {new}]
           g == Running(h, new)
<1>2. UpdateGic(g, hist.cleared) /\ fate' = fate
      BY <1>0 DEF Acknowledge
<1>3. /\ h.priority = gic.priority /\ h.pending = gic.pending \ {new}
      /\ h.last_active = [gic.last_active EXCEPT ![new] = gic.running_irq]
      /\ h.level = gic.level /\ h.enabled = gic.enabled
      /\ h \in GicState
      BY <1>0, <1>1 DEF GicState
<1> HIDE DEF h
<1>4. /\ g \in GicState
      /\ g.priority = gic.priority /\ g.pending = gic.pending \ {new}
      /\ g.last_active = [gic.last_active EXCEPT ![new] = gic.running_irq]
      /\ g.level = gic.level /\ g.enabled = gic.enabled
      /\ g.running_irq = new /\ g.running_priority = gic.priority[new]
      BY <1>1, <1>3 DEF GicState, Running
<1> HIDE DEF g
<1>5. /\ gic' \in GicState /\ line' \in BOOLEAN /\ hist' \in GicHistory
      /\ gic'.running_irq = new /\ gic'.running_priority = gic.priority[new]
      /\ gic'.priority = gic.priority
      /\ gic'.last_active = [gic.last_active EXCEPT ![new] = gic.running_irq]
      /\ gic'.level = gic.level /\ gic'.enabled = gic.enabled
      /\ gic'.pending = gic.pending \ {new}
      /\ hist'.cleared = (hist.cleared \cap gic.level) \ (gic.pending \ {new})
      /\ line' = Preempts(gic', gic'.current_pending)
      /\ OfferCurrent'
      BY <1>0, <1>2, <1>4, UpdateGicFacts
<1>6. GicTypeOK' /\ RequestHasVector' /\ StatusCurrentUnlessStale'
      BY <1>2, <1>5 DEF GicInv, GicTypeOK, RequestHasVector, StatusCurrentUnlessStale
<1>7. LastActiveDefined'
  <2>1. gic.last_active \in [Irqs -> Irqs \cup {0, None}] /\ 0 \notin Irqs
        BY <1>0, VectorsAssumption DEF GicState, GIC_BASE_IRQ
  <2>2. gic.running_irq \in Irqs \cup {None} /\ gic.running_irq # 0
        BY <1>0, <2>1 DEF GicState, None
  <2> QED BY <1>1, <1>5, <2>1, <2>2 DEF GicInv, LastActiveDefined
<1>8. \A i \in Irqs : Uncovered(i)' => Uncovered(i) \/ i = new
      BY <1>5 DEF Uncovered
<1> QED BY <1>1, <1>2, <1>5, <1>6, <1>7, <1>8 DEF GicInv

(* Completing the running interrupt goes back to the one linked behind it. *)
LEMMA CompleteRunning ==
    ASSUME GicInv, NEW i \in Irqs, gic.running_irq = i, Complete(i)
    PROVE  /\ GicInv' /\ fate' = fate
           /\ gic'.running_irq = gic.last_active[i]
           /\ gic'.running_priority = IF gic.last_active[i] = None THEN IDLE_PRIORITY
                                      ELSE gic.priority[gic.last_active[i]]
           /\ gic'.priority = gic.priority /\ gic'.last_active = gic.last_active
           /\ gic'.enabled = gic.enabled
           /\ gic'.pending = gic.pending \/ gic'.pending = gic.pending \cup {i}
           /\ \A j \in Irqs : Uncovered(j)' => Uncovered(j) /\ j # i
<1>0. /\ gic \in GicState /\ hist.cleared \in SUBSET Irqs
      /\ 0 \notin Irqs /\ None \notin Irqs
      BY IrqsAssumption, VectorsAssumption
      DEF GicInv, GicTypeOK, GicHistory, GIC_BASE_IRQ, None
<1>1. gic.last_active[i] \in Irqs \cup {None}
      BY <1>0 DEF GicInv, LastActiveDefined, GicState, None
<1> DEFINE h == IF StillRaised(i) THEN [gic EXCEPT !.pending = @ \cup {i}] ELSE gic
           g == Running(h, h.last_active[i])
<1>2. UpdateGic(g, hist.cleared) /\ fate' = fate
      BY <1>0 DEF Complete, gicVars
<1>3. /\ h \in GicState
      /\ h.priority = gic.priority /\ h.last_active = gic.last_active
      /\ h.level = gic.level /\ h.enabled = gic.enabled
      /\ h.pending = IF StillRaised(i) THEN gic.pending \cup {i} ELSE gic.pending
      BY <1>0 DEF GicState
<1> HIDE DEF h
<1>4. /\ g \in GicState
      /\ g.priority = gic.priority /\ g.last_active = gic.last_active
      /\ g.level = gic.level /\ g.enabled = gic.enabled /\ g.pending = h.pending
      /\ g.running_irq = gic.last_active[i]
      /\ g.running_priority = IF gic.last_active[i] = None THEN IDLE_PRIORITY
                              ELSE gic.priority[gic.last_active[i]]
      BY <1>1, <1>3 DEF GicState, Running
<1> HIDE DEF g
<1>5. /\ gic' \in GicState /\ line' \in BOOLEAN /\ hist' \in GicHistory
      /\ gic'.running_irq = g.running_irq /\ gic'.running_priority = g.running_priority
      /\ gic'.priority = gic.priority /\ gic'.last_active = gic.last_active
      /\ gic'.level = gic.level /\ gic'.enabled = gic.enabled
      /\ gic'.pending = h.pending
      /\ hist'.cleared = (hist.cleared \cap gic.level) \ h.pending
      /\ line' = Preempts(gic', gic'.current_pending)
      /\ OfferCurrent'
      BY <1>0, <1>2, <1>4, UpdateGicFacts
<1>6. GicTypeOK' /\ RequestHasVector' /\ StatusCurrentUnlessStale'
      BY <1>2, <1>5 DEF GicInv, GicTypeOK, RequestHasVector, StatusCurrentUnlessStale
<1>7. LastActiveDefined'
      BY <1>0, <1>1, <1>4, <1>5 DEF GicInv, LastActiveDefined
<1>8. \A j \in Irqs : Uncovered(j)' => Uncovered(j) /\ j # i
  <2>1. i \in External => i \in LevelTriggered
        BY IrqsAssumption DEF External, LevelTriggered, GIC_BASE_IRQ
  <2> QED BY <1>3, <1>5, <2>1 DEF Uncovered, StillRaised
<1>9. gic'.pending = gic.pending \/ gic'.pending = gic.pending \cup {i}
      BY <1>3, <1>5
<1> QED BY <1>2, <1>4, <1>5, <1>6, <1>7, <1>8, <1>9 DEF GicInv

(* LastActiveDefined of a controller g that is still being computed. *)
LinksDefined(g) ==
    LET acked == {j \in Irqs : g.last_active[j] # 0}
    IN  /\ g.running_irq \in acked \cup {None}
        /\ \A j \in acked : g.last_active[j] \in acked \cup {None}

(* Unlinking an interrupt that is not the running one. *)
LEMMA UnlinkInv ==
    ASSUME GicInv, NEW i \in Irqs, NEW end, NEW h \in GicState,
           h.last_active = gic.last_active, h.running_irq = gic.running_irq,
           NEW u,
           u = [h EXCEPT !.last_active[end] = IF @ = i THEN h.last_active[i] ELSE @]
    PROVE  /\ u \in GicState /\ u.running_irq = gic.running_irq
           /\ u.priority = h.priority /\ u.running_priority = h.running_priority
           /\ u.current_pending = h.current_pending
           /\ LinksDefined(u)
<1>0. gic \in GicState /\ 0 \notin Irqs /\ None # 0 /\ None \notin Irqs
      BY IrqsAssumption, VectorsAssumption DEF GicInv, GicTypeOK, GIC_BASE_IRQ, None
<1>1. /\ u.running_irq = gic.running_irq
      /\ u.priority = h.priority /\ u.running_priority = h.running_priority
      /\ u.current_pending = h.current_pending
      /\ u.enabled = h.enabled /\ u.pending = h.pending /\ u.level = h.level
      /\ u.last_active = [gic.last_active EXCEPT ![end] =
                             IF @ = i THEN gic.last_active[i] ELSE @]
      BY DEF GicState
<1>2. \A j \in Irqs : u.last_active[j] = IF j = end /\ gic.last_active[j] = i
                                         THEN gic.last_active[i] ELSE gic.last_active[j]
      BY <1>0, <1>1 DEF GicState
<1>3. u.last_active \in [Irqs -> Irqs \cup {0, None}]
  <2>1. gic.last_active \in [Irqs -> Irqs \cup {0, None}]
        BY <1>0 DEF GicState
  <2>2. u.last_active = [j \in Irqs |-> IF j = end /\ gic.last_active[j] = i
                                       THEN gic.last_active[i] ELSE gic.last_active[j]]
    <3>1. CASE end \in Irqs
          BY <1>1, <2>1, <3>1
    <3>2. CASE end \notin Irqs
          BY <1>1, <2>1, <3>2
    <3> QED BY <3>1, <3>2
  <2> QED BY <2>1, <2>2
<1>4. u \in GicState
      BY <1>1, <1>3 DEF GicState
<1>5. /\ gic.running_irq \in Irqs \cup {None}
      /\ gic.running_irq \in Irqs => gic.last_active[gic.running_irq] # 0
      /\ \A j \in Irqs : gic.last_active[j] \in Irqs
                            => gic.last_active[gic.last_active[j]] # 0
      /\ \A j \in Irqs : gic.last_active[j] \in Irqs \cup {0, None}
      BY <1>0 DEF GicInv, LastActiveDefined, GicState
<1>6. \A j \in Irqs : (gic.last_active[j] # 0) = (u.last_active[j] # 0)
      BY <1>0, <1>2, <1>5
<1> QED BY <1>0, <1>1, <1>2, <1>3, <1>4, <1>5, <1>6 DEF LinksDefined

(* gic_complete_irq, in each of its four cases. *)
LEMMA CompleteInv ==
    ASSUME GicInv, NEW i \in Irqs, Complete(i)
    PROVE  GicInv'
<1>0. gic \in GicState /\ hist.cleared \in SUBSET Irqs /\ hist \in GicHistory
      BY DEF GicInv, GicTypeOK, GicHistory
<1> DEFINE h == IF StillRaised(i) THEN [gic EXCEPT !.pending = @ \cup {i}] ELSE gic
           u == [h EXCEPT !.last_active[WalkEnd(h, i)] =
                             IF @ = i THEN h.last_active[i] ELSE @]
<1>1. CASE gic.running_irq = i
      BY <1>1, CompleteRunning
<1>2. CASE UNCHANGED gicVars
      BY <1>2, StutterIsSteady
<1>3. CASE /\ fate' = fate
           /\ IF StillRaised(i) THEN UpdateGic(u, hist.cleared)
              ELSE gic' = u /\ UNCHANGED <<line, hist>>
  <2>1. /\ h \in GicState
        /\ h.last_active = gic.last_active /\ h.running_irq = gic.running_irq
        /\ h.priority = gic.priority /\ h.running_priority = gic.running_priority
        BY <1>0 DEF GicState
  <2>2. /\ u \in GicState /\ u.running_irq = gic.running_irq
        /\ u.priority = h.priority /\ u.running_priority = h.running_priority
        /\ u.current_pending = h.current_pending
        /\ LinksDefined(u)
    <3> DEFINE end == WalkEnd(h, i)
    <3>1. u = [h EXCEPT !.last_active[end] = IF @ = i THEN h.last_active[i] ELSE @]
          OBVIOUS
    <3> HIDE DEF h, u, end
    <3> QED BY <2>1, <3>1, UnlinkInv
  <2>3. CASE StillRaised(i)
    <3> HIDE DEF u, h
    <3>1. /\ gic' \in GicState /\ line' \in BOOLEAN /\ hist' \in GicHistory
          /\ gic'.running_irq = u.running_irq /\ gic'.last_active = u.last_active
          /\ line' = Preempts(gic', gic'.current_pending)
          /\ OfferCurrent'
          BY <1>0, <1>3, <2>2, <2>3, UpdateGicFacts
    <3>2. GicTypeOK' /\ RequestHasVector' /\ StatusCurrentUnlessStale'
          BY <1>3, <3>1 DEF GicInv, GicTypeOK, RequestHasVector, StatusCurrentUnlessStale
    <3>3. LastActiveDefined'
          BY <2>2, <3>1 DEF LastActiveDefined, LinksDefined
    <3> QED BY <3>2, <3>3 DEF GicInv
  <2>4. CASE ~StillRaised(i)
    <3>1. h = gic
          BY <2>4
    <3>2. u.enabled = gic.enabled /\ u.pending = gic.pending
          BY <3>1, <1>0 DEF GicState
    <3>3. /\ gic' = u /\ line' = line /\ hist' = hist /\ fate' = fate
          /\ u.current_pending = gic.current_pending
          /\ u.priority = gic.priority /\ u.running_priority = gic.running_priority
          BY <1>3, <2>2, <2>4, <3>1
    <3> HIDE DEF u, h
    <3>4. GicTypeOK'
          BY <1>0, <2>2, <3>3 DEF GicInv, GicTypeOK
    <3>5. RequestHasVector'
          BY <3>3 DEF GicInv, RequestHasVector, Preempts
    <3>6. StatusCurrentUnlessStale'
          BY <3>2, <3>3 DEF GicInv, StatusCurrentUnlessStale, OfferCurrent, Best,
                            Candidates, Unmasked, Preempts
    <3>7. LastActiveDefined'
          BY <2>2, <3>3 DEF LastActiveDefined, LinksDefined
    <3> QED BY <3>4, <3>5, <3>6, <3>7 DEF GicInv
  <2> QED BY <2>3, <2>4
<1>4. CASE fate' = "spins" /\ UNCHANGED <<gic, line, hist>>
      BY <1>4 DEF GicInv, GicTypeOK, RequestHasVector, StatusCurrentUnlessStale,
                  LastActiveDefined, OfferCurrent, Best, Candidates, Unmasked, Preempts
<1> QED BY <1>1, <1>2, <1>3, <1>4 DEF Complete

-----------------------------------------------------------------------------
(* The shape of the exception stack, whatever the guest does to priorities *)
(* and whenever the machine is reset.                                      *)
FrameShape == /\ ExcAt(1) = 0
              /\ \A k \in 2..Depth : ExcAt(k) # 0
              /\ magic => exc # 0
              /\ \A k \in DOMAIN frames : frames[k].magic => frames[k].exc # 0

(* The inductive invariant.  FrameShape tells thread mode from a handler   *)
(* by the depth of the stack; GicInv gives the acknowledge its vector; the *)
(* other conjuncts are needed in each other's steps.                       *)
Inv == /\ TypeOK /\ GicInv /\ FrameShape
       /\ StackMatchesChain /\ PreemptionIsStrict /\ LevelNotLost /\ EmulatorRuns

(* The stack as a list of exception numbers. *)
LEMMA StackFacts ==
    ASSUME TypeOK
    PROVE  /\ Depth \in Nat /\ Depth >= 1 /\ Len(frames) = Depth - 1
           /\ DOMAIN frames = 1..Len(frames)
           /\ exc = ExcAt(Depth)
           /\ \A k \in 1..Depth : ExcAt(k) \in Vectors \cup {0}
           /\ Active = {IrqOf(ExcAt(k)) : k \in 1..Depth}
<1>1. /\ Depth \in Nat /\ Depth >= 1 /\ Len(frames) = Depth - 1
      /\ DOMAIN frames = 1..Len(frames)
      /\ exc = ExcAt(Depth)
      BY DEF TypeOK, Depth, ExcAt
<1>2. \A k \in 1..Len(frames) :
         ExcAt(k) = frames[k].exc /\ frames[k].exc \in Vectors \cup {0}
  <2> TAKE k \in 1..Len(frames)
  <2>1. frames[k] \in Frame
        BY DEF TypeOK
  <2>2. ExcAt(k) = frames[k].exc
        BY <1>1 DEF Depth, ExcAt
  <2> QED BY <2>1, <2>2 DEF Frame
<1>3. \A k \in 1..Depth : ExcAt(k) \in Vectors \cup {0}
      BY <1>1, <1>2 DEF TypeOK
<1>4. Active = {IrqOf(ExcAt(k)) : k \in 1..Depth}
  <2>1. 1..Depth = DOMAIN frames \cup {Depth}
        BY <1>1
  <2> QED BY <1>1, <1>2, <2>1 DEF Active
<1> QED BY <1>1, <1>3, <1>4

(* Exception entry puts one more exception on the stack. *)
LEMMA PushStack ==
    ASSUME TypeOK, NEW d \in Nat, d = Depth,
           frames' = Append(frames, [exc |-> exc, magic |-> magic])
    PROVE  /\ Depth' = d + 1 /\ ExcAt(d + 1)' = exc'
           /\ \A k \in 1..d : ExcAt(k)' = ExcAt(k)
<1>1. /\ d >= 1 /\ Len(frames) = d - 1 /\ exc = ExcAt(d)
      /\ frames \in Seq(Frame) /\ [exc |-> exc, magic |-> magic] \in Frame
      BY StackFacts DEF TypeOK, Frame
<1>2. /\ frames' \in Seq(Frame) /\ Len(frames') = d
      /\ \A k \in 1..(d - 1) : frames'[k] = frames[k]
      /\ frames'[d] = [exc |-> exc, magic |-> magic]
      BY <1>1
<1>3. Depth' = d + 1 /\ ExcAt(d + 1)' = exc'
      BY <1>2 DEF Depth, ExcAt
<1>4. ASSUME NEW k \in 1..d PROVE ExcAt(k)' = ExcAt(k)
  <2>1. ExcAt(k)' = frames'[k].exc
        BY <1>1, <1>3 DEF ExcAt
  <2>2. CASE k = d
        BY <1>1, <1>2, <2>1, <2>2
  <2>3. CASE k # d
    <3>1. k \in 1..(d - 1)
          BY <1>1, <2>3
    <3> QED BY <1>2, <2>1, <2>3, <3>1 DEF ExcAt
  <2> QED BY <2>2, <2>3
<1> QED BY <1>3, <1>4

(* Exception return takes the last one off. *)
LEMMA PopStack ==
    ASSUME TypeOK, NEW d \in Nat, d = Depth, d >= 2, exc' = frames[d - 1].exc,
           frames' = SubSeq(frames, 1, d - 2)
    PROVE  Depth' = d - 1 /\ \A k \in 1..(d - 1) : ExcAt(k)' = ExcAt(k)
<1>1. d >= 2 /\ Len(frames) = d - 1 /\ frames \in Seq(Frame)
      BY StackFacts DEF TypeOK
<1>2. /\ frames' \in Seq(Frame) /\ Len(frames') = d - 2
      /\ \A k \in 1..(d - 2) : frames'[k] = frames[k]
  <2>1. d - 2 \in Nat /\ d - 2 <= Len(frames)
        BY <1>1
  <2> QED BY <1>1, <2>1
<1>3. Depth' = d - 1
      BY <1>1, <1>2 DEF Depth
<1>4. ASSUME NEW k \in 1..(d - 1) PROVE ExcAt(k)' = ExcAt(k)
  <2>1. ExcAt(k) = frames[k].exc
        BY <1>1 DEF ExcAt
  <2>2. CASE k = d - 1
        BY <1>3, <2>1, <2>2 DEF ExcAt
  <2>3. CASE k # d - 1
        BY <1>1, <1>2, <1>3, <2>1, <2>3 DEF ExcAt
  <2> QED BY <2>2, <2>3
<1> QED BY <1>3, <1>4

(* Thread mode and "no interrupt" are not numbers of interrupts. *)
LEMMA Outside == 0 \notin Irqs /\ None \notin Irqs /\ None # 0 /\ IrqOf(0) = 0
BY IrqsAssumption, VectorsAssumption DEF GIC_BASE_IRQ, None, IrqOf

(* The steps that leave the stack and the nesting alone, and the priority  *)
(* of every active interrupt unless the guest is no longer sane.           *)
LEMMA SteadyStep ==
    ASSUME Inv, UNCHANGED <<exc, frames, Chain>>, fate' = fate,
           \A i \in Irqs : Uncovered(i)' => Uncovered(i),
           sane' => sane /\ \A i \in Irqs \cap Active : gic'.priority[i] = gic.priority[i]
    PROVE  StackMatchesChain' /\ PreemptionIsStrict' /\ LevelNotLost' /\ EmulatorRuns'
<1>1. /\ Depth' = Depth /\ Active' = Active
      /\ \A k : ExcAt(k)' = ExcAt(k)
      BY DEF Depth, ExcAt, Active
<1>2. \A k \in 2..Depth : IrqOf(ExcAt(k)) \in Irqs \cap Active
      BY StackFacts, Numbering DEF Inv, FrameShape
<1>3. exc # 0 => IrqOf(exc) \in Irqs \cap Active
      BY StackFacts, Numbering DEF Inv, TypeOK
<1>4. /\ gic'.running_irq = gic.running_irq /\ gic'.last_active = gic.last_active
      /\ gic'.running_priority = gic.running_priority
      BY DEF Chain
<1>5. StackMatchesChain'
      BY <1>1, <1>4 DEF Inv, StackMatchesChain, GicIrq
<1>6. PreemptionIsStrict'
      BY <1>1, <1>2, <1>3, <1>4 DEF Inv, PreemptionIsStrict
<1>7. LevelNotLost'
  <2> SUFFICES ASSUME sane', NEW i \in Irqs, Uncovered(i)'
               PROVE  i \in Active
        BY <1>1 DEF LevelNotLost, Uncovered, External
  <2> QED BY DEF Inv, LevelNotLost, Uncovered
<1>8. EmulatorRuns'
      BY DEF Inv, EmulatorRuns
<1> QED BY <1>5, <1>6, <1>7, <1>8

-----------------------------------------------------------------------------
(* Exception entry pushes one frame and one link of the chain. *)
LEMMA TakeIrqInv ==
    ASSUME Inv, TakeIrq
    PROVE  Inv'
<1> DEFINE new == gic.current_pending
<1>0. PICK d \in Nat : d = Depth
      BY StackFacts DEF Inv
<1>1. /\ GicInv' /\ new \in Irqs /\ gic.priority[new] < gic.running_priority
      /\ fate' = fate
      /\ gic'.running_irq = new /\ gic'.running_priority = gic.priority[new]
      /\ gic'.priority = gic.priority
      /\ gic'.last_active = [gic.last_active EXCEPT ![new] = gic.running_irq]
      /\ \A i \in Irqs : Uncovered(i)' => Uncovered(i) \/ i = new
  <2> HIDE DEF new
  <2>1. new = gic.current_pending
        BY DEF new
  <2> QED BY <2>1, AcknowledgeInv DEF Inv, TakeIrq, Accepts
<1>2. /\ exc' = VectorOf(new) /\ exc' \in Vectors /\ exc' # 0 /\ IrqOf(exc') = new
      /\ frames' = Append(frames, [exc |-> exc, magic |-> magic])
      /\ magic' = FALSE /\ sane' = sane
      /\ UNCHANGED <<primask, halted, block>>
      BY <1>1, Numbering DEF TakeIrq
<1>3. /\ frames' \in Seq(Frame) /\ Len(frames') = Len(frames) + 1
      /\ \A k \in 1..Len(frames) : frames'[k] = frames[k]
      /\ frames'[Len(frames) + 1] = [exc |-> exc, magic |-> magic]
  <2>1. frames \in Seq(Frame) /\ [exc |-> exc, magic |-> magic] \in Frame
        BY DEF Inv, TypeOK, Frame
  <2> QED BY <1>2, <2>1
<1>4. TypeOK'
      BY <1>1, <1>2, <1>3 DEF Inv, TypeOK, GicInv
<1>5. /\ d \in Nat /\ d >= 1 /\ exc = ExcAt(d)
      /\ \A k \in 1..d : ExcAt(k) \in Vectors \cup {0}
      /\ Active = {IrqOf(ExcAt(k)) : k \in 1..d}
      BY <1>0, StackFacts DEF Inv
<1>6. /\ Depth' = d + 1 /\ ExcAt(d + 1)' = exc'
      /\ \A k \in 1..d : ExcAt(k)' = ExcAt(k)
      BY <1>0, <1>2, PushStack DEF Inv
<1>7. Active \cup {new} \subseteq Active'
  <2>1. new \in Active'
        BY <1>2 DEF Active
  <2>2. IrqOf(exc) \in Active' /\ DOMAIN frames' = 1..(Len(frames) + 1)
        BY <1>0, <1>3, <1>5 DEF Active, Depth, Inv, TypeOK
  <2>3. ASSUME NEW k \in DOMAIN frames PROVE IrqOf(frames[k].exc) \in Active'
    <3>1. k \in 1..Len(frames) /\ k \in DOMAIN frames'
          BY <2>2 DEF Inv, TypeOK
    <3> QED BY <1>3, <3>1 DEF Active
  <2> QED BY <2>1, <2>2, <2>3 DEF Active
<1> HIDE DEF new
<1>8. FrameShape'
  <2>1. ExcAt(1)' = 0
        BY <1>5, <1>6 DEF Inv, FrameShape
  <2>2. \A k \in 2..Depth' : ExcAt(k)' # 0
        BY <1>0, <1>2, <1>5, <1>6 DEF Inv, FrameShape
  <2>3. \A k \in DOMAIN frames' : frames'[k].magic => frames'[k].exc # 0
    <3>1. DOMAIN frames = 1..Len(frames) /\ DOMAIN frames' = 1..(Len(frames) + 1)
          BY <1>3 DEF Inv, TypeOK
    <3> QED BY <1>3, <3>1 DEF Inv, FrameShape, TypeOK
  <2> QED BY <1>2, <2>1, <2>2, <2>3 DEF FrameShape
<1>9. sane => \A k \in 2..d :
                 /\ IrqOf(ExcAt(k)) \in Irqs \ {new}
                 /\ gic.priority[new] < gic.priority[IrqOf(ExcAt(k))]
  <2> SUFFICES ASSUME sane, NEW k \in 2..d
               PROVE  /\ IrqOf(ExcAt(k)) \in Irqs \ {new}
                      /\ gic.priority[new] < gic.priority[IrqOf(ExcAt(k))]
        OBVIOUS
  <2>1. IrqOf(ExcAt(k)) \in Irqs /\ exc # 0 /\ IrqOf(exc) \in Irqs
        BY <1>0, <1>5, Numbering DEF Inv, FrameShape
  <2>2. \A i \in Irqs : gic.priority[i] \in 0..255
        BY PrioritiesAssumption DEF Inv, TypeOK, GicTypeOK, GicState
  <2>3. gic.running_priority = gic.priority[IrqOf(ExcAt(d))]
        BY <1>5, <2>1 DEF Inv, PreemptionIsStrict
  <2>4. k < d => gic.priority[IrqOf(ExcAt(d))] < gic.priority[IrqOf(ExcAt(k))]
        BY <1>0, <1>5 DEF Inv, PreemptionIsStrict
  <2>5. gic.priority[new] < gic.priority[IrqOf(ExcAt(k))]
    <3>1. /\ gic.priority[new] < gic.priority[IrqOf(ExcAt(d))]
          /\ IrqOf(ExcAt(d)) \in Irqs
          BY <1>1, <1>5, <2>1, <2>3
    <3>2. CASE k = d
          BY <3>1, <3>2
    <3>3. CASE k < d
      <4>1. gic.priority[IrqOf(ExcAt(d))] < gic.priority[IrqOf(ExcAt(k))]
            BY <2>4, <3>3
      <4>2. /\ gic.priority[new] \in 0..255
            /\ gic.priority[IrqOf(ExcAt(d))] \in 0..255
            /\ gic.priority[IrqOf(ExcAt(k))] \in 0..255
            BY <1>1, <2>1, <2>2, <3>1
      <4>3. \A a, b, c \in 0..255 : a < b /\ b < c => a < c
            OBVIOUS
      <4> QED BY <3>1, <4>1, <4>2, <4>3, Zenon
    <3> QED BY <1>0, <3>2, <3>3
  <2> QED BY <1>1, <2>1, <2>2, <2>5
<1>10. StackMatchesChain'
  <2> SUFFICES ASSUME sane
               PROVE  /\ gic'.running_irq = GicIrq(exc')
                      /\ ExcAt(1)' = 0
                      /\ \A k \in 2..(d + 1) :
                            /\ ExcAt(k)' # 0
                            /\ gic'.last_active[IrqOf(ExcAt(k)')] = GicIrq(ExcAt(k - 1)')
        BY <1>2, <1>6 DEF StackMatchesChain, GicIrq, IrqOf
  <2>1. gic'.running_irq = GicIrq(exc')
        BY <1>1, <1>2 DEF GicIrq
  <2>2. gic.last_active \in [Irqs -> Irqs \cup {0, None}]
        BY DEF Inv, TypeOK, GicTypeOK, GicState
  <2>3. gic'.last_active[IrqOf(ExcAt(d + 1)')] = GicIrq(ExcAt(d)')
        BY <1>1, <1>2, <1>5, <1>6, <2>2 DEF Inv, StackMatchesChain
  <2>4. ASSUME NEW k \in 2..d
        PROVE  gic'.last_active[IrqOf(ExcAt(k)')] = GicIrq(ExcAt(k - 1)')
    <3>1. gic.last_active[IrqOf(ExcAt(k))] = GicIrq(ExcAt(k - 1))
          BY <1>0 DEF Inv, StackMatchesChain
    <3>2. ExcAt(k)' = ExcAt(k) /\ ExcAt(k - 1)' = ExcAt(k - 1)
          BY <1>5, <1>6
    <3> QED BY <1>1, <1>9, <2>2, <3>1, <3>2
  <2>5. \A k \in 2..(d + 1) : k = d + 1 \/ k \in 2..d
        BY <1>5
  <2>6. (d + 1) - 1 = d
        BY <1>5
  <2> QED BY <1>6, <1>8, <2>1, <2>3, <2>4, <2>5, <2>6 DEF FrameShape
<1>11. PreemptionIsStrict'
  <2> SUFFICES ASSUME sane, NEW j \in 2..(d + 1), NEW k \in 2..(d + 1), j < k
               PROVE  gic'.priority[IrqOf(ExcAt(k)')] < gic'.priority[IrqOf(ExcAt(j)')]
        BY <1>1, <1>2, <1>6 DEF PreemptionIsStrict, IrqOf
  <2>1. j \in 2..d /\ j \in 1..d /\ ExcAt(j)' = ExcAt(j)
        BY <1>5, <1>6
  <2>2. CASE k = d + 1
        BY <1>1, <1>2, <1>6, <1>9, <2>1, <2>2
  <2>3. CASE k \in 2..d
    <3>1. k \in 1..d /\ ExcAt(k)' = ExcAt(k)
          BY <1>5, <1>6, <2>3
    <3> QED BY <1>0, <1>1, <2>1, <2>3, <3>1 DEF Inv, PreemptionIsStrict
  <2> QED BY <1>5, <2>2, <2>3
<1>12. LevelNotLost'
  <2> SUFFICES ASSUME sane, NEW i \in Irqs, Uncovered(i)'
               PROVE  i \in Active'
        BY <1>2 DEF LevelNotLost, Uncovered, External
  <2> QED BY <1>1, <1>7 DEF Inv, LevelNotLost, Uncovered
<1>13. EmulatorRuns'
      BY <1>1, <1>2 DEF Inv, EmulatorRuns
<1> QED BY <1>1, <1>4, <1>8, <1>10, <1>11, <1>12, <1>13 DEF Inv

(* Exception return pops both. *)
LEMMA ExceptionExitInv ==
    ASSUME Inv, ExceptionExit
    PROVE  Inv'
<1>0. PICK d \in Nat : d = Depth
      BY StackFacts DEF Inv
<1>1. /\ d >= 2 /\ Len(frames) = d - 1 /\ exc = ExcAt(d)
      /\ DOMAIN frames = 1..Len(frames)
      /\ exc # 0 /\ IrqOf(exc) \in Irqs
      /\ \A k \in 1..d : ExcAt(k) \in Vectors \cup {0}
      /\ Active = {IrqOf(ExcAt(k)) : k \in 1..d}
  <2>1. exc # 0 /\ IrqOf(exc) \in Irqs
        BY Numbering DEF Inv, FrameShape, ExceptionExit, TypeOK
  <2> QED BY <1>0, <2>1, StackFacts DEF Inv, FrameShape
<1>2. /\ exc' = frames[d - 1].exc /\ magic' = frames[d - 1].magic
      /\ frames' = SubSeq(frames, 1, d - 2)
      /\ sane' = sane /\ UNCHANGED <<primask, halted, block>>
      /\ Complete(IrqOf(exc))
      BY <1>1 DEF ExceptionExit
<1>3. /\ frames' \in Seq(Frame) /\ Len(frames') = d - 2
      /\ DOMAIN frames' = 1..(d - 2)
      /\ \A k \in 1..(d - 2) : frames'[k] = frames[k]
  <2>1. frames \in Seq(Frame) /\ d - 2 \in Nat /\ d - 2 <= Len(frames)
        BY <1>1 DEF Inv, TypeOK
  <2> QED BY <1>2, <2>1
<1>4. frames[d - 1] \in Frame
      BY <1>1 DEF Inv, TypeOK
<1>5. GicInv'
      BY <1>1, <1>2, CompleteInv DEF Inv
<1>6. TypeOK'
      BY <1>2, <1>3, <1>4, <1>5 DEF Inv, TypeOK, GicInv, Frame
<1>7. Depth' = d - 1 /\ \A k \in 1..(d - 1) : ExcAt(k)' = ExcAt(k)
      BY <1>0, <1>1, <1>2, PopStack DEF Inv
<1>8. exc' = ExcAt(d - 1)
      BY <1>0, <1>1, <1>2 DEF ExcAt
<1>9. \A k \in 1..(d - 1) : IrqOf(ExcAt(k)) \in Active'
  <2> TAKE k \in 1..(d - 1)
  <2>1. CASE k = d - 1
        BY <1>8, <2>1 DEF Active
  <2>2. CASE k # d - 1
    <3>1. k \in 1..(d - 2)
          BY <1>1, <2>2
    <3>2. ExcAt(k) = frames'[k].exc
          BY <1>0, <1>1, <1>3, <3>1 DEF ExcAt
    <3> QED BY <1>3, <3>1, <3>2 DEF Active
  <2> QED BY <2>1, <2>2
<1>10. FrameShape'
  <2>1. ExcAt(1)' = 0 /\ \A k \in 2..(d - 1) : ExcAt(k)' # 0
        BY <1>0, <1>1, <1>7 DEF Inv, FrameShape
  <2>2. magic' => exc' # 0
    <3>1. d - 1 \in DOMAIN frames
          BY <1>1
    <3>2. frames[d - 1].magic => frames[d - 1].exc # 0
          BY <3>1 DEF Inv, FrameShape
    <3> QED BY <1>2, <3>2
  <2>3. \A k \in DOMAIN frames' : frames'[k].magic => frames'[k].exc # 0
        BY <1>1, <1>3 DEF Inv, FrameShape
  <2> QED BY <1>7, <2>1, <2>2, <2>3 DEF FrameShape
<1>11. ASSUME sane
       PROVE  /\ gic.running_irq = IrqOf(exc) /\ fate' = fate
              /\ gic'.running_irq = GicIrq(exc')
              /\ gic'.running_priority = IF exc' = 0 THEN IDLE_PRIORITY
                                         ELSE gic.priority[IrqOf(exc')]
              /\ gic'.priority = gic.priority /\ gic'.last_active = gic.last_active
              /\ \A j \in Irqs : Uncovered(j)' => Uncovered(j) /\ j # IrqOf(exc)
  <2>1. gic.running_irq = IrqOf(exc)
        BY <1>1, <1>11 DEF Inv, StackMatchesChain, GicIrq
  <2>2. gic.last_active[IrqOf(exc)] = GicIrq(exc')
        BY <1>0, <1>1, <1>8, <1>11 DEF Inv, StackMatchesChain
  <2>3. GicIrq(exc') = (IF exc' = 0 THEN None ELSE IrqOf(exc'))
        BY DEF GicIrq
  <2>4. exc' # 0 => IrqOf(exc') # None
        BY <1>1, <1>8, Numbering, Outside
  <2>5. /\ fate' = fate
        /\ gic'.running_irq = gic.last_active[IrqOf(exc)]
        /\ gic'.running_priority = IF gic.last_active[IrqOf(exc)] = None
                                   THEN IDLE_PRIORITY
                                   ELSE gic.priority[gic.last_active[IrqOf(exc)]]
        /\ gic'.priority = gic.priority /\ gic'.last_active = gic.last_active
        /\ \A j \in Irqs : Uncovered(j)' => Uncovered(j) /\ j # IrqOf(exc)
        BY <1>1, <1>2, <2>1, CompleteRunning DEF Inv
  <2> QED BY <2>1, <2>2, <2>3, <2>4, <2>5
<1>12. StackMatchesChain'
  <2> SUFFICES ASSUME sane, NEW k \in 2..(d - 1)
               PROVE  gic'.last_active[IrqOf(ExcAt(k)')] = GicIrq(ExcAt(k - 1)')
        BY <1>2, <1>7, <1>10, <1>11 DEF StackMatchesChain, GicIrq, IrqOf, FrameShape
  <2>1. ExcAt(k)' = ExcAt(k) /\ ExcAt(k - 1)' = ExcAt(k - 1)
        BY <1>1, <1>7
  <2>2. gic.last_active[IrqOf(ExcAt(k))] = GicIrq(ExcAt(k - 1))
        BY <1>0, <1>1 DEF Inv, StackMatchesChain
  <2> QED BY <1>11, <2>1, <2>2
<1>13. PreemptionIsStrict'
  <2> SUFFICES ASSUME sane, NEW j \in 2..(d - 1), NEW k \in 2..(d - 1), j < k
               PROVE  gic'.priority[IrqOf(ExcAt(k)')] < gic'.priority[IrqOf(ExcAt(j)')]
        BY <1>2, <1>7, <1>11 DEF PreemptionIsStrict, IrqOf
  <2>1. ExcAt(k)' = ExcAt(k) /\ ExcAt(j)' = ExcAt(j)
        BY <1>1, <1>7
  <2>2. gic.priority[IrqOf(ExcAt(k))] < gic.priority[IrqOf(ExcAt(j))]
        BY <1>0, <1>1 DEF Inv, PreemptionIsStrict
  <2> QED BY <1>11, <2>1, <2>2
<1>14. LevelNotLost'
  <2> SUFFICES ASSUME sane, NEW i \in Irqs, Uncovered(i)'
               PROVE  i \in Active'
        BY <1>2 DEF LevelNotLost, Uncovered, External
  <2>1. i \in Active /\ i # IrqOf(exc)
        BY <1>11 DEF Inv, LevelNotLost, Uncovered
  <2>2. PICK k \in 1..d : i = IrqOf(ExcAt(k))
        BY <1>1, <2>1
  <2>3. k \in 1..(d - 1)
        BY <1>1, <2>1, <2>2
  <2> QED BY <1>9, <2>2, <2>3
<1>15. EmulatorRuns'
       BY <1>2, <1>11 DEF Inv, EmulatorRuns
<1> QED BY <1>5, <1>6, <1>10, <1>12, <1>13, <1>14, <1>15 DEF Inv

(* A reset empties the stack; unless the CPU was in thread mode, the GIC   *)
(* is left running an interrupt and sane becomes false.                    *)
LEMMA ResetInv ==
    ASSUME Inv, Reset
    PROVE  Inv'
<1>1. GicInv' /\ Steady /\ fate' = fate /\ gic' = gic
      BY DropLineInv DEF Inv, Reset, DropLine
<1>2. /\ exc' = 0 /\ frames' = <<>> /\ magic' = FALSE /\ sane' = (sane /\ exc = 0)
      /\ primask' = FALSE /\ halted' = FALSE /\ block' = FALSE
      BY DEF Reset
<1>3. frames' \in Seq(Frame) /\ Len(frames') = 0 /\ DOMAIN frames' = {}
      BY <1>2
<1>4. TypeOK'
      BY <1>1, <1>2, <1>3 DEF Inv, TypeOK, GicInv
<1>5. Depth' = 1 /\ ExcAt(1)' = 0 /\ 2..1 = {} /\ 0 \in Active'
      BY <1>2, <1>3, Outside DEF Depth, ExcAt, Active
<1>6. FrameShape'
      BY <1>2, <1>3, <1>5 DEF FrameShape
<1>7. ASSUME sane' PROVE sane /\ exc = 0 /\ Active = {0}
  <2>1. sane /\ exc = 0
        BY <1>2, <1>7 DEF Inv, TypeOK
  <2>2. Depth = 1
        BY <2>1, StackFacts DEF Inv, FrameShape
  <2>3. Active = {IrqOf(ExcAt(k)) : k \in 1..1} /\ ExcAt(1) = 0 /\ 1..1 = {1}
        BY <2>2, StackFacts DEF Inv, FrameShape
  <2> QED BY <2>1, <2>3, Outside
<1>8. StackMatchesChain'
      BY <1>1, <1>2, <1>5, <1>7 DEF Inv, StackMatchesChain, GicIrq
<1>9. PreemptionIsStrict'
      BY <1>1, <1>2, <1>5, <1>7 DEF Inv, PreemptionIsStrict
<1>10. LevelNotLost'
  <2> SUFFICES ASSUME sane', NEW i \in Irqs, Uncovered(i)'
               PROVE  i \in Active'
        BY DEF LevelNotLost, Uncovered, External
  <2>1. i \in Active
        BY <1>1, <1>7 DEF Inv, LevelNotLost, Uncovered, Steady
  <2> QED BY <1>5, <1>7, <2>1
<1>11. EmulatorRuns'
       BY <1>1, <1>7 DEF Inv, EmulatorRuns
<1> QED BY <1>1, <1>4, <1>6, <1>8, <1>9, <1>10, <1>11 DEF Inv

(* The steps of the machine that keep the exception, the stack and the     *)
(* nesting in the GIC.                                                     *)
LEMMA SteadyInv ==
    ASSUME Inv, GicInv', Steady, fate' = fate, UNCHANGED <<exc, frames, sane>>,
           magic' \in BOOLEAN, primask' \in BOOLEAN, halted' \in BOOLEAN,
           block' \in BOOLEAN, magic' => magic \/ exc # 0
    PROVE  Inv'
<1>1. TypeOK'
      BY DEF Inv, TypeOK, GicInv
<1>2. FrameShape'
      BY DEF Inv, FrameShape, ExcAt, Depth
<1>3. StackMatchesChain' /\ PreemptionIsStrict' /\ LevelNotLost' /\ EmulatorRuns'
      BY SteadyStep DEF Steady
<1> QED BY <1>1, <1>2, <1>3 DEF Inv

(* A priority write by the guest, sane or not. *)
LEMMA ChangePriorityInv ==
    ASSUME Inv, NEW s \in PriorityGroups, NEW p \in [s -> Priorities],
           ChangePriority(s, p)
    PROVE  Inv'
<1>1. /\ GicInv' /\ UNCHANGED Chain /\ fate' = fate
      /\ \A i \in Irqs : gic'.priority[i] = IF i \in s THEN p[i] ELSE gic.priority[i]
      /\ \A i \in Irqs : Uncovered(i)' => Uncovered(i)
      BY WritePriorityInv DEF Inv, ChangePriority, WritePriority
<1>2. /\ UNCHANGED <<exc, frames, magic, primask, halted>>
      /\ block' = TRUE
      /\ sane' = (sane /\ \A i \in s \cap Active : p[i] = gic.priority[i])
      BY DEF ChangePriority
<1>3. TypeOK'
      BY <1>1, <1>2 DEF Inv, TypeOK, GicInv
<1>4. FrameShape'
      BY <1>2 DEF Inv, FrameShape, ExcAt, Depth
<1>5. sane' => sane /\ \A i \in Irqs \cap Active : gic'.priority[i] = gic.priority[i]
      BY <1>1, <1>2
<1>6. StackMatchesChain' /\ PreemptionIsStrict' /\ LevelNotLost' /\ EmulatorRuns'
      BY <1>1, <1>2, <1>5, SteadyStep
<1> QED BY <1>1, <1>3, <1>4, <1>6 DEF Inv

(* The machine starts in thread mode with an empty chain. *)
LEMMA InitInv == Init => Inv
<1> SUFFICES ASSUME Init PROVE Inv
    OBVIOUS
<1>0. /\ gic = ResetGic /\ line = FALSE /\ fate = "runs"
      /\ hist = [stale |-> FALSE, cleared |-> {}]
      /\ exc = 0 /\ frames = <<>> /\ magic = FALSE /\ sane = TRUE
      /\ primask = FALSE /\ halted = FALSE /\ block = FALSE
      BY DEF Init, GicInit
<1>1. ResetGic \in GicState
  <2>1. 0 \in Priorities
        BY PrioritiesAssumption
  <2> QED BY <2>1 DEF ResetGic, GicState
<1>2. GicInv
  <2>1. GicTypeOK
        BY <1>0, <1>1 DEF GicTypeOK, GicHistory
  <2>2. RequestHasVector
        BY <1>0 DEF RequestHasVector
  <2>3. StatusCurrentUnlessStale
        BY <1>0 DEF StatusCurrentUnlessStale, OfferCurrent, Best, Candidates, Unmasked,
                    Preempts, ResetGic
  <2>4. LastActiveDefined
        BY <1>0 DEF LastActiveDefined, ResetGic
  <2> QED BY <2>1, <2>2, <2>3, <2>4 DEF GicInv
<1>3. /\ frames \in Seq(Frame) /\ Len(frames) = 0 /\ DOMAIN frames = {}
      /\ Depth = 1 /\ ExcAt(1) = 0 /\ 2..1 = {}
      BY <1>0 DEF Depth, ExcAt
<1>4. TypeOK
      BY <1>0, <1>2, <1>3 DEF TypeOK, GicInv
<1>5. FrameShape
      BY <1>0, <1>3 DEF FrameShape
<1>6. StackMatchesChain /\ PreemptionIsStrict
      BY <1>0, <1>3 DEF StackMatchesChain, PreemptionIsStrict, GicIrq, ResetGic
<1>7. LevelNotLost /\ EmulatorRuns
      BY <1>0 DEF LevelNotLost, EmulatorRuns, ResetGic
<1> QED BY <1>2, <1>4, <1>5, <1>6, <1>7 DEF Inv

(* Each step of the machine preserves the invariant. *)
LEMMA NextInv == Inv /\ [Next]_vars => Inv'
<1> SUFFICES ASSUME Inv, [Next]_vars PROVE Inv'
    OBVIOUS
<1>0. /\ GicInv
      /\ magic \in BOOLEAN /\ primask \in BOOLEAN /\ halted \in BOOLEAN
      /\ block \in BOOLEAN
      BY DEF Inv, TypeOK
<1>1. CASE TakeIrq
      BY <1>1, TakeIrqInv
<1>2. CASE ExceptionExit
      BY <1>2, ExceptionExitInv
<1>3. CASE HandlerReturns
      BY <1>0, <1>3, StutterIsSteady, SteadyInv DEF HandlerReturns, gicVars
<1>4. CASE Wake
      BY <1>0, <1>4, StutterIsSteady, SteadyInv DEF Wake, gicVars
<1>5. ASSUME NEW i \in Irqs, Raise(i) PROVE Inv'
  <2>1. GicInv' /\ Steady /\ fate' = fate
        BY <1>0, <1>5, SetPendingPrivateInv DEF Raise, SetPendingPrivate
  <2> QED BY <1>0, <1>5, <2>1, SteadyInv DEF Raise
<1>6. CASE MsrPrimask
      BY <1>0, <1>6, StutterIsSteady, SteadyInv DEF MsrPrimask, gicVars
<1>7. CASE Wfi
      BY <1>0, <1>7, StutterIsSteady, SteadyInv DEF Wfi, gicVars
<1>8. CASE Register
  <2>1. fate' = fate
        BY <1>8 DEF Register, RegisterWrite, SetEnable, ClearEnable, SetPending,
                    ClearPending, SoftInt, WriteIcsr, WriteHandlerControl
  <2>2. GicInv' /\ Steady
        BY <1>0, <1>8, RegisterWriteInv DEF Register
  <2> QED BY <1>0, <1>8, <2>1, <2>2, SteadyInv DEF Register
<1>9. CASE EndBlock
      BY <1>0, <1>9, StutterIsSteady, SteadyInv DEF EndBlock, gicVars
<1>10. ASSUME NEW s \in PriorityGroups, NEW p \in [s -> Priorities],
              ChangePriority(s, p)
       PROVE  Inv'
       BY <1>10, ChangePriorityInv
<1>11. CASE Timer
  <2>1. GicInv' /\ Steady /\ fate' = fate
        BY <1>0, <1>11, SetPendingPrivateInv DEF Timer, SetPendingPrivate
  <2> QED BY <1>0, <1>11, <2>1, SteadyInv DEF Timer, cpuVars
<1>12. CASE Line
  <2>1. GicInv' /\ Steady /\ fate' = fate
        BY <1>0, <1>12, SetIrqInv DEF Line, Peripheral, SetIrq, External
  <2> QED BY <1>0, <1>12, <2>1, SteadyInv DEF Line, cpuVars
<1>13. CASE Reset
       BY <1>13, ResetInv
<1>14. CASE UNCHANGED vars
       BY <1>0, <1>14, StutterIsSteady, SteadyInv DEF vars, gicVars, cpuVars
<1> QED BY <1>1, <1>2, <1>3, <1>4, <1>5, <1>6, <1>7, <1>8, <1>9, <1>10, <1>11, <1>12,
           <1>13, <1>14 DEF Next, Stopped

-----------------------------------------------------------------------------
(* The inductive invariant holds in every reachable state of the CPU with  *)
(* its interrupt controller.                                               *)
THEOREM InvHolds == Spec => []Inv
BY InitInv, NextInv, PTL DEF Spec

(* The state of gic_state, of the CPU and of its stack keeps its type.     *)
THEOREM TypeCorrect == Spec => []TypeOK
<1>1. Inv => TypeOK
      BY DEF Inv
<1> QED BY <1>1, InvHolds, PTL

(* armv7m_nvic_acknowledge_irq never reaches its hw_error: a CPU that is   *)
(* asked to take an interrupt finds one.                                   *)
THEOREM VectorOnRequest == Spec => []RequestHasVector
<1>1. Inv => RequestHasVector
      BY DEF Inv, GicInv
<1> QED BY <1>1, InvHolds, PTL

(* gic_update is called wherever it is needed, but for the write to 0xd24  *)
(* and the reset of the CPU.                                               *)
THEOREM StatusCorrect == Spec => []StatusCurrentUnlessStale
<1>1. Inv => StatusCurrentUnlessStale
      BY DEF Inv, GicInv
<1> QED BY <1>1, InvHolds, PTL

(* No entry of last_active that gic_reset left uninitialised is ever       *)
(* followed.                                                               *)
THEOREM ChainDefined == Spec => []LastActiveDefined
<1>1. Inv => LastActiveDefined
      BY DEF Inv, GicInv
<1> QED BY <1>1, InvHolds, PTL

(* The frames do_interrupt_v7m pushes and the chain gic_acknowledge_irq    *)
(* links are the same nesting of exceptions.                               *)
THEOREM StackCorrect == Spec => []StackMatchesChain
<1>1. Inv => StackMatchesChain
      BY DEF Inv
<1> QED BY <1>1, InvHolds, PTL

(* Only an exception of strictly higher urgency interrupts a handler.      *)
THEOREM PreemptionCorrect == Spec => []PreemptionIsStrict
<1>1. Inv => PreemptionIsStrict
      BY DEF Inv
<1> QED BY <1>1, InvHolds, PTL

(* No raised and enabled interrupt line is forgotten by the controller.    *)
THEOREM NoLevelLost == Spec => []LevelNotLost
<1>1. Inv => LevelNotLost
      BY DEF Inv
<1> QED BY <1>1, InvHolds, PTL

(* The loop of gic_complete_irq ends, as long as the guest leaves the      *)
(* priority of active interrupts alone and no reset hits a handler.        *)
THEOREM CompletionEnds == Spec => []EmulatorRuns
<1>1. Inv => EmulatorRuns
      BY DEF Inv
<1> QED BY <1>1, InvHolds, PTL

(* The ICSR a handler reads tells its own exception number, and by         *)
(* RETTOBASE whether it interrupted thread mode.                           *)
THEOREM IcsrCorrect == Spec => []IcsrShowsStack
<1>1. Inv => IcsrShowsStack
  <2> SUFFICES ASSUME Inv, sane
               PROVE  Icsr.vectactive = exc /\ (Icsr.rettobase <=> Len(frames) <= 1)
        BY DEF IcsrShowsStack
  <2>1. /\ Depth \in Nat /\ Depth >= 1 /\ Len(frames) = Depth - 1
        /\ exc = ExcAt(Depth) /\ exc \in Vectors \cup {0}
        /\ \A k \in 1..Depth : ExcAt(k) \in Vectors \cup {0}
        BY StackFacts DEF Inv, TypeOK
  <2>2. gic.running_irq = GicIrq(exc)
        BY DEF Inv, StackMatchesChain
  <2>3. CASE exc = 0
    <3>1. gic.running_irq = None
          BY <2>2, <2>3 DEF GicIrq
    <3>2. Depth = 1
      <4>1. Depth \notin 2..Depth
            BY <2>1, <2>3 DEF Inv, FrameShape
      <4> QED BY <2>1, <4>1
    <3> QED BY <2>1, <2>3, <3>1, <3>2 DEF Icsr
  <2>4. CASE exc # 0
    <3>1. gic.running_irq = IrqOf(exc) /\ IrqOf(exc) # None /\ exc \in Vectors
          BY <2>1, <2>2, <2>4, Numbering, Outside DEF GicIrq
    <3>2. VectorOf(IrqOf(exc)) = exc
          BY <3>1, Numbering DEF Vectors
    <3>3. Depth >= 2
          BY <2>1, <2>4 DEF Inv, FrameShape
    <3>4. gic.last_active[IrqOf(exc)] = GicIrq(ExcAt(Depth - 1))
          BY <2>1, <3>3 DEF Inv, StackMatchesChain
    <3>5. ExcAt(Depth - 1) = 0 <=> Depth = 2
          BY <2>1, <3>3 DEF Inv, FrameShape
    <3>6. GicIrq(ExcAt(Depth - 1)) = None <=> ExcAt(Depth - 1) = 0
          BY <2>1, <3>3, Numbering, Outside DEF GicIrq
    <3>7. Icsr.vectactive = exc
          BY <3>1, <3>2 DEF Icsr
    <3>8. Icsr.rettobase <=> gic.last_active[IrqOf(exc)] = None
          BY <3>1 DEF Icsr
    <3>9. Len(frames) <= 1 <=> Depth = 2
          BY <2>1, <3>3
    <3> QED BY <3>4, <3>5, <3>6, <3>7, <3>8, <3>9
  <2> QED BY <2>3, <2>4
<1> QED BY <1>1, InvHolds, PTL
-----------------------------------------------------------------------------

(* HandlerStack is a sequence of interrupts, one for every frame. *)
LEMMA HandlerStackFacts ==
    ASSUME Inv, NEW d \in Nat, d = Depth
    PROVE  /\ d >= 1 /\ Len(frames) = d - 1
           /\ HandlerStack \in Seq(Irqs) /\ Len(HandlerStack) = d - 1
           /\ \A k \in 1..(d - 1) : HandlerStack[k] = IrqOf(ExcAt(k + 1))
<1>1. /\ d >= 1 /\ Len(frames) = d - 1
      /\ \A k \in 1..d : ExcAt(k) \in Vectors \cup {0}
      BY StackFacts DEF Inv
<1>2. \A k \in 1..(d - 1) : IrqOf(ExcAt(k + 1)) \in Irqs
  <2> TAKE k \in 1..(d - 1)
  <2>1. k + 1 \in 2..d
        BY <1>1
  <2>2. ExcAt(k + 1) \in Vectors
        BY <1>1, <2>1 DEF Inv, FrameShape
  <2> QED BY <2>2, Numbering
<1>3. /\ HandlerStack = [k \in 1..(d - 1) |-> IrqOf(ExcAt(k + 1))]
      /\ d - 1 \in Nat
      BY <1>1 DEF HandlerStack
<1> QED BY <1>1, <1>2, <1>3

(* Steps that leave the exceptions on the stack alone. *)
LEMMA SameStack ==
    ASSUME UNCHANGED <<exc, frames>>
    PROVE  HandlerStack' = HandlerStack
BY DEF HandlerStack, ExcAt, Depth

(* A step that keeps the stack and the priorities in use is a Change. *)
LEMMA ChangeStep ==
    ASSUME Inv, UNCHANGED <<exc, frames>>,
           \A i \in Irqs \cap Active : gic'.priority[i] = gic.priority[i]
    PROVE  Nesting!Change
<1>0. PICK d \in Nat : d = Depth
      BY StackFacts DEF Inv
<1>1. /\ HandlerStack \in Seq(Irqs) /\ Len(HandlerStack) = d - 1
      /\ \A k \in 1..(d - 1) : HandlerStack[k] = IrqOf(ExcAt(k + 1))
      BY <1>0, HandlerStackFacts
<1>2. \A k \in DOMAIN HandlerStack : HandlerStack[k] \in Irqs \cap Active
  <2> TAKE k \in DOMAIN HandlerStack
  <2>1. k \in 1..(d - 1) /\ k + 1 \in 1..d /\ HandlerStack[k] \in Irqs
        BY <1>1
  <2> QED BY <1>0, <1>1, <2>1, StackFacts DEF Inv
<1> QED BY <1>2, SameStack DEF Nesting!Change

(* do_interrupt_v7m with the acknowledge enters the best request. *)
LEMMA EnterStep ==
    ASSUME Inv, Inv', TakeIrq, sane, ~hist.stale
    PROVE  \E i \in Irqs : Nesting!Enter(i)
<1> DEFINE new == gic.current_pending
<1>0. PICK d \in Nat : d = Depth
      BY StackFacts DEF Inv
<1>1. /\ new \in Irqs /\ gic.priority[new] < gic.running_priority
      /\ gic'.priority = gic.priority
      /\ gic'.enabled = gic.enabled /\ gic'.pending = gic.pending \ {new}
  <2> HIDE DEF new
  <2>1. new = gic.current_pending
        BY DEF new
  <2> QED BY <2>1, AcknowledgeInv DEF Inv, TakeIrq, Accepts
<1>2. Nesting!Best(new)
  <2>1. PICK best \in Best(gic) : new = IF Unmasked(gic, best) THEN best ELSE None
        BY DEF Inv, GicInv, StatusCurrentUnlessStale, OfferCurrent
  <2>2. new = best /\ gic.priority[new] <= PRIORITY_MASK
        BY <1>1, <2>1, Outside DEF Unmasked
  <2>3. Candidates(gic) # {} /\ new \in Best(gic)
        BY <1>1, <2>1, <2>2, Outside DEF Best
  <2> QED BY <2>2, <2>3 DEF Best, Candidates, Nesting!Best, Nesting!Before
<1>3. /\ exc' = VectorOf(new) /\ IrqOf(exc') = new
      /\ frames' = Append(frames, [exc |-> exc, magic |-> magic])
      BY <1>1, Numbering DEF TakeIrq
<1>4. /\ d >= 1
      /\ HandlerStack \in Seq(Irqs) /\ Len(HandlerStack) = d - 1
      /\ \A k \in 1..(d - 1) : HandlerStack[k] = IrqOf(ExcAt(k + 1))
      BY <1>0, HandlerStackFacts
<1>5. /\ Depth' = d + 1 /\ ExcAt(d + 1)' = exc'
      /\ \A k \in 1..d : ExcAt(k)' = ExcAt(k)
      BY <1>0, <1>3, PushStack DEF Inv
<1>6. gic.priority[new] < Nesting!RunningPrio
  <2>1. CASE d = 1
    <3>1. HandlerStack = <<>> /\ exc = 0
      <4>1. exc = 0
            BY <1>0, <2>1, StackFacts DEF Inv, FrameShape
      <4> QED BY <1>4, <2>1, <4>1, EmptySeq
    <3>2. gic.running_priority = IDLE_PRIORITY
          BY <3>1, Zenon DEF Inv, PreemptionIsStrict
    <3> QED BY <1>1, <3>1, <3>2, Zenon DEF Nesting!RunningPrio
  <2>2. CASE d # 1
    <3>1. exc # 0 /\ exc = ExcAt(d) /\ d >= 2
          BY <1>0, <1>4, <2>2, StackFacts DEF Inv, FrameShape
    <3>2. HandlerStack # <<>> /\ HandlerStack[d - 1] = IrqOf(exc)
          BY <1>4, <3>1
    <3>3. gic.running_priority = gic.priority[IrqOf(exc)]
          BY <3>1, Zenon DEF Inv, PreemptionIsStrict
    <3> QED BY <1>1, <1>4, <3>2, <3>3 DEF Nesting!RunningPrio, Nesting!Top
  <2> QED BY <2>1, <2>2
<1>7. HandlerStack' = Append(HandlerStack, new)
  <2>1. /\ HandlerStack' \in Seq(Irqs) /\ Len(HandlerStack') = d
        /\ \A k \in 1..d : HandlerStack'[k] = IrqOf(ExcAt(k + 1)')
    <3>1. d + 1 \in Nat /\ (d + 1)' = Depth'
          BY <1>5
    <3>2. Len(frames') = d
          BY <1>5 DEF Depth, Inv, TypeOK
    <3>3. HandlerStack' = [k \in 1..d |-> IrqOf(ExcAt(k + 1)')]
          BY <3>2 DEF HandlerStack
    <3>4. \A k \in 1..d : IrqOf(ExcAt(k + 1)') \in Irqs
      <4> TAKE k \in 1..d
      <4>1. CASE k = d
            BY <1>1, <1>3, <1>5, <4>1
      <4>2. CASE k # d
        <5>1. k \in 1..(d - 1) /\ k + 1 \in 1..d
              BY <1>4, <4>2
        <5>2. HandlerStack[k] \in Irqs
              BY <1>4, <5>1
        <5>3. ExcAt(k + 1)' = ExcAt(k + 1)
              BY <1>5, <5>1
        <5> QED BY <1>4, <5>1, <5>2, <5>3
      <4> QED BY <4>1, <4>2
    <3> QED BY <3>3, <3>4
  <2>2. /\ Append(HandlerStack, new) \in Seq(Irqs)
        /\ Len(Append(HandlerStack, new)) = d
        /\ \A k \in 1..(d - 1) : Append(HandlerStack, new)[k] = HandlerStack[k]
        /\ Append(HandlerStack, new)[d] = new
        BY <1>1, <1>4, AppendProperties
  <2>3. ASSUME NEW k \in 1..d PROVE HandlerStack'[k] = Append(HandlerStack, new)[k]
    <3>1. CASE k = d
          BY <1>3, <1>5, <2>1, <2>2, <3>1, Zenon
    <3>2. CASE k # d
      <4>1. k \in 1..(d - 1) /\ k + 1 \in 1..d
            BY <1>4, <3>2
      <4> QED BY <1>4, <1>5, <2>1, <2>2, <4>1
    <3> QED BY <3>1, <3>2
  <2> QED BY <2>1, <2>2, <2>3, SeqEqual
<1> QED BY <1>1, <1>2, <1>6, <1>7 DEF Nesting!Enter

(* do_v7m_exception_exit with the completion leaves the last handler. *)
LEMMA LeaveStep ==
    ASSUME Inv, Inv', ExceptionExit, sane
    PROVE  Nesting!Leave
<1>0. PICK d \in Nat : d = Depth
      BY StackFacts DEF Inv
<1>1. /\ d >= 2 /\ Len(frames) = d - 1 /\ exc = ExcAt(d)
      /\ exc # 0 /\ IrqOf(exc) \in Irqs
  <2>1. exc # 0 /\ IrqOf(exc) \in Irqs
        BY Numbering DEF Inv, FrameShape, ExceptionExit, TypeOK
  <2> QED BY <1>0, <2>1, StackFacts DEF Inv, FrameShape
<1>2. /\ exc' = frames[d - 1].exc /\ frames' = SubSeq(frames, 1, d - 2)
      /\ Complete(IrqOf(exc))
      BY <1>1 DEF ExceptionExit
<1>3. /\ gic'.priority = gic.priority /\ gic'.enabled = gic.enabled
      /\ gic'.pending = gic.pending \/ gic'.pending = gic.pending \cup {IrqOf(exc)}
  <2>1. gic.running_irq = IrqOf(exc)
        BY <1>1 DEF Inv, StackMatchesChain, GicIrq
  <2> QED BY <1>1, <1>2, <2>1, CompleteRunning DEF Inv
<1>4. Depth' = d - 1 /\ \A k \in 1..(d - 1) : ExcAt(k)' = ExcAt(k)
      BY <1>0, <1>1, <1>2, PopStack DEF Inv
<1>5. /\ HandlerStack \in Seq(Irqs) /\ Len(HandlerStack) = d - 1
      /\ \A k \in 1..(d - 1) : HandlerStack[k] = IrqOf(ExcAt(k + 1))
      BY <1>0, HandlerStackFacts
<1>6. /\ HandlerStack # <<>> /\ Nesting!Top = IrqOf(exc)
      BY <1>1, <1>5 DEF Nesting!Top
<1>7. HandlerStack' = SubSeq(HandlerStack, 1, Len(HandlerStack) - 1)
  <2>1. Len(frames') = d - 2
        BY <1>1, <1>4 DEF Depth, Inv, TypeOK
  <2>2. HandlerStack' = [k \in 1..(d - 2) |-> IrqOf(ExcAt(k + 1)')]
        BY <2>1 DEF HandlerStack
  <2>3. \A k \in 1..(d - 2) : IrqOf(ExcAt(k + 1)') = HandlerStack[k]
    <3> TAKE k \in 1..(d - 2)
    <3>1. k \in 1..(d - 1) /\ k + 1 \in 1..(d - 1)
          BY <1>1
    <3>2. ExcAt(k + 1)' = ExcAt(k + 1)
          BY <1>4, <3>1
    <3> QED BY <1>5, <3>1, <3>2
  <2>4. SubSeq(HandlerStack, 1, d - 2) = [k \in 1..(d - 2) |-> HandlerStack[k]]
        BY <1>1, <1>5
  <2> QED BY <1>1, <1>5, <2>2, <2>3, <2>4
<1> QED BY <1>3, <1>6, <1>7 DEF Nesting!Leave

(* The initial state of V7mCpu is one of InterruptNesting. *)
LEMMA NestingInit == Init => Nesting!Init
<1> SUFFICES ASSUME Init PROVE Nesting!Init
    OBVIOUS
<1>1. /\ gic.pending = {} /\ hist.stale = FALSE /\ fate = "runs"
      /\ frames = <<>> /\ sane = TRUE
      BY DEF Init, GicInit, ResetGic
<1>2. HandlerStack = <<>>
      BY <1>1 DEF HandlerStack
<1> QED BY <1>1, <1>2 DEF Nesting!Init

(* Every step of V7mCpu is a step of InterruptNesting. *)
LEMMA NestingNext == Inv /\ Inv' /\ [Next]_vars => [Nesting!Next]_(Nesting!vars)
<1> SUFFICES ASSUME Inv, Inv', Next, sane, ~hist.stale, fate = "runs",
                    sane', ~hist'.stale
             PROVE  \/ \E i \in Irqs : Nesting!Enter(i)
                    \/ Nesting!Leave
                    \/ Nesting!Change
  <2>1. CASE UNCHANGED vars
    <3>1. UNCHANGED <<gic, hist, fate, exc, frames, sane>>
          BY <2>1 DEF vars, gicVars, cpuVars
    <3> QED BY <3>1, SameStack DEF Nesting!vars
  <2> QED BY <2>1 DEF Nesting!Next
<1>0. GicInv
      BY DEF Inv
<1>1. CASE TakeIrq
      BY <1>1, EnterStep
<1>2. CASE ExceptionExit
      BY <1>2, LeaveStep
<1>3. CASE Reset
      BY <1>3 DEF Reset, DropLine, Inv, TypeOK, GicTypeOK, GicHistory
<1>4. CASE \/ HandlerReturns \/ Wake \/ MsrPrimask \/ Wfi \/ EndBlock \/ Stopped
      BY <1>4, ChangeStep DEF HandlerReturns, Wake, MsrPrimask, Wfi, EndBlock, Stopped,
                              vars, gicVars, cpuVars
<1>5. ASSUME NEW i \in Irqs, Raise(i) PROVE Nesting!Change
      BY <1>0, <1>5, SetPendingPrivateInv, ChangeStep DEF Raise, Steady
<1>6. CASE Register
      BY <1>0, <1>6, RegisterWriteInv, ChangeStep DEF Register, Steady
<1>7. ASSUME NEW s \in PriorityGroups, NEW p \in [s -> Priorities], ChangePriority(s, p)
      PROVE  Nesting!Change
  <2>1. \A i \in Irqs : gic'.priority[i] = IF i \in s THEN p[i] ELSE gic.priority[i]
        BY <1>0, <1>7, WritePriorityInv DEF ChangePriority
  <2>2. \A i \in s \cap Active : p[i] = gic.priority[i]
        BY <1>7 DEF ChangePriority
  <2> QED BY <1>7, <2>1, <2>2, ChangeStep DEF ChangePriority
<1>8. CASE Timer
      BY <1>0, <1>8, SetPendingPrivateInv, ChangeStep DEF Timer, Steady, cpuVars
<1>9. CASE Line
      BY <1>0, <1>9, SetIrqInv, ChangeStep DEF Line, Peripheral, Steady, cpuVars
<1> QED BY <1>1, <1>2, <1>3, <1>4, <1>5, <1>6, <1>7, <1>8, <1>9 DEF Next

(* The GIC and the exception entry and return of the CPU implement the     *)
(* nesting of interrupts: the handler entered is the best request of that  *)
(* moment and outranks the one it interrupts, and handlers leave in the    *)
(* reverse order.                                                          *)
THEOREM NestingImplemented == Spec => HandlersNest
<1>1. Spec => []Inv
      BY InvHolds
<1> QED BY <1>1, NestingInit, NestingNext, PTL DEF Spec, HandlersNest, Nesting!Spec
=============================================================================

--------------------------- MODULE V7mStackProofs ---------------------------
(***************************************************************************)
(* Proofs about the stacks of the Cortex-M3: for every depth of nesting,   *)
(* every number of pushed words and every place of the three stacks, a     *)
(* return finds the frame of the context it interrupted, and no push,      *)
(* frame or exchange of tasks touches what another context has on a stack. *)
(***************************************************************************)
EXTENDS V7mStack, TLAPS

-----------------------------------------------------------------------------
(* The contexts that have begun: the active handlers and the current task  *)
(* form a chain in which each interrupted the next larger one; the other   *)
(* task waits outside it.                                                  *)
Active == {v \in Handlers : lr[v] # CODE}
Chain == Active \cup {cur}
Live == Active \cup Tasks
Waiting == Live \ {who}

(* Handler v interrupted c. *)
Over(v, c) == v < c /\ \A w \in Chain : v < w => c <= w

(* The two stacks in use, main (0) and process (1) *)
Top(b) == IF b = 0 THEN MspTop ELSE PspTop[cur]

(* Where a task's stack pointers are, by what it has pushed *)
TaskPtr(t, b) == IF b = 0 THEN MspTop - words[MAIN][0] ELSE PspTop[t] - words[t][1]

(* Pointer b of context d, now or when it was interrupted *)
Ptr(d, b) == IF d = who THEN IF current_sp = b THEN sp ELSE other_sp
             ELSE IF d \in Tasks THEN TaskPtr(d, b)
             ELSE IF saved[d].bank = b THEN saved[d].sp ELSE saved[d].other

(* Pointer b when d began, and what it left to the handler that            *)
(* interrupted it                                                          *)
Floor(d, b) == Ptr(d, b) + words[d][b]
Low(d, b) == IF saved[d].bank = b THEN saved[d].base ELSE Ptr(d, b)

BankOf(d) == IF d = who THEN current_sp ELSE saved[d].bank

(* The words that the contexts a handler can interrupt need *)
Span == FRAME + 1 + MaxWords
Depth(v) == (MaxNest + 1 - v) * Span

(* c is about to execute the EXC_RETURN `to'. *)
Returning(c, to) == /\ c \in Handlers /\ to = lr[c]
                    /\ words[c][0] = 0 /\ words[c][1] = 0
                    /\ c = KERNEL => phase = 0

-----------------------------------------------------------------------------
(* The inductive invariant *)

(* The context in the CPU is the innermost of the chain. *)
Shape == /\ RightContext
         /\ who \in Chain /\ \A w \in Chain : who <= w
         /\ \A v \in Active : \E c \in Chain : Over(v, c)
         /\ phase = 1 => KERNEL \in Active /\ lr[KERNEL] = 1
         /\ pc # CODE => Returning(who, pc)
         /\ \A v \in Handlers \ Active : words[v][0] = 0 /\ words[v][1] = 0

(* A handler has words on the stack it uses only, SECOND uses the process  *)
(* stack only, and the banks follow CONTROL while no handler wrote it.     *)
Banks == /\ \A v \in Active : words[v][1 - BankOf(v)] = 0
         /\ words[SECOND][0] = 0 /\ BankOf(SECOND) = 1
         /\ mixed = 0 => BankOf(cur) = Spsel(control) /\ \A v \in Active : BankOf(v) = 0

(* The kernel's table holds the frame of a task that does not run. *)
Suspended == \A t \in Tasks : t # cur \/ phase = 1
                                => saved[t].bank = 1 /\ table[t] = saved[t].base

TaskSp == /\ exc = 0 => \A b \in 0..1 : Ptr(cur, b) = TaskPtr(cur, b)
          /\ \A t \in Tasks : t # who => saved[t].sp = TaskPtr(t, saved[t].bank)

(* A handler began where the context it interrupted left both pointers,    *)
(* and everything further out lies above.                                  *)
Nested == \A v \in Active : \A b \in 0..1 :
            /\ Floor(v, b) >= Top(b) - Depth(v)
            /\ \A d \in Chain : v < d => Low(d, b) >= Floor(v, b)
            /\ \A c \in Chain : Over(v, c) => lr[v] = saved[c].bank /\ Floor(v, b) = Low(c, b)

(* Every waiting context has its frame. *)
FrameOf(c, base) ==
    /\ base \in (saved[c].sp - FRAME - 1)..(saved[c].sp - FRAME)
    /\ mem[base].own = c
    /\ mem[base + PC].pc = CODE \/ Returning(c, mem[base + PC].pc)
    /\ mem[base + XPSR].exc = IF c \in Tasks THEN 0 ELSE c
    /\ UndoAlign(base + FRAME, mem[base + XPSR].align) = saved[c].sp
Frames == \A c \in Waiting : FrameOf(c, saved[c].base)

(* Every context has its words, on both stacks. *)
Stored == \A d \in Live : \A b \in 0..1 : \A a \in Ptr(d, b)..(Floor(d, b) - 1) :
            mem[a] = Plain(d, FRAME)

SInv == /\ TypeOK /\ Shape /\ Banks /\ Suspended /\ TaskSp /\ Nested /\ Frames
        /\ Stored

-----------------------------------------------------------------------------
(* Facts about numbers and records, stated once for steps that need no     *)
(* other arithmetic                                                        *)

(* The two banks *)
LEMMA Bits ==
    /\ 0 \in 0..1 /\ 1 \in 0..1 /\ 0 # 1 /\ 1 - 0 = 1 /\ 1 - 1 = 0
    /\ \A b \in 0..1 : b = 0 \/ b = 1
    /\ \A b \in 0..1 : 1 - b \in 0..1 /\ 1 - b # b /\ 1 - (1 - b) = b
    /\ \A b, k \in 0..1 : k # b => k = 1 - b
OBVIOUS

(* The order of the integers *)
LEMMA IntOrder ==
    /\ \A x, y, z \in Int : x <= y /\ y <= z => x <= z
    /\ \A x, y, z \in Int : x < y /\ y <= z => x < z
    /\ \A x, y, z \in Int : x <= y /\ y < z => x < z
    /\ \A x, y \in Int : x <= y <=> x < y \/ x = y
    /\ \A x, y \in Int : x < y <=> ~(y <= x)
    /\ \A x \in Int : x <= x /\ ~(x < x)
    /\ \A x, y \in Int : x >= y <=> y <= x
    /\ \A x, y \in Int : x > y <=> y < x
OBVIOUS

(* Sums and differences are integers. *)
LEMMA IntSums ==
    /\ \A x \in Nat : x \in Int
    /\ \A x, y \in Int : x + y \in Int /\ x - y \in Int
    /\ \A x, y \in Nat : x + y \in Nat
    /\ 0 \in Nat /\ 1 \in Nat
OBVIOUS

(* The members of an interval, as the stacks use them *)
LEMMA Interval ==
    /\ \A i, j \in Int : \A a : a \in i..(j - 1) <=> a \in Int /\ i <= a /\ a < j
    /\ \A i, j \in Int : \A a : a \in i..j <=> a \in Int /\ i <= a /\ a <= j
OBVIOUS

(* The numbers of the contexts and the constants *)
LEMMA Nums ==
    /\ MaxNest \in Nat /\ MaxNest >= 1 /\ MaxWords \in Nat /\ MspTop \in Nat
    /\ MAIN \in Nat /\ SECOND \in Nat /\ PspTop[MAIN] \in Nat /\ PspTop[SECOND] \in Nat
    /\ KERNEL \in Handlers /\ MAIN \notin Handlers /\ SECOND \notin Handlers
    /\ MAIN # SECOND /\ MAIN \in Tasks /\ SECOND \in Tasks
    /\ \A v \in Handlers : v \in Nat /\ 1 <= v /\ v <= MaxNest /\ v \notin Tasks
    /\ \A t \in Tasks : t \in Nat /\ t > MaxNest /\ t \notin Handlers
    /\ \A t \in Tasks : PspTop[t] \in Nat
    /\ \A d \in Contexts : d \in Nat /\ d # 0
BY StackAssumption
   DEF StackAssumption, Handlers, Tasks, MAIN, SECOND, KERNEL, Contexts

(* A product of differences: the step of Depth *)
LEMMA Times == \A x, y, k \in Nat : x >= y + 1 => x * k >= y * k + k
<1> SUFFICES ASSUME NEW x \in Nat, NEW y \in Nat, NEW k \in Nat, x >= y + 1
             PROVE  x * k >= y * k + k
    BY Zenon
<1> DEFINE z == x - y - 1
<1>1. z \in Nat /\ x = y + 1 + z
    OBVIOUS
<1>2. z * k \in Nat
    BY <1>1
<1>3. x * k = y * k + k + z * k
    BY <1>1
<1> QED
    BY <1>2, <1>3

(* The depth of a handler: the words below the top of a stack that the     *)
(* contexts it can have interrupted need, within Room                      *)
LEMMA DepthFacts ==
    /\ Span \in Nat /\ Room \in Nat
    /\ \A v \in Handlers : /\ Depth(v) \in Nat
                           /\ Span <= Depth(v)
                           /\ Depth(v) + MaxWords <= Room
    /\ \A v, c \in Handlers : v < c => Depth(c) + Span <= Depth(v)
<1>1. Span \in Nat /\ MaxNest \in Nat /\ MaxWords \in Nat
    BY Nums, IntOrder, IntSums, Zenon DEF Span, FRAME
<1>2. MaxNest * Span \in Nat /\ Room = MaxWords + MaxNest * Span
    BY <1>1 DEF Room, Span
<1>3. ASSUME NEW v \in Handlers PROVE MaxNest + 1 - v \in Nat /\ MaxNest + 1 - v >= 1
    BY Nums
<1>4. ASSUME NEW v \in Handlers
      PROVE  Depth(v) \in Nat /\ Span <= Depth(v) /\ Depth(v) + MaxWords <= Room
    <2> DEFINE x == MaxNest + 1 - v
    <2>1. x \in Nat /\ x >= 1 /\ x <= MaxNest
        BY <1>3, Nums
    <2>2. x * Span \in Nat /\ x * Span >= 0 * Span + Span
        BY <1>1, <2>1, Times
    <2>3. x * Span <= MaxNest * Span
        <3>1. CASE x = MaxNest
            BY <3>1, <1>2, IntOrder, IntSums, Zenon
        <3>2. CASE x + 1 <= MaxNest
            BY <3>2, <1>1, <1>2, <2>1, <2>2, Times
        <3> QED
            BY <3>1, <3>2, <2>1, <1>1
    <2> QED
        BY <2>2, <2>3, <1>1, <1>2 DEF Depth
<1>5. ASSUME NEW v \in Handlers, NEW c \in Handlers, v < c
      PROVE  Depth(c) + Span <= Depth(v)
    <2>1. MaxNest + 1 - v >= MaxNest + 1 - c + 1
        BY <1>5, Nums
    <2> QED
        BY <2>1, <1>1, <1>3, <1>4, Times, Zenon DEF Depth
<1> QED
    BY <1>1, <1>2, <1>4, <1>5, IntOrder, IntSums, Zenon

-----------------------------------------------------------------------------
(* What TypeOK says of the parts of the state the geometry is made of *)
LEMMA Parts ==
    ASSUME TypeOK
    PROVE  /\ sp \in Nat /\ other_sp \in Nat /\ current_sp \in 0..1
           /\ cur \in Tasks /\ who \in Contexts
           /\ \A d \in Contexts : \A b \in 0..1 : /\ words[d][b] \in Nat
                                                  /\ words[d][b] <= MaxWords
           /\ \A d \in Contexts : /\ saved[d].sp \in Nat /\ saved[d].other \in Nat
                                  /\ saved[d].base \in Nat /\ saved[d].bank \in 0..1
           /\ \A b \in 0..1 : Top(b) \in Nat
           /\ \A t \in Tasks : \A b \in 0..1 : TaskPtr(t, b) \in Int
           /\ \A d \in Contexts : \A b \in 0..1 : /\ Ptr(d, b) \in Int
                                                  /\ Floor(d, b) \in Int
                                                  /\ Low(d, b) \in Int
                                                  /\ Ptr(d, b) <= Floor(d, b)
                                                  /\ Ptr(d, b) >= Floor(d, b) - MaxWords
<1>1. sp \in Nat /\ other_sp \in Nat /\ current_sp \in 0..1 /\ cur \in Tasks
      /\ who \in Contexts
    BY Zenon DEF TypeOK
<1>2. ASSUME NEW d \in Contexts, NEW b \in 0..1
      PROVE  words[d][b] \in Nat /\ words[d][b] <= MaxWords
    <2>1. words[d][b] \in 0..MaxWords
        BY Zenon DEF TypeOK
    <2> QED
        BY <2>1, Nums
<1>3. ASSUME NEW d \in Contexts
      PROVE  /\ saved[d].sp \in Nat /\ saved[d].other \in Nat
             /\ saved[d].base \in Nat /\ saved[d].bank \in 0..1
    <2>1. saved[d] \in [sp : Nat, other : Nat, bank : 0..1, base : Nat]
        BY Zenon DEF TypeOK
    <2> QED
        BY <2>1, Zenon
<1>4. ASSUME NEW b \in 0..1 PROVE Top(b) \in Nat
    BY <1>1, Nums, Zenon DEF Top
<1>5. ASSUME NEW t \in Tasks, NEW b \in 0..1 PROVE TaskPtr(t, b) \in Int
    <2>1. MAIN \in Contexts /\ t \in Contexts /\ 0 \in 0..1 /\ 1 \in 0..1
        BY Bits, Zenon DEF Contexts, Tasks
    <2>2. words[MAIN][0] \in Nat /\ words[t][1] \in Nat
        BY <2>1, <1>2, Zenon
    <2> QED
        BY <2>2, Nums, IntOrder, IntSums, Zenon DEF TaskPtr
<1>6. ASSUME NEW d \in Contexts, NEW b \in 0..1 PROVE Ptr(d, b) \in Int
    BY <1>1, <1>3, <1>5, IntOrder, IntSums, Zenon DEF Ptr
<1>7. ASSUME NEW d \in Contexts, NEW b \in 0..1
      PROVE  /\ Floor(d, b) \in Int /\ Ptr(d, b) <= Floor(d, b)
             /\ Ptr(d, b) >= Floor(d, b) - MaxWords
    BY <1>2, <1>6, Nums DEF Floor
<1>8. ASSUME NEW d \in Contexts, NEW b \in 0..1 PROVE Low(d, b) \in Int
    BY <1>3, <1>6, IntOrder, IntSums, Zenon DEF Low
<1> QED
    BY <1>1, <1>2, <1>3, <1>4, <1>5, <1>6, <1>7, <1>8, Zenon

(* The chain: the context in the CPU is its least member, the current task *)
(* its greatest.                                                           *)
LEMMA ChainFacts ==
    ASSUME TypeOK, Shape
    PROVE  /\ Active \subseteq Handlers /\ Chain \subseteq Contexts
           /\ Chain \subseteq Live /\ Live \subseteq Contexts
           /\ cur \in Chain /\ who \in Chain /\ cur \in Tasks /\ cur \in Nat
           /\ \A v \in Active : v < cur /\ v \in Nat /\ v \notin Tasks
           /\ \A d \in Chain : d # who => who < d /\ who \in Active /\ d \in Waiting
           /\ exc = 0 => who = cur /\ Active = {} /\ Chain = {cur}
           /\ exc # 0 => who = exc /\ who \in Active /\ who # cur /\ cur \in Waiting
           /\ who \in Tasks => exc = 0 /\ who = cur
           /\ exc = KERNEL => /\ Active = {KERNEL} /\ Chain = {KERNEL, cur}
                              /\ Over(KERNEL, cur)
<1>1. Active \subseteq Handlers /\ cur \in Tasks /\ cur \in Chain /\ who \in Chain
    BY Zenon DEF Active, Chain, TypeOK, Shape
<1>2. Chain \subseteq Contexts /\ Chain \subseteq Live /\ Live \subseteq Contexts
    BY <1>1, Zenon DEF Chain, Contexts, Live
<1>3. cur \in Nat /\ \A v \in Active : v < cur /\ v \in Nat /\ v \notin Tasks /\ v # cur
    BY <1>1, Nums, IntOrder, IntSums, Zenon
<1>4. \A d \in Chain : d \in Nat /\ who <= d
    BY <1>2, Nums, Zenon DEF Shape
<1>5. ASSUME NEW d \in Chain, d # who
      PROVE  who < d /\ who \in Active /\ d \in Waiting
    <2>1. who < d
        BY <1>1, <1>4, <1>5, IntOrder, IntSums, Zenon
    <2>2. who # cur
        BY <2>1, <1>3, <1>4, IntOrder, IntSums, Zenon DEF Chain
    <2> QED
        BY <2>1, <2>2, <1>1, <1>2, <1>5, Zenon DEF Chain, Waiting
<1>6. who = IF exc = 0 THEN cur ELSE exc
    BY Zenon DEF Shape, RightContext
<1>7. exc = 0 => who = cur /\ Active = {} /\ Chain = {cur}
    <2> SUFFICES ASSUME exc = 0 PROVE who = cur /\ Active = {} /\ Chain = {cur}
        BY Zenon
    <2>1. who = cur
        BY <1>6, Zenon
    <2>2. \A v \in Active : FALSE
        BY <2>1, <1>3, <1>5, Zenon DEF Chain
    <2> QED
        BY <2>1, <2>2, Zenon DEF Chain
<1>8. exc # 0 => who = exc /\ who \in Active /\ who # cur /\ cur \in Waiting
    <2> SUFFICES ASSUME exc # 0 PROVE who = exc /\ who \in Active /\ who # cur /\ cur \in Waiting
        BY Zenon
    <2>1. who = exc /\ exc \in Handlers
        <3>1. exc \in 0..MaxNest
            BY Zenon DEF TypeOK
        <3> QED
            BY <3>1, <1>6, Nums DEF Handlers
    <2>2. who # cur
        BY <2>1, <1>1, Nums, Zenon
    <2> QED
        BY <2>1, <2>2, <1>1, <1>5, Zenon DEF Chain
<1>9. who \in Tasks => exc = 0 /\ who = cur
    BY <1>3, <1>7, <1>8, Zenon
<1>10. ASSUME exc = KERNEL
       PROVE  Active = {KERNEL} /\ Chain = {KERNEL, cur} /\ Over(KERNEL, cur)
    <2>1. who = KERNEL /\ KERNEL \in Active
        BY <1>10, <1>8, Nums
    <2>2. \A v \in Active : v = KERNEL
        <3> SUFFICES ASSUME NEW v \in Active, v # KERNEL PROVE FALSE
            BY Zenon
        <3>1. v \in Chain /\ v \in Handlers
            BY <1>1, Zenon DEF Chain
        <3>2. KERNEL < v
            BY <3>1, <2>1, <1>5, Zenon
        <3> QED
            BY <3>1, <3>2, Nums, IntOrder, IntSums, Zenon DEF KERNEL
    <2>3. Active = {KERNEL} /\ Chain = {KERNEL, cur}
        BY <2>1, <2>2, Zenon DEF Chain
    <2>4. KERNEL < cur /\ cur \in Nat /\ KERNEL \in Nat
        BY <2>1, <1>3, Zenon
    <2> QED
        BY <2>3, <2>4 DEF Over
<1> QED
    BY <1>1, <1>2, <1>3, <1>5, <1>7, <1>8, <1>9, <1>10, Zenon

-----------------------------------------------------------------------------
(* Where things are *)

(* An address of a stack in use below the place where e began *)
Under(e, a) == \E b \in 0..1 : a \in Region(Top(b)) /\ a < Floor(e, b)
Mine(a) == Under(who, a)

(* An address of context d's frame or words *)
Item(d, a) == \/ \E b \in 0..1 : a \in Ptr(d, b)..(Floor(d, b) - 1)
              \/ a \in saved[d].base..(saved[d].base + FRAME - 1)

(* The three stacks are in memory and apart, as LayoutAssumption says. *)
LEMMA Layout ==
    /\ Region(MspTop) \subseteq Addresses /\ MspTop - Room >= 0
    /\ \A t \in Tasks : Region(PspTop[t]) \subseteq Addresses /\ PspTop[t] - Room >= 0
    /\ \A a : \A t \in Tasks : a \in Region(MspTop) => a \notin Region(PspTop[t])
    /\ \A a : \A s, t \in Tasks : s # t /\ a \in Region(PspTop[s]) => a \notin Region(PspTop[t])
    /\ Addresses \subseteq Nat
<1>1. MspTop >= Room /\ \A t \in Tasks : PspTop[t] >= Room
    BY LayoutAssumption, Zenon DEF LayoutAssumption
<1>2. MspTop - Room >= 0 /\ \A t \in Tasks : PspTop[t] - Room >= 0
    BY <1>1, Nums, DepthFacts
<1>3. Region(MspTop) \subseteq Addresses
    BY Zenon DEF Addresses
<1>4. \A t \in Tasks : Region(PspTop[t]) \subseteq Addresses
    BY Zenon DEF Addresses, Tasks
<1>5. \A t \in Tasks : Region(MspTop) \cap Region(PspTop[t]) = {}
    BY LayoutAssumption, Zenon DEF LayoutAssumption
<1>6. \A s, t \in Tasks : s # t => Region(PspTop[s]) \cap Region(PspTop[t]) = {}
    BY LayoutAssumption DEF LayoutAssumption, Tasks
<1>7. Addresses \subseteq Nat
    <2>1. \A top, r \in Nat : top - r >= 0 => (top - r)..(top - 1) \subseteq Nat
        OBVIOUS
    <2>2. Region(MspTop) \subseteq Nat
        BY <2>1, <1>2, Nums, DepthFacts, Zenon DEF Region
    <2>3. \A t \in Tasks : Region(PspTop[t]) \subseteq Nat
        BY <2>1, <1>2, Nums, DepthFacts, Zenon DEF Region
    <2> QED
        BY <2>2, <2>3, Zenon DEF Addresses, Tasks
<1> QED
    BY <1>2, <1>3, <1>4, <1>5, <1>6, <1>7, Zenon

(* The two stacks in use *)
LEMMA Tops ==
    ASSUME cur \in Tasks, NEW b \in 0..1
    PROVE  /\ Region(Top(b)) \subseteq Addresses
           /\ \A a : \A k \in 0..1 : a \in Region(Top(b)) /\ a \in Region(Top(k)) => k = b
           /\ \A a : \A t \in Tasks : a \in Region(PspTop[t]) /\ t # cur => a \notin Region(Top(b))
           /\ \A a \in Int : a \in Region(Top(b)) <=> Top(b) - Room <= a /\ a < Top(b)
           /\ Top(b) - Room >= 0 /\ Top(b) \in Nat
<1>1. Top(b) = MspTop \/ Top(b) = PspTop[cur]
    BY Zenon DEF Top
<1>2. Top(0) = MspTop /\ Top(1) = PspTop[cur] /\ (b = 0 \/ b = 1)
      /\ \A k \in 0..1 : k = 0 \/ k = 1
    BY Bits, Zenon DEF Top
<1>3. Region(Top(b)) \subseteq Addresses /\ Top(b) - Room >= 0
    BY <1>1, Layout, Zenon
<1>4. \A a : \A k \in 0..1 : a \in Region(Top(b)) /\ a \in Region(Top(k)) => k = b
    BY <1>2, Layout, Zenon
<1>5. \A a : \A t \in Tasks : a \in Region(PspTop[t]) /\ t # cur => a \notin Region(Top(b))
    BY <1>1, Layout, Zenon
<1>6. Top(b) \in Nat
    BY <1>1, Nums, Zenon
<1>7. \A a \in Int : a \in Region(Top(b)) <=> Top(b) - Room <= a /\ a < Top(b)
    <2>1. \A a \in Int : \A top, r \in Nat :
             a \in (top - r)..(top - 1) <=> top - r <= a /\ a < top
        OBVIOUS
    <2> QED
        BY <2>1, <1>6, DepthFacts, Zenon DEF Region
<1> QED
    BY <1>3, <1>4, <1>5, <1>6, <1>7, Zenon

(* What a task has pushed is just below its tops. *)
LEMMA TaskBounds ==
    ASSUME TypeOK, words[SECOND][0] = 0, NEW t \in Tasks
    PROVE  /\ PspTop[t] - MaxWords <= TaskPtr(t, 1) /\ TaskPtr(t, 1) + words[t][1] = PspTop[t]
           /\ MspTop - MaxWords <= TaskPtr(t, 0) /\ TaskPtr(t, 0) + words[t][0] <= MspTop
           /\ TaskPtr(t, 0) <= MspTop /\ TaskPtr(t, 1) <= PspTop[t]
           /\ words[t][0] = 0 \/ t = MAIN
<1>1. t \in Contexts /\ MAIN \in Contexts /\ 0 \in 0..1 /\ 1 \in 0..1
    BY Bits, Zenon DEF Contexts, Tasks
<1>2. /\ words[t][0] \in Nat /\ words[t][0] <= MaxWords
      /\ words[t][1] \in Nat /\ words[t][1] <= MaxWords
      /\ words[MAIN][0] \in Nat /\ words[MAIN][0] <= MaxWords
    BY <1>1, Parts, Zenon
<1>3. words[t][0] = 0 \/ t = MAIN
    BY Zenon DEF Tasks
<1> QED
    BY <1>2, <1>3, Nums DEF TaskPtr

(* Where the pointers of the running context are *)
LEMMA Bounds ==
    ASSUME SInv, NEW b \in 0..1
    PROVE  /\ Top(b) - Room <= Ptr(who, b) /\ Floor(who, b) <= Top(b)
           /\ Top(b) - MaxWords <= TaskPtr(cur, b) /\ TaskPtr(cur, b) <= Top(b)
           /\ TaskPtr(cur, b) + words[cur][b] <= Top(b)
           /\ exc = 0 => Ptr(who, b) = TaskPtr(cur, b)
           /\ exc # 0 => /\ Top(b) - Depth(who) <= Floor(who, b)
                         /\ Floor(who, b) <= Low(cur, b)
                         /\ Low(cur, b) <= TaskPtr(cur, b)
<1> USE DEF SInv
<1>1. /\ Top(b) \in Nat /\ TaskPtr(cur, b) \in Int /\ words[cur][b] \in Nat
      /\ Ptr(who, b) \in Int /\ Floor(who, b) \in Int /\ Low(cur, b) \in Int
      /\ Ptr(who, b) >= Floor(who, b) - MaxWords /\ MaxWords \in Nat /\ Room \in Nat
      /\ cur \in Contexts /\ cur \in Tasks /\ who \in Contexts
    BY Parts, Nums, DepthFacts, Zenon DEF Contexts
<1>2. b = 0 \/ b = 1
    BY Bits, Zenon
<1>3. /\ Top(b) - MaxWords <= TaskPtr(cur, b) /\ TaskPtr(cur, b) <= Top(b)
      /\ TaskPtr(cur, b) + words[cur][b] <= Top(b)
    <2>1. words[SECOND][0] = 0
        BY Zenon DEF Banks
    <2>2. CASE b = 0
        BY <2>1, <2>2, <1>1, TaskBounds, Zenon DEF Top
    <2>3. CASE b = 1
        BY <2>1, <2>3, <1>1, TaskBounds DEF Top
    <2> QED
        BY <2>2, <2>3, <1>2, Zenon
<1>4. MaxWords <= Room
    BY DepthFacts, Nums
<1>5. CASE exc = 0
    <2>1. who = cur
        BY <1>5, ChainFacts, Zenon
    <2>2. Ptr(who, b) = TaskPtr(cur, b)
        BY <2>1, <1>5, Zenon DEF TaskSp
    <2>3. Floor(who, b) = TaskPtr(cur, b) + words[cur][b]
        BY <2>1, <2>2, Zenon DEF Floor
    <2> QED
        BY <2>2, <2>3, <1>1, <1>3, <1>4, <1>5
<1>6. CASE exc # 0
    <2>1. who \in Active /\ who < cur /\ cur \in Chain /\ cur \in Waiting /\ who # cur
          /\ who \in Handlers
        BY <1>6, ChainFacts, Zenon
    <2>2. Top(b) - Depth(who) <= Floor(who, b) /\ Floor(who, b) <= Low(cur, b)
        <3>1. /\ Floor(who, b) >= Top(b) - Depth(who)
              /\ \A d \in Chain : who < d => Low(d, b) >= Floor(who, b)
            BY <2>1, Zenon DEF Nested
        <3>2. Low(cur, b) >= Floor(who, b)
            BY <3>1, <2>1, Zenon
        <3> QED
            BY <3>1, <3>2, <2>1, <1>1, DepthFacts, Zenon
    <2>3. Low(cur, b) <= TaskPtr(cur, b)
        <3>1. CASE saved[cur].bank = b
            <4>1. saved[cur].sp = TaskPtr(cur, b)
                BY <3>1, <2>1, <1>1, Zenon DEF TaskSp
            <4>2. saved[cur].base <= saved[cur].sp - FRAME
                <5>1. saved[cur].base \in (saved[cur].sp - FRAME - 1)..(saved[cur].sp - FRAME)
                    BY <2>1, Zenon DEF Frames, FrameOf
                <5> QED
                    BY <5>1, <1>1, Parts DEF FRAME
            <4> QED
                BY <4>1, <4>2, <3>1, <1>1, Parts DEF Low, FRAME
        <3>2. CASE saved[cur].bank # b
            BY <3>2, <2>1, <1>1, IntOrder, Zenon DEF Low, Ptr
        <3> QED
            BY <3>1, <3>2, Zenon
    <2>4. Depth(who) + MaxWords <= Room /\ Depth(who) \in Nat
        BY <2>1, DepthFacts, Zenon
    <2> QED
        BY <2>2, <2>3, <2>4, <1>1, <1>3, <1>6
<1> QED
    BY <1>5, <1>6, Zenon

(* The stack pointer a waiting context was interrupted with *)
LEMMA SavedSp ==
    ASSUME SInv, NEW d \in Waiting
    PROVE  /\ d \in Contexts /\ d # who
           /\ saved[d].sp = Ptr(d, saved[d].bank)
           /\ saved[d].sp - FRAME - 1 <= saved[d].base
           /\ saved[d].base <= saved[d].sp - FRAME
           /\ \A b \in 0..1 : Low(d, b) <= Ptr(d, b)
<1> USE DEF SInv
<1>1. d \in Contexts /\ d # who /\ d \in Live
    BY ChainFacts, Zenon DEF Waiting
<1>2. saved[d].sp = Ptr(d, saved[d].bank)
    <2>1. CASE d \in Tasks
        BY <2>1, <1>1, Zenon DEF Ptr, TaskSp
    <2>2. CASE d \notin Tasks
        BY <2>2, <1>1, Zenon DEF Ptr
    <2> QED
        BY <2>1, <2>2, Zenon
<1>3. saved[d].sp - FRAME - 1 <= saved[d].base /\ saved[d].base <= saved[d].sp - FRAME
    <2>1. saved[d].base \in (saved[d].sp - FRAME - 1)..(saved[d].sp - FRAME)
        BY Zenon DEF Frames, FrameOf
    <2>2. saved[d].sp \in Nat
        BY <1>1, Parts, Zenon
    <2> QED
        BY <2>1, <2>2 DEF FRAME
<1>4. ASSUME NEW b \in 0..1 PROVE Low(d, b) <= Ptr(d, b)
    <2>1. Ptr(d, b) \in Int /\ saved[d].sp \in Nat /\ saved[d].base \in Nat
        BY <1>1, Parts, Zenon
    <2>2. CASE saved[d].bank = b
        BY <2>1, <2>2, <1>2, <1>3 DEF Low, FRAME
    <2>3. CASE saved[d].bank # b
        BY <2>1, <2>3, IntOrder, Zenon DEF Low
    <2> QED
        BY <2>2, <2>3, Zenon
<1> QED
    BY <1>1, <1>2, <1>3, <1>4, Zenon

(* A waiting member of the chain lies within the two stacks in use. *)
LEMMA ChainPlace ==
    ASSUME SInv, NEW d \in Chain, d # who, NEW b \in 0..1
    PROVE  /\ Top(b) - Room <= Low(d, b) /\ Low(d, b) <= Ptr(d, b)
           /\ Ptr(d, b) <= Floor(d, b) /\ Floor(d, b) <= Top(b)
           /\ Top(b) \in Nat /\ Low(d, b) \in Int /\ Ptr(d, b) \in Int /\ Floor(d, b) \in Int
<1> USE DEF SInv
<1>1. who < d /\ who \in Active /\ exc # 0 /\ d \in Waiting
    BY ChainFacts, Zenon
<1>2. /\ d \in Contexts /\ who \in Contexts /\ cur \in Tasks /\ cur \in Contexts
    BY ChainFacts, Zenon DEF Contexts
<1>3. /\ Top(b) \in Nat /\ Floor(d, b) \in Int /\ Floor(who, b) \in Int
      /\ Low(d, b) \in Int /\ Ptr(d, b) \in Int /\ Ptr(d, b) <= Floor(d, b)
      /\ Low(cur, b) \in Int /\ Ptr(who, b) \in Int /\ Ptr(who, b) <= Floor(who, b)
      /\ TaskPtr(cur, b) \in Int
    BY <1>2, Parts, Zenon
<1>4. Low(d, b) <= Ptr(d, b)
    BY <1>1, SavedSp, Zenon
<1>5. Low(d, b) >= Floor(who, b)
    <2>1. \A e \in Chain : who < e => Low(e, b) >= Floor(who, b)
        BY <1>1, Zenon DEF Nested
    <2> QED
        BY <2>1, <1>1, Zenon
<1>6. /\ Top(b) - Room <= Ptr(who, b) /\ Low(cur, b) <= TaskPtr(cur, b)
      /\ TaskPtr(cur, b) <= Top(b) /\ TaskPtr(cur, b) + words[cur][b] <= Top(b)
    BY <1>1, Bounds, Zenon
<1>7. Floor(d, b) <= Top(b)
    <2>1. CASE d = cur
        BY <2>1, <1>2, <1>6, Zenon DEF Floor, Ptr
    <2>2. CASE d # cur
        <3>1. d \in Active /\ d < cur /\ cur \in Chain
            BY <2>2, ChainFacts, Zenon DEF Chain
        <3>2. \A e \in Chain : d < e => Low(e, b) >= Floor(d, b)
            BY <3>1, Zenon DEF Nested
        <3>3. Low(cur, b) >= Floor(d, b)
            BY <3>1, <3>2, Zenon
        <3> QED
            BY <3>3, <1>3, <1>6, IntOrder, IntSums, Zenon
    <2> QED
        BY <2>1, <2>2, Zenon
<1> QED
    BY <1>3, <1>4, <1>5, <1>6, <1>7, DepthFacts

(* Everything that belongs to a waiting context lies outside the part of   *)
(* the stacks that a context further in may write.                         *)
LEMMA ApartFrom ==
    ASSUME SInv, NEW e \in Chain, NEW d \in Waiting, d \in Chain => e < d,
           NEW a \in Int, Item(d, a)
    PROVE  a \in Addresses /\ ~Under(e, a)
<1> USE DEF SInv
<1>1. /\ d \in Contexts /\ d # who /\ d \in Live /\ e \in Contexts
      /\ cur \in Tasks /\ cur \in Contexts
    BY SavedSp, Parts, ChainFacts, Zenon DEF Waiting, Contexts
<1>2. ASSUME NEW b \in 0..1, a \in Region(Top(b)), a >= Floor(e, b)
      PROVE  a \in Addresses /\ ~Under(e, a)
    <2>1. a \in Addresses
        BY <1>1, <1>2, Tops, Zenon
    <2>2. Floor(e, b) \in Int
        BY <1>1, Parts, Zenon
    <2>3. ASSUME NEW k \in 0..1, a \in Region(Top(k)), a < Floor(e, k) PROVE FALSE
        <3>1. k = b
            BY <2>3, <1>1, <1>2, Tops, Zenon
        <3> QED
            BY <3>1, <2>2, <2>3, <1>2, IntOrder, Zenon
    <2> QED
        BY <2>1, <2>3, Zenon DEF Under
<1>3. ASSUME d # cur, d \in Tasks, a \in Region(PspTop[d])
      PROVE  a \in Addresses /\ ~Under(e, a)
    <2>1. a \in Addresses
        BY <1>3, Layout, Zenon
    <2>2. ASSUME NEW k \in 0..1, a \in Region(Top(k)) PROVE FALSE
        BY <2>2, <1>1, <1>3, Tops, Zenon
    <2> QED
        BY <2>1, <2>2, Zenon DEF Under
<1>4. CASE d \in Chain
    <2>1. e < d /\ e \in Active
        <3>1. d <= cur /\ e \in Nat /\ d \in Nat /\ cur \in Nat
            <4>1. cur \in Nat /\ (\A v \in Active : v < cur /\ v \in Nat)
                BY <1>1, ChainFacts, Zenon
            <4>2. d \in Active \/ d = cur
                BY <1>4, Zenon DEF Chain
            <4>3. d \in Nat /\ d <= cur
                BY <4>1, <4>2, IntOrder, IntSums, Zenon
            <4>4. e \in Nat
                BY <4>1, <1>1, <1>4, ChainFacts, Nums, Zenon
            <4> QED
                BY <4>1, <4>3, <4>4, Zenon
        <3> QED
            BY <3>1, <1>4, IntOrder, IntSums, Zenon DEF Chain
    <2>2. ASSUME NEW b \in 0..1
          PROVE  /\ Floor(e, b) <= Low(d, b) /\ Floor(e, b) \in Int
                 /\ Top(b) - Room <= Low(d, b) /\ Low(d, b) <= Ptr(d, b)
                 /\ Ptr(d, b) <= Floor(d, b) /\ Floor(d, b) <= Top(b)
                 /\ Top(b) \in Nat /\ Low(d, b) \in Int
                 /\ Ptr(d, b) \in Int /\ Floor(d, b) \in Int
        <3>1. Floor(e, b) \in Int
            BY <1>1, Parts, Zenon
        <3>2. Low(d, b) >= Floor(e, b)
            <4>1. \A f \in Chain : e < f => Low(f, b) >= Floor(e, b)
                BY <2>1, Zenon DEF Nested
            <4> QED
                BY <4>1, <2>1, <1>4, Zenon
        <3>3. /\ Top(b) - Room <= Low(d, b) /\ Low(d, b) <= Ptr(d, b)
              /\ Ptr(d, b) <= Floor(d, b) /\ Floor(d, b) <= Top(b)
              /\ Top(b) \in Nat /\ Low(d, b) \in Int
              /\ Ptr(d, b) \in Int /\ Floor(d, b) \in Int
            BY <1>1, <1>4, ChainPlace, Zenon
        <3> QED
            BY <3>1, <3>2, <3>3, Zenon
    <2>3. ASSUME NEW b \in 0..1, Low(d, b) <= a, a < Top(b)
          PROVE  a \in Addresses /\ ~Under(e, a)
        <3>1. a >= Floor(e, b) /\ Top(b) - Room <= a
            BY <2>2, <2>3, DepthFacts
        <3>2. a \in Region(Top(b))
            BY <3>1, <2>3, <1>1, Tops, Zenon
        <3> QED
            BY <3>1, <3>2, <1>2, Zenon
    <2>4. ASSUME NEW b \in 0..1, a \in Ptr(d, b)..(Floor(d, b) - 1)
          PROVE  a \in Addresses /\ ~Under(e, a)
        <3>1. Low(d, b) <= a /\ a < Top(b)
            BY <2>2, <2>4
        <3> QED
            BY <3>1, <2>3, Zenon
    <2>5. ASSUME a \in saved[d].base..(saved[d].base + FRAME - 1)
          PROVE  a \in Addresses /\ ~Under(e, a)
        <3> DEFINE b == saved[d].bank
        <3>1. b \in 0..1 /\ saved[d].sp \in Nat /\ saved[d].base \in Nat
            BY <1>1, Parts, Zenon
        <3>2. Low(d, b) = saved[d].base /\ saved[d].sp = Ptr(d, b)
              /\ saved[d].base <= saved[d].sp - FRAME
            BY SavedSp, Zenon DEF Low
        <3> HIDE DEF b
        <3>3. Low(d, b) <= a /\ a < Top(b)
            BY <3>1, <3>2, <2>2, <2>5 DEF FRAME
        <3> QED
            BY <3>1, <3>3, <2>3, Zenon
    <2> QED
        BY <2>4, <2>5, Zenon DEF Item
<1>5. CASE d \notin Chain
    <2>1. d \in Tasks /\ d # cur
        BY <1>1, <1>5, Zenon DEF Live, Chain
    <2>2. saved[d].bank = 1
        BY <2>1, Zenon DEF Suspended
    <2>3. words[SECOND][0] = 0
        BY Zenon DEF Banks
    <2>4. /\ PspTop[d] - MaxWords <= TaskPtr(d, 1) /\ TaskPtr(d, 1) + words[d][1] = PspTop[d]
          /\ TaskPtr(d, 0) + words[d][0] <= MspTop /\ TaskPtr(d, 1) <= PspTop[d]
          /\ words[d][0] = 0 \/ d = MAIN
        BY <2>1, <2>3, TaskBounds, Zenon
    <2>5. /\ TaskPtr(d, 0) \in Int /\ TaskPtr(d, 1) \in Int /\ PspTop[d] \in Nat
          /\ words[d][0] \in Nat /\ words[d][1] \in Nat /\ MspTop \in Nat
          /\ Room \in Nat /\ MaxWords \in Nat /\ Span <= Room /\ Span = MaxWords + 9
        <3>1. Span <= Room /\ Room \in Nat /\ MaxWords \in Nat /\ Span = MaxWords + 9
            BY DepthFacts, Nums DEF Span, FRAME
        <3> QED
            BY <3>1, <2>1, <1>1, Nums, Parts, Bits, Zenon
    <2>6. Ptr(d, 0) = TaskPtr(d, 0) /\ Ptr(d, 1) = TaskPtr(d, 1)
        BY <2>1, <1>1, Zenon DEF Ptr
    <2>7. ASSUME PspTop[d] - Room <= a, a < PspTop[d]
          PROVE  a \in Addresses /\ ~Under(e, a)
        <3>1. a \in Region(PspTop[d])
            BY <2>5, <2>7 DEF Region
        <3> QED
            BY <3>1, <2>1, <1>3, Zenon
    <2>8. CASE a \in Ptr(d, 1)..(Floor(d, 1) - 1)
        BY <2>4, <2>5, <2>6, <2>7, <2>8 DEF Floor
    <2>9. CASE a \in Ptr(d, 0)..(Floor(d, 0) - 1)
        <3>1. TaskPtr(d, 0) <= a /\ a < MspTop /\ d = MAIN
            BY <2>4, <2>5, <2>6, <2>9 DEF Floor
        <3>2. cur = SECOND /\ TaskPtr(cur, 0) = TaskPtr(d, 0)
            BY <3>1, <2>1, <1>1, Zenon DEF Tasks, TaskPtr
        <3>3. Top(0) = MspTop /\ Floor(e, 0) \in Int /\ Low(cur, 0) \in Int
            BY <1>1, Parts, Bits, Zenon DEF Top
        <3>4. Top(0) - MaxWords <= TaskPtr(cur, 0) /\ TaskPtr(cur, 0) \in Int
            BY <1>1, Bounds, Parts, Bits, Zenon
        <3>5. Floor(e, 0) <= TaskPtr(cur, 0)
            <4>1. CASE e = cur
                <5>1. Ptr(cur, 0) = TaskPtr(cur, 0)
                    <6>1. CASE exc = 0
                        BY <6>1, ChainFacts, Bounds, Bits, Zenon
                    <6>2. CASE exc # 0
                        BY <6>2, <1>1, ChainFacts, Zenon DEF Ptr
                    <6> QED
                        BY <6>1, <6>2, Zenon
                <5>2. Floor(e, 0) = TaskPtr(cur, 0) + 0
                    BY <5>1, <4>1, <3>2, <2>3, Zenon DEF Floor
                <5> QED
                    BY <5>2, <3>4
            <4>2. CASE e # cur
                <5>1. e \in Active /\ e < cur /\ cur \in Chain
                    BY <4>2, ChainFacts, Zenon DEF Chain
                <5>2. exc # 0
                    BY <5>1, ChainFacts, Zenon
                <5>3. Low(cur, 0) >= Floor(e, 0)
                    BY <5>1, Bits, Zenon DEF Nested
                <5>4. Low(cur, 0) <= TaskPtr(cur, 0)
                    BY <5>2, Bounds, Bits, Zenon
                <5> QED
                    BY <5>3, <5>4, <3>3, <3>4, IntOrder, Zenon
            <4> QED
                BY <4>1, <4>2, Zenon
        <3>6. a >= Floor(e, 0) /\ MspTop - Room <= a
            BY <3>1, <3>2, <3>3, <3>4, <3>5, <2>5
        <3>7. a \in Region(Top(0))
            BY <3>1, <3>3, <3>6, <2>5 DEF Region
        <3> QED
            BY <3>6, <3>7, <1>2, Bits, Zenon
    <2>10. CASE a \in saved[d].base..(saved[d].base + FRAME - 1)
        <3>1. saved[d].sp = TaskPtr(d, 1) /\ saved[d].sp \in Nat /\ saved[d].base \in Nat
              /\ saved[d].sp - FRAME - 1 <= saved[d].base
              /\ saved[d].base <= saved[d].sp - FRAME
            BY <2>2, <2>6, <1>1, SavedSp, Parts, Zenon
        <3>2. PspTop[d] - Room <= a /\ a < PspTop[d]
            BY <3>1, <2>4, <2>5, <2>10 DEF FRAME
        <3> QED
            BY <3>2, <2>7, Zenon
    <2>11. \A b \in 0..1 : b = 0 \/ b = 1
        BY Bits, Zenon
    <2> QED
        BY <2>8, <2>9, <2>10, <2>11, Zenon DEF Item
<1> QED
    BY <1>4, <1>5, Zenon

-----------------------------------------------------------------------------
(* What a step keeps *)

(* A step that starts and ends no handler and exchanges no task keeps the  *)
(* chain.                                                                  *)
LEMMA SameChain ==
    ASSUME lr' = lr, cur' = cur
    PROVE  /\ Active' = Active /\ Chain' = Chain /\ Live' = Live
           /\ \A v, c : Over(v, c)' <=> Over(v, c)
           /\ \A b : Top(b)' = Top(b)
<1>1. Active' = Active
    BY Zenon DEF Active
<1>2. Chain' = Chain /\ Live' = Live
    BY <1>1, Zenon DEF Chain, Live
<1> QED
    BY <1>1, <1>2, Zenon DEF Over, Top

(* The chain lies as it did when every member keeps its place. *)
LEMMA NestedKept ==
    ASSUME TypeOK, Shape, Nested, lr' = lr, cur' = cur, saved' = saved,
           \A d \in Chain : \A b \in 0..1 : Floor(d, b)' = Floor(d, b),
           \A d \in Chain : \A b \in 0..1 : d # who => Ptr(d, b)' = Ptr(d, b)
    PROVE  Nested'
<1>1. Active' = Active /\ Chain' = Chain /\ (\A v, c : Over(v, c)' <=> Over(v, c))
      /\ \A b : Top(b)' = Top(b)
    BY SameChain, Zenon
<1>2. ASSUME NEW d \in Chain, NEW b \in 0..1, d # who PROVE Low(d, b)' = Low(d, b)
    BY <1>2, Zenon DEF Low
<1>3. ASSUME NEW v \in Active, NEW d \in Chain, v < d PROVE d # who
    <2>1. v \in Chain /\ who <= v /\ v \in Nat /\ who \in Nat /\ d \in Nat
        <3>1. v \in Chain
            BY Zenon DEF Chain
        <3> QED
            BY <3>1, ChainFacts, Nums, Zenon DEF Shape
    <2> QED
        BY <2>1, <1>3, IntOrder, IntSums, Zenon
<1> SUFFICES ASSUME NEW v \in Active, NEW b \in 0..1
             PROVE  /\ Floor(v, b)' >= Top(b)' - Depth(v)
                    /\ \A d \in Chain : v < d => Low(d, b)' >= Floor(v, b)'
                    /\ \A c \in Chain : Over(v, c)
                         => lr[v] = saved[c].bank /\ Floor(v, b)' = Low(c, b)'
    BY <1>1, Zenon DEF Nested, Depth
<1>4. /\ Floor(v, b) >= Top(b) - Depth(v)
      /\ \A d \in Chain : v < d => Low(d, b) >= Floor(v, b)
      /\ \A c \in Chain : Over(v, c) => lr[v] = saved[c].bank /\ Floor(v, b) = Low(c, b)
    BY Zenon DEF Nested
<1>5. Floor(v, b)' = Floor(v, b) /\ Top(b)' = Top(b)
    BY <1>1, Zenon DEF Chain
<1>6. \A c : Over(v, c) => v < c
    BY Zenon DEF Over
<1> QED
    BY <1>2, <1>3, <1>4, <1>5, <1>6, Zenon

(* A step that writes only where e may, where the running context may *)
WritesUnder(e) == \A a \in Addresses : ~Under(e, a) => mem'[a] = mem[a]
MemStep == \A a \in Addresses : ~Mine(a) => mem'[a] = mem[a]

(* A step that writes under e only keeps the frames further out. *)
LEMMA FrameKeptFrom ==
    ASSUME SInv, NEW e \in Chain, WritesUnder(e),
           NEW d \in Waiting, d \in Chain => e < d, saved'[d] = saved[d],
           d \in Handlers => /\ lr'[d] = lr[d] /\ words'[d] = words[d]
                             /\ (phase' = phase \/ d # KERNEL)
    PROVE  FrameOf(d, saved[d].base)'
<1> DEFINE base == saved[d].base
<1>1. base \in Nat /\ d \in Contexts
    BY SavedSp, Parts, Zenon DEF SInv
<1>2. ASSUME NEW n \in 0..7 PROVE mem'[base + n] = mem[base + n]
    <2>1. base + n \in Int /\ base + n \in base..(base + FRAME - 1)
        BY <1>1 DEF FRAME
    <2>2. Item(d, base + n)
        BY <2>1, Zenon DEF Item
    <2>3. base + n \in Addresses /\ ~Under(e, base + n)
        BY <2>1, <2>2, ApartFrom, Zenon
    <2> QED
        BY <2>3, Zenon DEF WritesUnder
<1>3. /\ mem'[base + 0] = mem[base + 0] /\ mem'[base + PC] = mem[base + PC]
      /\ mem'[base + XPSR] = mem[base + XPSR] /\ base + 0 = base
    BY <1>1, <1>2 DEF PC, XPSR
<1>4. FrameOf(d, base)
    BY Zenon DEF SInv, Frames
<1>5. \A to : Returning(d, to) => Returning(d, to)'
    BY Zenon DEF Returning
<1> QED
    BY <1>3, <1>4, <1>5, Zenon DEF FrameOf

(* A step that writes under e only keeps the words further out. *)
LEMMA WordsKeptFrom ==
    ASSUME SInv, NEW e \in Chain, WritesUnder(e),
           NEW d \in Waiting, d \in Chain => e < d, NEW b \in 0..1,
           words[d][b] # 0 => Ptr(d, b)' = Ptr(d, b), words'[d][b] = words[d][b],
           Ptr(d, b)' \in Int
    PROVE  \A a \in Ptr(d, b)'..(Floor(d, b)' - 1) : mem'[a] = Plain(d, FRAME)
<1> SUFFICES ASSUME NEW a \in Ptr(d, b)'..(Floor(d, b)' - 1)
             PROVE  mem'[a] = Plain(d, FRAME)
    BY Zenon
<1>1. d \in Contexts /\ words[d][b] \in Nat /\ Ptr(d, b) \in Int /\ d \in Live
    BY SavedSp, Parts, Zenon DEF SInv, Waiting
<1>2. Floor(d, b)' = Ptr(d, b)' + words[d][b]
    BY Zenon DEF Floor
<1>3. words[d][b] # 0 /\ a \in Int
    BY <1>1, <1>2
<1>4. a \in Ptr(d, b)..(Floor(d, b) - 1)
    BY <1>2, <1>3, Zenon DEF Floor
<1>5. mem[a] = Plain(d, FRAME)
    BY <1>1, <1>4, Zenon DEF SInv, Stored
<1>6. a \in Addresses /\ ~Under(e, a)
    BY <1>3, <1>4, ApartFrom, Zenon DEF Item
<1> QED
    BY <1>5, <1>6, Zenon DEF WritesUnder

(* The two lemmas for a step that writes under the running context *)
LEMMA FrameKept ==
    ASSUME SInv, MemStep, NEW d \in Waiting, saved'[d] = saved[d],
           d \in Handlers => /\ lr'[d] = lr[d] /\ words'[d] = words[d]
                             /\ (phase' = phase \/ d # KERNEL)
    PROVE  FrameOf(d, saved[d].base)'
<1>1. who \in Chain /\ d # who /\ (d \in Chain => who < d)
    BY ChainFacts, Zenon DEF SInv, Waiting
<1>2. WritesUnder(who)
    BY Zenon DEF MemStep, WritesUnder, Mine
<1> QED
    BY <1>1, <1>2, FrameKeptFrom, Zenon

LEMMA WordsKept ==
    ASSUME SInv, MemStep, NEW d \in Waiting, NEW b \in 0..1,
           words[d][b] # 0 => Ptr(d, b)' = Ptr(d, b), words'[d][b] = words[d][b],
           Ptr(d, b)' \in Int
    PROVE  \A a \in Ptr(d, b)'..(Floor(d, b)' - 1) : mem'[a] = Plain(d, FRAME)
<1>1. who \in Chain /\ d # who /\ (d \in Chain => who < d)
    BY ChainFacts, Zenon DEF SInv, Waiting
<1>2. WritesUnder(who)
    BY Zenon DEF MemStep, WritesUnder, Mine
<1> QED
    BY <1>1, <1>2, WordsKeptFrom, Zenon

-----------------------------------------------------------------------------
(* Push and Pop: the running context has n words on its stack, and wrote   *)
(* one address below the place where it began.                             *)
LEMMA Restack ==
    ASSUME SInv, NEW n \in 0..MaxWords, NEW s \in Nat, NEW w \in Int, NEW x \in Word,
           Running, s + n = sp + words[who][current_sp],
           w \in Region(Top(current_sp)), w < Floor(who, current_sp),
           sp' = s, mem' = [mem EXCEPT ![w] = x],
           words' = [words EXCEPT ![who][current_sp] = n],
           \A a \in s..(s + n - 1) : mem'[a] = Plain(who, FRAME),
           UNCHANGED <<other_sp, current_sp, control, exc, who, pc, lr, cur, table,
                       phase, saved, mixed>>
    PROVE  SInv'
<1> USE DEF SInv
<1>1. /\ other_sp' = other_sp /\ current_sp' = current_sp /\ control' = control
      /\ exc' = exc /\ who' = who /\ pc' = pc /\ lr' = lr /\ cur' = cur
      /\ table' = table /\ phase' = phase /\ saved' = saved /\ mixed' = mixed
    BY Zenon
<1>2. /\ who \in Contexts /\ current_sp \in 0..1 /\ cur \in Tasks /\ cur \in Contexts
      /\ sp \in Nat /\ other_sp \in Nat /\ n \in Nat /\ pc = CODE
      /\ words[who][current_sp] \in Nat
    BY Parts, Nums DEF Contexts, Running
<1>3. w \in Addresses /\ Mine(w)
    BY <1>2, Tops, Zenon DEF Mine, Under
<1>4. TypeOK'
    <2>1. mem' \in [Addresses -> Word]
        BY <1>3, Zenon DEF TypeOK
    <2>2. words' \in [Contexts -> [0..1 -> 0..MaxWords]]
        BY <1>2, Zenon DEF TypeOK
    <2> QED
        BY <2>1, <2>2, <1>1, Zenon DEF TypeOK
<1>5. ASSUME NEW d \in Contexts, NEW b \in 0..1
      PROVE  words'[d][b] = IF d = who /\ b = current_sp THEN n ELSE words[d][b]
    <2>1. words \in [Contexts -> [0..1 -> 0..MaxWords]]
        BY Zenon DEF TypeOK
    <2> QED
        BY <2>1, <1>2, <1>5, Zenon
<1>6. MemStep
    <2>1. \A a \in Addresses : a # w => mem'[a] = mem[a]
        BY Zenon DEF TypeOK
    <2> QED
        BY <2>1, <1>3, Zenon DEF MemStep
<1>7. /\ Active' = Active /\ Chain' = Chain /\ Live' = Live
      /\ (\A v, c : Over(v, c)' <=> Over(v, c)) /\ (\A b : Top(b)' = Top(b))
    BY <1>1, SameChain, Zenon
<1>8. Waiting' = Waiting
    BY <1>1, <1>7, Zenon DEF Waiting
<1>9. \A t \in Tasks : \A b \in 0..1 :
        (b = 0 /\ who # MAIN) \/ (b = 1 /\ who # t) \/ b # current_sp
          => TaskPtr(t, b)' = TaskPtr(t, b)
    <2>1. MAIN \in Contexts /\ (\A t \in Tasks : t \in Contexts) /\ 0 \in 0..1 /\ 1 \in 0..1
          /\ \A b \in 0..1 : b = 0 \/ b = 1
        BY Nums, Bits, Zenon DEF Contexts
    <2> QED
        BY <2>1, <1>5 DEF TaskPtr
<1>10. \A b \in 0..1 : Ptr(who, b)' = IF b = current_sp THEN s ELSE Ptr(who, b)
    BY <1>1, <1>2, Zenon DEF Ptr
<1>11. ASSUME NEW d \in Waiting, NEW b \in 0..1
       PROVE  /\ words'[d][b] = words[d][b]
              /\ (d \in Chain \/ words[d][b] # 0) => Ptr(d, b)' = Ptr(d, b)
    <2>1. d \in Contexts /\ d # who /\ d \in Live
        BY SavedSp, Zenon DEF Waiting
    <2>2. words'[d][b] = words[d][b]
        BY <2>1, <1>5
    <2>3. CASE d \notin Tasks
        BY <2>1, <2>2, <2>3, <1>1, Zenon DEF Ptr
    <2>4. CASE d \in Tasks
        <3>1. Ptr(d, b)' = TaskPtr(d, b)' /\ Ptr(d, b) = TaskPtr(d, b)
            BY <2>1, <2>4, <1>1, Zenon DEF Ptr
        <3>2. CASE d \in Chain
            <4>1. who \in Handlers
                BY <2>1, <3>2, ChainFacts, Zenon
            <4>2. who # MAIN /\ who # d /\ (b = 0 \/ b = 1)
                BY <4>1, <2>1, Nums, Bits, Zenon
            <4> QED
                BY <4>2, <3>1, <2>2, <2>4, <1>9, Zenon
        <3>3. CASE words[d][b] # 0
            <4>1. (b = 0 /\ d = MAIN) \/ b = 1
                BY <2>4, <3>3, Bits, Zenon DEF Banks, Tasks
            <4> QED
                BY <4>1, <3>1, <2>1, <2>2, <2>4, <1>9, Zenon
        <3> QED
            BY <2>2, <3>2, <3>3, Zenon
    <2> QED
        BY <2>3, <2>4, Zenon
<1>12. \A d \in Chain : \A b \in 0..1 : d # who => Ptr(d, b)' = Ptr(d, b)
    BY <1>11, ChainFacts, Zenon
<1>13. \A d \in Chain : \A b \in 0..1 : Floor(d, b)' = Floor(d, b)
    <2> SUFFICES ASSUME NEW d \in Chain, NEW b \in 0..1 PROVE Floor(d, b)' = Floor(d, b)
        BY Zenon
    <2>1. CASE d # who
        BY <2>1, <1>11, <1>12, ChainFacts, Zenon DEF Floor
    <2>2. CASE d = who /\ b # current_sp
        BY <2>2, <1>2, <1>5, <1>10 DEF Floor
    <2>3. CASE d = who /\ b = current_sp
        <3>1. Floor(d, b)' = s + n
            BY <2>3, <1>2, <1>5, <1>10 DEF Floor
        <3>2. Floor(d, b) = sp + words[who][current_sp]
            BY <2>3, Zenon DEF Floor, Ptr
        <3> QED
            BY <3>1, <3>2, Zenon
    <2> QED
        BY <2>1, <2>2, <2>3, Zenon
<1>14. Nested'
    BY <1>1, <1>12, <1>13, NestedKept, Zenon
<1>15. Shape'
    <2>1. RightContext' /\ who' \in Chain' /\ \A d \in Chain' : who' <= d
        BY <1>1, <1>7, Zenon DEF Shape, RightContext
    <2>2. \A v \in Active' : \E c \in Chain' : Over(v, c)'
        BY <1>7, Zenon DEF Shape
    <2>3. phase' = 1 => KERNEL \in Active' /\ lr'[KERNEL] = 1
        BY <1>1, <1>7, Zenon DEF Shape
    <2>4. pc' = CODE
        BY <1>1, <1>2, Zenon
    <2>5. \A v \in Handlers \ Active' : words'[v][0] = 0 /\ words'[v][1] = 0
        <3> SUFFICES ASSUME NEW v \in Handlers, v \notin Active
                     PROVE  words'[v][0] = 0 /\ words'[v][1] = 0
            BY <1>7, Zenon
        <3>1. v # who /\ v \in Contexts
            BY ChainFacts, Nums, Zenon DEF Chain, Contexts
        <3> QED
            BY <3>1, <1>5 DEF Shape
    <2> QED
        BY <2>1, <2>2, <2>3, <2>4, <2>5, Zenon DEF Shape
<1>16. Banks'
    <2>1. \A d : BankOf(d)' = BankOf(d)
        BY <1>1, Zenon DEF BankOf
    <2>2. ASSUME NEW v \in Active PROVE words'[v][1 - BankOf(v)] = 0
        <3>1. v \in Contexts /\ BankOf(v) \in 0..1
            <4>1. v \in Contexts
                BY ChainFacts, Zenon DEF Contexts
            <4> QED
                BY <4>1, Parts, Zenon DEF BankOf
        <3>2. 1 - BankOf(v) \in 0..1 /\ 1 - BankOf(v) # BankOf(v)
            BY <3>1, Bits, Zenon
        <3>3. words[v][1 - BankOf(v)] = 0
            BY Zenon DEF Banks
        <3>4. v = who => BankOf(v) = current_sp
            BY Zenon DEF BankOf
        <3> QED
            BY <3>1, <3>2, <3>3, <3>4, <1>5
    <2>3. words'[SECOND][0] = 0
        <3>1. SECOND \in Contexts /\ words[SECOND][0] = 0 /\ BankOf(SECOND) = 1
            BY Nums, Zenon DEF Banks, Contexts
        <3>2. SECOND = who => current_sp = 1
            BY <3>1, Zenon DEF BankOf
        <3> QED
            BY <3>1, <3>2, <1>5
    <2> QED
        BY <2>1, <2>2, <2>3, <1>1, <1>7, Zenon DEF Banks
<1>17. Suspended'
    BY <1>1, Zenon DEF Suspended
<1>18. TaskSp'
    <2>1. ASSUME exc = 0, NEW b \in 0..1 PROVE Ptr(cur, b)' = TaskPtr(cur, b)'
        <3>1. who = cur /\ Ptr(cur, b) = TaskPtr(cur, b)
            BY <2>1, ChainFacts, Zenon DEF TaskSp
        <3>2. CASE b # current_sp
            BY <3>1, <3>2, <1>2, <1>9, <1>10, Zenon
        <3>3. CASE b = current_sp
            <4>1. Ptr(cur, b)' = s /\ Ptr(cur, b) = sp /\ words'[cur][b] = n
                BY <3>1, <3>3, <1>2, <1>5, <1>10, Zenon DEF Ptr
            <4>2. b = 0 => cur = MAIN
                BY <3>1, <3>3, <1>2, Bits, Zenon DEF Banks, BankOf, Tasks
            <4>3. TaskPtr(cur, b) = Top(b) - words[cur][b]
                  /\ TaskPtr(cur, b)' = Top(b) - words'[cur][b]
                BY <4>2, <1>1, Bits, Zenon DEF TaskPtr, Top
            <4>4. Top(b) \in Nat /\ words[cur][b] = words[who][current_sp]
                BY <3>1, <3>3, Parts, Zenon
            <4> QED
                BY <4>1, <4>3, <4>4, <3>1, <1>2
        <3> QED
            BY <3>2, <3>3, Zenon
    <2>2. ASSUME NEW t \in Tasks, t # who
          PROVE  saved[t].sp = TaskPtr(t, saved[t].bank)'
        <3>1. saved[t].sp = TaskPtr(t, saved[t].bank) /\ t \in Contexts
            BY <2>2, Zenon DEF TaskSp, Contexts
        <3>2. saved[t].bank \in 0..1
            BY <3>1, Parts, Zenon
        <3>3. CASE t = cur
            <4>1. who \in Handlers
                BY <2>2, <3>3, ChainFacts, Zenon
            <4>2. who # MAIN
                BY <4>1, Nums, Zenon
            <4>3. (saved[t].bank = 0 /\ who # MAIN) \/ (saved[t].bank = 1 /\ who # t)
                BY <4>2, <3>2, <2>2, Bits, Zenon
            <4>4. \A b \in 0..1 : (b = 0 /\ who # MAIN) \/ (b = 1 /\ who # t)
                    => TaskPtr(t, b)' = TaskPtr(t, b)
                BY <1>9, Zenon
            <4> QED
                BY <4>3, <4>4, <3>1, <3>2, <1>1, Zenon
        <3>4. CASE t # cur
            <4>1. saved[t].bank = 1
                BY <3>4, Zenon DEF Suspended
            <4>2. TaskPtr(t, 1)' = TaskPtr(t, 1)
                BY <2>2, <1>9, Bits, Zenon
            <4> QED
                BY <4>1, <4>2, <3>1, <1>1, Zenon
        <3> QED
            BY <3>3, <3>4, Zenon
    <2> QED
        BY <2>1, <2>2, <1>1, Zenon DEF TaskSp
<1>19. Frames'
    <2> SUFFICES ASSUME NEW d \in Waiting PROVE FrameOf(d, saved[d].base)'
        BY <1>8, Zenon DEF Frames
    <2>1. d \in Contexts /\ d # who
        BY SavedSp, Zenon
    <2>2. words'[d] = words[d]
        BY <2>1, Zenon DEF TypeOK
    <2> QED
        BY <2>2, <1>1, <1>6, FrameKept, Zenon
<1>20. Stored'
    <2> SUFFICES ASSUME NEW d \in Live, NEW b \in 0..1
                 PROVE  \A a \in Ptr(d, b)'..(Floor(d, b)' - 1) : mem'[a] = Plain(d, FRAME)
        BY <1>7, Zenon DEF Stored
    <2>1. CASE d # who
        <3>1. d \in Waiting /\ d \in Contexts
            BY <2>1, ChainFacts, Zenon DEF Waiting
        <3>2. Ptr(d, b)' \in Int
            <4>1. other_sp' \in Nat /\ sp' \in Nat /\ who' # d
                BY <2>1, <1>1, <1>2, Zenon
            <4>2. d \in Tasks => TaskPtr(d, b)' \in Int
                <5>1. MAIN \in Contexts /\ 0 \in 0..1 /\ 1 \in 0..1
                    BY Nums, Bits, Zenon DEF Contexts
                <5>2. words'[MAIN][0] \in Nat /\ words'[d][1] \in Nat
                    BY <5>1, <3>1, <1>2, <1>5, Parts
                <5> QED
                    BY <5>2, Nums DEF TaskPtr
            <4> QED
                BY <4>1, <4>2, <3>1, <1>1, Parts, Zenon DEF Ptr
        <3> QED
            BY <3>1, <3>2, <1>6, <1>11, WordsKept, Zenon
    <2>2. CASE d = who /\ b = current_sp
        <3>1. Ptr(d, b)' = s /\ Floor(d, b)' = s + n
            <4>1. Ptr(d, b)' = s /\ words'[d][b] = n
                BY <2>2, <1>2, <1>5, <1>10, Zenon
            <4> QED
                BY <4>1, Zenon DEF Floor
        <3> QED
            BY <3>1, <2>2
    <2>3. CASE d = who /\ b # current_sp
        <3>1. Ptr(d, b)' = Ptr(d, b) /\ Floor(d, b)' = Floor(d, b)
            BY <2>3, <1>10, <1>13, ChainFacts, Zenon
        <3> SUFFICES ASSUME NEW a \in Ptr(d, b)..(Floor(d, b) - 1)
                     PROVE  mem'[a] = Plain(d, FRAME)
            BY <3>1, Zenon
        <3>2. /\ a \in Int /\ Ptr(d, b) <= a /\ a < Floor(d, b)
              /\ Ptr(d, b) \in Int /\ Floor(d, b) \in Int /\ Top(b) \in Nat
            <4>1. Ptr(d, b) \in Int /\ Floor(d, b) \in Int /\ Top(b) \in Nat
                BY <2>3, <1>2, Parts, Zenon
            <4> QED
                BY <4>1, Interval, Zenon
        <3>3. Top(b) - Room <= Ptr(d, b) /\ Floor(d, b) <= Top(b)
            BY <2>3, Bounds, Zenon
        <3>4. Top(b) - Room <= a /\ a < Top(b)
            BY <3>2, <3>3, DepthFacts
        <3>5. a \in Region(Top(b))
            BY <3>2, <3>4, <1>2, Tops, Zenon
        <3>6. a # w /\ a \in Addresses
            BY <3>5, <2>3, <1>2, Tops
        <3>7. mem[a] = Plain(d, FRAME)
            BY Zenon DEF Stored
        <3> QED
            BY <3>6, <3>7, Zenon DEF TypeOK
    <2> QED
        BY <2>1, <2>2, <2>3, Zenon
<1> QED
    BY <1>4, <1>14, <1>15, <1>16, <1>17, <1>18, <1>19, <1>20, Zenon

(* The running context has room for all the words it may push. *)
LEMMA FloorRoom ==
    ASSUME SInv, NEW b \in 0..1
    PROVE  Top(b) - Room <= Floor(who, b) - MaxWords
<1> USE DEF SInv
<1>1. /\ Top(b) \in Nat /\ Floor(who, b) \in Int /\ Ptr(who, b) \in Int
      /\ Ptr(who, b) <= Floor(who, b) /\ MaxWords \in Nat /\ Room \in Nat
      /\ TaskPtr(cur, b) \in Int
    BY Parts, Nums, DepthFacts, Zenon
<1>2. MaxWords + MaxWords <= Room
    <2>1. KERNEL \in Handlers /\ Span = MaxWords + 9
        BY Nums DEF Span, FRAME
    <2> QED
        BY <2>1, <1>1, DepthFacts
<1>3. CASE exc = 0
    BY <1>1, <1>2, <1>3, Bounds
<1>4. CASE exc # 0
    <2>1. who \in Handlers
        BY <1>4, ChainFacts, Zenon
    <2>2. Depth(who) \in Nat /\ Depth(who) + MaxWords <= Room
        BY <2>1, DepthFacts, Zenon
    <2>3. Top(b) - Depth(who) <= Floor(who, b)
        BY <1>4, Bounds, Zenon
    <2> QED
        BY <2>2, <2>3, <1>1
<1> QED
    BY <1>3, <1>4, Zenon

(* The words of the running context, on the stack it uses *)
LEMMA OwnWords ==
    ASSUME SInv
    PROVE  /\ Ptr(who, current_sp) = sp /\ sp \in Nat /\ current_sp \in 0..1
           /\ words[who][current_sp] \in Nat /\ words[who][current_sp] <= MaxWords
           /\ Floor(who, current_sp) = sp + words[who][current_sp]
           /\ Top(current_sp) - Room <= Floor(who, current_sp) - MaxWords
           /\ Floor(who, current_sp) <= Top(current_sp)
           /\ Top(current_sp) - Room >= 0 /\ Top(current_sp) \in Nat
           /\ Region(Top(current_sp)) \subseteq Addresses
           /\ \A a \in Int : Top(current_sp) - Room <= a /\ a < Floor(who, current_sp)
                              => a \in Region(Top(current_sp)) /\ a \in Addresses
           /\ \A a \in sp..(sp + words[who][current_sp] - 1) : mem[a] = Plain(who, FRAME)
<1> USE DEF SInv
<1>1. who \in Contexts /\ current_sp \in 0..1 /\ sp \in Nat /\ cur \in Tasks /\ who \in Live
    BY Parts, ChainFacts, Zenon
<1>2. Ptr(who, current_sp) = sp /\ Floor(who, current_sp) = sp + words[who][current_sp]
    BY Zenon DEF Ptr, Floor
<1>3. words[who][current_sp] \in Nat /\ words[who][current_sp] <= MaxWords
    BY <1>1, Parts, Zenon
<1>4. /\ Top(current_sp) - Room <= Floor(who, current_sp) - MaxWords
      /\ Floor(who, current_sp) <= Top(current_sp)
    BY <1>1, FloorRoom, Bounds, Zenon
<1>5. /\ Top(current_sp) - Room >= 0 /\ Top(current_sp) \in Nat
      /\ Region(Top(current_sp)) \subseteq Addresses
    BY <1>1, Tops, Zenon
<1>6. ASSUME NEW a \in Int, Top(current_sp) - Room <= a, a < Floor(who, current_sp)
      PROVE  a \in Region(Top(current_sp)) /\ a \in Addresses
    <2>1. a < Top(current_sp)
        BY <1>2, <1>3, <1>1, <1>4, <1>5, <1>6
    <2> QED
        BY <2>1, <1>1, <1>5, <1>6, Tops, Zenon
<1>7. \A a \in sp..(sp + words[who][current_sp] - 1) : mem[a] = Plain(who, FRAME)
    <2>1. \A a \in Ptr(who, current_sp)..(Floor(who, current_sp) - 1) :
            mem[a] = Plain(who, FRAME)
        BY <1>1, Zenon DEF Stored
    <2>2. Floor(who, current_sp) - 1 = sp + words[who][current_sp] - 1
        BY <1>1, <1>2, <1>3
    <2> QED
        BY <2>1, <2>2, <1>2, Zenon
<1>8. \A a \in Int : Top(current_sp) - Room <= a /\ a < Floor(who, current_sp)
                       => a \in Region(Top(current_sp)) /\ a \in Addresses
    BY <1>6, Zenon
<1> HIDE DEF SInv
<1> QED
    BY <1>1, <1>2, <1>3, <1>4, <1>5, <1>7, <1>8, Zenon

(* A pushed register is a word of memory. *)
LEMMA PlainWord == \A c \in Contexts : \A n \in 0..FRAME : Plain(c, n) \in Word
BY Nums DEF Plain, Word, CODE

(* A push writes the word under the running context's pointer. *)
LEMMA PushStep ==
    ASSUME SInv, Push
    PROVE  SInv'
<1> DEFINE n == words[who][current_sp] + 1
           s == sp - 1
           x == Plain(who, FRAME)
<1>1. words[who][current_sp] < MaxWords /\ MaxWords \in Nat /\ Room \in Nat
    BY Nums, DepthFacts, Zenon DEF Push
<1>2. /\ n \in 0..MaxWords /\ s \in Int /\ n \in Nat /\ s >= Top(current_sp) - Room
      /\ s < Floor(who, current_sp) /\ s + n = sp + words[who][current_sp]
      /\ Floor(who, current_sp) = s + n
    BY <1>1, OwnWords
<1>3. s \in Nat
    <2>1. Top(current_sp) - Room >= 0 /\ Top(current_sp) \in Nat
        BY OwnWords, Zenon
    <2> QED
        BY <2>1, <1>1, <1>2
<1>4. s \in Region(Top(current_sp)) /\ s \in Addresses
    BY <1>2, OwnWords, Zenon
<1>5. x \in Word
    BY PlainWord, Parts DEF SInv, FRAME
<1>6. /\ sp' = s /\ mem' = [mem EXCEPT ![s] = x] /\ Running
      /\ words' = [words EXCEPT ![who][current_sp] = n]
      /\ UNCHANGED <<other_sp, current_sp, control, exc, who, pc, lr, cur, table,
                     phase, saved, mixed>>
    BY Zenon DEF Push
<1>7. mem \in [Addresses -> Word]
    BY Zenon DEF SInv, TypeOK
<1>8. ASSUME NEW a \in s..(s + n - 1) PROVE mem'[a] = Plain(who, FRAME)
    <2>1. a \in Int /\ s <= a /\ a < s + n
        BY <1>2, <1>3
    <2>2. a \in Addresses
        <3>1. Top(current_sp) - Room <= a
            <4>1. Top(current_sp) \in Nat
                BY OwnWords, Zenon
            <4> QED
                BY <4>1, <2>1, <1>1, <1>2
        <3>2. a < Floor(who, current_sp)
            BY <2>1, <1>2, Zenon
        <3> QED
            BY <3>1, <3>2, <2>1, OwnWords, Zenon
    <2>3. CASE a = s
        BY <2>3, <1>4, <1>6, <1>7, Zenon
    <2>4. CASE a # s
        <3>1. a \in sp..(sp + words[who][current_sp] - 1)
            <4>1. sp \in Nat /\ words[who][current_sp] \in Nat
                BY OwnWords, Zenon
            <4> QED
                BY <4>1, <2>1, <2>4
        <3> QED
            BY <3>1, <2>2, <2>4, <1>6, <1>7, OwnWords, Zenon
    <2> QED
        BY <2>3, <2>4, Zenon
<1> HIDE DEF n, s, x
<1> QED
    BY <1>2, <1>3, <1>4, <1>5, <1>6, <1>8, Restack, Zenon

(* A pop gives up a word of the running context. *)
LEMMA PopStep ==
    ASSUME SInv, Pop
    PROVE  SInv'
<1> DEFINE n == words[who][current_sp] - 1
           s == sp + 1
<1>1. words[who][current_sp] > 0 /\ MaxWords \in Nat /\ Room \in Nat
    BY Nums, DepthFacts, Zenon DEF Pop
<1>2. /\ n \in 0..MaxWords /\ s \in Nat /\ n \in Nat /\ sp >= Top(current_sp) - Room
      /\ sp < Floor(who, current_sp) /\ s + n = sp + words[who][current_sp]
      /\ Floor(who, current_sp) = s + n /\ sp \in Int
    BY <1>1, OwnWords
<1>3. sp \in Region(Top(current_sp)) /\ sp \in Addresses
    BY <1>2, OwnWords, Zenon
<1>4. Dead \in Word
    BY PlainWord, Nums DEF Dead, FRAME, Contexts
<1>5. /\ sp' = s /\ mem' = [mem EXCEPT ![sp] = Dead] /\ Running
      /\ words' = [words EXCEPT ![who][current_sp] = n]
      /\ UNCHANGED <<other_sp, current_sp, control, exc, who, pc, lr, cur, table,
                     phase, saved, mixed>>
    BY Zenon DEF Pop
<1>6. mem \in [Addresses -> Word]
    BY Zenon DEF SInv, TypeOK
<1>7. ASSUME NEW a \in s..(s + n - 1) PROVE mem'[a] = Plain(who, FRAME)
    <2>1. a \in Int /\ s <= a /\ a < s + n /\ a # sp
          /\ a \in sp..(sp + words[who][current_sp] - 1)
        <3>1. sp \in Nat /\ words[who][current_sp] \in Nat
            BY OwnWords, Zenon
        <3> QED
            BY <3>1, <1>1
    <2>2. a \in Addresses
        <3>1. Top(current_sp) - Room <= a
            <4>1. Top(current_sp) \in Nat /\ sp \in Nat
                BY OwnWords, Zenon
            <4> QED
                BY <4>1, <2>1, <1>1, <1>2
        <3>2. a < Floor(who, current_sp)
            BY <2>1, <1>2, Zenon
        <3> QED
            BY <3>1, <3>2, <2>1, OwnWords, Zenon
    <2> QED
        BY <2>1, <2>2, <1>5, <1>6, OwnWords, Zenon
<1> HIDE DEF n, s
<1> QED
    BY <1>2, <1>3, <1>4, <1>5, <1>7, Restack, Zenon

-----------------------------------------------------------------------------
(* A step that moves no pointer and writes no memory *)
LEMMA Still ==
    ASSUME SInv, UNCHANGED <<exc, who, lr, mem, cur, words, saved>>,
           \A b \in 0..1 : Ptr(who, b)' = Ptr(who, b),
           phase' = phase \/ who = KERNEL
    PROVE  /\ Nested' /\ Frames' /\ Stored' /\ TaskSp'
           /\ Active' = Active /\ Chain' = Chain
           /\ \A v, c : Over(v, c)' <=> Over(v, c)
<1> USE DEF SInv
<1>1. /\ exc' = exc /\ who' = who /\ lr' = lr /\ mem' = mem /\ cur' = cur
      /\ words' = words /\ saved' = saved
    BY Zenon
<1>2. /\ Active' = Active /\ Chain' = Chain /\ Live' = Live
      /\ \A v, c : Over(v, c)' <=> Over(v, c)
    BY <1>1, SameChain, Zenon
<1>3. \A t, b : TaskPtr(t, b)' = TaskPtr(t, b)
    BY <1>1, Zenon DEF TaskPtr
<1>4. \A d : \A b \in 0..1 : Ptr(d, b)' = Ptr(d, b)
    <2> SUFFICES ASSUME NEW d, NEW b \in 0..1, d # who PROVE Ptr(d, b)' = Ptr(d, b)
        BY Zenon
    <2> QED
        BY <1>1, <1>3, Zenon DEF Ptr
<1>5. \A d : \A b \in 0..1 : Floor(d, b)' = Floor(d, b)
    BY <1>1, <1>4, Zenon DEF Floor
<1>6. Nested'
    BY <1>1, <1>4, <1>5, NestedKept, Zenon
<1>7. Frames'
    <2> SUFFICES ASSUME NEW d \in Waiting PROVE FrameOf(d, saved[d].base)'
        BY <1>1, <1>2, Zenon DEF Frames, Waiting
    <2>1. MemStep
        BY <1>1, Zenon DEF MemStep
    <2>2. d # who
        BY Zenon DEF Waiting
    <2> QED
        BY <2>1, <2>2, <1>1, FrameKept, Zenon
<1>8. Stored'
    <2> SUFFICES ASSUME NEW d \in Live, NEW b \in 0..1,
                        NEW a \in Ptr(d, b)..(Floor(d, b) - 1)
                 PROVE  mem[a] = Plain(d, FRAME)
        BY <1>1, <1>2, <1>4, <1>5 DEF Stored
    <2> QED
        BY Zenon DEF Stored
<1>9. TaskSp'
    <2>1. exc' = 0 => \A b \in 0..1 : Ptr(cur, b)' = TaskPtr(cur, b)'
        BY <1>1, <1>3, <1>4, Zenon DEF TaskSp
    <2>2. \A t \in Tasks : t # who' => saved'[t].sp = TaskPtr(t, saved[t].bank)'
        BY <1>1, <1>3, Zenon DEF TaskSp
    <2> QED
        BY <2>1, <2>2, <1>1, Zenon DEF TaskSp
<1> QED
    BY <1>2, <1>6, <1>7, <1>8, <1>9, Zenon

(* A running handler that has popped its stack has popped both. *)
LEMMA EmptyStacks ==
    ASSUME SInv, exc # 0, words[who][current_sp] = 0
    PROVE  words[who][0] = 0 /\ words[who][1] = 0 /\ who \in Handlers /\ who = exc
<1>1. who \in Active /\ who \in Handlers /\ who = exc
    BY ChainFacts, Zenon DEF SInv
<1>2. current_sp = 0 \/ current_sp = 1
    BY Parts, Bits, Zenon DEF SInv
<1>3. words[who][1 - current_sp] = 0
    BY <1>1, Zenon DEF SInv, Banks, BankOf
<1> QED
    BY <1>1, <1>2, <1>3

(* BX to an EXC_RETURN changes the program counter only. *)
LEMMA BranchStep ==
    ASSUME SInv, Branch
    PROVE  SInv'
<1> USE DEF SInv
<1>1. /\ exc # 0 /\ words[who][current_sp] = 0 /\ (exc = KERNEL => phase = 0)
      /\ pc' = lr[exc] /\ sp' = sp /\ other_sp' = other_sp /\ current_sp' = current_sp
      /\ control' = control /\ exc' = exc /\ who' = who /\ lr' = lr /\ mem' = mem
      /\ cur' = cur /\ table' = table /\ phase' = phase /\ words' = words
      /\ saved' = saved /\ mixed' = mixed
    BY Zenon DEF Branch
<1>2. \A b \in 0..1 : Ptr(who, b)' = Ptr(who, b)
    BY <1>1, Zenon DEF Ptr
<1>3. /\ Nested' /\ Frames' /\ Stored' /\ TaskSp' /\ Active' = Active /\ Chain' = Chain
      /\ \A v, c : Over(v, c)' <=> Over(v, c)
    BY <1>1, <1>2, Still, Zenon
<1>4. TypeOK'
    <2>1. exc \in Handlers
        BY <1>1, EmptyStacks, Zenon
    <2>2. lr[exc] \in 0..2
        BY <2>1, Zenon DEF TypeOK
    <2> QED
        BY <2>2, <1>1, Zenon DEF TypeOK
<1>5. Shape'
    <2>1. RightContext' /\ who' \in Chain' /\ \A d \in Chain' : who' <= d
        BY <1>1, <1>3, Zenon DEF Shape, RightContext
    <2>2. \A v \in Active' : \E c \in Chain' : Over(v, c)'
        BY <1>3, Zenon DEF Shape
    <2>3. phase' = 1 => KERNEL \in Active' /\ lr'[KERNEL] = 1
        BY <1>1, <1>3, Zenon DEF Shape
    <2>4. Returning(who, pc)'
        BY <1>1, EmptyStacks, Zenon DEF Returning
    <2>5. \A v \in Handlers \ Active' : words'[v][0] = 0 /\ words'[v][1] = 0
        BY <1>1, <1>3, Zenon DEF Shape
    <2> QED
        BY <2>1, <2>2, <2>3, <2>4, <2>5, Zenon DEF Shape
<1>6. Banks'
    BY <1>1, <1>3, Zenon DEF Banks, BankOf
<1>7. Suspended'
    BY <1>1, Zenon DEF Suspended
<1> QED
    BY <1>3, <1>4, <1>5, <1>6, <1>7, Zenon

(* MSR CONTROL exchanges the two pointers, or not, under the running       *)
(* context.                                                                *)
LEMMA MsrControlStep ==
    ASSUME SInv, NEW val \in {0, 2}, MsrControl(val)
    PROVE  SInv'
<1> USE DEF SInv
<1>1. /\ exc' = exc /\ who' = who /\ pc' = pc /\ lr' = lr /\ mem' = mem /\ cur' = cur
      /\ table' = table /\ phase' = phase /\ words' = words /\ saved' = saved
      /\ control' = val /\ mixed' = (IF exc = 0 THEN 0 ELSE 1) /\ pc = CODE
      /\ IF exc = 0 THEN who = MAIN ELSE words[who][current_sp] = 0
    BY Zenon DEF MsrControl, Running
<1>2. Spsel(val) \in 0..1
    BY DEF Spsel
<1>3. current_sp \in 0..1 /\ sp \in Nat /\ other_sp \in Nat
    BY Parts, Zenon
<1>4. /\ current_sp' = Spsel(val)
      /\ sp' = (IF current_sp # Spsel(val) THEN other_sp ELSE sp)
      /\ other_sp' = (IF current_sp # Spsel(val) THEN sp ELSE other_sp)
    BY Zenon DEF MsrControl, SetSp, SwitchSp
<1>5. \A b \in 0..1 : Ptr(who, b)' = Ptr(who, b)
    BY <1>1, <1>2, <1>3, <1>4, Bits, Zenon DEF Ptr
<1>6. /\ Nested' /\ Frames' /\ Stored' /\ TaskSp' /\ Active' = Active /\ Chain' = Chain
      /\ \A v, c : Over(v, c)' <=> Over(v, c)
    BY <1>1, <1>5, Still, Zenon
<1>7. TypeOK'
    BY <1>1, <1>2, <1>3, <1>4, Bits, Zenon DEF TypeOK
<1>8. Shape'
    <2>1. RightContext' /\ who' \in Chain' /\ \A d \in Chain' : who' <= d
        BY <1>1, <1>6, Zenon DEF Shape, RightContext
    <2>2. \A v \in Active' : \E c \in Chain' : Over(v, c)'
        BY <1>6, Zenon DEF Shape
    <2>3. phase' = 1 => KERNEL \in Active' /\ lr'[KERNEL] = 1
        BY <1>1, <1>6, Zenon DEF Shape
    <2>4. \A v \in Handlers \ Active' : words'[v][0] = 0 /\ words'[v][1] = 0
        BY <1>1, <1>6, Zenon DEF Shape
    <2> QED
        BY <2>1, <2>2, <2>3, <2>4, <1>1, Zenon DEF Shape
<1>9. Banks'
    <2>1. \A d : BankOf(d)' = IF d = who THEN Spsel(val) ELSE BankOf(d)
        BY <1>1, <1>4, Zenon DEF BankOf
    <2>2. ASSUME NEW v \in Active PROVE words[v][1 - BankOf(v)'] = 0
        <3>1. CASE v # who
            BY <3>1, <2>1, Zenon DEF Banks
        <3>2. CASE v = who
            <4>1. exc # 0
                BY ChainFacts, Zenon
            <4>2. words[who][0] = 0 /\ words[who][1] = 0
                BY <4>1, <1>1, EmptyStacks, Zenon
            <4>3. 1 - Spsel(val) = 0 \/ 1 - Spsel(val) = 1
                BY <1>2, Bits, Zenon
            <4> QED
                BY <4>2, <4>3, <3>2, <2>1, Zenon
        <3> QED
            BY <3>1, <3>2, Zenon
    <2>3. SECOND # who
        <3>1. exc # 0 => who \in Handlers
            BY ChainFacts, Zenon
        <3> QED
            BY <3>1, <1>1, Nums, Zenon
    <2>4. ASSUME mixed' = 0 PROVE who = cur /\ Active = {}
        BY <2>4, <1>1, ChainFacts, Bits, Zenon
    <2> QED
        BY <2>1, <2>2, <2>3, <2>4, <1>1, <1>6, Zenon DEF Banks
<1>10. Suspended'
    BY <1>1, Zenon DEF Suspended
<1> QED
    BY <1>6, <1>7, <1>8, <1>9, <1>10, Zenon

(* The kernel runs on what the current task left. *)
LEMMA KernelPsp ==
    ASSUME SInv, exc = KERNEL, lr[KERNEL] = 1, words[who][1] = 0
    PROVE  /\ who = KERNEL /\ Active = {KERNEL} /\ Chain = {KERNEL, cur} /\ Over(KERNEL, cur)
           /\ saved[cur].bank = 1 /\ Ptr(who, 1) = saved[cur].base
           /\ Floor(who, 0) = TaskPtr(cur, 0) /\ cur # who
<1> USE DEF SInv
<1>1. /\ who = KERNEL /\ Active = {KERNEL} /\ Chain = {KERNEL, cur} /\ Over(KERNEL, cur)
      /\ cur # who /\ cur \in Tasks /\ KERNEL \in Contexts
    BY ChainFacts, Nums, Zenon DEF Contexts
<1>2. /\ lr[KERNEL] = saved[cur].bank /\ Floor(KERNEL, 1) = Low(cur, 1)
      /\ Floor(KERNEL, 0) = Low(cur, 0)
    <2>1. \A b \in 0..1 : Over(KERNEL, cur)
            => lr[KERNEL] = saved[cur].bank /\ Floor(KERNEL, b) = Low(cur, b)
        BY <1>1, Zenon DEF Nested
    <2> QED
        BY <2>1, <1>1, Bits, Zenon
<1>3. Floor(who, 1) = Ptr(who, 1)
    <2>1. Ptr(who, 1) \in Int
        BY <1>1, Parts, Bits, Zenon
    <2> QED
        BY <2>1 DEF Floor
<1> QED
    BY <1>1, <1>2, <1>3, Bits, Zenon DEF Low, Ptr

(* The kernel notes PSP, the base of the frame of the task it interrupted. *)
LEMMA SavePspStep ==
    ASSUME SInv, SavePsp
    PROVE  SInv'
<1> USE DEF SInv
<1>1. /\ exc = KERNEL /\ lr[KERNEL] = 1 /\ words[who][1] = 0 /\ pc = CODE
      /\ table' = [table EXCEPT ![cur] = MrsPsp] /\ phase' = 1
      /\ sp' = sp /\ other_sp' = other_sp /\ current_sp' = current_sp
      /\ control' = control /\ exc' = exc /\ who' = who /\ pc' = pc /\ lr' = lr
      /\ mem' = mem /\ cur' = cur /\ words' = words /\ saved' = saved /\ mixed' = mixed
    BY Zenon DEF SavePsp, Running
<1>2. /\ who = KERNEL /\ Active = {KERNEL} /\ saved[cur].bank = 1
      /\ Ptr(who, 1) = saved[cur].base
    BY <1>1, KernelPsp, Zenon
<1>3. \A b \in 0..1 : Ptr(who, b)' = Ptr(who, b)
    BY <1>1, Zenon DEF Ptr
<1>4. /\ Nested' /\ Frames' /\ Stored' /\ TaskSp' /\ Active' = Active /\ Chain' = Chain
      /\ \A v, c : Over(v, c)' <=> Over(v, c)
    BY <1>1, <1>2, <1>3, Still, Zenon
<1>5. MrsPsp = saved[cur].base /\ saved[cur].base \in Nat /\ cur \in Tasks
    <2>1. MrsPsp = Ptr(who, 1)
        BY Zenon DEF MrsPsp, Ptr
    <2>2. cur \in Contexts /\ cur \in Tasks
        BY Parts, Zenon DEF Contexts
    <2> QED
        BY <2>1, <2>2, <1>2, Parts, Zenon
<1>6. TypeOK'
    BY <1>1, <1>5, Bits, Zenon DEF TypeOK
<1>7. Shape'
    <2>1. RightContext' /\ who' \in Chain' /\ \A d \in Chain' : who' <= d
        BY <1>1, <1>4, Zenon DEF Shape, RightContext
    <2>2. \A v \in Active' : \E c \in Chain' : Over(v, c)'
        BY <1>4, Zenon DEF Shape
    <2>3. KERNEL \in Active' /\ lr'[KERNEL] = 1
        BY <1>1, <1>2, <1>4, Zenon
    <2>4. \A v \in Handlers \ Active' : words'[v][0] = 0 /\ words'[v][1] = 0
        BY <1>1, <1>4, Zenon DEF Shape
    <2> QED
        BY <2>1, <2>2, <2>3, <2>4, <1>1, Zenon DEF Shape
<1>8. Banks'
    BY <1>1, <1>4, Zenon DEF Banks, BankOf
<1>9. Suspended'
    <2> SUFFICES ASSUME NEW t \in Tasks PROVE saved[t].bank = 1 /\ table'[t] = saved[t].base
        BY <1>1, Zenon DEF Suspended
    <2>1. CASE t = cur
        BY <2>1, <1>1, <1>2, <1>5, Zenon DEF TypeOK
    <2>2. CASE t # cur
        BY <2>2, <1>1, Zenon DEF TypeOK, Suspended
    <2> QED
        BY <2>1, <2>2, Zenon
<1> QED
    BY <1>4, <1>6, <1>7, <1>8, <1>9, Zenon

(* The kernel gives the handler it is the pointer that the task t left. *)
LEMMA LoadPspStep ==
    ASSUME SInv, NEW t \in Tasks, LoadPsp(t)
    PROVE  SInv'
<1> USE DEF SInv
<1>1. /\ exc = KERNEL /\ phase = 1 /\ words[who][1] = 0 /\ pc = CODE
      /\ cur' = t /\ phase' = 0 /\ control' = control /\ exc' = exc /\ who' = who
      /\ pc' = pc /\ lr' = lr /\ mem' = mem /\ table' = table /\ words' = words
      /\ saved' = saved /\ mixed' = mixed /\ current_sp' = current_sp
      /\ sp' = (IF current_sp = 1 THEN table[t] ELSE sp)
      /\ other_sp' = (IF current_sp = 1 THEN other_sp ELSE table[t])
    BY Zenon DEF LoadPsp, MsrPsp, Running
<1>2. lr[KERNEL] = 1
    BY <1>1, Zenon DEF Shape
<1>3. /\ who = KERNEL /\ Active = {KERNEL} /\ Chain = {KERNEL, cur}
      /\ saved[cur].bank = 1 /\ Floor(who, 0) = TaskPtr(cur, 0) /\ cur # who
    BY <1>1, <1>2, KernelPsp, Zenon
<1>4. \A u \in Tasks : saved[u].bank = 1 /\ table[u] = saved[u].base
    BY <1>1, Zenon DEF Suspended
<1>5. /\ t \in Nat /\ KERNEL \in Nat /\ KERNEL < t /\ t # who /\ t \in Contexts
      /\ KERNEL \in Contexts /\ t \in Waiting /\ KERNEL \in Handlers
    BY <1>3, Nums, Zenon DEF KERNEL, Contexts, Waiting, Live
<1>6. Active' = Active /\ Chain' = {KERNEL, t} /\ Live' = Live /\ Waiting' = Waiting
    <2>1. Active' = Active
        BY <1>1, Zenon DEF Active
    <2> QED
        BY <2>1, <1>1, <1>3, Zenon DEF Chain, Live, Waiting
<1>7. Over(KERNEL, t)'
    BY <1>5, <1>6 DEF Over
<1>8. \A u, b : TaskPtr(u, b)' = TaskPtr(u, b)
    BY <1>1, Zenon DEF TaskPtr
<1>9. \A d : \A b \in 0..1 : d # who => Ptr(d, b)' = Ptr(d, b)
    BY <1>1, <1>8, Zenon DEF Ptr
<1>10. Ptr(who, 0)' = Ptr(who, 0) /\ Ptr(who, 1)' = table[t]
    <2>1. current_sp = 0 \/ current_sp = 1
        BY Parts, Bits, Zenon
    <2> QED
        BY <2>1, <1>1, Bits, Zenon DEF Ptr
<1>11. TypeOK'
    <2>1. table[t] \in Nat
        BY Zenon DEF TypeOK
    <2>2. sp' \in Nat /\ other_sp' \in Nat
        BY <2>1, <1>1, Zenon DEF TypeOK
    <2> QED
        BY <2>2, <1>1, Bits, Zenon DEF TypeOK
<1>12. Shape'
    <2>1. RightContext'
        BY <1>1, <1>3, <1>5, Nums, Zenon DEF RightContext
    <2>2. who' \in Chain' /\ \A d \in Chain' : who' <= d
        BY <1>1, <1>3, <1>5, <1>6
    <2>3. \A v \in Active' : \E c \in Chain' : Over(v, c)'
        BY <1>3, <1>6, <1>7, Zenon
    <2>4. \A v \in Handlers \ Active' : words'[v][0] = 0 /\ words'[v][1] = 0
        BY <1>1, <1>6, Zenon DEF Shape
    <2> QED
        BY <2>1, <2>2, <2>3, <2>4, <1>1, Bits, Zenon DEF Shape
<1>13. Banks'
    <2>1. \A d : BankOf(d)' = BankOf(d)
        BY <1>1, Zenon DEF BankOf
    <2>2. BankOf(t) = BankOf(cur)
        BY <1>3, <1>4, <1>5, Zenon DEF BankOf
    <2> QED
        BY <2>1, <2>2, <1>1, <1>6, Zenon DEF Banks
<1>14. Suspended'
    BY <1>1, <1>4, Zenon DEF Suspended
<1>15. TaskSp'
    <2>1. exc' # 0
        BY <1>1, <1>5, Nums, Zenon
    <2>2. \A u \in Tasks : u # who' => saved'[u].sp = TaskPtr(u, saved[u].bank)'
        BY <1>1, <1>8, Zenon DEF TaskSp
    <2> QED
        BY <2>1, <2>2, Zenon DEF TaskSp
<1>16. Frames'
    <2> SUFFICES ASSUME NEW d \in Waiting PROVE FrameOf(d, saved[d].base)'
        BY <1>6, Zenon DEF Frames
    <2>1. MemStep
        BY <1>1, Zenon DEF MemStep
    <2>2. d # KERNEL
        BY <1>3, Zenon DEF Waiting
    <2> QED
        BY <2>1, <2>2, <1>1, FrameKept, Zenon
<1>17. Stored'
    <2> SUFFICES ASSUME NEW d \in Live, NEW b \in 0..1,
                        NEW a \in Ptr(d, b)'..(Floor(d, b)' - 1)
                 PROVE  mem[a] = Plain(d, FRAME)
        BY <1>1, <1>6, Zenon DEF Stored
    <2>1. CASE d # who \/ b = 0
        <3>1. Ptr(d, b)' = Ptr(d, b) /\ Floor(d, b)' = Floor(d, b)
            BY <2>1, <1>1, <1>9, <1>10, Zenon DEF Floor
        <3> QED
            BY <3>1, Zenon DEF Stored
    <2>2. CASE d = who /\ b = 1
        <3>1. Ptr(d, b)' = table[t] /\ Floor(d, b)' = table[t] + 0 /\ table[t] \in Nat
            BY <2>2, <1>1, <1>10, Zenon DEF Floor, TypeOK
        <3> QED
            BY <3>1
    <2>3. b = 0 \/ b = 1
        BY Bits, Zenon
    <2> QED
        BY <2>1, <2>2, <2>3, Zenon
<1>18. Nested'
    <2>1. \A d \in Chain' : KERNEL < d => d = t
        BY <1>5, <1>6
    <2>2. lr'[KERNEL] = saved'[t].bank
        BY <1>1, <1>2, <1>4, Zenon
    <2>3. /\ Floor(KERNEL, 0)' = Low(t, 0)' /\ Floor(KERNEL, 1)' = Low(t, 1)'
          /\ Floor(KERNEL, 0)' = TaskPtr(t, 0) /\ Floor(KERNEL, 1)' = table[t]
        <3>1. Floor(KERNEL, 0)' = TaskPtr(cur, 0)
            BY <1>1, <1>3, <1>10, Zenon DEF Floor
        <3>2. TaskPtr(cur, 0) = TaskPtr(t, 0) /\ Ptr(t, 0) = TaskPtr(t, 0)
            BY <1>5, Zenon DEF TaskPtr, Ptr
        <3>3. Low(t, 0)' = TaskPtr(t, 0)
            BY <3>2, <1>1, <1>4, <1>5, <1>9 DEF Low
        <3>4. Floor(KERNEL, 1)' = table[t] + 0 /\ table[t] \in Nat
            BY <1>1, <1>3, <1>10, Zenon DEF Floor, TypeOK
        <3>5. Low(t, 1)' = table[t]
            BY <1>1, <1>4, Zenon DEF Low
        <3> QED
            BY <3>1, <3>2, <3>3, <3>4, <3>5
    <2>4. Floor(KERNEL, 0)' >= Top(0)' - Depth(KERNEL)
        <3>1. Floor(KERNEL, 0) >= Top(0) - Depth(KERNEL)
            BY <1>3, Bits, Zenon DEF Nested
        <3>2. Floor(KERNEL, 0)' = Floor(KERNEL, 0) /\ Top(0)' = Top(0)
            BY <1>1, <1>3, <1>10, Zenon DEF Floor, Top
        <3> QED
            BY <3>1, <3>2, Zenon
    <2>5. Floor(KERNEL, 1)' >= Top(1)' - Depth(KERNEL)
        <3>1. Floor(KERNEL, 1)' = saved[t].base /\ Top(1)' = PspTop[t]
            BY <2>3, <1>1, <1>4, Bits, Zenon DEF Low, Top
        <3>2. saved[t].sp = TaskPtr(t, 1) /\ saved[t].sp - FRAME - 1 <= saved[t].base
            BY <1>4, <1>5, SavedSp, Zenon DEF Ptr
        <3>3. PspTop[t] - MaxWords <= TaskPtr(t, 1)
            BY TaskBounds, Zenon DEF Banks
        <3>4. /\ Depth(KERNEL) \in Nat /\ FRAME + 1 + MaxWords <= Depth(KERNEL)
              /\ saved[t].base \in Nat /\ saved[t].sp \in Nat /\ PspTop[t] \in Nat
              /\ MaxWords \in Nat
            BY <1>5, DepthFacts, Parts, Nums, Zenon DEF Span
        <3> QED
            BY <3>1, <3>2, <3>3, <3>4 DEF FRAME
    <2>6. Floor(KERNEL, 0)' \in Int /\ Floor(KERNEL, 1)' \in Int
        <3>1. TaskPtr(t, 0) \in Int /\ table[t] \in Nat
            BY Parts, Bits, Zenon DEF TypeOK
        <3> QED
            BY <3>1, <2>3, IntSums, Zenon
    <2>7. ASSUME NEW b \in 0..1
          PROVE  /\ Floor(KERNEL, b)' >= Top(b)' - Depth(KERNEL)
                 /\ \A d \in Chain' : KERNEL < d => Low(d, b)' >= Floor(KERNEL, b)'
                 /\ \A c \in Chain' : Over(KERNEL, c)'
                      => lr'[KERNEL] = saved'[c].bank /\ Floor(KERNEL, b)' = Low(c, b)'
        <3>1. b = 0 \/ b = 1
            BY Bits, Zenon
        <3>2. Floor(KERNEL, b)' = Low(t, b)' /\ Floor(KERNEL, b)' >= Top(b)' - Depth(KERNEL)
              /\ Floor(KERNEL, b)' \in Int
            BY <3>1, <2>3, <2>4, <2>5, <2>6, Zenon
        <3>3. \A c : Over(KERNEL, c)' => KERNEL < c
            BY Zenon DEF Over
        <3> QED
            BY <3>2, <3>3, <2>1, <2>2
    <2> QED
        BY <2>7, <1>3, <1>6 DEF Nested, Depth
<1> QED
    BY <1>11, <1>12, <1>13, <1>14, <1>15, <1>16, <1>17, <1>18, Zenon

-----------------------------------------------------------------------------
(* The frame starts at an even address, and bit 9 of xPSR remembers what   *)
(* the pointer lost.                                                       *)
LEMMA Aligned ==
    ASSUME NEW s \in Nat
    PROVE  /\ s % 2 \in 0..1 /\ AlignedSp(s) \in Int
           /\ s - 1 <= AlignedSp(s) /\ AlignedSp(s) <= s
           /\ UndoAlign(AlignedSp(s), s % 2) = s
<1>1. s % 2 = 0 \/ s % 2 = 1
    OBVIOUS
<1>2. s % 2 = 1 => (s - 1) % 2 = 0
    OBVIOUS
<1> QED
    BY <1>1, <1>2 DEF AlignedSp, UndoAlign

(* Where Enter puts the frame, and what it gives the handler v *)
LEMMA EnterPlace ==
    ASSUME SInv, NEW v \in Handlers, exc = 0 \/ v < exc
    PROVE  /\ v \notin Active /\ v # who /\ v \notin Live /\ \A d \in Chain : v < d
           /\ AlignedSp(sp) - FRAME \in Int
           /\ sp - FRAME - 1 <= AlignedSp(sp) - FRAME
           /\ AlignedSp(sp) - FRAME <= sp - FRAME
           /\ Top(current_sp) - Depth(v) <= AlignedSp(sp) - FRAME
           /\ \A b \in 0..1 : Top(b) - Depth(v) <= Ptr(who, b)
<1> USE DEF SInv
<1>1. v \in Nat /\ v <= MaxNest /\ v \notin Tasks /\ v \in Contexts /\ MaxNest \in Nat
    BY Nums, Zenon DEF Contexts
<1>2. ASSUME NEW d \in Chain PROVE v < d
    <2>1. d \in Nat /\ who \in Nat /\ who <= d
        BY ChainFacts, Nums, Zenon DEF Shape
    <2>2. CASE exc = 0
        BY <2>1, <2>2, <1>1, ChainFacts, Nums, IntOrder, IntSums, Zenon
    <2>3. CASE v < exc
        <3>1. who = exc
            BY <2>3, <1>1, ChainFacts, Nums
        <3> QED
            BY <3>1, <2>1, <2>3, <1>1, IntOrder, IntSums, Zenon
    <2> QED
        BY <2>2, <2>3, Zenon
<1>3. v \notin Active /\ v # who /\ v \notin Live
    BY <1>1, <1>2, ChainFacts, IntOrder, IntSums, Zenon DEF Chain, Live
<1>4. /\ AlignedSp(sp) - FRAME \in Int
      /\ sp - FRAME - 1 <= AlignedSp(sp) - FRAME
      /\ AlignedSp(sp) - FRAME <= sp - FRAME
    BY Parts, Aligned DEF FRAME
<1>5. /\ sp \in Nat /\ current_sp \in 0..1 /\ sp = Ptr(who, current_sp)
      /\ MaxWords \in Nat /\ Span = MaxWords + 9 /\ FRAME = 8
    BY Parts, Nums DEF Ptr, Span, FRAME
<1>6. ASSUME NEW b \in 0..1
      PROVE  Top(b) - Depth(v) <= Ptr(who, b) - 9
    <2>1. /\ Top(b) \in Nat /\ Ptr(who, b) \in Int /\ Floor(who, b) \in Int
          /\ Ptr(who, b) >= Floor(who, b) - MaxWords /\ TaskPtr(cur, b) \in Int
          /\ Depth(v) \in Nat /\ Span <= Depth(v)
        BY Parts, DepthFacts, Zenon
    <2>2. CASE exc = 0
        BY <2>1, <2>2, <1>5, Bounds
    <2>3. CASE exc # 0
        <3>1. who \in Handlers /\ v < who
            BY <2>3, <1>2, ChainFacts, Zenon
        <3>2. Depth(who) + Span <= Depth(v) /\ Depth(who) \in Nat
            BY <3>1, DepthFacts, Zenon
        <3>3. Top(b) - Depth(who) <= Floor(who, b)
            BY <2>3, Bounds, Zenon
        <3> QED
            BY <3>2, <3>3, <2>1, <1>5
    <2> QED
        BY <2>2, <2>3, Zenon
<1>7. Top(current_sp) - Depth(v) <= AlignedSp(sp) - FRAME
    <2>1. Top(current_sp) - Depth(v) <= sp - 9
        BY <1>5, <1>6, Zenon
    <2>2. Top(current_sp) \in Nat /\ Depth(v) \in Nat
        BY Parts, DepthFacts, Zenon
    <2> QED
        BY <2>1, <2>2, <1>4, <1>5
<1>8. \A b \in 0..1 : Top(b) - Depth(v) <= Ptr(who, b)
    <2> SUFFICES ASSUME NEW b \in 0..1 PROVE Top(b) - Depth(v) <= Ptr(who, b)
        BY Zenon
    <2>1. Top(b) \in Nat /\ Ptr(who, b) \in Int /\ Depth(v) \in Nat
        BY Parts, DepthFacts, Zenon
    <2> QED
        BY <2>1, <1>6
<1> QED
    BY <1>2, <1>3, <1>4, <1>7, <1>8, Zenon

(* The words of the frame that Enter writes *)
LEMMA FrameWords ==
    ASSUME TypeOK, NEW v, NEW base \in Int, NEW a \in base..(base + FRAME - 1)
    PROVE  /\ FrameWord(v, base, a) \in Word
           /\ FrameWord(v, base, a).own = who
           /\ a = base + PC => FrameWord(v, base, a).pc = pc
           /\ a = base + XPSR => /\ FrameWord(v, base, a).exc = exc
                                 /\ FrameWord(v, base, a).align = sp % 2
<1>1. a - base \in 0..FRAME
    BY DEF FRAME
<1>2. who \in Contexts /\ pc \in 0..2 /\ exc \in 0..MaxNest /\ sp \in Nat /\ CODE \in 0..2
      /\ 0 \in 0..MaxNest
    BY Nums DEF TypeOK, CODE
<1>3. sp % 2 \in 0..1 /\ 0 \in 0..1
    BY <1>2, Aligned, Bits, Zenon
<1> QED
    BY <1>1, <1>2, <1>3, Zenon DEF Word, FrameWord, PushedExc

(* What Enter does to the pointers: every context keeps its own, and the   *)
(* handler gets what the interrupted one leaves.                           *)
LEMMA EnterPtrs ==
    ASSUME SInv, NEW v \in Handlers, Enter(v), NEW c, c = who
    PROVE  /\ Active' = Active \cup {v} /\ Chain' = Chain \cup {v} /\ Live' = Live \cup {v}
           /\ Waiting' = Live
           /\ \A b \in 0..1 : /\ b = current_sp => Ptr(v, b)' = AlignedSp(sp) - FRAME
                              /\ b # current_sp => Ptr(v, b)' = Ptr(who, b)
           /\ \A b \in 0..1 : words'[v][b] = 0 /\ Floor(v, b)' = Ptr(v, b)'
           /\ \A d \in Live : \A b \in 0..1 : /\ Ptr(d, b)' = Ptr(d, b)
                                              /\ words'[d][b] = words[d][b]
                                              /\ Floor(d, b)' = Floor(d, b)
           /\ \A b \in 0..1 : Low(c, b)' = Ptr(v, b)'
           /\ \A d \in Waiting : saved'[d] = saved[d] /\ \A b \in 0..1 : Low(d, b)' = Low(d, b)
           /\ current_sp' = 0
           /\ other_sp' = Ptr(v, 1)' /\ sp' = Ptr(v, 0)'
           /\ \A b : Top(b)' = Top(b)
           /\ \A t, b : t \in Tasks => TaskPtr(t, b)' = TaskPtr(t, b)
           /\ saved'[who] = [sp |-> sp, other |-> other_sp, bank |-> current_sp,
                             base |-> AlignedSp(sp) - FRAME]
<1> USE DEF SInv
<1> DEFINE base == AlignedSp(sp) - FRAME
<1>1. /\ exc = 0 \/ v < exc
      /\ lr' = [lr EXCEPT ![v] = current_sp] /\ who' = v /\ cur' = cur
      /\ words' = [words EXCEPT ![v] = [b \in 0..1 |-> 0]]
      /\ saved' = [saved EXCEPT ![who] = [sp |-> sp, other |-> other_sp,
                                          bank |-> current_sp, base |-> base]]
    BY Zenon DEF Enter
<1>2. /\ current_sp' = 0
      /\ sp' = (IF current_sp # 0 THEN other_sp ELSE base)
      /\ other_sp' = (IF current_sp # 0 THEN base ELSE other_sp)
    <2>1. SetSp(SwitchSp(base, other_sp, current_sp, EntryBank))
        BY Zenon DEF Enter
    <2> HIDE DEF base
    <2> QED
        BY <2>1, Zenon DEF SetSp, SwitchSp, EntryBank
<1>3. v \notin Active /\ v # who /\ v \notin Live
    BY <1>1, EnterPlace, Zenon
<1>4. /\ current_sp \in 0..1 /\ who \in Contexts /\ v \in Contexts /\ base \in Int
      /\ who \in Live /\ \A d \in Live : d \in Contexts
    BY <1>1, Parts, ChainFacts, EnterPlace, Zenon DEF Contexts
<1>5. saved'[who] = [sp |-> sp, other |-> other_sp, bank |-> current_sp, base |-> base]
      /\ \A d \in Contexts : d # who => saved'[d] = saved[d]
    BY <1>1, <1>4, Zenon DEF TypeOK
<1> HIDE DEF base
<1>6. Active' = Active \cup {v}
    <2>1. current_sp # CODE
        BY <1>4 DEF CODE
    <2>2. \A u \in Handlers : lr'[u] = IF u = v THEN current_sp ELSE lr[u]
        BY <1>1, Zenon DEF TypeOK
    <2> QED
        BY <2>1, <2>2, Zenon DEF Active
<1>7. Chain' = Chain \cup {v} /\ Live' = Live \cup {v} /\ Waiting' = Live
    BY <1>1, <1>3, <1>6, Zenon DEF Chain, Live, Waiting
<1>8. \A d \in Contexts : \A b \in 0..1 : words'[d][b] = IF d = v THEN 0 ELSE words[d][b]
    BY <1>1, Zenon DEF TypeOK
<1>9. \A t, b : t \in Tasks => TaskPtr(t, b)' = TaskPtr(t, b)
    <2>1. \A t \in Tasks : t \in Contexts /\ t # v
        BY Nums, Zenon DEF Contexts
    <2>2. MAIN \in Contexts /\ MAIN # v
        BY Nums, Zenon DEF Contexts
    <2> QED
        BY <2>1, <2>2, <1>8 DEF TaskPtr
<1>10. \A b : Top(b)' = Top(b)
    BY <1>1, Zenon DEF Top
<1>11. \A b \in 0..1 : /\ b = current_sp => Ptr(v, b)' = base
                       /\ b # current_sp => Ptr(v, b)' = Ptr(who, b)
    <2>1. \A b \in 0..1 : b = 0 \/ b = 1
        BY Bits, Zenon
    <2> QED
        BY <2>1, <1>1, <1>2, <1>4, Zenon DEF Ptr
<1>12. other_sp' = Ptr(v, 1)' /\ sp' = Ptr(v, 0)'
    BY <1>1, <1>2, Bits, Zenon DEF Ptr
<1>13. \A b \in 0..1 : words'[v][b] = 0 /\ Floor(v, b)' = Ptr(v, b)'
    <2> SUFFICES ASSUME NEW b \in 0..1 PROVE words'[v][b] = 0 /\ Floor(v, b)' = Ptr(v, b)'
        BY Zenon
    <2>1. words'[v][b] = 0
        BY <1>4, <1>8, Zenon
    <2>2. Ptr(v, b)' \in Int
        BY <1>4, <1>11, Parts, Zenon
    <2> QED
        BY <2>1, <2>2 DEF Floor
<1>14. ASSUME NEW d \in Live, NEW b \in 0..1
       PROVE  Ptr(d, b)' = Ptr(d, b)
    <2>1. d # v /\ d \in Contexts /\ d # who'
        BY <1>1, <1>3, <1>4, Zenon
    <2>2. CASE d # who
        BY <2>1, <2>2, <1>5, <1>9, Zenon DEF Ptr
    <2>3. CASE d = who /\ d \in Tasks
        <3>1. exc = 0 /\ who = cur
            BY <2>3, ChainFacts, Zenon
        <3>2. Ptr(d, b) = TaskPtr(d, b)
            BY <3>1, <2>3, Zenon DEF TaskSp
        <3> QED
            BY <3>2, <2>1, <2>3, <1>9, Zenon DEF Ptr
    <2>4. CASE d = who /\ d \notin Tasks
        BY <2>1, <2>4, <1>5 DEF Ptr
    <2> QED
        BY <2>2, <2>3, <2>4, Zenon
<1>15. \A d \in Live : \A b \in 0..1 : words'[d][b] = words[d][b] /\ Floor(d, b)' = Floor(d, b)
    BY <1>3, <1>4, <1>8, <1>14, Zenon DEF Floor
<1>16. \A b \in 0..1 : Low(c, b)' = Ptr(v, b)'
    <2> SUFFICES ASSUME NEW b \in 0..1 PROVE Low(c, b)' = Ptr(v, b)'
        BY Zenon
    <2>1. saved'[c].bank = current_sp /\ saved'[c].base = base
        <3>1. saved'[c] = [sp |-> sp, other |-> other_sp, bank |-> current_sp, base |-> base]
            BY <1>5, Zenon
        <3> QED
            BY <3>1
    <2>2. Ptr(c, b)' = Ptr(who, b)
        BY <1>4, <1>14, Zenon
    <2> QED
        BY <2>1, <2>2, <1>11, Zenon DEF Low
<1>17. \A d \in Waiting : saved'[d] = saved[d] /\ \A b \in 0..1 : Low(d, b)' = Low(d, b)
    <2> SUFFICES ASSUME NEW d \in Waiting
                 PROVE  saved'[d] = saved[d] /\ \A b \in 0..1 : Low(d, b)' = Low(d, b)
        BY Zenon
    <2>1. d \in Live /\ d # who
        BY Zenon DEF Waiting
    <2>2. saved'[d] = saved[d]
        BY <2>1, <1>4, <1>5, Zenon
    <2> QED
        BY <2>1, <2>2, <1>14, Zenon DEF Low
<1> QED
    BY <1>2, <1>5, <1>6, <1>7, <1>9, <1>10, <1>11, <1>12, <1>13, <1>14, <1>15, <1>16, <1>17, Zenon
       DEF base

(* Enter writes below the words of the interrupted context. *)
LEMMA EnterMem ==
    ASSUME SInv, NEW v \in Handlers, Enter(v), NEW base, base = AlignedSp(sp) - FRAME
    PROVE  /\ MemStep /\ mem' \in [Addresses -> Word] /\ base \in Nat
           /\ \A a \in base..(base + FRAME - 1) : mem'[a] = FrameWord(v, base, a)
           /\ \A b \in 0..1 : \A a \in Ptr(who, b)..(Floor(who, b) - 1) : mem'[a] = mem[a]
<1> USE DEF SInv
<1>1. /\ exc = 0 \/ v < exc
      /\ mem' = [a \in Addresses |-> IF a \in base..(base + FRAME - 1)
                                     THEN FrameWord(v, base, a) ELSE mem[a]]
    BY Zenon DEF Enter
<1>2. /\ base \in Int /\ sp - FRAME - 1 <= base /\ base <= sp - FRAME
      /\ Top(current_sp) - Depth(v) <= base
    BY <1>1, EnterPlace, Zenon
<1>3. /\ Depth(v) \in Nat /\ Depth(v) <= Room /\ Room \in Nat
      /\ Top(current_sp) \in Nat /\ sp \in Nat /\ cur \in Tasks /\ who \in Contexts
      /\ current_sp \in 0..1 /\ Top(current_sp) - Room >= 0
      /\ Floor(who, current_sp) >= sp /\ Floor(who, current_sp) \in Int
      /\ Floor(who, current_sp) <= Top(current_sp)
    <2>1. Depth(v) \in Nat /\ Depth(v) + MaxWords <= Room /\ Room \in Nat /\ MaxWords \in Nat
        BY DepthFacts, Nums, Zenon
    <2>2. current_sp \in 0..1 /\ cur \in Tasks /\ who \in Contexts /\ sp \in Nat
        BY Parts, Zenon
    <2>3. Top(current_sp) \in Nat /\ Top(current_sp) - Room >= 0
        BY <2>2, Tops, Zenon
    <2>4. Floor(who, current_sp) >= sp /\ Floor(who, current_sp) \in Int
          /\ Floor(who, current_sp) <= Top(current_sp)
        <3>1. /\ Floor(who, current_sp) = sp + words[who][current_sp]
              /\ words[who][current_sp] \in Nat /\ Floor(who, current_sp) <= Top(current_sp)
            BY OwnWords, Zenon
        <3> QED
            BY <3>1, <2>2
    <2>5. Depth(v) <= Room
        BY <2>1
    <2> QED
        BY <2>1, <2>2, <2>3, <2>4, <2>5, Zenon
<1>4. base \in Nat
    BY <1>2, <1>3
<1>5. ASSUME NEW a \in base..(base + FRAME - 1)
      PROVE  a \in Int /\ a \in Region(Top(current_sp)) /\ a \in Addresses /\ Mine(a) /\ a < sp
    <2>1. a \in Int /\ base <= a /\ a < sp
        BY <1>2, <1>3 DEF FRAME
    <2>2. Top(current_sp) - Room <= a /\ a < Top(current_sp) /\ a < Floor(who, current_sp)
        BY <2>1, <1>2, <1>3
    <2>3. a \in Region(Top(current_sp))
        BY <2>1, <2>2, <1>3, Tops, Zenon
    <2> QED
        BY <2>1, <2>2, <2>3, <1>3, Tops, Zenon DEF Mine, Under
<1>6. MemStep
    BY <1>1, <1>5, Zenon DEF MemStep
<1>7. mem' \in [Addresses -> Word]
    <2>1. \A a \in base..(base + FRAME - 1) : FrameWord(v, base, a) \in Word
        BY <1>2, FrameWords, Zenon
    <2>2. \A a \in Addresses : mem[a] \in Word
        BY Zenon DEF TypeOK
    <2> QED
        BY <2>1, <2>2, <1>1, Zenon
<1>8. \A a \in base..(base + FRAME - 1) : mem'[a] = FrameWord(v, base, a)
    BY <1>1, <1>5, Zenon
<1>9. ASSUME NEW b \in 0..1, NEW a \in Ptr(who, b)..(Floor(who, b) - 1)
      PROVE  mem'[a] = mem[a]
    <2>1. /\ a \in Int /\ Ptr(who, b) <= a /\ a < Floor(who, b)
          /\ Ptr(who, b) \in Int /\ Floor(who, b) \in Int /\ Top(b) \in Nat
        BY <1>3, Parts
    <2>2. Top(b) - Room <= Ptr(who, b) /\ Floor(who, b) <= Top(b)
        BY Bounds, Zenon
    <2>3. Top(b) - Room <= a /\ a < Top(b)
        BY <2>1, <2>2, <1>3
    <2>4. a \in Region(Top(b)) /\ a \in Addresses
        BY <2>1, <2>3, <1>3, Tops, Zenon
    <2>5. a \notin base..(base + FRAME - 1)
        <3> SUFFICES ASSUME a \in base..(base + FRAME - 1) PROVE FALSE
            BY Zenon
        <3>1. a \in Region(Top(current_sp)) /\ a < sp
            BY <1>5, Zenon
        <3>2. b = current_sp
            BY <3>1, <2>4, <1>3, Tops, Zenon
        <3>3. Ptr(who, b) = sp
            BY <3>2, Zenon DEF Ptr
        <3> QED
            BY <3>1, <3>3, <2>1, <1>3, IntOrder, Zenon
    <2> QED
        BY <2>4, <2>5, <1>1, Zenon
<1> QED
    BY <1>4, <1>6, <1>7, <1>8, <1>9, Zenon

(* do_interrupt_v7m puts v in front of the chain, its frame under the      *)
(* running context.                                                        *)
LEMMA EnterStep ==
    ASSUME SInv, NEW v \in Handlers, Enter(v)
    PROVE  SInv'
<1> USE DEF SInv
<1>1. PICK c, base : c = who /\ base = AlignedSp(sp) - FRAME
    BY Zenon
<1>2. /\ exc = 0 \/ v < exc
      /\ exc' = v /\ who' = v /\ pc' = CODE /\ lr' = [lr EXCEPT ![v] = current_sp]
      /\ words' = [words EXCEPT ![v] = [b \in 0..1 |-> 0]]
      /\ saved' = [saved EXCEPT ![c] = [sp |-> sp, other |-> other_sp,
                                        bank |-> current_sp, base |-> base]]
      /\ control' = control /\ cur' = cur /\ table' = table /\ phase' = phase
      /\ mixed' = mixed
    BY <1>1, Zenon DEF Enter
<1>3. /\ v \notin Active /\ v # c /\ v \notin Live /\ (\A d \in Chain : v < d)
      /\ base \in Int /\ sp - FRAME - 1 <= base /\ base <= sp - FRAME
      /\ Top(current_sp) - Depth(v) <= base
      /\ \A b \in 0..1 : Top(b) - Depth(v) <= Ptr(c, b)
    BY <1>1, <1>2, EnterPlace, Zenon
<1>4. /\ Active' = Active \cup {v} /\ Chain' = Chain \cup {v} /\ Live' = Live \cup {v}
      /\ Waiting' = Live
    BY EnterPtrs, <1>1, Zenon
<1>5. /\ \A b \in 0..1 : /\ b = current_sp => Ptr(v, b)' = base
                         /\ b # current_sp => Ptr(v, b)' = Ptr(c, b)
      /\ \A b \in 0..1 : words'[v][b] = 0 /\ Floor(v, b)' = Ptr(v, b)'
      /\ \A b \in 0..1 : Low(c, b)' = Ptr(v, b)'
    <2>1. \A b \in 0..1 : /\ b = current_sp => Ptr(v, b)' = AlignedSp(sp) - FRAME
                          /\ b # current_sp => Ptr(v, b)' = Ptr(who, b)
        BY EnterPtrs, Zenon
    <2>2. \A b \in 0..1 : words'[v][b] = 0 /\ Floor(v, b)' = Ptr(v, b)'
        BY EnterPtrs, Zenon
    <2>3. \A b \in 0..1 : Low(c, b)' = Ptr(v, b)'
        BY EnterPtrs, <1>1, Zenon
    <2> QED
        BY <2>1, <2>2, <2>3, <1>1, Zenon
<1>6. \A d \in Live : \A b \in 0..1 : /\ Ptr(d, b)' = Ptr(d, b)
                                      /\ words'[d][b] = words[d][b]
                                      /\ Floor(d, b)' = Floor(d, b)
    BY EnterPtrs, <1>1, Zenon
<1>7. \A d \in Waiting : saved'[d] = saved[d] /\ \A b \in 0..1 : Low(d, b)' = Low(d, b)
    BY EnterPtrs, <1>1, Zenon
<1>8. /\ current_sp' = 0 /\ other_sp' = Ptr(v, 1)' /\ sp' = Ptr(v, 0)'
      /\ (\A b : Top(b)' = Top(b))
      /\ (\A t, b : t \in Tasks => TaskPtr(t, b)' = TaskPtr(t, b))
    BY EnterPtrs, <1>1, Zenon
<1>9. /\ saved'[c] = [sp |-> sp, other |-> other_sp, bank |-> current_sp, base |-> base]
      /\ saved'[c].sp = sp /\ saved'[c].other = other_sp
      /\ saved'[c].bank = current_sp /\ saved'[c].base = base
    <2>1. saved'[c] = [sp |-> sp, other |-> other_sp, bank |-> current_sp, base |-> base]
        BY EnterPtrs, <1>1, Zenon
    <2> QED
        BY <2>1
<1>10. /\ MemStep /\ mem' \in [Addresses -> Word] /\ base \in Nat
       /\ \A a \in base..(base + FRAME - 1) : mem'[a] = FrameWord(v, base, a)
       /\ \A b \in 0..1 : \A a \in Ptr(c, b)..(Floor(c, b) - 1) : mem'[a] = mem[a]
    BY EnterMem, <1>1, Zenon
<1>11. /\ c \in Contexts /\ c \in Chain /\ c \in Live /\ v \in Contexts /\ v \in Nat /\ c \in Nat
       /\ current_sp \in 0..1 /\ sp \in Nat /\ other_sp \in Nat /\ v < c /\ v # 0
       /\ Chain \subseteq Live /\ Live \subseteq Contexts /\ cur \in Tasks /\ cur \in Chain
       /\ v \notin Tasks
    <2>1. c \in Contexts /\ current_sp \in 0..1 /\ sp \in Nat /\ other_sp \in Nat /\ cur \in Tasks
        BY <1>1, Parts, Zenon
    <2>2. c \in Chain /\ c \in Live /\ Chain \subseteq Live /\ Live \subseteq Contexts
          /\ cur \in Chain
        BY <1>1, ChainFacts, Zenon
    <2>3. v \in Contexts /\ v \in Nat /\ c \in Nat /\ v # 0 /\ v \notin Tasks
        BY <2>1, Nums, Zenon DEF Contexts
    <2> QED
        BY <2>1, <2>2, <2>3, <1>3, Zenon
<1>12. \A d \in Contexts : d # v => words'[d] = words[d]
    BY <1>2, Zenon DEF TypeOK
<1>13. \A u \in Handlers : u # v => lr'[u] = lr[u]
    BY <1>2, Zenon DEF TypeOK
<1>14. lr'[v] = current_sp
    BY <1>2, Zenon DEF TypeOK
<1>15. \A d \in Chain : c <= d /\ d \in Nat
    BY <1>1, <1>11, Nums, Zenon DEF Shape
<1>16. TypeOK'
    <2>1. sp' \in Nat /\ other_sp' \in Nat
        <3>1. \A b \in 0..1 : Ptr(c, b) \in Nat
            BY <1>1, <1>11, Zenon DEF Ptr
        <3>2. \A b \in 0..1 : Ptr(v, b)' \in Nat
            BY <3>1, <1>5, <1>10, Zenon
        <3> QED
            BY <3>2, <1>8, Bits, Zenon
    <2>2. lr' \in [Handlers -> 0..2]
        <3>1. current_sp \in 0..2
            BY <1>11
        <3> QED
            BY <3>1, <1>2, Zenon DEF TypeOK
    <2>3. words' \in [Contexts -> [0..1 -> 0..MaxWords]]
        <3>1. [b \in 0..1 |-> 0] \in [0..1 -> 0..MaxWords]
            BY Nums
        <3> QED
            BY <3>1, <1>2, Zenon DEF TypeOK
    <2>4. saved' \in [Contexts -> [sp : Nat, other : Nat, bank : 0..1, base : Nat]]
        BY <1>2, <1>10, <1>11, Zenon DEF TypeOK
    <2>5. exc' \in 0..MaxNest /\ who' \in Contexts /\ pc' \in 0..2 /\ current_sp' \in 0..1
        BY <1>2, <1>8, <1>11 DEF CODE, Handlers
    <2> QED
        BY <2>1, <2>2, <2>3, <2>4, <2>5, <1>2, <1>10, Zenon DEF TypeOK
<1>17. Over(v, c)'
    BY <1>4, <1>11, <1>15 DEF Over
<1>18. ASSUME NEW u \in Active, NEW d \in Chain' PROVE Over(u, d)' <=> Over(u, d)
    <2>1. v < u /\ u \in Nat
        BY <1>3, <1>15, Zenon DEF Chain
    <2> QED
        BY <2>1, <1>4, <1>11 DEF Over
<1>19. Shape'
    <2>1. RightContext'
        BY <1>2, <1>11, Zenon DEF RightContext
    <2>2. who' \in Chain' /\ \A d \in Chain' : who' <= d
        <3>1. who' = v /\ v \in Nat /\ Chain' = Chain \cup {v}
            BY <1>2, <1>4, <1>11, Zenon
        <3>2. \A d \in Chain : v < d /\ d \in Nat
            BY <1>3, <1>15, Zenon
        <3> QED
            BY <3>1, <3>2, IntOrder, IntSums, Zenon
    <2>3. \A u \in Active' : \E d \in Chain' : Over(u, d)'
        <3>1. \A u \in Active : \E d \in Chain' : Over(u, d)'
            BY <1>4, <1>18, Zenon DEF Shape
        <3> QED
            BY <3>1, <1>4, <1>11, <1>17
    <2>4. phase' = 1 => KERNEL \in Active' /\ lr'[KERNEL] = 1
        BY <1>2, <1>3, <1>4, <1>13, Nums, Zenon DEF Shape
    <2>5. \A u \in Handlers \ Active' : words'[u][0] = 0 /\ words'[u][1] = 0
        <3> SUFFICES ASSUME NEW u \in Handlers, u \notin Active, u # v
                     PROVE  words'[u][0] = 0 /\ words'[u][1] = 0
            BY <1>4, Zenon
        <3>1. u \in Contexts
            BY Zenon DEF Contexts
        <3> QED
            BY <3>1, <1>12, Zenon DEF Shape
    <2> QED
        BY <2>1, <2>2, <2>3, <2>4, <2>5, <1>2, Zenon DEF Shape
<1>20. \A d \in Live : BankOf(d)' = BankOf(d)
    <2> SUFFICES ASSUME NEW d \in Live PROVE BankOf(d)' = BankOf(d)
        BY Zenon
    <2>1. d # v
        BY <1>3, Zenon
    <2>2. CASE d = c
        BY <2>1, <2>2, <1>1, <1>2, <1>9, Zenon DEF BankOf
    <2>3. CASE d # c
        BY <2>1, <2>3, <1>1, <1>2, <1>7 DEF BankOf, Waiting
    <2> QED
        BY <2>2, <2>3, Zenon
<1>21. Banks'
    <2>1. BankOf(v)' = 0
        BY <1>2, <1>8, Zenon DEF BankOf
    <2>2. ASSUME NEW u \in Active PROVE words'[u][1 - BankOf(u)'] = 0
        <3>1. u \in Live /\ u \in Contexts /\ u # v
            BY <1>3, <1>11, Zenon DEF Live
        <3>2. words'[u] = words[u] /\ BankOf(u)' = BankOf(u)
            BY <3>1, <1>12, <1>20, Zenon
        <3> QED
            BY <3>2, Zenon DEF Banks
    <2>3. words'[v][1 - BankOf(v)'] = 0
        BY <2>1, <1>5, Bits, Zenon
    <2>4. words'[SECOND][0] = 0 /\ BankOf(SECOND)' = 1
        <3>1. SECOND \in Live /\ SECOND \in Contexts /\ SECOND # v
            BY <1>3, <1>11, Nums, Zenon DEF Live
        <3> QED
            BY <3>1, <1>12, <1>20, Zenon DEF Banks
    <2>5. ASSUME mixed' = 0
          PROVE  BankOf(cur)' = Spsel(control') /\ \A u \in Active' : BankOf(u)' = 0
        <3>1. BankOf(cur) = Spsel(control) /\ \A u \in Active : BankOf(u) = 0
            BY <2>5, <1>2, Zenon DEF Banks
        <3>2. \A u \in Active : BankOf(u)' = 0
            BY <3>1, <1>20, Zenon DEF Live
        <3>3. PICK d : d = cur
            BY Zenon
        <3>4. BankOf(d)' = Spsel(control) /\ d = cur'
            BY <3>1, <3>3, <1>2, <1>11, <1>20, Zenon
        <3> QED
            BY <3>2, <3>4, <2>1, <1>2, <1>4, Zenon
    <2> QED
        BY <2>2, <2>3, <2>4, <2>5, <1>4, Zenon DEF Banks
<1>22. Suspended'
    <2> SUFFICES ASSUME NEW t \in Tasks, t # cur \/ phase = 1
                 PROVE  saved'[t].bank = 1 /\ table'[t] = saved'[t].base
        BY <1>2, Zenon DEF Suspended
    <2>1. saved[t].bank = 1 /\ table[t] = saved[t].base
        BY Zenon DEF Suspended
    <2>2. t # c
        <3> SUFFICES ASSUME t = c PROVE FALSE
            BY Zenon
        <3>1. exc = 0 /\ c = cur
            BY <1>1, ChainFacts, Zenon
        <3>2. phase = 1 /\ Active = {}
            BY <3>1, ChainFacts, Zenon
        <3> QED
            BY <3>2, Zenon DEF Shape
    <2>3. t \in Waiting
        BY <2>2, <1>1, Zenon DEF Waiting, Live
    <2> QED
        BY <2>1, <2>3, <1>2, <1>7, Zenon
<1>23. TaskSp'
    <2>1. exc' # 0
        BY <1>2, <1>11, Zenon
    <2>2. ASSUME NEW t \in Tasks PROVE saved'[t].sp = TaskPtr(t, saved'[t].bank)
        <3>1. CASE t = c
            <4>1. exc = 0 /\ c = cur
                BY <3>1, <1>1, ChainFacts, Zenon
            <4>2. sp = TaskPtr(c, current_sp)
                BY <4>1, <1>1, <1>11, Zenon DEF TaskSp, Ptr
            <4> QED
                BY <4>2, <3>1, <1>9, Zenon
        <3>2. CASE t # c
            <4>1. t \in Waiting
                BY <3>2, <1>1, Zenon DEF Waiting, Live
            <4> QED
                BY <4>1, <3>2, <1>1, <1>7, Zenon DEF TaskSp
        <3> QED
            BY <3>1, <3>2, Zenon
    <2>3. \A t \in Tasks : saved'[t].sp = TaskPtr(t, saved[t].bank)'
        BY <2>2, <1>8, Zenon
    <2> QED
        BY <2>1, <2>3, Zenon DEF TaskSp
<1>24. Nested'
    <2>1. ASSUME NEW b \in 0..1
          PROVE  /\ Floor(v, b)' >= Top(b) - Depth(v)
                 /\ \A d \in Chain : Low(d, b)' >= Floor(v, b)'
        <3>1. /\ Ptr(c, b) \in Int /\ Floor(c, b) \in Int /\ Ptr(c, b) <= Floor(c, b)
              /\ Floor(v, b)' \in Int /\ Floor(v, b)' <= Ptr(c, b)
            <4>1. Ptr(c, b) \in Int /\ Floor(c, b) \in Int /\ Ptr(c, b) <= Floor(c, b)
                BY <1>11, Parts, Zenon
            <4>2. b = current_sp => Ptr(c, b) = sp
                BY <1>1, Zenon DEF Ptr
            <4> QED
                BY <4>1, <4>2, <1>3, <1>5, <1>11 DEF FRAME
        <3>2. Floor(v, b)' >= Top(b) - Depth(v)
            <4>1. Top(b) \in Nat /\ Depth(v) \in Nat
                BY Parts, DepthFacts, Zenon
            <4> QED
                BY <4>1, <3>1, <1>3, <1>5, Zenon
        <3>3. ASSUME NEW d \in Chain PROVE Low(d, b)' >= Floor(v, b)'
            <4>1. CASE d = c
                BY <4>1, <3>1, <1>5
            <4>2. CASE d # c
                <5>1. c \in Active /\ c < d /\ d \in Waiting /\ d \in Contexts
                    BY <4>2, <1>1, <1>11, ChainFacts, Zenon
                <5>2. Low(d, b) >= Floor(c, b)
                    BY <5>1, Zenon DEF Nested
                <5>3. Low(d, b)' = Low(d, b) /\ Low(d, b) \in Int
                    BY <5>1, <1>7, Parts, Zenon
                <5> QED
                    BY <5>2, <5>3, <3>1
            <4> QED
                BY <4>1, <4>2, Zenon
        <3> QED
            BY <3>2, <3>3, Zenon
    <2>2. ASSUME NEW d \in Chain', Over(v, d)'
          PROVE  d = c
        <3>1. v < d /\ c \in Chain' /\ \A w \in Chain' : v < w => d <= w
            BY <2>2, <1>4, <1>11, Zenon DEF Over
        <3>2. d \in Chain /\ d <= c /\ v \in Nat
            BY <3>1, <1>4, <1>11
        <3> QED
            BY <3>2, <1>11, <1>15, IntOrder, IntSums, Zenon
    <2>3. ASSUME NEW u \in Active, NEW b \in 0..1
          PROVE  /\ Floor(u, b)' >= Top(b)' - Depth(u)
                 /\ \A d \in Chain' : u < d => Low(d, b)' >= Floor(u, b)'
                 /\ \A d \in Chain' : Over(u, d)'
                      => lr'[u] = saved'[d].bank /\ Floor(u, b)' = Low(d, b)'
        <3>1. u \in Live /\ u \in Handlers /\ u # v /\ c <= u /\ u \in Nat /\ v < u
            BY <1>3, <1>15, ChainFacts, Zenon DEF Live, Chain
        <3>2. Floor(u, b)' = Floor(u, b) /\ Top(b)' = Top(b) /\ lr'[u] = lr[u]
            BY <3>1, <1>6, <1>8, <1>13, Zenon
        <3>3. /\ Floor(u, b) >= Top(b) - Depth(u)
              /\ \A d \in Chain : u < d => Low(d, b) >= Floor(u, b)
              /\ \A d \in Chain : Over(u, d) => lr[u] = saved[d].bank /\ Floor(u, b) = Low(d, b)
            BY Zenon DEF Nested
        <3>4. ASSUME NEW d \in Chain', u < d
              PROVE  d \in Chain /\ Low(d, b)' = Low(d, b) /\ saved'[d] = saved[d]
            <4>1. d \in Chain /\ d # c
                BY <3>1, <3>4, <1>4, <1>11, <1>15
            <4>2. d \in Waiting
                BY <4>1, <1>1, ChainFacts, Zenon
            <4> QED
                BY <4>1, <4>2, <1>7, Zenon
        <3>5. \A d : Over(u, d) => u < d
            BY Zenon DEF Over
        <3> QED
            BY <3>2, <3>3, <3>4, <3>5, <1>18, Zenon
    <2>4. ASSUME NEW b \in 0..1
          PROVE  /\ Floor(v, b)' >= Top(b)' - Depth(v)
                 /\ \A d \in Chain' : v < d => Low(d, b)' >= Floor(v, b)'
                 /\ \A d \in Chain' : Over(v, d)'
                      => lr'[v] = saved'[d].bank /\ Floor(v, b)' = Low(d, b)'
        <3>1. \A d \in Chain' : v < d => d \in Chain
            BY <1>4, <1>11
        <3>2. lr'[v] = saved'[c].bank /\ Floor(v, b)' = Low(c, b)'
            BY <1>5, <1>9, <1>14
        <3> QED
            BY <3>1, <3>2, <2>1, <2>2, <1>8, Zenon
    <2>5. \A u \in Active' : u \in Active \/ u = v
        BY <1>4, Zenon
    <2> QED
        BY <2>3, <2>4, <2>5, Zenon DEF Nested, Depth
<1>25. Frames'
    <2> SUFFICES ASSUME NEW d \in Live PROVE FrameOf(d, saved[d].base)'
        BY <1>4, Zenon DEF Frames
    <2>1. d # v /\ d \in Contexts
        BY <1>3, <1>11, Zenon
    <2>2. words'[d] = words[d] /\ (d \in Handlers => lr'[d] = lr[d])
        BY <2>1, <1>12, <1>13, Zenon
    <2>3. CASE d # c
        <3>1. d \in Waiting
            BY <2>3, <1>1, Zenon DEF Waiting
        <3> QED
            BY <3>1, <2>2, <1>2, <1>7, <1>10, FrameKept, Zenon
    <2>4. CASE d = c
        <3>1. saved'[d].base = base /\ saved'[d].sp = sp
            BY <2>4, <1>9
        <3>2. base \in base..(base + FRAME - 1) /\ base + PC \in base..(base + FRAME - 1)
              /\ base + XPSR \in base..(base + FRAME - 1)
            BY <1>3 DEF FRAME, PC, XPSR
        <3>3. /\ mem'[base].own = c /\ mem'[base + PC].pc = pc
              /\ mem'[base + XPSR].exc = exc /\ mem'[base + XPSR].align = sp % 2
            BY <3>2, <1>1, <1>3, <1>10, FrameWords
        <3> PICK to : to = pc
            BY Zenon
        <3>4. to = CODE \/ Returning(d, to)'
            <4>1. to = CODE \/ Returning(c, to)
                BY <1>1, Zenon DEF Shape
            <4> QED
                BY <4>1, <2>2, <2>4, <1>2, Zenon DEF Returning
        <3>5. exc = IF c \in Tasks THEN 0 ELSE c
            BY <1>1, ChainFacts, Zenon
        <3>6. UndoAlign(base + FRAME, sp % 2) = sp
            <4>1. base + FRAME = AlignedSp(sp)
                BY <1>1, <1>11, Aligned DEF FRAME
            <4> QED
                BY <4>1, <1>11, Aligned, Zenon
        <3>7. base \in (sp - FRAME - 1)..(sp - FRAME)
            BY <1>3, <1>11 DEF FRAME
        <3> QED
            BY <3>1, <3>3, <3>4, <3>5, <3>6, <3>7, <2>4, Zenon DEF FrameOf
    <2> QED
        BY <2>3, <2>4, Zenon
<1>26. Stored'
    <2> SUFFICES ASSUME NEW d \in Live', NEW b \in 0..1
                 PROVE  \A a \in Ptr(d, b)'..(Floor(d, b)' - 1) : mem'[a] = Plain(d, FRAME)
        BY Zenon DEF Stored
    <2>1. CASE d = v
        <3>1. Floor(d, b)' = Ptr(d, b)' /\ Ptr(d, b)' \in Int
            BY <2>1, <1>3, <1>5, <1>11, Parts, Zenon
        <3> QED
            BY <3>1
    <2>2. CASE d = c
        <3>1. Ptr(d, b)' = Ptr(c, b) /\ Floor(d, b)' = Floor(c, b)
            BY <2>2, <1>6, <1>11, Zenon
        <3>2. \A a \in Ptr(c, b)..(Floor(c, b) - 1) : mem[a] = Plain(c, FRAME)
            BY <1>11, Zenon DEF Stored
        <3> QED
            BY <3>1, <3>2, <2>2, <1>10, Zenon
    <2>3. CASE d # v /\ d # c
        <3>1. d \in Waiting /\ d \in Live /\ d \in Contexts
            BY <2>3, <1>1, <1>4, <1>11, Zenon DEF Waiting
        <3>2. Ptr(d, b)' = Ptr(d, b) /\ words'[d][b] = words[d][b] /\ Ptr(d, b) \in Int
            BY <3>1, <1>6, Parts, Zenon
        <3> QED
            BY <3>1, <3>2, <1>10, WordsKept, Zenon
    <2> QED
        BY <2>1, <2>2, <2>3, Zenon
<1> QED
    BY <1>16, <1>19, <1>21, <1>22, <1>23, <1>24, <1>25, <1>26, Zenon

-----------------------------------------------------------------------------
(* do_v7m_exception_exit finds the frame of the context that was           *)
(* interrupted: c is the next member of the chain.                         *)
LEMMA ExitPlace ==
    ASSUME SInv, Exit
    PROVE  \E c \in Chain, base \in Nat, to \in 0..2 :
             /\ Over(who, c) /\ c \in Waiting /\ who \in Active /\ who = exc
             /\ words[who][0] = 0 /\ words[who][1] = 0 /\ (who = KERNEL => phase = 0)
             /\ base = saved[c].base
             /\ sp' = saved[c].sp /\ current_sp' = saved[c].bank
             /\ other_sp' = Ptr(c, 1 - saved[c].bank)
             /\ who' = c /\ exc' = (IF c \in Tasks THEN 0 ELSE c)
             /\ pc' = to /\ (to = CODE \/ Returning(c, to))
             /\ mem' = [a \in Addresses |-> IF a \in base..(base + FRAME - 1)
                                            THEN Dead ELSE mem[a]]
             /\ saved' = [saved EXCEPT ![c] = NotSaved]
<1> USE DEF SInv
<1>1. pc # CODE /\ Returning(who, pc)
    BY Zenon DEF Exit, Shape
<1>2. /\ who \in Handlers /\ pc = lr[who] /\ words[who][0] = 0 /\ words[who][1] = 0
      /\ (who = KERNEL => phase = 0)
    BY <1>1, Zenon DEF Returning
<1>3. who \in Active /\ who = exc /\ who \in Contexts
    <2>1. who \notin Tasks
        BY <1>2, Nums, Zenon
    <2> QED
        BY <2>1, ChainFacts, Zenon DEF RightContext, Shape, Contexts
<1>4. PICK c \in Chain : Over(who, c)
    BY <1>3, Zenon DEF Shape
<1>5. c \in Waiting /\ c # who /\ c \in Contexts
    <2>1. who < c /\ who \in Nat
        BY <1>2, <1>4, Nums, Zenon DEF Over
    <2>2. c # who
        BY <2>1, IntOrder, IntSums, Zenon
    <2> QED
        BY <2>2, ChainFacts, Zenon
<1>6. \A b \in 0..1 : pc = saved[c].bank /\ Floor(who, b) = Low(c, b)
    BY <1>2, <1>3, <1>4, Zenon DEF Nested
<1>7. \A b \in 0..1 : Ptr(who, b) = Low(c, b) /\ Ptr(who, b) \in Int
    <2> SUFFICES ASSUME NEW b \in 0..1 PROVE Ptr(who, b) = Low(c, b) /\ Ptr(who, b) \in Int
        BY Zenon
    <2>1. words[who][b] = 0
        BY <1>2, Bits, Zenon
    <2>2. Ptr(who, b) \in Int
        BY <1>3, Parts, Zenon
    <2> QED
        BY <2>1, <2>2, <1>6 DEF Floor
<1>8. pc = saved[c].bank /\ pc \in 0..1 /\ 1 - pc \in 0..1 /\ current_sp \in 0..1
    <2>1. saved[c].bank \in 0..1 /\ current_sp \in 0..1
        BY <1>5, Parts, Zenon
    <2>2. pc = saved[c].bank
        BY <1>6, Bits, Zenon
    <2> QED
        BY <2>1, <2>2, Bits, Zenon
<1>9. Low(c, pc) = saved[c].base /\ Low(c, 1 - pc) = Ptr(c, 1 - pc)
    <2>1. pc # 1 - pc
        BY <1>8, Bits, Zenon
    <2> QED
        BY <2>1, <1>8, Zenon DEF Low
<1> DEFINE r == SwitchSp(sp, other_sp, current_sp, pc)
<1>10. r.sp = Ptr(who, pc) /\ r.other = Ptr(who, 1 - pc) /\ r.bank = pc
       /\ r = [sp |-> Ptr(who, pc), other |-> Ptr(who, 1 - pc), bank |-> pc]
    BY <1>8, Bits, Zenon DEF SwitchSp, Ptr
<1>11. PICK base \in Nat : base = saved[c].base
    BY <1>5, Parts, Zenon
<1>12. r.sp = base /\ r.other = Ptr(c, 1 - pc)
    BY <1>7, <1>8, <1>9, <1>10, <1>11, Zenon
<1>13. FrameOf(c, base)
    BY <1>5, <1>11, Zenon DEF Frames
<1> DEFINE xpsr == mem[r.sp + XPSR]
<1>14. /\ SetSp([r EXCEPT !.sp = UndoAlign(r.sp + FRAME, xpsr.align)])
       /\ exc' = xpsr.exc /\ who' = mem[r.sp].own /\ pc' = mem[r.sp + PC].pc
       /\ mem' = [a \in Addresses |-> IF a \in r.sp..(r.sp + FRAME - 1)
                                      THEN Dead ELSE mem[a]]
       /\ saved' = [saved EXCEPT ![who'] = NotSaved]
    BY Zenon DEF Exit
<1>15. /\ sp' = UndoAlign(r.sp + FRAME, xpsr.align) /\ other_sp' = r.other
       /\ current_sp' = r.bank
    BY <1>10, <1>14, Zenon DEF SetSp
<1> HIDE DEF r
<1>16. sp' = saved[c].sp /\ other_sp' = Ptr(c, 1 - saved[c].bank)
       /\ current_sp' = saved[c].bank
    BY <1>8, <1>10, <1>12, <1>13, <1>15, Zenon DEF FrameOf
<1>17. who' = c /\ exc' = (IF c \in Tasks THEN 0 ELSE c)
    BY <1>12, <1>13, <1>14, Zenon DEF FrameOf
<1>18. \E to \in 0..2 : pc' = to /\ (to = CODE \/ Returning(c, to))
    <2>1. pc' = CODE \/ Returning(c, pc')
        BY <1>12, <1>13, <1>14, Zenon DEF FrameOf
    <2>2. \A to : to = CODE \/ Returning(c, to) => to \in 0..2
        BY DEF CODE, Returning, TypeOK
    <2> QED
        BY <2>1, <2>2, Zenon
<1>19. mem' = [a \in Addresses |-> IF a \in base..(base + FRAME - 1) THEN Dead ELSE mem[a]]
       /\ saved' = [saved EXCEPT ![c] = NotSaved]
    BY <1>12, <1>14, <1>17, Zenon
<1> QED
    BY <1>2, <1>3, <1>4, <1>5, <1>11, <1>16, <1>17, <1>18, <1>19, Zenon

(* The frame that a return takes away is its own context's: c's words and  *)
(* everything further out stay.                                            *)
LEMMA ExitMem ==
    ASSUME SInv, NEW c \in Chain, c # who, NEW base, base = saved[c].base,
           mem' = [a \in Addresses |-> IF a \in base..(base + FRAME - 1)
                                       THEN Dead ELSE mem[a]]
    PROVE  /\ WritesUnder(c) /\ mem' \in [Addresses -> Word]
           /\ \A b \in 0..1 : \A a \in Ptr(c, b)..(Floor(c, b) - 1) : mem'[a] = mem[a]
<1> USE DEF SInv
<1>1. c \in Waiting /\ c \in Contexts /\ cur \in Tasks
    BY ChainFacts, Zenon
<1>2. PICK k \in 0..1 : k = saved[c].bank
    BY <1>1, Parts, Zenon
<1>3. /\ Top(k) - Room <= Low(c, k) /\ Low(c, k) <= Ptr(c, k)
      /\ Ptr(c, k) <= Floor(c, k) /\ Floor(c, k) <= Top(k)
      /\ Top(k) \in Nat /\ Low(c, k) \in Int /\ Ptr(c, k) \in Int /\ Floor(c, k) \in Int
    BY ChainPlace, Zenon
<1>4. /\ base = Low(c, k) /\ base <= Ptr(c, k) - FRAME
    BY <1>1, <1>2, SavedSp, Zenon DEF Low
<1>5. ASSUME NEW a \in base..(base + FRAME - 1)
      PROVE  a \in Region(Top(k)) /\ a < Ptr(c, k) /\ Under(c, a)
    <2>1. a \in Int /\ base <= a /\ a < Ptr(c, k)
        BY <1>3, <1>4 DEF FRAME
    <2>2. Top(k) - Room <= a /\ a < Top(k) /\ a < Floor(c, k)
        BY <2>1, <1>3, <1>4, DepthFacts
    <2>3. a \in Region(Top(k))
        BY <2>1, <2>2, <1>1, Tops, Zenon
    <2> QED
        BY <2>1, <2>2, <2>3, Zenon DEF Under
<1>6. WritesUnder(c)
    BY <1>5, Zenon DEF WritesUnder
<1>7. mem' \in [Addresses -> Word]
    <2>1. Dead \in Word
        BY PlainWord, Nums DEF Dead, FRAME, Contexts
    <2> QED
        BY <2>1, Zenon DEF TypeOK
<1>8. ASSUME NEW b \in 0..1, NEW a \in Ptr(c, b)..(Floor(c, b) - 1)
      PROVE  mem'[a] = mem[a]
    <2>1. /\ Top(b) - Room <= Ptr(c, b) /\ Floor(c, b) <= Top(b)
          /\ Ptr(c, b) \in Int /\ Floor(c, b) \in Int /\ Top(b) \in Nat
        <3>1. /\ Top(b) - Room <= Low(c, b) /\ Low(c, b) <= Ptr(c, b)
              /\ Floor(c, b) <= Top(b) /\ Low(c, b) \in Int
              /\ Ptr(c, b) \in Int /\ Floor(c, b) \in Int /\ Top(b) \in Nat
            BY ChainPlace, Zenon
        <3> QED
            BY <3>1, DepthFacts, IntOrder, IntSums, Zenon
    <2>2. a \in Int /\ Ptr(c, b) <= a /\ Top(b) - Room <= a /\ a < Top(b)
        BY <2>1, DepthFacts
    <2>3. a \in Region(Top(b)) /\ a \in Addresses
        BY <2>2, <1>1, Tops, Zenon
    <2>4. a \notin base..(base + FRAME - 1)
        <3> SUFFICES ASSUME a \in base..(base + FRAME - 1) PROVE FALSE
            BY Zenon
        <3>1. a \in Region(Top(k)) /\ a < Ptr(c, k)
            BY <1>5, Zenon
        <3>2. k = b
            BY <3>1, <2>3, <1>1, Tops, Zenon
        <3> QED
            BY <3>1, <3>2, <2>1, <2>2, IntOrder, Zenon
    <2> QED
        BY <2>3, <2>4, Zenon
<1> QED
    BY <1>6, <1>7, <1>8, Zenon

(* do_v7m_exception_exit takes the running handler off the chain: the      *)
(* context it had interrupted, or the task the kernel chose, runs.         *)
LEMMA ExitStep ==
    ASSUME SInv, Exit
    PROVE  SInv'
<1> USE DEF SInv
<1>0. PICK c \in Chain, base \in Nat, to \in 0..2 :
             /\ Over(who, c) /\ c \in Waiting /\ who \in Active /\ who = exc
             /\ words[who][0] = 0 /\ words[who][1] = 0 /\ (who = KERNEL => phase = 0)
             /\ base = saved[c].base
             /\ sp' = saved[c].sp /\ current_sp' = saved[c].bank
             /\ other_sp' = Ptr(c, 1 - saved[c].bank)
             /\ who' = c /\ exc' = (IF c \in Tasks THEN 0 ELSE c)
             /\ pc' = to /\ (to = CODE \/ Returning(c, to))
             /\ mem' = [a \in Addresses |-> IF a \in base..(base + FRAME - 1)
                                            THEN Dead ELSE mem[a]]
             /\ saved' = [saved EXCEPT ![c] = NotSaved]
    BY ExitPlace, Zenon
<1>1. PICK v : v = who
    BY Zenon
<1>2. /\ Over(v, c) /\ c \in Waiting /\ v \in Active /\ v = exc
      /\ words[v][0] = 0 /\ words[v][1] = 0 /\ (v = KERNEL => phase = 0)
      /\ base = saved[c].base
      /\ sp' = saved[c].sp /\ current_sp' = saved[c].bank
      /\ other_sp' = Ptr(c, 1 - saved[c].bank)
      /\ who' = c /\ exc' = (IF c \in Tasks THEN 0 ELSE c)
      /\ pc' = to /\ (to = CODE \/ Returning(c, to))
      /\ mem' = [a \in Addresses |-> IF a \in base..(base + FRAME - 1)
                                     THEN Dead ELSE mem[a]]
      /\ saved' = [saved EXCEPT ![c] = NotSaved]
    BY <1>0, <1>1, Zenon
<1>3. /\ lr' = [lr EXCEPT ![v] = CODE] /\ control' = control /\ cur' = cur
      /\ table' = table /\ phase' = phase /\ words' = words /\ mixed' = mixed
    BY <1>2, Zenon DEF Exit
<1>4. /\ c # v /\ c # who /\ c \in Contexts /\ c \in Live /\ v \in Handlers /\ v \notin Tasks
      /\ v # cur /\ cur \in Tasks /\ cur \in Chain /\ v \in Contexts /\ v \in Nat /\ c \in Nat
      /\ c # 0
    BY <1>1, <1>2, ChainFacts, Nums, Zenon DEF Contexts, Waiting
<1>5. /\ \A u \in Handlers : lr'[u] = IF u = v THEN CODE ELSE lr[u]
      /\ \A d \in Contexts : d # c => saved'[d] = saved[d]
    BY <1>2, <1>3, <1>4, Zenon DEF TypeOK
<1>6. Active' = Active \ {v}
    BY <1>5, Zenon DEF Active
<1>7. Chain' = Chain \ {v} /\ Live' = Live \ {v} /\ Waiting' = Waiting \ {c}
    BY <1>1, <1>2, <1>3, <1>4, <1>6, Zenon DEF Chain, Live, Waiting
<1>8. \A d \in Chain' : c <= d /\ d \in Nat /\ d \in Contexts /\ v < d
    <2>1. \A d \in Chain : v < d => c <= d
        BY <1>2, Zenon DEF Over
    <2>2. \A d \in Chain : d # v => v < d
        BY <1>1, ChainFacts, Zenon
    <2>3. \A d \in Chain : d \in Nat /\ d \in Contexts
        BY ChainFacts, Nums, Zenon
    <2> QED
        BY <2>1, <2>2, <2>3, <1>7, Zenon
<1>9. \A t, b : TaskPtr(t, b)' = TaskPtr(t, b)
    BY <1>3, Zenon DEF TaskPtr
<1>10. ASSUME NEW d \in Live', NEW b \in 0..1 PROVE Ptr(d, b)' = Ptr(d, b)
    <2>1. d \in Live /\ d # v /\ d \in Contexts
        BY <1>7, ChainFacts, Zenon
    <2>2. CASE d = c
        <3>1. saved[c].sp = Ptr(c, saved[c].bank) /\ saved[c].bank \in 0..1
            BY <1>2, <1>4, SavedSp, Parts, Zenon
        <3>2. b = saved[c].bank \/ b = 1 - saved[c].bank
            BY <3>1, Bits, Zenon
        <3> QED
            BY <3>1, <3>2, <2>2, <1>2, Zenon DEF Ptr
    <2>3. CASE d # c
        <3>1. who' = c /\ who = v /\ saved'[d] = saved[d] /\ TaskPtr(d, b)' = TaskPtr(d, b)
            BY <2>1, <2>3, <1>1, <1>2, <1>5, <1>9, Zenon
        <3> QED
            BY <3>1, <2>1, <2>3, Zenon DEF Ptr
    <2> QED
        BY <2>2, <2>3, Zenon
<1>11. \A d \in Live' : \A b \in 0..1 : Floor(d, b)' = Floor(d, b)
    BY <1>3, <1>10, Zenon DEF Floor
<1>12. \A d \in Waiting' : saved'[d] = saved[d] /\ \A b \in 0..1 : Low(d, b)' = Low(d, b)
    <2> SUFFICES ASSUME NEW d \in Waiting'
                 PROVE  saved'[d] = saved[d] /\ \A b \in 0..1 : Low(d, b)' = Low(d, b)
        BY Zenon
    <2>1. d \in Live' /\ d # c /\ d \in Contexts
        BY <1>7, ChainFacts, Zenon DEF Waiting
    <2>2. saved'[d] = saved[d]
        BY <2>1, <1>5, Zenon
    <2> QED
        BY <2>1, <2>2, <1>10, Zenon DEF Low
<1>13. /\ WritesUnder(c) /\ mem' \in [Addresses -> Word]
       /\ \A b \in 0..1 : \A a \in Ptr(c, b)..(Floor(c, b) - 1) : mem'[a] = mem[a]
    <2>1. /\ c # who /\ base = saved[c].base
          /\ mem' = [a \in Addresses |-> IF a \in base..(base + FRAME - 1)
                                         THEN Dead ELSE mem[a]]
        BY <1>2, <1>4, Zenon
    <2> QED
        BY <2>1, ExitMem
<1>14. \A u \in Active' : \A d \in Chain' : Over(u, d)' <=> Over(u, d)
    <2> SUFFICES ASSUME NEW u \in Active', NEW d \in Chain' PROVE Over(u, d)' <=> Over(u, d)
        BY Zenon
    <2>1. u \in Nat /\ v < u
        BY <1>8, Zenon DEF Chain
    <2> QED
        BY <2>1, <1>4, <1>7 DEF Over
<1>15. TypeOK'
    <2>1. sp' \in Nat /\ current_sp' \in 0..1
        BY <1>2, <1>4, Parts, Zenon
    <2>2. other_sp' \in Nat
        <3>1. PICK k \in 0..1 : k = 1 - saved[c].bank
            BY <1>4, Parts, Bits, Zenon
        <3>2. /\ Top(k) - Room <= Low(c, k) /\ Low(c, k) <= Ptr(c, k)
              /\ Top(k) \in Nat /\ Low(c, k) \in Int /\ Ptr(c, k) \in Int
            BY <1>4, ChainPlace, Zenon
        <3>3. Top(k) - Room >= 0
            BY <1>4, Tops, Zenon
        <3>4. Room \in Nat
            BY DepthFacts, Zenon
        <3>5. Ptr(c, k) \in Nat
            BY <3>2, <3>3, <3>4
        <3> QED
            BY <3>1, <3>5, <1>2, Zenon
    <2>3. exc' \in 0..MaxNest
        <3>1. c \notin Tasks => c \in Handlers
            BY <1>4, Zenon DEF Contexts
        <3>2. 0 \in 0..MaxNest /\ Handlers \subseteq 0..MaxNest
            BY Nums DEF Handlers
        <3> QED
            BY <3>1, <3>2, <1>2, Zenon
    <2>4. lr' \in [Handlers -> 0..2]
        <3>1. CODE \in 0..2 /\ lr \in [Handlers -> 0..2]
            BY DEF CODE, TypeOK
        <3> QED
            BY <3>1, <1>3, Zenon
    <2>5. saved' \in [Contexts -> [sp : Nat, other : Nat, bank : 0..1, base : Nat]]
        <3>1. NotSaved \in [sp : Nat, other : Nat, bank : 0..1, base : Nat]
            BY Bits, Zenon DEF NotSaved
        <3> QED
            BY <3>1, <1>2, Zenon DEF TypeOK
    <2> QED
        BY <2>1, <2>2, <2>3, <2>4, <2>5, <1>2, <1>3, <1>4, <1>13, Zenon DEF TypeOK
<1>16. Shape'
    <2>1. RightContext'
        <3>1. c \in Tasks => c = cur
            BY ChainFacts, Zenon DEF Chain
        <3> QED
            BY <3>1, <1>2, <1>3, <1>4, Zenon DEF RightContext
    <2>2. who' \in Chain' /\ \A d \in Chain' : who' <= d
        BY <1>2, <1>4, <1>7, <1>8, Zenon
    <2>3. \A u \in Active' : \E d \in Chain' : Over(u, d)'
        <3> SUFFICES ASSUME NEW u \in Active' PROVE \E d \in Chain' : Over(u, d)'
            BY Zenon
        <3>1. PICK d \in Chain : Over(u, d)
            BY <1>6, Zenon DEF Shape
        <3>2. u < d /\ v < u /\ u \in Nat
            BY <3>1, <1>8, Zenon DEF Over, Chain
        <3>3. d \in Chain'
            BY <3>2, <1>4, <1>7
        <3> QED
            BY <3>1, <3>3, <1>14, Zenon
    <2>4. phase' = 1 => KERNEL \in Active' /\ lr'[KERNEL] = 1
        <3> SUFFICES ASSUME phase' = 1 PROVE KERNEL \in Active' /\ lr'[KERNEL] = 1
            BY Zenon
        <3>1. phase = 1
            BY <1>3, Zenon
        <3>2. KERNEL \in Active /\ lr[KERNEL] = 1 /\ KERNEL \in Handlers
            BY <3>1, Nums, Zenon DEF Shape
        <3>3. v # KERNEL
            <4>1. phase # 0
                BY <3>1, Bits, Zenon
            <4> QED
                BY <4>1, <1>2, Zenon
        <3> QED
            BY <3>2, <3>3, <1>5, <1>6, Zenon
    <2>5. pc' # CODE => Returning(who, pc)'
        BY <1>2, <1>3, <1>4, <1>5, Zenon DEF Returning
    <2>6. \A u \in Handlers \ Active' : words'[u][0] = 0 /\ words'[u][1] = 0
        BY <1>2, <1>3, <1>6, Zenon DEF Shape
    <2> QED
        BY <2>1, <2>2, <2>3, <2>4, <2>5, <2>6, Zenon DEF Shape
<1>17. \A d \in Live' : BankOf(d)' = BankOf(d)
    <2> SUFFICES ASSUME NEW d \in Live' PROVE BankOf(d)' = BankOf(d)
        BY Zenon
    <2>1. d # v /\ d \in Contexts
        BY <1>7, ChainFacts, Zenon
    <2>2. CASE d = c
        BY <2>1, <2>2, <1>1, <1>2, <1>4, Zenon DEF BankOf
    <2>3. CASE d # c
        <3>1. who' = c /\ who = v /\ saved'[d] = saved[d]
            BY <2>1, <2>3, <1>1, <1>2, <1>5, Zenon
        <3> QED
            BY <3>1, <2>1, <2>3, Zenon DEF BankOf
    <2> QED
        BY <2>2, <2>3, Zenon
<1>18. Banks'
    <2>1. \A u \in Active' : words'[u][1 - BankOf(u)'] = 0
        BY <1>3, <1>6, <1>17, Zenon DEF Banks, Live
    <2>2. words'[SECOND][0] = 0 /\ BankOf(SECOND)' = 1
        BY <1>3, <1>17, Nums, Zenon DEF Banks, Live
    <2>3. ASSUME mixed' = 0
          PROVE  BankOf(cur)' = Spsel(control') /\ \A u \in Active' : BankOf(u)' = 0
        <3>1. BankOf(cur) = Spsel(control) /\ \A u \in Active : BankOf(u) = 0
            BY <2>3, <1>3, Zenon DEF Banks
        <3>2. \A u \in Active' : BankOf(u)' = 0
            BY <3>1, <1>6, <1>17, Zenon DEF Live
        <3>3. PICK d : d = cur
            BY Zenon
        <3>4. d \in Live'
            BY <3>3, <1>4, Zenon DEF Live
        <3>5. BankOf(d)' = Spsel(control) /\ d = cur'
            BY <3>1, <3>3, <3>4, <1>3, <1>17, Zenon
        <3> QED
            BY <3>2, <3>5, <1>3, Zenon
    <2> QED
        BY <2>1, <2>2, <2>3, Zenon DEF Banks
<1>19. Suspended'
    <2> SUFFICES ASSUME NEW t \in Tasks, t # cur \/ phase = 1
                 PROVE  saved'[t].bank = 1 /\ table'[t] = saved'[t].base
        BY <1>3, Zenon DEF Suspended
    <2>1. saved[t].bank = 1 /\ table[t] = saved[t].base
        BY Zenon DEF Suspended
    <2>2. t # c
        <3> SUFFICES ASSUME t = c PROVE FALSE
            BY Zenon
        <3>1. c = cur /\ phase = 1
            BY ChainFacts, Zenon DEF Chain
        <3>2. KERNEL \in Active /\ KERNEL # v
            <4>1. KERNEL \in Active
                BY <3>1, Zenon DEF Shape
            <4>2. phase # 0
                BY <3>1, Bits, Zenon
            <4> QED
                BY <4>1, <4>2, <1>2, Zenon
        <3>3. c <= KERNEL
            BY <3>2, <1>7, <1>8, Zenon DEF Chain
        <3> QED
            BY <3>3, Nums, IntOrder, IntSums, Zenon DEF KERNEL
    <2>3. t \in Contexts
        BY Zenon DEF Contexts
    <2> QED
        BY <2>1, <2>2, <2>3, <1>3, <1>5, Zenon
<1>20. TaskSp'
    <2>1. ASSUME exc' = 0, NEW b \in 0..1 PROVE Ptr(cur, b)' = TaskPtr(cur, b)'
        <3>1. c = cur
            BY <2>1, <1>2, <1>4, ChainFacts, Zenon DEF Chain
        <3>2. Ptr(c, b)' = Ptr(c, b) /\ Ptr(c, b) = TaskPtr(c, b)
            BY <3>1, <1>4, <1>7, <1>10, Zenon DEF Ptr
        <3> QED
            BY <3>1, <3>2, <1>3, <1>9, Zenon
    <2>2. ASSUME NEW t \in Tasks, t # c PROVE saved'[t].sp = TaskPtr(t, saved'[t].bank)
        <3>1. t # who /\ t \in Contexts
            BY <1>1, <1>4, Zenon DEF Contexts
        <3> QED
            BY <3>1, <2>2, <1>5, Zenon DEF TaskSp
    <2>3. \A t \in Tasks : t # who' => saved'[t].sp = TaskPtr(t, saved[t].bank)'
        BY <2>2, <1>2, <1>9, Zenon
    <2> QED
        BY <2>1, <2>3, Zenon DEF TaskSp
<1>21. Nested'
    <2> SUFFICES ASSUME NEW u \in Active', NEW b \in 0..1
                 PROVE  /\ Floor(u, b)' >= Top(b)' - Depth(u)
                        /\ \A d \in Chain' : u < d => Low(d, b)' >= Floor(u, b)'
                        /\ \A d \in Chain' : Over(u, d)'
                             => lr'[u] = saved'[d].bank /\ Floor(u, b)' = Low(d, b)'
        BY Zenon DEF Nested, Depth
    <2>1. u \in Active /\ u # v /\ u \in Live' /\ c <= u /\ u \in Nat /\ u \in Handlers
        BY <1>6, <1>8, ChainFacts, Zenon DEF Chain, Live
    <2>2. Floor(u, b)' = Floor(u, b) /\ Top(b)' = Top(b) /\ lr'[u] = lr[u]
        BY <2>1, <1>3, <1>5, <1>11, Zenon DEF Top
    <2>3. /\ Floor(u, b) >= Top(b) - Depth(u)
          /\ \A d \in Chain : u < d => Low(d, b) >= Floor(u, b)
          /\ \A d \in Chain : Over(u, d) => lr[u] = saved[d].bank /\ Floor(u, b) = Low(d, b)
        BY <2>1, Zenon DEF Nested
    <2>4. ASSUME NEW d \in Chain', u < d
          PROVE  d \in Chain /\ Low(d, b)' = Low(d, b) /\ saved'[d] = saved[d]
        <3>1. d \in Chain /\ d # c /\ d # v
            BY <2>1, <2>4, <1>4, <1>7, <1>8, IntOrder, IntSums, Zenon
        <3>2. d \in Waiting'
            BY <3>1, <1>1, <1>7, ChainFacts, Zenon
        <3> QED
            BY <3>1, <3>2, <1>12, Zenon
    <2>5. \A d : Over(u, d) => u < d
        BY Zenon DEF Over
    <2> QED
        BY <2>2, <2>3, <2>4, <2>5, <1>14, Zenon
<1>22. ASSUME NEW d \in Waiting' PROVE d \in Waiting /\ (d \in Chain => c < d) /\ d # v /\ d # c
       /\ d \in Contexts
    <2>1. d \in Waiting /\ d # c /\ d # v
        BY <1>1, <1>7, Zenon DEF Waiting
    <2>2. d \in Chain => c < d
        BY <2>1, <1>4, <1>7, <1>8, IntOrder, IntSums, Zenon
    <2> QED
        BY <2>1, <2>2, SavedSp, Zenon
<1>23. Frames'
    <2> SUFFICES ASSUME NEW d \in Waiting' PROVE FrameOf(d, saved[d].base)'
        BY Zenon DEF Frames
    <2> QED
        BY <1>3, <1>5, <1>12, <1>13, <1>22, FrameKeptFrom, Zenon
<1>24. Stored'
    <2> SUFFICES ASSUME NEW d \in Live', NEW b \in 0..1
                 PROVE  \A a \in Ptr(d, b)'..(Floor(d, b)' - 1) : mem'[a] = Plain(d, FRAME)
        BY Zenon DEF Stored
    <2>1. Ptr(d, b)' = Ptr(d, b) /\ Floor(d, b)' = Floor(d, b)
        BY <1>10, <1>11, Zenon
    <2>2. CASE d = c
        <3>1. \A a \in Ptr(c, b)..(Floor(c, b) - 1) : mem[a] = Plain(c, FRAME)
            BY <1>4, Zenon DEF Stored
        <3> QED
            BY <3>1, <2>1, <2>2, <1>13, Zenon
    <2>3. CASE d # c
        <3>1. d \in Waiting'
            BY <2>3, <1>2, Zenon DEF Waiting
        <3>2. d \in Waiting /\ (d \in Chain => c < d) /\ d \in Contexts
            BY <3>1, <1>22, Zenon
        <3>3. Ptr(d, b)' \in Int
            BY <3>2, <2>1, Parts, Zenon
        <3> QED
            BY <3>2, <3>3, <2>1, <1>3, <1>13, WordsKeptFrom, Zenon
    <2> QED
        BY <2>2, <2>3, Zenon
<1> QED
    BY <1>15, <1>16, <1>18, <1>19, <1>20, <1>21, <1>23, <1>24, Zenon

-----------------------------------------------------------------------------
(* At reset MAIN runs and SECOND waits with the frame its creator laid out. *)
LEMMA InitSInv == Init => SInv
<1> SUFFICES ASSUME Init PROVE SInv
    BY Zenon
<1>1. /\ sp = MspTop /\ other_sp = PspTop[MAIN] /\ current_sp = 0 /\ control = 0 /\ exc = 0
      /\ who = MAIN /\ pc = CODE /\ lr = [v \in Handlers |-> CODE] /\ cur = MAIN
      /\ table = [t \in Tasks |-> PspTop[t] - FRAME] /\ phase = 0 /\ mixed = 0
      /\ words = [c \in Contexts |-> [b \in 0..1 |-> 0]]
    BY Zenon DEF Init
<1>2. /\ MAIN \in Contexts /\ SECOND \in Contexts /\ \A t \in Tasks : t \in Contexts
    BY Nums, Zenon DEF Contexts
<1>3. PICK base : base = PspTop[SECOND] - FRAME
    BY Zenon
<1>4. /\ Room >= 9 /\ Room \in Nat /\ base \in Nat /\ PspTop[SECOND] \in Nat
      /\ PspTop[SECOND] - Room <= base /\ base + FRAME = PspTop[SECOND]
      /\ PspTop[MAIN] - FRAME \in Nat
    <2>1. Span <= Room /\ Room \in Nat /\ Span >= 9
        BY DepthFacts, Nums DEF Span, FRAME
    <2>2. PspTop[SECOND] \in Nat /\ PspTop[SECOND] - Room >= 0
          /\ PspTop[MAIN] \in Nat /\ PspTop[MAIN] - Room >= 0
        BY Nums, Layout, Zenon
    <2> QED
        BY <2>1, <2>2, <1>3, DepthFacts DEF FRAME
<1>5. /\ saved[SECOND].sp = PspTop[SECOND] /\ saved[SECOND].other = MspTop
      /\ saved[SECOND].bank = 1 /\ saved[SECOND].base = base
      /\ \A c \in Contexts : c # SECOND => saved[c] = NotSaved
      /\ saved \in [Contexts -> [sp : Nat, other : Nat, bank : 0..1, base : Nat]]
    <2>1. saved = [c \in Contexts |-> IF c = SECOND
                                      THEN [sp |-> PspTop[SECOND], other |-> MspTop,
                                            bank |-> 1, base |-> base]
                                      ELSE NotSaved]
        BY <1>3, Zenon DEF Init
    <2>2. [sp |-> PspTop[SECOND], other |-> MspTop, bank |-> 1, base |-> base]
             \in [sp : Nat, other : Nat, bank : 0..1, base : Nat]
        BY <1>4, Nums, Bits, Zenon
    <2>3. NotSaved \in [sp : Nat, other : Nat, bank : 0..1, base : Nat]
        BY Bits, Zenon DEF NotSaved
    <2>4. /\ saved[SECOND] = [sp |-> PspTop[SECOND], other |-> MspTop, bank |-> 1, base |-> base]
          /\ \A c \in Contexts : c # SECOND => saved[c] = NotSaved
          /\ saved \in [Contexts -> [sp : Nat, other : Nat, bank : 0..1, base : Nat]]
        BY <2>1, <2>2, <2>3, <1>2, Zenon
    <2>5. saved[SECOND] = [sp |-> PspTop[SECOND], other |-> MspTop, bank |-> 1, base |-> base]
            => /\ saved[SECOND].sp = PspTop[SECOND] /\ saved[SECOND].other = MspTop
               /\ saved[SECOND].bank = 1 /\ saved[SECOND].base = base
        OBVIOUS
    <2> QED
        BY <2>4, <2>5, Zenon
<1>6. mem = [a \in Addresses |-> IF a \in base..(base + FRAME - 1)
                                 THEN Plain(SECOND, a - base) ELSE Dead]
    <2>1. PspTop[SECOND] - 1 = base + FRAME - 1
        BY <1>4 DEF FRAME
    <2>2. mem = [a \in Addresses |-> IF a \in base..(PspTop[SECOND] - 1)
                                     THEN Plain(SECOND, a - base) ELSE Dead]
        BY <1>3, Zenon DEF Init
    <2> QED
        BY <2>1, <2>2, Zenon
<1>7. \A c \in Contexts : \A b \in 0..1 : words[c][b] = 0
    BY <1>1, Zenon
<1>8. TypeOK
    <2>1. mem \in [Addresses -> Word]
        <3>1. \A a \in base..(base + FRAME - 1) : a - base \in 0..FRAME
            BY <1>4 DEF FRAME
        <3>2. \A a \in base..(base + FRAME - 1) : Plain(SECOND, a - base) \in Word
            BY <3>1, <1>2, PlainWord, Zenon
        <3>3. Dead \in Word
            BY <1>2, PlainWord DEF Dead, FRAME
        <3> QED
            BY <3>2, <3>3, <1>6, Zenon
    <2>2. table \in [Tasks -> Nat]
        <3>1. \A t \in Tasks : PspTop[t] - FRAME \in Nat
            BY <1>3, <1>4, Zenon DEF Tasks
        <3> QED
            BY <3>1, <1>1, Zenon
    <2>3. lr \in [Handlers -> 0..2] /\ pc \in 0..2 /\ current_sp \in 0..1
        BY <1>1 DEF CODE
    <2>4. words \in [Contexts -> [0..1 -> 0..MaxWords]]
        BY <1>1, Nums
    <2>5. /\ sp \in Nat /\ other_sp \in Nat /\ control \in {0, 2} /\ exc \in 0..MaxNest
          /\ phase \in 0..1 /\ mixed \in 0..1
        <3>1. 0 \in {0, 2} /\ 0 \in 0..MaxNest /\ 0 \in 0..1
            BY Nums
        <3> QED
            BY <3>1, <1>1, Nums, Zenon
    <2>6. who \in Contexts /\ cur \in Tasks
        BY <1>1, <1>2, Nums, Zenon
    <2> QED
        BY <2>1, <2>2, <2>3, <2>4, <2>5, <2>6, <1>5, Zenon DEF TypeOK
<1>9. Active = {} /\ Chain = {MAIN} /\ Live = Tasks /\ Waiting = {SECOND}
    <2>1. Active = {}
        BY <1>1, Zenon DEF Active
    <2> QED
        BY <2>1, <1>1, Nums, Zenon DEF Chain, Live, Waiting, Tasks
<1>10. Shape
    BY <1>1, <1>2, <1>7, <1>9, Nums DEF Shape, RightContext, Contexts
<1>11. Banks
    <2>1. words[SECOND][0] = 0 /\ SECOND # MAIN /\ saved[SECOND].bank = 1
        BY <1>2, <1>5, <1>7, Nums, Bits, Zenon
    <2>2. BankOf(SECOND) = 1 /\ BankOf(cur) = 0
        BY <2>1, <1>1, Zenon DEF BankOf
    <2>3. Spsel(control) = 0
        BY <1>1 DEF Spsel
    <2> QED
        BY <2>1, <2>2, <2>3, <1>9, Zenon DEF Banks
<1>12. Suspended
    <2>1. \A t \in Tasks : t # cur \/ phase = 1 => t = SECOND
        BY <1>1, Bits, Zenon DEF Tasks
    <2>2. saved[SECOND].bank = 1 /\ table[SECOND] = saved[SECOND].base
        BY <1>1, <1>3, <1>5, Nums, Zenon
    <2> QED
        BY <2>1, <2>2, Zenon DEF Suspended
<1>13. TaskSp
    <2>1. TaskPtr(MAIN, 0) = MspTop /\ TaskPtr(MAIN, 1) = PspTop[MAIN]
          /\ TaskPtr(SECOND, 1) = PspTop[SECOND]
        BY <1>2, <1>7, Nums DEF TaskPtr
    <2>2. Ptr(MAIN, 0) = MspTop /\ Ptr(MAIN, 1) = PspTop[MAIN]
        BY <1>1, Bits, Zenon DEF Ptr
    <2>3. \A b \in 0..1 : Ptr(cur, b) = TaskPtr(cur, b)
        BY <2>1, <2>2, <1>1, Bits, Zenon
    <2>4. \A t \in Tasks : t # who => saved[t].sp = TaskPtr(t, saved[t].bank)
        <3>1. \A t \in Tasks : t # who => t = SECOND
            BY <1>1, Zenon DEF Tasks
        <3>2. saved[SECOND].sp = PspTop[SECOND] /\ saved[SECOND].bank = 1
            BY <1>5, Zenon
        <3> QED
            BY <3>1, <3>2, <2>1, Zenon
    <2> QED
        BY <2>3, <2>4, Zenon DEF TaskSp
<1>14. Nested
    BY <1>9, Zenon DEF Nested
<1>15. Frames
    <2> SUFFICES FrameOf(SECOND, base)
        BY <1>5, <1>9 DEF Frames
    <2>1. \A a \in base..(base + FRAME - 1) : a \in Addresses
        <3>1. \A a \in base..(base + FRAME - 1) : a \in Region(PspTop[SECOND])
            BY <1>4 DEF Region, FRAME
        <3> QED
            BY <3>1, Layout, Nums, Zenon
    <2>2. base \in base..(base + FRAME - 1) /\ base + PC \in base..(base + FRAME - 1)
          /\ base + XPSR \in base..(base + FRAME - 1)
        BY <1>4 DEF FRAME, PC, XPSR
    <2>3. \A a \in base..(base + FRAME - 1) : mem[a] = Plain(SECOND, a - base)
        BY <2>1, <1>6, Zenon
    <2>4. mem[base].own = SECOND /\ mem[base + PC].pc = CODE /\ mem[base + XPSR].exc = 0
          /\ mem[base + XPSR].align = 0
        <3>1. /\ mem[base] = Plain(SECOND, base - base)
              /\ mem[base + PC] = Plain(SECOND, (base + PC) - base)
              /\ mem[base + XPSR] = Plain(SECOND, (base + XPSR) - base)
            BY <2>2, <2>3, Zenon
        <3>2. \A n : /\ Plain(SECOND, n).own = SECOND /\ Plain(SECOND, n).pc = CODE
                     /\ Plain(SECOND, n).exc = 0 /\ Plain(SECOND, n).align = 0
            BY Zenon DEF Plain
        <3> QED
            BY <3>1, <3>2, Zenon
    <2>5. saved[SECOND].sp = base + FRAME /\ saved[SECOND].sp \in Nat
        BY <1>4, <1>5, Zenon
    <2>6. base \in (saved[SECOND].sp - FRAME - 1)..(saved[SECOND].sp - FRAME)
        BY <2>5, <1>4 DEF FRAME
    <2> QED
        BY <2>4, <2>5, <2>6, Nums, Bits, Zenon DEF FrameOf, UndoAlign
<1>16. Stored
    <2> SUFFICES ASSUME NEW d \in Live, NEW b \in 0..1,
                        NEW a \in Ptr(d, b)..(Floor(d, b) - 1)
                 PROVE  FALSE
        BY Zenon DEF Stored
    <2>1. d \in Contexts
        BY <1>2, <1>9, Zenon
    <2>2. Floor(d, b) = Ptr(d, b) + 0 /\ Ptr(d, b) \in Int
        BY <2>1, <1>7, <1>8, Parts, Zenon DEF Floor
    <2> QED
        BY <2>2
<1> QED
    BY <1>8, <1>10, <1>11, <1>12, <1>13, <1>14, <1>15, <1>16, Zenon DEF SInv

(* A step of another part of the machine *)
LEMMA StutterSInv ==
    ASSUME SInv, UNCHANGED vars
    PROVE  SInv'
<1>1. /\ sp' = sp /\ other_sp' = other_sp /\ current_sp' = current_sp
      /\ control' = control /\ exc' = exc /\ who' = who /\ pc' = pc /\ lr' = lr
      /\ mem' = mem /\ cur' = cur /\ table' = table /\ phase' = phase
      /\ words' = words /\ saved' = saved /\ mixed' = mixed
    BY Zenon DEF vars
<1>2. \A b \in 0..1 : Ptr(who, b)' = Ptr(who, b)
    BY <1>1, Zenon DEF Ptr
<1>3. /\ Nested' /\ Frames' /\ Stored' /\ TaskSp' /\ Active' = Active /\ Chain' = Chain
      /\ \A v, c : Over(v, c)' <=> Over(v, c)
    BY <1>1, <1>2, Still, Zenon
<1>4. TypeOK'
    BY <1>1, Zenon DEF SInv, TypeOK
<1>5. Shape'
    BY <1>1, <1>3, Zenon DEF SInv, Shape, RightContext, Returning
<1>6. Banks'
    BY <1>1, <1>3, Zenon DEF SInv, Banks, BankOf
<1>7. Suspended'
    BY <1>1, Zenon DEF SInv, Suspended
<1> QED
    BY <1>3, <1>4, <1>5, <1>6, <1>7, Zenon DEF SInv

(* The inductive step, one action at a time *)
LEMMA NextSInv == SInv /\ [Next]_vars => SInv'
<1> SUFFICES ASSUME SInv, [Next]_vars PROVE SInv'
    BY Zenon
<1>1. ASSUME NEW v \in Handlers, Enter(v) PROVE SInv'
    BY <1>1, EnterStep, Zenon
<1>2. CASE Exit
    BY <1>2, ExitStep, Zenon
<1>3. CASE Push
    BY <1>3, PushStep, Zenon
<1>4. CASE Pop
    BY <1>4, PopStep, Zenon
<1>5. CASE Branch
    BY <1>5, BranchStep, Zenon
<1>6. ASSUME NEW val \in {0, 2}, MsrControl(val) PROVE SInv'
    BY <1>6, MsrControlStep, Zenon
<1>7. CASE SavePsp
    BY <1>7, SavePspStep, Zenon
<1>8. ASSUME NEW t \in Tasks, LoadPsp(t) PROVE SInv'
    BY <1>8, LoadPspStep, Zenon
<1>9. CASE UNCHANGED vars
    BY <1>9, StutterSInv, Zenon
<1> QED
    BY <1>1, <1>2, <1>3, <1>4, <1>5, <1>6, <1>7, <1>8, <1>9, Zenon DEF Next

-----------------------------------------------------------------------------
(* do_interrupt_v7m, do_v7m_exception_exit and switch_v7m_sp keep the      *)
(* invariant: the chain of interrupted contexts, their pointers, their     *)
(* frames and their words, at any depth of nesting.                        *)
THEOREM StackInvariant == Spec => []SInv
<1> QED
    BY InitSInv, NextSInv, PTL DEF Spec

(* No stack pointer leaves its stack, and memory holds frames and words    *)
(* only: the region below each top is enough for MaxNest handlers.         *)
THEOREM StackTypes == Spec => []TypeOK
<1>1. SInv => TypeOK
    BY Zenon DEF SInv
<1> QED
    BY <1>1, StackInvariant, PTL

(* do_v7m_exception_exit: the registers popped are those of the handler    *)
(* that xPSR names, or of the task the kernel chose.                       *)
THEOREM RegistersOfContext == Spec => []RightContext
<1>1. SInv => RightContext
    BY Zenon DEF SInv, Shape
<1> QED
    BY <1>1, StackInvariant, PTL

(* switch_v7m_sp: while only threads write CONTROL, handlers run on the    *)
(* main stack and threads on the stack that CONTROL selects.               *)
THEOREM BankOfMode == Spec => []BankFollowsControl
<1>1. SInv => BankFollowsControl
    <2> SUFFICES ASSUME SInv, mixed = 0
                 PROVE  current_sp = IF exc = 0 THEN Spsel(control) ELSE 0
        BY Zenon DEF BankFollowsControl
    <2>1. BankOf(who) = current_sp
        BY Zenon DEF BankOf
    <2>2. exc = 0 => who = cur
        BY ChainFacts, Zenon DEF SInv
    <2>3. exc # 0 => who \in Active
        BY ChainFacts, Zenon DEF SInv
    <2> QED
        BY <2>1, <2>2, <2>3, Zenon DEF SInv, Banks
<1> QED
    BY <1>1, StackInvariant, PTL

(* No frame, push, pop or exchange of tasks overwrites a word that another *)
(* context has pushed.                                                     *)
THEOREM WordsStay == Spec => []WordsIntact
<1>1. SInv => WordsIntact
    <2> SUFFICES ASSUME SInv, NEW c \in Contexts, NEW a \in Pushed(c)
                 PROVE  mem[a] = Plain(c, FRAME)
        BY Zenon DEF WordsIntact
    <2>1. CASE c = who
        <3>1. a \in sp..(sp + words[who][current_sp] - 1)
            BY <2>1, Zenon DEF Pushed
        <3> QED
            BY <3>1, <2>1, OwnWords, Zenon
    <2>2. CASE c # who /\ c \in Live
        <3>1. c \in Waiting
            BY <2>2, Zenon DEF Waiting
        <3>2. PICK b \in 0..1 : b = saved[c].bank
            BY Parts, Zenon DEF SInv
        <3>3. a \in Ptr(c, b)..(Floor(c, b) - 1)
            <4>1. saved[c].sp = Ptr(c, b)
                BY <3>1, <3>2, SavedSp, Zenon
            <4>2. a \in saved[c].sp..(saved[c].sp + words[c][b] - 1)
                BY <3>2, <2>2, Zenon DEF Pushed
            <4>3. PICK p \in Nat, n \in Nat : p = saved[c].sp /\ n = words[c][b]
                BY Parts, Zenon DEF SInv
            <4>4. Ptr(c, b) = p /\ Floor(c, b) = p + n /\ a \in p..(p + n - 1)
                BY <4>1, <4>2, <4>3, Zenon DEF Floor
            <4> QED
                BY <4>4
        <3> QED
            BY <3>3, <2>2, Zenon DEF SInv, Stored
    <2>3. CASE c # who /\ c \notin Live
        <3>1. c \in Handlers \ Active
            BY <2>3, Zenon DEF Live, Contexts
        <3>2. saved[c].bank \in 0..1 /\ saved[c].sp \in Nat
            BY Parts, Zenon DEF SInv
        <3>3. words[c][saved[c].bank] = 0
            BY <3>1, <3>2, Bits, Zenon DEF SInv, Shape
        <3>4. a \in saved[c].sp..(saved[c].sp + 0 - 1)
            BY <3>3, <2>3, Zenon DEF Pushed
        <3> QED
            BY <3>2, <3>4
    <2> QED
        BY <2>1, <2>2, <2>3, Zenon
<1> QED
    BY <1>1, StackInvariant, PTL

(* do_v7m_exception_exit: whatever was nested, aligned or exchanged since, *)
(* the context that resumes gets the stack pointers and the bank it was    *)
(* interrupted with.                                                       *)
THEOREM ReturnGivesBack == Spec => ReturnRestores
<1>1. SInv /\ [Next]_vars =>
        [Exit => /\ sp' = saved[who'].sp
                 /\ current_sp' = saved[who'].bank
                 /\ who' \in Handlers => other_sp' = saved[who'].other]_vars
    <2> SUFFICES ASSUME SInv, Exit
                 PROVE  /\ sp' = saved[who'].sp
                        /\ current_sp' = saved[who'].bank
                        /\ who' \in Handlers => other_sp' = saved[who'].other
        BY Zenon
    <2>1. PICK c \in Chain : /\ c \in Waiting /\ who' = c
                             /\ sp' = saved[c].sp /\ current_sp' = saved[c].bank
                             /\ other_sp' = Ptr(c, 1 - saved[c].bank)
        BY ExitPlace, Zenon
    <2>2. ASSUME c \in Handlers PROVE Ptr(c, 1 - saved[c].bank) = saved[c].other
        <3>1. c # who /\ c \in Contexts /\ c \notin Tasks
            BY <2>1, <2>2, SavedSp, Nums, Zenon
        <3>2. saved[c].bank \in 0..1
            BY <3>1, Parts, Zenon DEF SInv
        <3>3. saved[c].bank # 1 - saved[c].bank
            BY <3>2, Bits, Zenon
        <3> QED
            BY <3>1, <3>3, Zenon DEF Ptr
    <2> QED
        BY <2>1, <2>2, Zenon
<1> QED
    BY <1>1, StackInvariant, PTL DEF Spec, ReturnRestores
=============================================================================

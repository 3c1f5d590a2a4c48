-------------------------- MODULE QemuTimersProofs --------------------------
(***************************************************************************)
(* Proofs that the lists of timers stay sorted, that the alarm covers the  *)
(* nearest deadline, and that no timer waits longer than Prompt says, for  *)
(* any timers, delays and bounds.                                          *)
(***************************************************************************)
EXTENDS QemuTimers, SequenceTheorems, WellFoundedInduction, TLAPS

(* The order of the integers *)
LEMMA IntOrder ==
    /\ \A x, y, z \in Int : x <= y /\ y <= z => x <= z
    /\ \A x, y, z \in Int : x < y /\ y <= z => x < z
    /\ \A x, y, z \in Int : x <= y /\ y < z => x < z
    /\ \A x, y \in Int : x <= y <=> x < y \/ x = y
    /\ \A x, y \in Int : x < y <=> ~(y <= x)
    /\ \A x \in Int : x <= x /\ ~(x < x)
    /\ \A x, y, z \in Int : x >= y /\ y >= z => x >= z
    /\ \A x, y \in Int : x >= y <=> y <= x
    /\ \A x, y \in Int : x > y <=> y < x
OBVIOUS

(* Sums and differences are integers, and two of them differ. *)
LEMMA IntSums ==
    /\ \A x \in Nat : x \in Int
    /\ \A x, y \in Int : x + y \in Int /\ x - y \in Int
    /\ \A x, y \in Nat : x + y \in Nat
    /\ 0 \in Nat /\ 1 \in Nat /\ 0 # 1
OBVIOUS

(* Every set of natural numbers but the empty one has a least element. *)
LEMMA LeastNatural ==
    ASSUME NEW T \in SUBSET Nat, T # {}
    PROVE  \E x \in T : \A y \in T : x <= y
<1> DEFINE R == {ss \in Nat \X Nat : ss[1] < ss[2]}
<1>1. IsWellFoundedOn(R, Nat)
      BY NatLessThanWellFounded, Zenon DEF OpToRel
<1>2. PICK x \in T : \A y \in T : ~(<<y, x>> \in R)
  <2> HIDE DEF R
  <2> QED BY <1>1, WFMin, Zenon
<1>3. \A y \in T : ~(y < x)
      BY <1>2, Zenon
<1> QED BY <1>3, IntOrder, IntSums, Zenon

(* The elements of a concatenation. *)
LEMMA Concatenated ==
    ASSUME NEW S, NEW a \in Seq(S), NEW b \in Seq(S)
    PROVE  /\ a \o b \in Seq(S) /\ Len(a \o b) = Len(a) + Len(b)
           /\ \A i \in 1..(Len(a) + Len(b)) :
                 (a \o b)[i] = IF i <= Len(a) THEN a[i] ELSE b[i - Len(a)]
BY ConcatProperties, Zenon

(* qemu_del_timer: w is q without its element at p, if there is one. *)
Unlinks(S, q, p, w) ==
    /\ w \in Seq(S)
    /\ Len(w) = IF p > Len(q) THEN Len(q) ELSE Len(q) - 1
    /\ \A i \in DOMAIN w : w[i] = IF i < p THEN q[i] ELSE q[i + 1]

(* What is left of a list without repetitions. *)
LEMMA Unlinked ==
    ASSUME NEW S, NEW q \in Seq(S), NEW t,
           \A i, j \in DOMAIN q : i < j => q[i] # q[j]
    PROVE  /\ \E p \in 1..(Len(q) + 1) : Unlinks(S, q, p, Without(q, t))
           /\ \A i \in DOMAIN Without(q, t) : Without(q, t)[i] # t
<1>1. CASE ~\E p \in DOMAIN q : q[p] = t
  <2>1. Without(q, t) = q
        BY <1>1, Zenon DEF Without
  <2>2. Len(q) + 1 \in 1..(Len(q) + 1) /\ Unlinks(S, q, Len(q) + 1, q)
        BY DEF Unlinks
  <2> QED BY <1>1, <2>1, <2>2, Zenon
<1>2. CASE \E p \in DOMAIN q : q[p] = t
  <2> DEFINE p == CHOOSE i \in DOMAIN q : q[i] = t
             a == SubSeq(q, 1, p - 1)
             b == SubSeq(q, p + 1, Len(q))
  <2>1. p \in DOMAIN q /\ q[p] = t
        BY <1>2, Zenon
  <2>2. Without(q, t) = a \o b
        BY <1>2, Zenon DEF Without
  <2> HIDE DEF p
  <2>3. p \in 1..Len(q) /\ Len(q) \in Nat
        BY <2>1
  <2>4. /\ a \in Seq(S) /\ Len(a) = p - 1
        /\ \A i \in 1..(p - 1) : a[i] = q[i]
        BY <2>3
  <2>5. /\ b \in Seq(S) /\ Len(b) = Len(q) - p
        /\ \A i \in 1..(Len(q) - p) : b[i] = q[i + p]
        BY <2>3
  <2> HIDE DEF a, b
  <2>6. /\ a \o b \in Seq(S) /\ Len(a \o b) = Len(q) - 1
        /\ \A i \in 1..(Len(q) - 1) : (a \o b)[i] = IF i < p THEN q[i] ELSE q[i + 1]
    <3>1. /\ a \o b \in Seq(S) /\ Len(a \o b) = Len(q) - 1
          /\ \A i \in 1..(Len(q) - 1) :
                (a \o b)[i] = IF i <= Len(a) THEN a[i] ELSE b[i - Len(a)]
      <4>1. Len(a) + Len(b) = Len(q) - 1
            BY <2>3, <2>4, <2>5
      <4>2. /\ a \o b \in Seq(S) /\ Len(a \o b) = Len(a) + Len(b)
            /\ \A i \in 1..(Len(a) + Len(b)) :
                  (a \o b)[i] = IF i <= Len(a) THEN a[i] ELSE b[i - Len(a)]
        <5>1. a \in Seq(S) /\ b \in Seq(S)
              BY <2>4, <2>5, Zenon
        <5> QED BY <5>1, Concatenated, Zenon
      <4> QED BY <4>1, <4>2, Zenon
    <3>2. ASSUME NEW i \in 1..(Len(q) - 1)
          PROVE  (a \o b)[i] = IF i < p THEN q[i] ELSE q[i + 1]
      <4>1. CASE i < p
            BY <2>3, <2>4, <3>1, <4>1
      <4>2. CASE ~(i < p)
        <5>1. i - Len(a) \in 1..(Len(q) - p) /\ i - Len(a) + p = i + 1
              BY <2>3, <2>4, <4>2
        <5> QED BY <2>3, <2>4, <2>5, <3>1, <4>2, <5>1
      <4> QED BY <4>1, <4>2, Zenon
    <3> QED BY <3>1, <3>2, Zenon
  <2>7. ASSUME NEW i \in 1..(Len(q) - 1) PROVE (a \o b)[i] # t
    <3>1. CASE i < p
      <4>1. i \in DOMAIN q
            BY <2>3, <3>1
      <4> QED BY <2>1, <2>6, <3>1, <4>1, Zenon
    <3>2. CASE ~(i < p)
      <4>1. i + 1 \in DOMAIN q /\ p < i + 1
            BY <2>3, <3>2
      <4> QED BY <2>1, <2>6, <3>2, <4>1, Zenon
    <3> QED BY <3>1, <3>2, Zenon
  <2>8. p \in 1..(Len(q) + 1) /\ DOMAIN (a \o b) = 1..(Len(q) - 1)
        BY <2>3, <2>6
  <2>9. Unlinks(S, q, p, a \o b)
    <3>1. ~(p > Len(q))
          BY <2>3
    <3> QED BY <2>6, <2>8, <3>1, Zenon DEF Unlinks
  <2>10. \A i \in DOMAIN (a \o b) : (a \o b)[i] # t
        BY <2>7, <2>8, Zenon
  <2> QED BY <2>2, <2>8, <2>9, <2>10, Zenon
<1> QED BY <1>1, <1>2, Zenon

(* qemu_mod_timer_ns: the list with t behind its first k timers. *)
Inserted(q, k, t) == SubSeq(q, 1, k) \o <<t>> \o SubSeq(q, k + 1, Len(q))

(* Its length and its elements. *)
LEMMA InsertedFacts ==
    ASSUME NEW q \in Seq(Timers), NEW t \in Timers, NEW k \in 0..Len(q)
    PROVE  /\ Inserted(q, k, t) \in Seq(Timers) /\ Len(Inserted(q, k, t)) = Len(q) + 1
           /\ \A i \in 1..(Len(q) + 1) :
                 Inserted(q, k, t)[i] = IF i <= k THEN q[i]
                                        ELSE IF i = k + 1 THEN t ELSE q[i - 1]
<1> DEFINE a == SubSeq(q, 1, k)
           b == SubSeq(q, k + 1, Len(q))
<1>0. Len(q) \in Nat /\ k \in Nat /\ k <= Len(q)
      OBVIOUS
<1>1. a \in Seq(Timers) /\ Len(a) = k /\ \A i \in 1..k : a[i] = q[i]
      BY <1>0
<1>2. /\ b \in Seq(Timers) /\ Len(b) = Len(q) - k
      /\ \A i \in 1..(Len(q) - k) : b[i] = q[i + k]
      BY <1>0
<1>3. Inserted(q, k, t) = a \o <<t>> \o b
      BY Zenon DEF Inserted
<1> HIDE DEF a, b
<1> DEFINE u == <<t>>
           c == a \o u
<1>4. u \in Seq(Timers) /\ Len(u) = 1 /\ u[1] = t
      OBVIOUS
<1> HIDE DEF u
<1>5. /\ c \in Seq(Timers) /\ Len(c) = k + 1
      /\ \A i \in 1..(k + 1) : c[i] = IF i <= k THEN a[i] ELSE u[i - k]
  <2>1. /\ a \o u \in Seq(Timers) /\ Len(a \o u) = Len(a) + Len(u)
        /\ \A i \in 1..(Len(a) + Len(u)) :
              (a \o u)[i] = IF i <= Len(a) THEN a[i] ELSE u[i - Len(a)]
        BY <1>1, <1>4, ConcatProperties, Zenon
  <2> QED BY <1>1, <1>4, <2>1, Zenon
<1> HIDE DEF c
<1>6. /\ c \o b \in Seq(Timers) /\ Len(c \o b) = Len(c) + Len(b)
      /\ \A i \in 1..(Len(c) + Len(b)) :
            (c \o b)[i] = IF i <= Len(c) THEN c[i] ELSE b[i - Len(c)]
      BY <1>2, <1>5, ConcatProperties, Zenon
<1>7. Len(c) + Len(b) = Len(q) + 1
      BY <1>0, <1>2, <1>5
<1>8. ASSUME NEW i \in 1..(Len(q) + 1)
      PROVE  (c \o b)[i] = IF i <= k THEN q[i] ELSE IF i = k + 1 THEN t ELSE q[i - 1]
  <2>1. (c \o b)[i] = IF i <= k + 1 THEN c[i] ELSE b[i - (k + 1)]
        BY <1>5, <1>6, <1>7, Zenon
  <2>2. CASE i <= k
        BY <1>0, <1>1, <1>5, <2>1, <2>2
  <2>3. CASE i = k + 1
    <3>1. i - k = 1 /\ ~(i <= k) /\ i <= k + 1 /\ i \in 1..(k + 1)
          BY <1>0, <2>3
    <3> QED BY <1>4, <1>5, <2>1, <2>3, <3>1, Zenon
  <2>4. CASE i > k + 1
    <3>1. /\ ~(i <= k) /\ ~(i <= k + 1) /\ i # k + 1
          /\ i - (k + 1) \in 1..(Len(q) - k) /\ i - (k + 1) + k = i - 1
          BY <1>0, <2>4
    <3>2. b[i - (k + 1)] = q[i - (k + 1) + k]
          BY <1>2, <3>1, Zenon
    <3>3. (c \o b)[i] = b[i - (k + 1)]
          BY <2>1, <3>1, Zenon
    <3>4. q[i - (k + 1) + k] = q[i - 1]
          BY <3>1, Zenon
    <3> QED BY <3>1, <3>2, <3>3, <3>4, Zenon
  <2>5. i <= k \/ i = k + 1 \/ i > k + 1
        BY <1>0
  <2> QED BY <2>2, <2>3, <2>4, <2>5, Zenon
<1>9. Inserted(q, k, t) = c \o b
      BY <1>3, Zenon DEF c, u
<1> QED BY <1>6, <1>7, <1>8, <1>9, Zenon

-----------------------------------------------------------------------------
(* What Sorted says of the list q of clock c. *)
Ordered(c, q, exp) ==
    /\ q \in Seq(Timers)
    /\ \A i \in DOMAIN q : ClockOf(q[i]) = c
    /\ \A i, j \in DOMAIN q : i < j => q[i] # q[j] /\ exp[q[i]] <= exp[q[j]]

(* Unlinking a timer keeps the order and does not bring the head forward.  *)
LEMMA WithoutOrdered ==
    ASSUME NEW c, NEW q, NEW exp \in [Timers -> Int], Ordered(c, q, exp), NEW t
    PROVE  LET w == Without(q, t)
           IN  /\ Ordered(c, w, exp)
               /\ \A i \in DOMAIN w : w[i] # t
               /\ w # <<>> => q # <<>> /\ exp[q[1]] <= exp[w[1]]
<1> DEFINE w == Without(q, t)
<1>1. q \in Seq(Timers) /\ Len(q) \in Nat /\ DOMAIN q = 1..Len(q)
      BY DEF Ordered
<1>2. /\ \E p \in 1..(Len(q) + 1) : Unlinks(Timers, q, p, w)
      /\ \A i \in DOMAIN w : w[i] # t
  <2>1. \A i, j \in DOMAIN q : i < j => q[i] # q[j]
        BY Zenon DEF Ordered
  <2> QED BY <1>1, <2>1, Unlinked, Zenon
<1> HIDE DEF w
<1>3. PICK p \in 1..(Len(q) + 1) : Unlinks(Timers, q, p, w)
      BY <1>2, Zenon
<1>10. w \in Seq(Timers) /\ DOMAIN w = 1..Len(w) /\ Len(w) \in Nat
      BY <1>3 DEF Unlinks
<1> DEFINE m(i) == IF i < p THEN i ELSE i + 1
<1>4. \A i \in DOMAIN w : m(i) \in DOMAIN q /\ w[i] = q[m(i)] /\ i <= m(i)
  <2> TAKE i \in DOMAIN w
  <2>1. i \in Nat /\ i >= 1 /\ i <= Len(w)
        BY <1>10
  <2>2. m(i) \in 1..Len(q) /\ i <= m(i)
    <3>1. CASE p > Len(q)
      <4>1. Len(w) = Len(q)
            BY <1>3, <3>1, Zenon DEF Unlinks
      <4> QED BY <1>1, <2>1, <3>1, <4>1
    <3>2. CASE ~(p > Len(q))
      <4>1. Len(w) = Len(q) - 1
            BY <1>3, <3>2, Zenon DEF Unlinks
      <4> QED BY <1>1, <2>1, <4>1
    <3> QED BY <3>1, <3>2, Zenon
  <2>3. w[i] = q[m(i)]
        BY <1>3, Zenon DEF Unlinks
  <2> QED BY <1>1, <2>2, <2>3, Zenon
<1>5. \A i, j \in DOMAIN w : i < j => m(i) < m(j)
      BY <1>10
<1> HIDE DEF m
<1>6. Ordered(c, w, exp)
      BY <1>4, <1>5, <1>10 DEF Ordered
<1>7. ASSUME w # <<>> PROVE q # <<>> /\ exp[q[1]] <= exp[w[1]]
  <2>1. 1 \in DOMAIN w
        BY <1>7, <1>10
  <2>2. m(1) \in DOMAIN q /\ w[1] = q[m(1)] /\ m(1) \in Nat /\ 1 <= m(1) /\ 1 \in DOMAIN q
        BY <1>1, <1>4, <2>1
  <2>3. q # <<>> /\ exp[q[1]] \in Int
        BY <1>1, <2>2
  <2>4. CASE m(1) = 1
        BY <2>2, <2>3, <2>4, IntOrder, Zenon
  <2>5. CASE m(1) # 1
    <3>1. 1 < m(1)
          BY <2>2, <2>5, IntOrder, IntSums, Zenon
    <3> QED BY <2>2, <2>3, <3>1, Zenon DEF Ordered
  <2> QED BY <2>4, <2>5, Zenon
<1> QED BY <1>2, <1>6, <1>7, Zenon DEF w

(* The loop of qemu_mod_timer_ns finds its place in every list. *)
LEMMA InsertPointFacts ==
    ASSUME NEW q \in Seq(Timers), expire \in [Timers -> Int], NEW e \in Int
    PROVE  LET k == InsertPoint(q, e)
           IN  /\ k \in 0..Len(q)
               /\ \A i \in 1..k : expire[q[i]] <= e
               /\ k = Len(q) \/ expire[q[k + 1]] > e
<1> DEFINE Later == {n \in 0..Len(q) : n = Len(q) \/ expire[q[n + 1]] > e}
<1>0. Len(q) \in Nat
      OBVIOUS
<1>1. Later \in SUBSET Nat /\ Len(q) \in Later
      BY <1>0
<1>2. PICK k \in Later : \A n \in Later : k <= n
  <2> HIDE DEF Later
  <2> QED BY <1>1, LeastNatural, Zenon
<1>3. k \in 0..Len(q) /\ (k = Len(q) \/ expire[q[k + 1]] > e)
      BY Zenon
<1>4. ASSUME NEW i \in 1..k PROVE expire[q[i]] <= e
  <2>1. i - 1 \in 0..Len(q) /\ i - 1 < k /\ i - 1 # Len(q) /\ i - 1 + 1 = i
        /\ i \in 1..Len(q)
        BY <1>0, <1>3
  <2>2. i - 1 \notin Later
    <3>1. k \in Nat /\ i - 1 \in Nat /\ ~(k <= i - 1)
          BY <1>0, <1>3, <2>1
    <3> HIDE DEF Later
    <3> QED BY <1>2, <3>1, Zenon
  <2>3. ~(expire[q[i]] > e)
        BY <2>1, <2>2, Zenon
  <2>4. expire[q[i]] \in Int
        BY <2>1
  <2> QED BY <2>3, <2>4, IntOrder, Zenon
<1> DEFINE P(n) == /\ \A i \in 1..n : expire[q[i]] <= e
                   /\ n = Len(q) \/ expire[q[n + 1]] > e
<1>6. InsertPoint(q, e) = CHOOSE n \in 0..Len(q) : P(n)
      BY Zenon DEF InsertPoint
<1>7. k \in 0..Len(q) /\ P(k)
      BY <1>3, <1>4, Zenon
<1> HIDE DEF P
<1>8. InsertPoint(q, e) \in 0..Len(q) /\ P(InsertPoint(q, e))
      BY <1>6, <1>7, Zenon
<1> QED BY <1>8, Zenon DEF P

(* The list q of clock c with t inserted behind its first k timers.        *)
(* Behind the head, that leaves the head alone.                            *)
InsertedWell(c, q, t, e, k) ==
    /\ Ordered(c, Inserted(q, k, t), [expire EXCEPT ![t] = e])
    /\ Inserted(q, k, t)[1] = IF k = 0 THEN t ELSE q[1]
    /\ k # 0 => q # <<>>

(* Where the places i < j of a list of n + 1 elements are in the list of n *)
(* elements without the one at k + 1.                                      *)
Places(n, k, i, j) ==
    /\ j <= k => i \in 1..n /\ j \in 1..n /\ i <= k
    /\ j = k + 1 => i \in 1..n /\ i \in 1..k /\ i <= k /\ ~(j <= k)
    /\ j > k + 1 => j - 1 \in 1..n /\ j - 1 > k /\ ~(j <= k) /\ j # k + 1
    /\ j > k + 1 /\ i <= k => i \in 1..n /\ i < j - 1
    /\ j > k + 1 /\ i = k + 1 => ~(i <= k)
    /\ j > k + 1 /\ i > k + 1 =>
         /\ i - 1 \in 1..n /\ i - 1 < j - 1 /\ ~(i <= k) /\ i # k + 1

(* Places holds wherever i, j and k are. *)
LEMMA PlacesAround ==
    \A n, k, i, j \in Nat :
       1 <= i /\ i < j /\ j <= n + 1 /\ k <= n => Places(n, k, i, j)
BY DEF Places

(* Where the place i of such a list is. *)
LEMMA PlaceAround ==
    \A n, k, i \in Nat : 1 <= i /\ i <= n + 1 /\ k <= n =>
       /\ i \in 1..(n + 1)
       /\ i <= k => i \in 1..n
       /\ i = k + 1 => ~(i <= k)
       /\ i > k + 1 => i - 1 \in 1..n /\ ~(i <= k) /\ i # k + 1
OBVIOUS

(* Inserting a timer that is not in the list keeps the order. *)
LEMMA InsertOrderedAt ==
    ASSUME NEW c, NEW q, expire \in [Timers -> Int], Ordered(c, q, expire),
           NEW t \in Timers, ClockOf(t) = c, \A i \in DOMAIN q : q[i] # t,
           NEW e \in Int, NEW k, k = InsertPoint(q, e)
    PROVE  InsertedWell(c, q, t, e, k)
<1> DEFINE s == Inserted(q, k, t)
           exp == [expire EXCEPT ![t] = e]
<1>1. q \in Seq(Timers) /\ Len(q) \in Nat /\ DOMAIN q = 1..Len(q)
      BY DEF Ordered
<1>2. /\ k \in 0..Len(q)
      /\ \A i \in 1..k : expire[q[i]] <= e
      /\ k = Len(q) \/ expire[q[k + 1]] > e
      BY <1>1, InsertPointFacts, Zenon
<1>3. /\ s \in Seq(Timers) /\ Len(s) = Len(q) + 1
      /\ \A i \in 1..(Len(q) + 1) :
            s[i] = IF i <= k THEN q[i] ELSE IF i = k + 1 THEN t ELSE q[i - 1]
  <2>1. k \in 0..Len(q) /\ q \in Seq(Timers) /\ t \in Timers
        BY <1>1, <1>2, Zenon
  <2>2. /\ Inserted(q, k, t) \in Seq(Timers) /\ Len(Inserted(q, k, t)) = Len(q) + 1
        /\ \A i \in 1..(Len(q) + 1) :
              Inserted(q, k, t)[i] = IF i <= k THEN q[i]
                                     ELSE IF i = k + 1 THEN t ELSE q[i - 1]
        BY <2>1, InsertedFacts, Zenon
  <2> QED BY <2>2, Zenon
<1> HIDE DEF s
<1>4. /\ \A i \in DOMAIN q : /\ exp[q[i]] = expire[q[i]] /\ expire[q[i]] \in Int
                            /\ q[i] \in Timers
      /\ exp[t] = e
      BY <1>1
<1> HIDE DEF exp
<1>5. /\ k \in Nat /\ DOMAIN s = 1..(Len(q) + 1)
      BY <1>1, <1>2, <1>3
(* The elements behind the place all expire later than e. *)
<1>6. ASSUME NEW j \in DOMAIN q, j > k PROVE e <= expire[q[j]]
  <2>1. j \in Nat /\ k + 1 \in DOMAIN q /\ k # Len(q)
        BY <1>1, <1>5, <1>6
  <2>2. expire[q[k + 1]] > e /\ expire[q[k + 1]] \in Int /\ expire[q[j]] \in Int
        BY <1>2, <1>4, <2>1, Zenon
  <2>3. CASE j = k + 1
        BY <2>2, <2>3, IntOrder, Zenon
  <2>4. CASE k + 1 < j
    <3>1. expire[q[k + 1]] <= expire[q[j]]
          BY <2>1, <2>4, Zenon DEF Ordered
    <3> QED BY <1>1, <2>2, <3>1
  <2> QED BY <1>5, <1>6, <2>1, <2>3, <2>4
<1>7. ASSUME NEW i \in DOMAIN s, NEW j \in DOMAIN s, i < j
      PROVE  s[i] # s[j] /\ exp[s[i]] <= exp[s[j]]
  <2>0. /\ Len(q) \in Nat /\ k \in Nat /\ i \in Nat /\ j \in Nat
        /\ 1 <= i /\ i < j /\ j <= Len(q) + 1 /\ k <= Len(q)
    <3>1. Len(q) \in Nat /\ k \in Nat /\ k \in 0..Len(q)
          BY <1>1, <1>2, <1>5, Zenon
    <3>2. i \in 1..(Len(q) + 1) /\ j \in 1..(Len(q) + 1) /\ i < j
          BY <1>5, <1>7, Zenon
    <3> QED BY <3>1, <3>2
  <2>p. Places(Len(q), k, i, j)
        BY <2>0, PlacesAround, Zenon
  <2>s. /\ i \in 1..(Len(q) + 1) /\ j \in 1..(Len(q) + 1)
        /\ s[i] = IF i <= k THEN q[i] ELSE IF i = k + 1 THEN t ELSE q[i - 1]
        /\ s[j] = IF j <= k THEN q[j] ELSE IF j = k + 1 THEN t ELSE q[j - 1]
        BY <1>3, <1>5, Zenon
  <2>1. CASE j <= k
    <3>1. i \in DOMAIN q /\ j \in DOMAIN q /\ s[i] = q[i] /\ s[j] = q[j]
          BY <1>1, <2>s, <2>p, <2>1, Zenon DEF Places
    <3> QED BY <1>4, <1>7, <3>1, Zenon DEF Ordered
  <2>2. CASE j = k + 1
    <3>1. i \in DOMAIN q /\ i \in 1..k /\ s[i] = q[i] /\ s[j] = t
          BY <1>1, <2>s, <2>p, <2>2, Zenon DEF Places
    <3> QED BY <1>2, <1>4, <3>1, Zenon
  <2>3. CASE j > k + 1 /\ i <= k
    <3>1. i \in DOMAIN q /\ j - 1 \in DOMAIN q /\ i < j - 1 /\ s[i] = q[i] /\ s[j] = q[j - 1]
          BY <1>1, <2>s, <2>p, <2>3, Zenon DEF Places
    <3> QED BY <1>4, <3>1, Zenon DEF Ordered
  <2>4. CASE j > k + 1 /\ i = k + 1
    <3>1. j - 1 \in DOMAIN q /\ j - 1 > k /\ s[i] = t /\ s[j] = q[j - 1]
          BY <1>1, <2>s, <2>p, <2>4, Zenon DEF Places
    <3> QED BY <1>4, <1>6, <3>1, Zenon
  <2>5. CASE j > k + 1 /\ i > k + 1
    <3>1. /\ i - 1 \in DOMAIN q /\ j - 1 \in DOMAIN q /\ i - 1 < j - 1
          /\ s[i] = q[i - 1] /\ s[j] = q[j - 1]
          BY <1>1, <2>s, <2>p, <2>5, Zenon DEF Places
    <3> QED BY <1>4, <3>1 DEF Ordered
  <2>6. /\ j <= k \/ j = k + 1 \/ j > k + 1
        /\ i <= k \/ i = k + 1 \/ i > k + 1
        BY <2>0
  <2> QED BY <2>1, <2>2, <2>3, <2>4, <2>5, <2>6, Zenon
<1>8. ASSUME NEW i \in DOMAIN s PROVE ClockOf(s[i]) = c
  <2>0. /\ Len(q) \in Nat /\ k \in Nat /\ i \in Nat
        /\ 1 <= i /\ i <= Len(q) + 1 /\ k <= Len(q)
    <3>1. Len(q) \in Nat /\ k \in Nat /\ k \in 0..Len(q)
          BY <1>1, <1>2, <1>5, Zenon
    <3>2. i \in 1..(Len(q) + 1)
          BY <1>5, Zenon
    <3> QED BY <3>1, <3>2
  <2>1. CASE i <= k
    <3>1. i \in DOMAIN q /\ s[i] = q[i]
          BY <1>1, <1>3, <2>0, <2>1, PlaceAround, Zenon
    <3> QED BY <3>1 DEF Ordered
  <2>2. CASE i = k + 1
    <3>1. s[i] = t
          BY <1>3, <2>0, <2>2, PlaceAround, Zenon
    <3> QED BY <3>1, Zenon
  <2>3. CASE i > k + 1
    <3>1. i - 1 \in DOMAIN q /\ s[i] = q[i - 1]
          BY <1>1, <1>3, <2>0, <2>3, PlaceAround, Zenon
    <3> QED BY <3>1 DEF Ordered
  <2> QED BY <2>0, <2>1, <2>2, <2>3
<1>9. s[1] = (IF k = 0 THEN t ELSE q[1]) /\ (k # 0 => q # <<>>)
      BY <1>1, <1>2, <1>3, <1>5
<1>10. Ordered(c, s, exp)
      BY <1>3, <1>7, <1>8, Zenon DEF Ordered
<1> QED BY <1>9, <1>10, Zenon DEF s, exp, InsertedWell

(* The same at the place the loop finds. *)
LEMMA InsertOrdered ==
    ASSUME NEW q, expire \in [Timers -> Int], NEW t \in Timers, NEW e \in Int,
           Ordered(ClockOf(t), q, expire), \A i \in DOMAIN q : q[i] # t
    PROVE  InsertedWell(ClockOf(t), q, t, e, InsertPoint(q, e))
BY InsertOrderedAt, Zenon

-----------------------------------------------------------------------------
(* pending without expired is only there before the first alarm. *)
Started == pending = 1 => expired = 1 \/ hist.set = 0

(* The alarm is early enough for the head of every list. *)
Covers(act, exp, a) ==
    \A c \in Clocks : act[c] # <<>> =>
       /\ a # Off
       /\ a - now <= exp[act[c][1]] - Clock(c) \/ a - now <= MinRearm

Lists(act, exp) == act \in [Clocks -> Seq(Timers)] /\ exp \in [Timers -> Int]

(* The inductive invariant. *)
TInv == TypeOK /\ Sorted /\ Started /\ AlarmCovers

(* Sorted and AlarmCovers, list by list. *)
LEMMA ByLists ==
    ASSUME TypeOK
    PROVE  /\ Sorted <=> \A c \in Clocks : Ordered(c, active[c], expire)
           /\ AlarmCovers <=> \/ signal = 1 \/ expired = 1 \/ hist.set = 0
                              \/ Covers(active, expire, alarm)
<1>1. \A c \in Clocks : active[c] \in Seq(Timers)
      BY Zenon DEF TypeOK
<1>2. Sorted <=> \A c \in Clocks : Ordered(c, active[c], expire)
      BY <1>1, Zenon DEF Sorted, Ordered
<1>3. AlarmCovers <=> \/ signal = 1 \/ expired = 1 \/ hist.set = 0
                      \/ Covers(active, expire, alarm)
      BY Zenon DEF AlarmCovers, Covers, Deltas
<1> QED BY <1>2, <1>3, Zenon

(* The same of the next state, when no time passes. *)
LEMMA ByListsNext ==
    ASSUME TypeOK', UNCHANGED <<now, vmnow>>
    PROVE  /\ Sorted' <=> \A c \in Clocks : Ordered(c, active'[c], expire')
           /\ AlarmCovers' <=> \/ signal' = 1 \/ expired' = 1 \/ hist'.set = 0
                               \/ Covers(active', expire', alarm')
<1>1. \A c \in Clocks : active'[c] \in Seq(Timers)
      BY Zenon DEF TypeOK
<1>2. Sorted' <=> \A c \in Clocks : Ordered(c, active'[c], expire')
      BY <1>1, Zenon DEF Sorted, Ordered
<1>3. AlarmCovers' <=> \/ signal' = 1 \/ expired' = 1 \/ hist'.set = 0
                       \/ Covers(active', expire', alarm')
      BY Zenon DEF AlarmCovers, Covers, Deltas, Clock
<1> QED BY <1>2, <1>3, Zenon

(* The heads of the lists and the values of the clocks. *)
LEMMA HeadTypes ==
    ASSUME TypeOK, NEW act, NEW exp, Lists(act, exp)
    PROVE  /\ \A c \in Clocks : Clock(c) \in Int
           /\ \A c \in Clocks : act[c] # <<>> => act[c][1] \in Timers /\ exp[act[c][1]] \in Int
           /\ now \in Nat /\ alarm \in Int
<1>1. now \in Nat /\ vmnow \in Nat /\ alarm \in Int
      BY BoundsAssumption DEF TypeOK
<1>2. \A c \in Clocks : act[c] # <<>> => act[c][1] \in Timers
      BY DEF Lists
<1> QED BY <1>1, <1>2, IntOrder, IntSums, Zenon DEF Clock, Lists

(* Two lists at most: there is a nearest deadline. *)
LEMMA Nearest ==
    ASSUME TypeOK, NEW act, NEW exp, Lists(act, exp), Deltas(act, exp) # {}
    PROVE  \E d \in Deltas(act, exp) : \A e \in Deltas(act, exp) : d <= e
<1> DEFINE D(c) == exp[act[c][1]] - Clock(c)
<1>1. \A c \in Clocks : act[c] # <<>> => D(c) \in Int
      BY HeadTypes, IntOrder, IntSums, Zenon
<1>2. Deltas(act, exp) = {D(c) : c \in {k \in Clocks : act[k] # <<>>}}
      BY Zenon DEF Deltas
<1> HIDE DEF D
<1>3. CASE act["vm"] # <<>> /\ act["rt"] # <<>>
  <2>1. D("vm") \in Int /\ D("rt") \in Int
        BY <1>1, <1>3, Zenon DEF Clocks
  <2>2. Deltas(act, exp) = {D("vm"), D("rt")}
        BY <1>2, <1>3, Zenon DEF Clocks
  <2>3. CASE D("vm") <= D("rt")
        BY <2>1, <2>2, <2>3
  <2>4. CASE D("rt") <= D("vm")
        BY <2>1, <2>2, <2>4
  <2> QED BY <2>1, <2>3, <2>4
<1>4. CASE act["vm"] # <<>> /\ act["rt"] = <<>>
  <2>1. Deltas(act, exp) = {D("vm")} /\ D("vm") \in Int
        BY <1>1, <1>2, <1>4 DEF Clocks
  <2> QED BY <2>1
<1>5. CASE act["vm"] = <<>> /\ act["rt"] # <<>>
  <2>1. Deltas(act, exp) = {D("rt")} /\ D("rt") \in Int
        BY <1>1, <1>2, <1>5 DEF Clocks
  <2> QED BY <2>1
<1>6. CASE act["vm"] = <<>> /\ act["rt"] = <<>>
      BY <1>2, <1>6, Zenon DEF Clocks
<1> QED BY <1>3, <1>4, <1>5, <1>6, Zenon

(* qemu_rearm_alarm_timer covers every list it is given. *)
LEMMA RearmFacts ==
    ASSUME TypeOK, Started, NEW act, NEW exp, Lists(act, exp),
           NEW due \in [Timers -> Int], Rearm(act, exp, due)
    PROVE  /\ alarm' \in Int /\ hist' \in TimerHistory
           /\ Covers(act, exp, alarm')
           /\ AtStart => hist'.set = 0
<1>1. /\ \A c \in Clocks : Clock(c) \in Int
      /\ \A c \in Clocks : act[c] # <<>> => exp[act[c][1]] \in Int
      /\ now \in Nat /\ alarm \in Int /\ hist \in TimerHistory
      /\ MinRearm \in Nat /\ MinRearm > 0
      BY HeadTypes, BoundsAssumption DEF TypeOK
<1>2. CASE Deltas(act, exp) = {}
  <2>1. alarm' = alarm /\ hist' = [hist EXCEPT !.due = due]
        BY <1>2, Zenon DEF Rearm
  <2>2. \A c \in Clocks : act[c] = <<>>
        BY <1>2, Zenon DEF Deltas
  <2>3. hist' \in TimerHistory /\ hist'.set = hist.set
        BY <1>1, <2>1, Zenon DEF TimerHistory
  <2>4. AtStart => hist'.set = 0
        BY <2>3 DEF Started, AtStart
  <2> QED BY <1>1, <2>1, <2>2, <2>3, <2>4, Zenon DEF Covers
<1>3. CASE Deltas(act, exp) # {}
  <2> DEFINE nearest == CHOOSE d \in Deltas(act, exp) : \A e \in Deltas(act, exp) : d <= e
             delta == IF nearest < MinRearm THEN MinRearm ELSE nearest
  <2>1. nearest \in Deltas(act, exp) /\ \A e \in Deltas(act, exp) : nearest <= e
        BY <1>3, Nearest, Zenon
  <2>2. alarm' = IF alarm # Off /\ alarm - now <= delta THEN alarm ELSE now + delta
        BY <1>3, Zenon DEF Rearm, RearmAt
  <2> HIDE DEF nearest
  <2>3. nearest \in Int
        BY <1>1, <2>1 DEF Deltas
  <2>4. /\ delta \in Int /\ delta >= MinRearm
        /\ delta = MinRearm \/ delta = nearest
        BY <1>1, <2>3, IntOrder, IntSums, Zenon
  <2> HIDE DEF delta
  <2>5. alarm' \in Int /\ alarm' # Off /\ alarm' - now <= delta
        BY <1>1, <2>2, <2>4 DEF Off
  <2>11. alarm' - now <= MinRearm \/ alarm' - now <= nearest
        BY <2>4, <2>5, Zenon
  <2>6. Covers(act, exp, alarm')
    <3> SUFFICES ASSUME NEW c \in Clocks, act[c] # <<>>
                 PROVE  \/ alarm' - now <= exp[act[c][1]] - Clock(c)
                        \/ alarm' - now <= MinRearm
        BY <2>5, Zenon DEF Covers
    <3>1. exp[act[c][1]] - Clock(c) \in Deltas(act, exp)
          BY Zenon DEF Deltas
    <3>2. nearest <= exp[act[c][1]] - Clock(c) /\ exp[act[c][1]] - Clock(c) \in Int
          BY <1>1, <2>1, <3>1, IntOrder, IntSums, Zenon
    <3> DEFINE x == exp[act[c][1]] - Clock(c)
    <3>3. x \in Int /\ nearest <= x
          BY <3>2, Zenon
    <3> HIDE DEF x
    <3>4. ASSUME alarm' - now <= nearest PROVE alarm' - now <= x
      <4>1. nearest \in Int /\ now \in Int /\ alarm' \in Int
            BY <1>1, <2>3, <2>5, IntOrder, IntSums, Zenon
      <4>2. \A a, b, y, z \in Int : a - b <= y /\ y <= z => a - b <= z
            BY IntOrder, IntSums, Zenon
      <4> QED BY <3>3, <3>4, <4>1, <4>2, Zenon
    <3> QED BY <2>11, <3>4, Zenon DEF x
  <2>7. hist' = [set |-> IF AtStart THEN 0 ELSE 1,
                 due |-> IF hist.set = 1 THEN due
                         ELSE [t \in Timers |-> IF due[t] < Clock(ClockOf(t))
                                                THEN Clock(ClockOf(t)) ELSE due[t]]]
        BY <1>3, Zenon DEF Rearm
  <2>8. \A t \in Timers : Clock(ClockOf(t)) \in Int /\ due[t] \in Int
        BY <1>1, Zenon DEF ClockOf, Clocks
  <2>9. [t \in Timers |-> IF due[t] < Clock(ClockOf(t)) THEN Clock(ClockOf(t)) ELSE due[t]]
           \in [Timers -> Int]
        BY <2>8, Zenon
  <2>10. hist' \in TimerHistory /\ (AtStart => hist'.set = 0)
        BY <2>7, <2>9 DEF TimerHistory
  <2> QED BY <2>5, <2>6, <2>10, Zenon
<1> QED BY <1>2, <1>3, Zenon

(* Without a new alarm, what covered earlier heads covers later ones. *)
LEMMA CoversLater ==
    ASSUME TypeOK, NEW act, NEW exp, Lists(act, exp), Covers(active, expire, alarm),
           \A c \in Clocks : act[c] # <<>> =>
              active[c] # <<>> /\ expire[active[c][1]] <= exp[act[c][1]]
    PROVE  Covers(act, exp, alarm)
<1> SUFFICES ASSUME NEW c \in Clocks, act[c] # <<>>
             PROVE  /\ alarm # Off
                    /\ \/ alarm - now <= exp[act[c][1]] - Clock(c)
                       \/ alarm - now <= MinRearm
    BY Zenon DEF Covers
<1>1. Lists(active, expire)
      BY Zenon DEF TypeOK, Lists
<1>2. /\ Clock(c) \in Int /\ exp[act[c][1]] \in Int /\ now \in Nat /\ alarm \in Int
      /\ active[c] # <<>> /\ expire[active[c][1]] \in Int
      /\ expire[active[c][1]] <= exp[act[c][1]]
      BY <1>1, HeadTypes, Zenon
<1> QED BY <1>2, BoundsAssumption DEF Covers

-----------------------------------------------------------------------------
(* What a step that leaves the clocks alone has to keep. *)
Kept == /\ Lists(active', expire') /\ alarm' \in Int /\ hist' \in TimerHistory
        /\ \A c \in Clocks : Ordered(c, active'[c], expire')
        /\ pending = 1 => expired = 1 \/ hist'.set = 0
        /\ \/ signal = 1 \/ expired = 1 \/ hist'.set = 0
           \/ Covers(active', expire', alarm')

(* A change of the lists that sets no alarm, when the heads come later. *)
LEMMA NoRearmKept ==
    ASSUME TInv, NEW due \in [Timers -> Int], NoRearm(due), Lists(active', expire'),
           \A c \in Clocks : Ordered(c, active'[c], expire'),
           \/ pending = 1
           \/ \A c \in Clocks : active'[c] # <<>> =>
                 active[c] # <<>> /\ expire[active[c][1]] <= expire'[active'[c][1]]
    PROVE  Kept
<1>1. /\ TypeOK /\ Started
      /\ \/ signal = 1 \/ expired = 1 \/ hist.set = 0
         \/ Covers(active, expire, alarm)
      BY ByLists, Zenon DEF TInv
<1>2. alarm' = alarm /\ hist' = [hist EXCEPT !.due = due] /\ hist \in TimerHistory
      /\ alarm \in Int /\ pending \in 0..1
      BY <1>1, Zenon DEF NoRearm, TypeOK
<1>3. hist' \in TimerHistory /\ hist'.set = hist.set
      BY <1>2, Zenon DEF TimerHistory
<1>4. pending = 1 => expired = 1 \/ hist'.set = 0
      BY <1>1, <1>3, Zenon DEF Started
<1>5. \/ signal = 1 \/ expired = 1 \/ hist'.set = 0
      \/ Covers(active', expire', alarm')
  <2>1. CASE pending = 1
        BY <1>4, <2>1, Zenon
  <2>2. CASE /\ Covers(active, expire, alarm)
             /\ \A c \in Clocks : active'[c] # <<>> =>
                   active[c] # <<>> /\ expire[active[c][1]] <= expire'[active'[c][1]]
    <3>1. Covers(active', expire', alarm)
          BY <1>1, <2>2, CoversLater, Zenon
    <3> QED BY <1>2, <3>1, Zenon
  <2> QED BY <1>1, <1>3, <2>1, <2>2, Zenon
<1> QED BY <1>2, <1>3, <1>4, <1>5, Zenon DEF Kept

(* So does one that sets the alarm. *)
LEMMA RearmKept ==
    ASSUME TInv, NEW due \in [Timers -> Int], Rearm(active', expire', due),
           Lists(active', expire'), \A c \in Clocks : Ordered(c, active'[c], expire')
    PROVE  Kept
<1>1. TypeOK /\ Started /\ pending \in 0..1 /\ expired \in 0..1
      BY Zenon DEF TInv, TypeOK
<1>2. /\ alarm' \in Int /\ hist' \in TimerHistory
      /\ Covers(active', expire', alarm')
      /\ AtStart => hist'.set = 0
      BY <1>1, RearmFacts, Zenon
<1>3. pending = 1 => expired = 1 \/ hist'.set = 0
      BY <1>1, <1>2 DEF AtStart
<1> QED BY <1>2, <1>3, Zenon DEF Kept

(* A list without t does not see the new expire_time of t. *)
LEMMA OrderedElsewhere ==
    ASSUME NEW c, NEW q, expire \in [Timers -> Int], Ordered(c, q, expire),
           NEW t \in Timers, NEW e \in Int, \A i \in DOMAIN q : q[i] # t
    PROVE  /\ Ordered(c, q, [expire EXCEPT ![t] = e])
           /\ q # <<>> => [expire EXCEPT ![t] = e][q[1]] = expire[q[1]]
<1> DEFINE exp == [expire EXCEPT ![t] = e]
<1>1. q \in Seq(Timers)
      BY Zenon DEF Ordered
<1>2. \A i \in DOMAIN q : q[i] \in Timers /\ exp[q[i]] = expire[q[i]]
      BY <1>1
<1> HIDE DEF exp
<1>3. Ordered(c, q, exp)
      BY <1>1, <1>2, Zenon DEF Ordered
<1>4. q # <<>> => exp[q[1]] = expire[q[1]]
      BY <1>1, <1>2
<1> QED BY <1>3, <1>4, Zenon DEF exp

(* qemu_del_timer *)
LEMMA DelKept ==
    ASSUME TInv, NEW t \in Timers, Del(t)
    PROVE  Kept
<1> DEFINE w == Without(active[ClockOf(t)], t)
           due == [hist.due EXCEPT ![t] = 0]
<1>1. /\ TypeOK /\ ClockOf(t) \in Clocks
      /\ active \in [Clocks -> Seq(Timers)] /\ expire \in [Timers -> Int]
      /\ \A c \in Clocks : Ordered(c, active[c], expire)
      /\ hist \in TimerHistory
      BY ByLists, Zenon DEF TInv, TypeOK, ClockOf, Clocks
<1>2. /\ active' = [active EXCEPT ![ClockOf(t)] = w]
      /\ expire' = [expire EXCEPT ![t] = 0]
      /\ NoRearm(due) /\ due \in [Timers -> Int]
      BY <1>1, IntOrder, IntSums, Zenon DEF Del, TimerHistory
<1>3. /\ Ordered(ClockOf(t), w, expire) /\ \A i \in DOMAIN w : w[i] # t
      /\ w # <<>> => /\ active[ClockOf(t)] # <<>>
                     /\ expire[active[ClockOf(t)][1]] <= expire[w[1]]
      BY <1>1, WithoutOrdered, Zenon
<1> HIDE DEF w, due
<1>4. ASSUME NEW c \in Clocks
      PROVE  /\ Ordered(c, active'[c], expire')
             /\ active'[c] # <<>> =>
                   active[c] # <<>> /\ expire[active[c][1]] <= expire'[active'[c][1]]
  <2>1. CASE c = ClockOf(t)
    <3>1. active'[c] = w
          BY <1>1, <1>2, <2>1, Zenon
    <3>2. /\ Ordered(c, w, [expire EXCEPT ![t] = 0])
          /\ w # <<>> => [expire EXCEPT ![t] = 0][w[1]] = expire[w[1]]
      <4>1. 0 \in Int /\ Ordered(c, w, expire)
            BY <1>3, <2>1, IntOrder, IntSums, Zenon
      <4> QED BY <1>1, <1>3, <4>1, OrderedElsewhere, Zenon
    <3> QED BY <1>2, <1>3, <2>1, <3>1, <3>2, Zenon
  <2>2. CASE c # ClockOf(t)
    <3>1. active'[c] = active[c]
          BY <1>1, <1>2, <2>2, Zenon
    <3>2. \A i \in DOMAIN active[c] : active[c][i] # t
          BY <1>1, <2>2, Zenon DEF Ordered
    <3>3. /\ Ordered(c, active[c], [expire EXCEPT ![t] = 0])
          /\ active[c] # <<>> => [expire EXCEPT ![t] = 0][active[c][1]] = expire[active[c][1]]
      <4>1. 0 \in Int
            BY IntOrder, IntSums, Zenon
      <4> QED BY <1>1, <3>2, <4>1, OrderedElsewhere, Zenon
    <3>4. active[c] # <<>> => expire[active[c][1]] \in Int
          BY <1>1
    <3>5. active[c] # <<>> => expire[active[c][1]] <= expire[active[c][1]]
          BY <3>4, IntOrder, Zenon
    <3> QED BY <1>2, <3>1, <3>3, <3>5, Zenon
  <2> QED BY <2>1, <2>2, Zenon
<1>5. Lists(active', expire')
  <2>1. w \in Seq(Timers)
        BY <1>3, Zenon DEF Ordered
  <2> QED BY <1>1, <1>2, <2>1, IntOrder, IntSums, Zenon DEF Lists
<1> QED BY <1>2, <1>4, <1>5, NoRearmKept, Zenon

(* qemu_mod_timer_ns *)
LEMMA ModKept ==
    ASSUME TInv, NEW t \in Timers, NEW e \in Int, Mod(t, e)
    PROVE  Kept
<1> DEFINE cl == ClockOf(t)
           w == Without(active[cl], t)
           k == InsertPoint(w, e)
           s == Inserted(w, k, t)
           exp == [expire EXCEPT ![t] = e]
           due == [hist.due EXCEPT ![t] = IF e < Clock(cl) THEN Clock(cl) ELSE e]
<1>1. /\ TypeOK /\ cl \in Clocks /\ pending \in 0..1
      /\ active \in [Clocks -> Seq(Timers)] /\ expire \in [Timers -> Int]
      /\ \A c \in Clocks : Ordered(c, active[c], expire)
      /\ hist \in TimerHistory
      BY ByLists, Zenon DEF TInv, TypeOK, ClockOf, Clocks
<1>2. Lists(active, expire) /\ Clock(cl) \in Int
  <2>1. Lists(active, expire)
        BY <1>1, Zenon DEF Lists
  <2> QED BY <1>1, <2>1, HeadTypes, Zenon
<1>3. /\ active' = [active EXCEPT ![cl] = s]
      /\ expire' = exp
      /\ IF k = 0 /\ pending = 0 THEN Rearm(active', expire', due) ELSE NoRearm(due)
      BY Zenon DEF Mod, Inserted
<1>4. due \in [Timers -> Int]
      BY <1>1, <1>2, Zenon DEF TimerHistory
<1>5. /\ Ordered(cl, w, expire) /\ \A i \in DOMAIN w : w[i] # t
      /\ w # <<>> => active[cl] # <<>> /\ expire[active[cl][1]] <= expire[w[1]]
      BY <1>1, WithoutOrdered, Zenon
<1> HIDE DEF w, due
<1>6. /\ Ordered(cl, s, exp)
      /\ s[1] = IF k = 0 THEN t ELSE w[1]
      /\ k # 0 => w # <<>>
  <2>1. InsertedWell(cl, w, t, e, k)
        BY <1>1, <1>5, InsertOrdered, Zenon
  <2> QED BY <2>1, Zenon DEF InsertedWell
<1> HIDE DEF k, s
<1>7. ASSUME NEW c \in Clocks
      PROVE  /\ Ordered(c, active'[c], expire')
             /\ k # 0 /\ active'[c] # <<>> =>
                   active[c] # <<>> /\ expire[active[c][1]] <= expire'[active'[c][1]]
  <2>1. CASE c = cl
    <3>1. active'[c] = s
          BY <1>1, <1>3, <2>1, Zenon
    <3>2. w # <<>> => exp[w[1]] = expire[w[1]]
          BY <1>1, <1>5, OrderedElsewhere, Zenon
    <3> HIDE DEF exp
    <3> QED BY <1>3, <1>5, <1>6, <2>1, <3>1, <3>2, Zenon
  <2>2. CASE c # cl
    <3>1. active'[c] = active[c]
          BY <1>1, <1>3, <2>2, Zenon
    <3>2. \A i \in DOMAIN active[c] : active[c][i] # t
          BY <1>1, <2>2, Zenon DEF Ordered
    <3>3. /\ Ordered(c, active[c], exp)
          /\ active[c] # <<>> => exp[active[c][1]] = expire[active[c][1]]
          BY <1>1, <3>2, OrderedElsewhere, Zenon
    <3>4. active[c] # <<>> => expire[active[c][1]] \in Int
          BY <1>1
    <3>5. active[c] # <<>> => expire[active[c][1]] <= expire[active[c][1]]
          BY <3>4, IntOrder, Zenon
    <3> HIDE DEF exp
    <3> QED BY <1>3, <3>1, <3>3, <3>5, Zenon
  <2> QED BY <2>1, <2>2, Zenon
<1>8. Lists(active', expire')
  <2>1. s \in Seq(Timers)
        BY <1>6, Zenon DEF Ordered
  <2> QED BY <1>1, <1>3, <2>1, Zenon DEF Lists
<1>9. CASE k = 0 /\ pending = 0
  <2>1. Rearm(active', expire', due)
        BY <1>3, <1>9, Zenon
  <2> QED BY <1>4, <1>7, <1>8, <2>1, RearmKept, Zenon
<1>10. CASE ~(k = 0 /\ pending = 0)
  <2>1. NoRearm(due)
        BY <1>3, <1>10, Zenon
  <2>2. pending = 1 \/ k # 0
        BY <1>1, <1>10
  <2> QED BY <1>4, <1>7, <1>8, <2>1, <2>2, NoRearmKept, Zenon
<1> QED BY <1>9, <1>10, Zenon

-----------------------------------------------------------------------------
(* A step that keeps the lists and the alarm keeps the invariant. *)
LEMMA KeptInv ==
    ASSUME TInv, Kept, UNCHANGED <<now, vmnow, stops, signal, pending, expired>>,
           ticks' \in 0..1, enabled' \in 0..1, phase' \in Clocks \cup {"select"},
           current' \in Int, idle' \in Nat
    PROVE  TInv'
<1>1. TypeOK
      BY Zenon DEF TInv
<1>2. TypeOK'
      BY <1>1, Zenon DEF TypeOK, Kept, Lists
<1>3. Started'
      BY Zenon DEF Started, Kept
<1>4. Sorted' /\ AlarmCovers'
      BY <1>2, ByListsNext, Zenon DEF Kept
<1> QED BY <1>2, <1>3, <1>4, Zenon DEF TInv

(* What the invariant says of the state, in the form the steps use. *)
LEMMA InvFacts ==
    ASSUME TInv
    PROVE  /\ TypeOK /\ Lists(active, expire)
           /\ \A c \in Clocks : Ordered(c, active[c], expire)
           /\ pending = 1 => expired = 1 \/ hist.set = 0
           /\ signal = 1 \/ expired = 1 \/ hist.set = 0 \/ Covers(active, expire, alarm)
           /\ hist \in TimerHistory /\ hist.due \in [Timers -> Int] /\ alarm \in Int
<1>1. TypeOK
      BY Zenon DEF TInv
<1>2. Lists(active, expire) /\ hist \in TimerHistory /\ alarm \in Int
      BY <1>1, Zenon DEF TypeOK, Lists
<1>3. hist.due \in [Timers -> Int]
      BY <1>2, Zenon DEF TimerHistory
<1> QED BY <1>1, <1>2, <1>3, ByLists, Zenon DEF TInv, Started

(* qemu_clock_enable *)
LEMMA EnableKept ==
    ASSUME TInv, EnableClock, UNCHANGED lists
    PROVE  Kept /\ enabled' \in 0..1
<1>1. /\ Lists(active, expire) /\ hist.due \in [Timers -> Int] /\ TypeOK
      /\ \A c \in Clocks : Ordered(c, active[c], expire)
      BY InvFacts, Zenon
<1>2. active' = active /\ expire' = expire
      BY Zenon DEF lists
<1>3. CASE enabled = 0
  <2>1. Rearm(active', expire', hist.due)
        BY <1>2, <1>3, Zenon DEF EnableClock
  <2>2. Lists(active', expire') /\ \A c \in Clocks : Ordered(c, active'[c], expire')
        BY <1>1, <1>2, Zenon
  <2>3. Kept
        BY <1>1, <2>1, <2>2, RearmKept, Zenon
  <2> QED BY <2>3 DEF EnableClock
<1>4. CASE enabled # 0
  <2>1. NoRearm(hist.due)
        BY <1>4, Zenon DEF EnableClock
  <2>2. Lists(active', expire') /\ \A c \in Clocks : Ordered(c, active'[c], expire')
        BY <1>1, <1>2, Zenon
  <2>3. \A c \in Clocks : active'[c] # <<>> =>
           active[c] # <<>> /\ expire[active[c][1]] <= expire'[active'[c][1]]
    <3>1. \A c \in Clocks : active[c] # <<>> => expire[active[c][1]] \in Int
          BY <1>1, HeadTypes, Zenon
    <3> QED BY <1>2, <3>1, IntOrder, Zenon
  <2>4. Kept
        BY <1>1, <2>1, <2>2, <2>3, NoRearmKept, Zenon
  <2> QED BY <2>4 DEF EnableClock
<1> QED BY <1>3, <1>4, Zenon

(* The initial state. *)
LEMMA InitTInv == Init => TInv
<1> SUFFICES ASSUME Init PROVE TInv
    BY Zenon
<1>1. active \in [Clocks -> Seq(Timers)] /\ \A c \in Clocks : active[c] = <<>>
      BY DEF Init
<1>2. expire \in [Timers -> Int] /\ hist \in TimerHistory /\ hist.set = 0
      BY DEF Init, TimerHistory
<1>3. TypeOK
      BY <1>1, <1>2, BoundsAssumption DEF Init, TypeOK, Off
<1>4. Sorted
  <2>1. \A c \in Clocks : DOMAIN active[c] = {}
        BY <1>1
  <2> QED BY <2>1, Zenon DEF Sorted
<1>5. Started /\ AlarmCovers
      BY <1>2, Zenon DEF Started, AlarmCovers
<1> QED BY <1>3, <1>4, <1>5, Zenon DEF TInv

(* qemu_run_all_timers starts: a turn that saw the alarm sets it again. *)
LEMMA RunAllInv ==
    ASSUME TInv, RunAll
    PROVE  TInv'
<1>1. /\ TypeOK /\ Lists(active, expire) /\ hist.due \in [Timers -> Int]
      /\ \A c \in Clocks : Ordered(c, active[c], expire)
      /\ hist \in TimerHistory /\ alarm \in Int /\ expired \in 0..1
      BY InvFacts, Zenon DEF TypeOK, RunAll
<1>2. /\ active' = active /\ expire' = expire /\ now' = now /\ vmnow' = vmnow
      /\ pending' = 0 /\ expired' = 0 /\ signal' = signal
      BY Zenon DEF RunAll, clocks, lists
<1>3. /\ alarm' \in Int /\ hist' \in TimerHistory
      /\ signal = 1 \/ hist'.set = 0 \/ Covers(active, expire, alarm')
  <2>1. CASE expired = 1
    <3>1. Rearm(active, expire, hist.due)
          BY <2>1, Zenon DEF RunAll
    <3>2. Started
          BY Zenon DEF TInv
    <3> QED BY <1>1, <3>1, <3>2, RearmFacts, Zenon
  <2>2. CASE expired = 0
    <3>1. alarm' = alarm /\ hist' = [hist EXCEPT !.due = hist.due]
          BY <2>2 DEF RunAll, NoRearm
    <3>2. hist' \in TimerHistory /\ hist'.set = hist.set
          BY <1>1, <3>1, Zenon DEF TimerHistory
    <3>3. expired # 1
          BY <2>2
    <3>4. signal = 1 \/ hist.set = 0 \/ Covers(active, expire, alarm)
          BY <3>3, InvFacts, Zenon
    <3> QED BY <1>1, <3>1, <3>2, <3>4, Zenon
  <2>3. expired = 0 \/ expired = 1
        BY <1>1
  <2> QED BY <2>1, <2>2, <2>3, Zenon
<1>4. TypeOK'
  <2>1. phase' \in Clocks /\ current' \in Int
    <3>1. Clock("vm") \in Int /\ Clock("rt") \in Int
          BY <1>1, HeadTypes, Zenon DEF Clocks
    <3> QED BY <3>1, Zenon DEF RunAll, StartClock, AfterVm, Clocks
  <2>2. 0 \in 0..1 /\ 0 \in Nat
        OBVIOUS
  <2> QED BY <1>1, <1>2, <1>3, <2>1, <2>2, Zenon DEF RunAll, TypeOK, clocks
<1>5. Started'
      BY <1>2, Zenon DEF Started
<1>6. Sorted' /\ AlarmCovers'
      BY <1>1, <1>2, <1>3, <1>4, ByListsNext, Zenon
<1> QED BY <1>4, <1>5, <1>6, Zenon DEF TInv

(* Time passes: no clock is faster than the alarm. *)
LEMMA TickInv ==
    ASSUME TInv, Tick
    PROVE  TInv'
<1>1. /\ TypeOK /\ Lists(active, expire)
      /\ now \in Nat /\ vmnow \in Nat /\ ticks \in 0..1 /\ alarm \in Int
      BY InvFacts, BoundsAssumption DEF TypeOK
<1>2. /\ now' = now + 1 /\ vmnow' = vmnow + ticks
      /\ active' = active /\ expire' = expire /\ hist' = hist
      /\ pending' = pending /\ expired' = expired
      BY Zenon DEF Tick, lists
<1>3. (alarm' = alarm /\ signal' = signal) \/ signal' = 1
      BY Zenon DEF Tick
<1>4. TypeOK'
  <2>1. alarm' \in Int /\ signal' \in 0..1
        BY <1>1 DEF Tick, TypeOK, Off
  <2>2. now' \in 0..MaxTime /\ vmnow' \in 0..now' /\ idle' \in Nat
        BY <1>1, <1>2, BoundsAssumption DEF Tick, TypeOK
  <2> QED BY <1>1, <1>2, <2>1, <2>2, Zenon DEF Tick, TypeOK
<1>5. Sorted'
      BY <1>2 DEF TInv, Sorted
<1>6. Started'
      BY <1>2, Zenon DEF TInv, Started
<1>7. AlarmCovers'
  <2>1. CASE signal' = 1
        BY <2>1, Zenon DEF AlarmCovers
  <2>2. CASE alarm' = alarm /\ signal' = signal
    <3>1. CASE signal = 1 \/ expired = 1 \/ hist.set = 0
          BY <1>2, <2>2, <3>1, Zenon DEF AlarmCovers
    <3>2. CASE Covers(active, expire, alarm)
      <4>1. ASSUME NEW c \in Clocks, active[c] # <<>>
            PROVE  /\ alarm # Off
                   /\ \/ alarm - (now + 1) <= expire[active[c][1]] - Clock(c)'
                      \/ alarm - (now + 1) <= MinRearm
        <5>1. /\ alarm # Off
              /\ \/ alarm - now <= expire[active[c][1]] - Clock(c)
                 \/ alarm - now <= MinRearm
              BY <3>2, <4>1, Zenon DEF Covers
        <5>2. Clock(c) \in Int /\ expire[active[c][1]] \in Int
              BY <1>1, <4>1, HeadTypes, Zenon
        <5>3. Clock(c)' = Clock(c) \/ Clock(c)' = Clock(c) + 1
              BY <1>1, <1>2 DEF Clock
        <5>4. MinRearm \in Int
              BY BoundsAssumption, IntOrder, IntSums, Zenon
        <5>5. \A x, y, z, w \in Int :
                 /\ x - y <= z - w => /\ x - (y + 1) <= z - w
                                     /\ x - (y + 1) <= z - (w + 1)
                 /\ x - y <= z => x - (y + 1) <= z
              OBVIOUS
        <5>6. now \in Int /\ alarm \in Int
              BY <1>1, IntOrder, IntSums, Zenon
        <5> QED BY <5>1, <5>2, <5>3, <5>4, <5>5, <5>6, Zenon
      <4> QED BY <1>2, <2>2, <4>1, Zenon DEF AlarmCovers, Deltas
    <3> QED BY <3>1, <3>2, InvFacts, Zenon
  <2> QED BY <1>3, <2>1, <2>2, Zenon
<1> QED BY <1>4, <1>5, <1>6, <1>7, Zenon DEF TInv

(* Every step of the guest, of the main loop and of time keeps TInv. *)
LEMMA NextTInv == TInv /\ [Next]_vars => TInv'
<1> SUFFICES ASSUME TInv, [Next]_vars PROVE TInv'
    BY Zenon
<1>1. /\ TypeOK /\ ticks \in 0..1 /\ enabled \in 0..1 /\ stops \in 0..MaxStops
      /\ phase \in Clocks \cup {"select"} /\ current \in Int /\ idle \in Nat
      /\ \A c \in Clocks : Clock(c) \in Int
      BY InvFacts, HeadTypes, Zenon DEF TypeOK
<1>2. ASSUME NEW t \in Timers, NEW d \in Delays, SetTimer(t, d) PROVE TInv'
  <2>1. Clock(ClockOf(t)) + d \in Int
        BY <1>1, DelaysAssumption, IntOrder, IntSums, Zenon DEF ClockOf, Clocks
  <2>2. Kept
        BY <1>2, <2>1, ModKept, Zenon DEF SetTimer
  <2> QED BY <1>1, <1>2, <2>2, KeptInv, Zenon DEF SetTimer, clocks, loop
<1>3. ASSUME NEW t \in Timers, DeleteTimer(t) PROVE TInv'
  <2>1. Kept
        BY <1>3, DelKept, Zenon DEF DeleteTimer
  <2> QED BY <1>1, <1>3, <2>1, KeptInv, Zenon DEF DeleteTimer, clocks, loop
<1>4. CASE HostAlarm
  <2>1. TypeOK'
        BY <1>1, <1>4 DEF HostAlarm, TypeOK, clocks, lists, loop
  <2>2. Sorted'
        BY <1>4 DEF TInv, Sorted, HostAlarm, lists
  <2>3. Started' /\ AlarmCovers'
        BY <1>4, Zenon DEF Started, AlarmCovers, HostAlarm
  <2> QED BY <2>1, <2>2, <2>3, Zenon DEF TInv
<1>5. CASE RunAll
      BY <1>5, RunAllInv, Zenon
<1>6. CASE Fire
  <2> DEFINE t == active[phase][1]
  <2>1. phase \in Clocks /\ t \in Timers
        BY <1>1, <1>6 DEF Fire, Expired, TypeOK
  <2>2. Del(t) \/ \E d \in Delays : Mod(t, Clock(phase) + d)
        BY <1>6, Zenon DEF Fire
  <2> HIDE DEF t
  <2>3. ASSUME NEW d \in Delays, Mod(t, Clock(phase) + d) PROVE Kept
    <3>1. Clock(phase) + d \in Int
          BY <1>1, <2>1, DelaysAssumption, IntOrder, IntSums, Zenon
    <3> QED BY <2>1, <2>3, <3>1, ModKept, Zenon
  <2>4. Kept
        BY <2>1, <2>2, <2>3, DelKept, Zenon
  <2> QED BY <1>1, <1>6, <2>4, KeptInv, Zenon DEF Fire, clocks, loop
<1>7. CASE ClockDone
  <2>1. TypeOK'
        BY <1>1, <1>7 DEF ClockDone, StartClock, TypeOK, clocks, lists, alarmVars, Clocks
  <2>2. Sorted' /\ Started'
    <3>1. Sorted'
          BY <1>7 DEF TInv, Sorted, ClockDone, lists
    <3>2. Started'
          BY <1>7, Zenon DEF TInv, Started, ClockDone, alarmVars
    <3> QED BY <3>1, <3>2, Zenon
  <2>3. AlarmCovers'
        BY <1>7, Zenon DEF TInv, AlarmCovers, Deltas, Clock, ClockDone, clocks, lists, alarmVars
  <2> QED BY <2>1, <2>2, <2>3, Zenon DEF TInv
<1>8. CASE VmStop
  <2>1. TypeOK'
        BY <1>1, <1>8, BoundsAssumption DEF VmStop, TypeOK, lists, alarmVars, loop
  <2>2. Sorted' /\ Started'
    <3>1. Sorted'
          BY <1>8 DEF TInv, Sorted, VmStop, lists
    <3>2. Started'
          BY <1>8, Zenon DEF TInv, Started, VmStop, alarmVars
    <3> QED BY <3>1, <3>2, Zenon
  <2>3. AlarmCovers'
        BY <1>8, Zenon DEF TInv, AlarmCovers, Deltas, Clock, VmStop, lists, alarmVars
  <2> QED BY <2>1, <2>2, <2>3, Zenon DEF TInv
<1>9. CASE VmStart
  <2>1. Kept /\ enabled' \in 0..1
        BY <1>9, EnableKept, Zenon DEF VmStart
  <2> QED BY <1>1, <1>9, <2>1, KeptInv DEF VmStart, loop
<1>10. CASE ExecAll
  <2>1. Kept /\ enabled' \in 0..1
        BY <1>10, EnableKept, Zenon DEF ExecAll
  <2> QED BY <1>1, <1>10, <2>1, KeptInv, Zenon DEF ExecAll, clocks, loop
<1>11. CASE Tick
      BY <1>11, TickInv, Zenon
<1>12. CASE UNCHANGED vars
  <2>1. TypeOK'
        BY <1>1, <1>12, Zenon DEF TypeOK, vars, clocks, lists, alarmVars, loop
  <2>2. Sorted' /\ Started'
        BY <1>12 DEF TInv, Sorted, Started, vars, lists, alarmVars
  <2>3. AlarmCovers'
        BY <1>12, Zenon DEF TInv, AlarmCovers, Deltas, Clock, vars, clocks, lists, alarmVars
  <2> QED BY <2>1, <2>2, <2>3, Zenon DEF TInv
<1> QED BY <1>2, <1>3, <1>4, <1>5, <1>6, <1>7, <1>8, <1>9, <1>10, <1>11, <1>12, Zenon DEF Next

(* The inductive invariant holds for any timers, delays and bounds. *)
THEOREM TimersInvariant == Spec => []TInv
BY InitTInv, NextTInv, PTL DEF Spec

(* The clocks, lists and fields of alarm_timer keep their types. *)
THEOREM TypeCorrect == Spec => []TypeOK
<1>1. TInv => TypeOK
      BY Zenon DEF TInv
<1> QED BY <1>1, TimersInvariant, PTL

(* qemu_mod_timer_ns and qemu_del_timer keep every list sorted, without    *)
(* repetitions, and on its own clock.                                      *)
THEOREM ListsStaySorted == Spec => []Sorted
<1>1. TInv => Sorted
      BY Zenon DEF TInv
<1> QED BY <1>1, TimersInvariant, PTL

(* Once the main loop has turned with an alarm, no timer is active without *)
(* an alarm that comes in time or has already expired.                     *)
THEOREM AlarmIsInTime == Spec => []AlarmCovers
<1>1. TInv => AlarmCovers
      BY Zenon DEF TInv
<1> QED BY <1>1, TimersInvariant, PTL

-----------------------------------------------------------------------------
(* How long timers wait.  Began is the value of a clock at the start of    *)
(* the turn under way, and Old holds of the timers that the turn has still *)
(* to run: in the turn of rt_clock, that of vm_clock is over.  On says     *)
(* that clock c runs its timers.                                           *)
ActiveOn(t, c) == ClockOf(t) = c /\ \E i \in DOMAIN active[c] : active[c][i] = t
Late(t, c) == Clock(c) - hist.due[t]
Began(c) == IF c = "rt" THEN now - idle ELSE IF ticks = 1 THEN vmnow - idle ELSE vmnow
Old(t, c) == /\ phase # "select" /\ (phase = "rt" => c = "rt")
             /\ hist.due[t] <= Began(c)
On(c) == c = "rt" \/ enabled = 1
Quiet == signal = 0 /\ expired = 0
Wait(c) == IF c = "rt" THEN Longest ELSE Longest + MinRearm * stops

(* The main loop comes back in time, and the alarm lies ahead. *)
Turn == /\ IF phase = "select" THEN idle <= SelectTimeout
                               ELSE idle <= MaxRun /\ pending = 0 /\ expired = 0
        /\ phase = "vm" => enabled = 1 /\ current = Began("vm")
        /\ phase = "rt" => current >= Began("rt")
        /\ ticks = 1 => enabled = 1
        /\ AtStart => phase = "select" /\ hist.set = 0 /\ now = idle
        /\ alarm = Off \/ alarm > now

DueLater == /\ \A t \in Timers : hist.due[t] >= 0
            /\ \A t \in Timers, c \in Clocks : ActiveOn(t, c) => hist.due[t] >= expire[t]

(* qemu_run_timers leaves no old timer behind, and a callback of rt_clock  *)
(* sets none.                                                              *)
Done == phase = "rt" /\ enabled = 1 =>
           \A t \in Timers : ActiveOn(t, "vm") => hist.due[t] >= Began("vm")

(* A timer's wait before the first alarm, and after it. *)
FirstWait(t, c) ==
    IF ~On(c) THEN Late(t, c) <= MaxRun + SelectTimeout
    ELSE IF Old(t, c) THEN Late(t, c) <= MaxRun + SelectTimeout + (Clock(c) - Began(c))
    ELSE phase = "select" => Late(t, c) <= MaxRun + idle

LaterWait(t, c) ==
    IF ~On(c) THEN Late(t, c) <= Wait(c) - MinRearm
    ELSE IF Old(t, c) THEN Late(t, c) <= Wait(c) + (Clock(c) - Began(c))
    ELSE Late(t, c) <= Wait(c) /\ (Quiet => alarm - now + Late(t, c) <= Wait(c))

WaitOk(t, c) == IF hist.set = 0 THEN FirstWait(t, c) ELSE LaterWait(t, c)
Waits == \A t \in Timers, c \in Clocks : ActiveOn(t, c) => WaitOk(t, c)

PInv == TInv /\ Turn /\ DueLater /\ Done /\ Waits

(* The numbers of a state. *)
Numbers ==
    /\ now \in Nat /\ vmnow \in Nat /\ idle \in Nat /\ alarm \in Int /\ current \in Int
    /\ MaxRun \in Nat /\ MinRearm \in Nat /\ SelectTimeout \in Nat /\ MinRearm > 0
    /\ hist.set \in 0..1 /\ ticks \in 0..1 /\ enabled \in 0..1 /\ stops \in Nat
    /\ \A c \in Clocks :
          /\ Clock(c) \in Int /\ Began(c) \in Int /\ Wait(c) \in Int
          /\ Began(c) <= Clock(c) /\ Clock(c) - Began(c) <= idle /\ Clock(c) >= 0
          /\ Wait(c) >= MinRearm /\ Wait(c) >= MaxRun
    /\ \A t \in Timers : hist.due[t] \in Int /\ expire[t] \in Int /\ ClockOf(t) \in Clocks
    /\ \A t \in Timers, c \in Clocks : Late(t, c) \in Int

(* The types of what the bounds are made of. *)
LEMMA WaitTypes == TInv => Numbers
<1> SUFFICES ASSUME TInv PROVE Numbers
    BY Zenon
<1>1. /\ now \in Nat /\ vmnow \in Nat /\ idle \in Nat /\ alarm \in Int /\ current \in Int
      /\ ticks \in 0..1 /\ enabled \in 0..1 /\ stops \in Nat /\ expire \in [Timers -> Int]
      BY BoundsAssumption DEF TInv, TypeOK
<1>2. hist.set \in 0..1 /\ hist.due \in [Timers -> Int]
      BY Zenon DEF TInv, TypeOK, TimerHistory
<1>3. MaxRun \in Nat /\ MinRearm \in Nat /\ SelectTimeout \in Nat /\ MinRearm > 0
      BY BoundsAssumption
<1>4. Longest \in Nat /\ Longest >= MinRearm /\ Longest >= MaxRun
      BY <1>3, IntOrder, IntSums, Zenon DEF Longest
<1>5. MinRearm * stops \in Nat
      BY <1>1, <1>3
<1>6. ASSUME NEW c \in Clocks
      PROVE  /\ Clock(c) \in Int /\ Began(c) \in Int /\ Began(c) <= Clock(c)
             /\ Clock(c) - Began(c) <= idle /\ Clock(c) >= 0
  <2>1. CASE c = "rt"
        BY <1>1, <2>1 DEF Clock, Began
  <2>2. CASE c = "vm"
        BY <1>1, <2>2 DEF Clock, Began
  <2> QED BY <2>1, <2>2, Zenon DEF Clocks
<1>7. ASSUME NEW c PROVE Wait(c) \in Int /\ Wait(c) >= MinRearm /\ Wait(c) >= MaxRun
      BY <1>3, <1>4, <1>5 DEF Wait
<1>8. ASSUME NEW t \in Timers
      PROVE  hist.due[t] \in Int /\ expire[t] \in Int /\ ClockOf(t) \in Clocks
      BY <1>1, <1>2, Zenon DEF ClockOf, Clocks
<1>9. ASSUME NEW t \in Timers, NEW c \in Clocks PROVE Late(t, c) \in Int
      BY <1>6, <1>8, IntOrder, IntSums, Zenon DEF Late
<1> QED BY <1>1, <1>2, <1>3, <1>6, <1>7, <1>8, <1>9, Zenon DEF Numbers

(* The same, after a step. *)
LEMMA NextNumbers == TInv' => Numbers'
BY WaitTypes, PTL

(* An active timer is behind the head of its list. *)
LEMMA HeadFirst ==
    ASSUME TInv, NEW t \in Timers, NEW c \in Clocks, ActiveOn(t, c)
    PROVE  active[c] # <<>> /\ active[c][1] \in Timers /\ expire[active[c][1]] <= expire[t]
<1> DEFINE q == active[c]
<1>1. q \in Seq(Timers) /\ Ordered(c, q, expire)
      BY InvFacts, Zenon DEF Lists
<1>2. PICK i \in DOMAIN q : q[i] = t
      BY Zenon DEF ActiveOn
<1> HIDE DEF q
<1>3. 1 \in DOMAIN q /\ i \in 1..Len(q) /\ q # <<>> /\ q[1] \in Timers
      BY <1>1, <1>2
<1>4. expire[t] \in Int
      BY WaitTypes, Zenon DEF Numbers
<1>5. CASE i = 1
      BY <1>2, <1>3, <1>4, <1>5, IntOrder, Zenon DEF q
<1>6. CASE 1 < i
      BY <1>1, <1>2, <1>3, <1>6, Zenon DEF Ordered, q
<1> QED BY <1>3, <1>5, <1>6

(* AlarmCovers, for every active timer. *)
Covered == Quiet /\ hist.set = 1 =>
              \A t \in Timers, c \in Clocks : ActiveOn(t, c) =>
                 /\ alarm # Off
                 /\ alarm - now <= hist.due[t] - Clock(c) \/ alarm - now <= MinRearm

(* The head of a list covers the timers behind it. *)
LEMMA CoversAll == TInv /\ DueLater => Covered
<1> SUFFICES ASSUME TInv, DueLater, Quiet, hist.set = 1,
                    NEW t \in Timers, NEW c \in Clocks, ActiveOn(t, c)
             PROVE  /\ alarm # Off
                    /\ alarm - now <= hist.due[t] - Clock(c) \/ alarm - now <= MinRearm
    BY Zenon DEF Covered
<1>1. Covers(active, expire, alarm)
      BY InvFacts DEF Quiet
<1>2. PICK h \in Timers : /\ h = active[c][1] /\ active[c] # <<>>
                          /\ expire[h] <= expire[t]
      BY HeadFirst, Zenon
<1>3. /\ alarm # Off
      /\ alarm - now <= expire[h] - Clock(c) \/ alarm - now <= MinRearm
      BY <1>1, <1>2, Zenon DEF Covers
<1>4. hist.due[t] >= expire[t]
      BY Zenon DEF DueLater
<1>5. /\ expire[h] \in Int /\ expire[t] \in Int /\ hist.due[t] \in Int /\ now \in Int
      /\ alarm \in Int /\ Clock(c) \in Int
      BY WaitTypes, IntOrder, IntSums, Zenon DEF Numbers
<1> QED BY <1>2, <1>3, <1>4, <1>5

(* The same, after a step. *)
LEMMA NextCovered == TInv' /\ DueLater' => Covered'
BY CoversAll, PTL

(* What setting the alarm, or leaving it alone, does to the history. *)
HistMoves(due) ==
    /\ hist'.set \in 0..1 /\ alarm' \in Int
    /\ hist.set = 1 => hist'.set = 1 /\ hist'.due = due
    /\ AtStart => hist'.set = 0
    /\ \A s \in Timers : hist'.due[s] \in Int /\ hist'.due[s] >= due[s]
    /\ hist.set = 0 /\ hist'.set = 1 =>
          \A s \in Timers, c \in Clocks : c = ClockOf(s) => hist'.due[s] >= Clock(c)
    /\ alarm # Off => alarm' # Off /\ alarm' <= alarm
    /\ alarm' = Off \/ alarm' > now

(* How a step moves the history, in the forms of Rearm and NoRearm. *)
LEMMA HistStep ==
    ASSUME TInv, Turn, NEW act, NEW exp, Lists(act, exp), NEW due \in [Timers -> Int],
           Rearm(act, exp, due) \/ NoRearm(due)
    PROVE  HistMoves(due)
<1>1. Numbers /\ TypeOK /\ hist \in TimerHistory
      BY WaitTypes, Zenon DEF TInv, TypeOK
<1>2. \A s \in Timers : due[s] \in Int /\ Clock(ClockOf(s)) \in Int
      BY <1>1, Zenon DEF Numbers
<1>3. CASE alarm' = alarm /\ hist' = [hist EXCEPT !.due = due]
  <2>1. hist'.set = hist.set /\ hist'.due = due
        BY <1>1, <1>3, Zenon DEF TimerHistory
  <2>2. \A s \in Timers : hist'.due[s] >= due[s]
        BY <1>2, <2>1, IntOrder, Zenon
  <2>3. AtStart => hist'.set = 0
        BY <2>1, Zenon DEF Turn
  <2>4. alarm \in Int /\ hist.set \in 0..1 /\ (alarm # Off => alarm <= alarm)
        BY <1>1, IntOrder, Zenon DEF Numbers
  <2> QED BY <1>2, <1>3, <2>1, <2>2, <2>3, <2>4 DEF Turn, HistMoves
<1>4. CASE Rearm(act, exp, due) /\ Deltas(act, exp) # {}
  <2> DEFINE nearest == CHOOSE d \in Deltas(act, exp) : \A e \in Deltas(act, exp) : d <= e
             delta == IF nearest < MinRearm THEN MinRearm ELSE nearest
  <2>1. alarm' = IF alarm # Off /\ alarm - now <= delta THEN alarm ELSE now + delta
        BY <1>4, Zenon DEF Rearm, RearmAt
  <2>2. delta \in Int /\ delta >= MinRearm
    <3>1. nearest \in Deltas(act, exp)
          BY <1>1, <1>4, Nearest, Zenon
    <3>2. \A d \in Deltas(act, exp) : d \in Int
          BY <1>1, HeadTypes DEF Deltas
    <3>3. nearest \in Int
          BY <3>1, <3>2, Zenon
    <3> HIDE DEF nearest
    <3> QED BY <1>1, <3>3, IntOrder, IntSums, Zenon DEF Numbers
  <2> HIDE DEF delta
  <2>3. /\ alarm' \in Int
        /\ alarm # Off => alarm' # Off /\ alarm' <= alarm
        /\ alarm' = Off \/ alarm' > now
    <3>1. now \in Nat /\ alarm \in Int /\ MinRearm > 0 /\ MinRearm \in Nat
          BY <1>1, Zenon DEF Numbers
    <3> QED BY <2>1, <2>2, <3>1 DEF Turn, Off
  <2>4. hist' = [set |-> IF AtStart THEN 0 ELSE 1,
                 due |-> IF hist.set = 1 THEN due
                         ELSE [t \in Timers |-> IF due[t] < Clock(ClockOf(t))
                                                THEN Clock(ClockOf(t)) ELSE due[t]]]
        BY <1>4, Zenon DEF Rearm
  <2>5. /\ hist'.set = (IF AtStart THEN 0 ELSE 1)
        /\ hist.set = 1 => hist'.due = due
        /\ hist.set # 1 => hist'.due = [t \in Timers |-> IF due[t] < Clock(ClockOf(t))
                                                        THEN Clock(ClockOf(t)) ELSE due[t]]
        BY <2>4, Zenon
  <2>6. hist.set = 1 => ~AtStart
        BY DEF Turn
  <2>7. ASSUME NEW s \in Timers
        PROVE  /\ hist'.due[s] \in Int /\ hist'.due[s] >= due[s]
               /\ hist.set = 0 /\ hist'.set = 1 => hist'.due[s] >= Clock(ClockOf(s))
    <3>1. CASE hist.set = 1
          BY <1>2, <2>5, <3>1
    <3>2. CASE hist.set # 1
      <4>1. hist'.due[s] = IF due[s] < Clock(ClockOf(s)) THEN Clock(ClockOf(s)) ELSE due[s]
            BY <2>5, <3>2, Zenon
      <4> QED BY <1>2, <4>1
    <3> QED BY <3>1, <3>2, Zenon
  <2>8. hist'.set \in 0..1
        BY <2>5
  <2> QED BY <2>3, <2>5, <2>6, <2>7, <2>8, Zenon DEF HistMoves
<1> QED BY <1>3, <1>4, Zenon DEF Rearm, NoRearm

(* A timer that has just been set, or whose wait counts from now. *)
LEMMA FreshWait ==
    ASSUME TInv', DueLater', NEW s \in Timers, NEW c \in Clocks, ActiveOn(s, c)',
           Late(s, c)' <= 0
    PROVE  WaitOk(s, c)'
<1>1. Numbers' /\ Covered'
      BY NextNumbers, NextCovered, Zenon
<1>2. /\ Late(s, c)' \in Int /\ Wait(c)' \in Int /\ Wait(c)' >= MinRearm /\ MinRearm \in Nat
      /\ Clock(c)' \in Int /\ Began(c)' \in Int /\ Began(c)' <= Clock(c)'
      /\ MaxRun \in Nat /\ SelectTimeout \in Nat /\ idle' \in Nat /\ now' \in Nat
      /\ alarm' \in Int /\ hist'.set \in 0..1 /\ hist'.due[s] \in Int
      BY <1>1, Zenon DEF Numbers
<1>3. FirstWait(s, c)'
      BY <1>2 DEF FirstWait
<1>4. ASSUME Quiet', hist'.set = 1 PROVE alarm' - now' + Late(s, c)' <= Wait(c)'
  <2>1. alarm' - now' <= hist'.due[s] - Clock(c)' \/ alarm' - now' <= MinRearm
        BY <1>1, <1>4, Zenon DEF Covered
  <2>2. Late(s, c)' = Clock(c)' - hist'.due[s]
        BY Zenon DEF Late
  <2>3. alarm' - now' + Late(s, c)' <= 0 \/ alarm' - now' + Late(s, c)' <= MinRearm
    <3>1. CASE alarm' - now' <= hist'.due[s] - Clock(c)'
      <4>1. \A a, n, d, k \in Int : a - n <= d - k => a - n + (k - d) <= 0
            OBVIOUS
      <4>2. alarm' - now' + (Clock(c)' - hist'.due[s]) <= 0
            BY <1>2, <3>1, <4>1
      <4> QED BY <2>2, <4>2, Zenon
    <3>2. CASE alarm' - now' <= MinRearm
      <4>1. \A a, n, l, m \in Int : a - n <= m /\ l <= 0 => a - n + l <= m
            OBVIOUS
      <4>2. PICK l \in Int : l = Late(s, c)'
            BY <1>2, Zenon
      <4>3. l <= 0 /\ alarm' \in Int /\ now' \in Int /\ MinRearm \in Int
            BY <4>2, <1>2, IntOrder, IntSums, Zenon
      <4>4. alarm' - now' + l <= MinRearm
            BY <3>2, <4>1, <4>3, Zenon
      <4> QED BY <4>2, <4>4, Zenon
    <3> QED BY <2>1, <3>1, <3>2, Zenon
  <2> QED BY <1>2, <2>3
<1>5. ASSUME hist'.set = 1 PROVE LaterWait(s, c)'
      BY <1>2, <1>4, <1>5 DEF LaterWait
<1> QED BY <1>2, <1>3, <1>5 DEF WaitOk

(* Steps of no time in which the main loop stays where it is. *)
Same == UNCHANGED <<now, vmnow, ticks, stops, enabled, signal, pending, expired, phase,
                    current, idle>>

(* A timer that waited and still waits. *)
LEMMA WaitStays ==
    ASSUME TInv, DueLater, Waits, TInv', DueLater', Same,
           NEW s \in Timers, NEW c \in Clocks, ActiveOn(s, c), ActiveOn(s, c)',
           hist'.due[s] >= hist.due[s],
           hist.set = 1 => hist'.set = 1 /\ hist'.due[s] = hist.due[s],
           hist.set = 0 /\ hist'.set = 1 => hist'.due[s] >= Clock(c),
           alarm # Off => alarm' <= alarm
    PROVE  WaitOk(s, c)'
<1>2. /\ Clock(c)' = Clock(c) /\ Began(c)' = Began(c) /\ Wait(c)' = Wait(c)
      /\ phase' = phase /\ idle' = idle /\ now' = now
      BY Zenon DEF Same, Clock, Began, Wait
<1>3. (On(c)' <=> On(c)) /\ (Quiet' <=> Quiet)
      BY Zenon DEF Same, On, Quiet
<1>4. /\ Numbers /\ Numbers' /\ Covered
      BY WaitTypes, NextNumbers, CoversAll, Zenon
<1>5. /\ hist.set \in 0..1 /\ hist'.set \in 0..1 /\ hist.due[s] \in Int
      /\ hist'.due[s] \in Int /\ Clock(c) \in Int /\ Began(c) \in Int
      /\ Began(c) <= Clock(c)
      /\ MaxRun \in Nat /\ SelectTimeout \in Nat /\ idle \in Nat /\ now \in Nat
      /\ alarm \in Int /\ alarm' \in Int /\ Wait(c) \in Int /\ MinRearm \in Nat
      BY <1>4, Zenon DEF Numbers
<1>6. /\ Late(s, c) \in Int /\ Late(s, c)' \in Int
      /\ Late(s, c) = Clock(c) - hist.due[s] /\ Late(s, c)' = Clock(c) - hist'.due[s]
      BY <1>2, <1>5, IntOrder, IntSums, Zenon DEF Late
<1>7. CASE hist.set = 0 /\ hist'.set = 1
  <2>1. Late(s, c)' <= 0
        BY <1>5, <1>6, <1>7
  <2> QED BY <2>1, FreshWait, Zenon
<1>8. CASE hist.set = 0 /\ hist'.set = 0
  <2>1. FirstWait(s, c)
        BY <1>8, Zenon DEF Waits, WaitOk
  <2>2. Late(s, c)' <= Late(s, c)
        BY <1>5, <1>6
  <2>3. Old(s, c)' => Old(s, c)
        BY <1>2, <1>5 DEF Old
  <2>4. FirstWait(s, c)'
    <3>1. CASE ~On(c)
      <4>1. Late(s, c) <= MaxRun + SelectTimeout
            BY <2>1, <3>1, Zenon DEF FirstWait
      <4>2. Late(s, c)' <= MaxRun + SelectTimeout
            BY <1>5, <1>6, <2>2, <4>1
      <4> QED BY <1>3, <3>1, <4>2, Zenon DEF FirstWait
    <3>2. CASE On(c) /\ Old(s, c)'
      <4>1. Late(s, c) <= MaxRun + SelectTimeout + (Clock(c) - Began(c))
            BY <2>1, <2>3, <3>2, Zenon DEF FirstWait
      <4>2. Late(s, c)' <= MaxRun + SelectTimeout + (Clock(c) - Began(c))
            BY <1>5, <1>6, <2>2, <4>1
      <4> QED BY <1>2, <1>3, <3>2, <4>2, Zenon DEF FirstWait
    <3>3. CASE On(c) /\ ~Old(s, c)' /\ phase = "select"
      <4>1. Late(s, c) <= MaxRun + idle
            BY <2>1, <3>3, Zenon DEF FirstWait, Old
      <4>2. Late(s, c)' <= MaxRun + idle
            BY <1>5, <1>6, <2>2, <4>1
      <4> QED BY <1>2, <1>3, <3>3, <4>2, Zenon DEF FirstWait
    <3> QED BY <1>2, <1>3, <3>1, <3>2, <3>3, Zenon DEF FirstWait
  <2> QED BY <1>8, <2>4, Zenon DEF WaitOk
<1>9. CASE hist.set = 1
  <2>1. LaterWait(s, c) /\ hist'.set = 1
        BY <1>9, IntSums, Zenon DEF Waits, WaitOk
  <2>2. Late(s, c)' = Late(s, c)
        BY <1>6, <1>9, Zenon
  <2>3. Old(s, c)' <=> Old(s, c)
        BY <1>2, <1>9, Zenon DEF Old
  <2>4. Quiet => alarm' <= alarm
        BY <1>4, <1>9, Zenon DEF Covered
  <2>5. LaterWait(s, c)'
    <3>1. ASSUME Quiet, alarm - now + Late(s, c) <= Wait(c)
          PROVE  alarm' - now + Late(s, c) <= Wait(c)
          BY <1>5, <1>6, <2>4, <3>1
    <3> QED BY <1>2, <1>3, <2>1, <2>2, <2>3, <3>1, Zenon DEF LaterWait
  <2> QED BY <2>1, <2>5, IntSums, Zenon DEF WaitOk
<1> QED BY <1>5, <1>7, <1>8, <1>9

(* qemu_del_timer takes timers off a list, *)
LEMMA WithoutFrom ==
    ASSUME NEW q \in Seq(Timers), NEW t, \A i, j \in DOMAIN q : i < j => q[i] # q[j],
           NEW k \in DOMAIN Without(q, t)
    PROVE  Without(q, t)[k] # t /\ \E j \in DOMAIN q : q[j] = Without(q, t)[k]
<1> DEFINE w == Without(q, t)
<1>1. PICK p \in 1..(Len(q) + 1) : Unlinks(Timers, q, p, w)
      BY Unlinked, Zenon
<1>2. w[k] # t
      BY Unlinked, Zenon
<1> HIDE DEF w
<1>3. /\ k \in 1..Len(w) /\ Len(w) = (IF p > Len(q) THEN Len(q) ELSE Len(q) - 1)
      /\ w[k] = (IF k < p THEN q[k] ELSE q[k + 1])
      BY <1>1 DEF Unlinks, w
<1>4. CASE k < p
  <2>1. k \in DOMAIN q
        BY <1>3, <1>4
  <2> QED BY <1>2, <1>3, <1>4, <2>1, Zenon DEF w
<1>5. CASE ~(k < p)
  <2>1. k + 1 \in DOMAIN q
        BY <1>3, <1>5
  <2> QED BY <1>2, <1>3, <1>5, <2>1, Zenon DEF w
<1> QED BY <1>4, <1>5, Zenon

(* qemu_del_timer unlinks its timer and no other. *)
LEMMA DelActive ==
    ASSUME TInv, NEW t \in Timers, Del(t), NEW s \in Timers, NEW c \in Clocks, ActiveOn(s, c)'
    PROVE  s # t /\ ActiveOn(s, c) /\ expire'[s] = expire[s]
<1>1. /\ active \in [Clocks -> Seq(Timers)] /\ expire \in [Timers -> Int]
      /\ Ordered(c, active[c], expire) /\ ClockOf(t) \in Clocks
      BY InvFacts, WaitTypes, Zenon DEF Lists, Numbers
<1>2. /\ active' = [active EXCEPT ![ClockOf(t)] = Without(@, t)]
      /\ expire' = [expire EXCEPT ![t] = 0]
      BY Zenon DEF Del
<1>3. ClockOf(s) = c /\ \E i \in DOMAIN active'[c] : active'[c][i] = s
      BY Zenon DEF ActiveOn
<1>4. CASE c = ClockOf(t)
  <2>1. active'[c] = Without(active[c], t) /\ active[c] \in Seq(Timers)
        BY <1>1, <1>2, <1>4, Zenon
  <2>2. PICK i \in DOMAIN Without(active[c], t) : Without(active[c], t)[i] = s
        BY <1>3, <2>1, Zenon
  <2>3. \A i1, j1 \in DOMAIN active[c] : i1 < j1 => active[c][i1] # active[c][j1]
        BY <1>1, Zenon DEF Ordered
  <2>4. s # t /\ \E j \in DOMAIN active[c] : active[c][j] = s
        BY <2>1, <2>2, <2>3, WithoutFrom
  <2> QED BY <1>1, <1>2, <1>3, <2>4, Zenon DEF ActiveOn
<1>5. CASE c # ClockOf(t)
  <2>1. active'[c] = active[c] /\ s # t
        BY <1>1, <1>2, <1>3, <1>5, Zenon
  <2> QED BY <1>1, <1>2, <1>3, <2>1, Zenon DEF ActiveOn
<1> QED BY <1>4, <1>5, Zenon

(* and qemu_mod_timer_ns adds the one it is called for. *)
LEMMA ModActive ==
    ASSUME TInv, NEW t \in Timers, NEW e \in Int, Mod(t, e),
           NEW s \in Timers, NEW c \in Clocks, ActiveOn(s, c)', s # t
    PROVE  ActiveOn(s, c) /\ expire'[s] = expire[s]
<1> DEFINE cl == ClockOf(t)
           w == Without(active[cl], t)
           k == InsertPoint(w, e)
<1>1. /\ active \in [Clocks -> Seq(Timers)] /\ expire \in [Timers -> Int]
      /\ \A d \in Clocks : Ordered(d, active[d], expire)
      /\ cl \in Clocks
      BY InvFacts, WaitTypes, Zenon DEF Lists, Numbers
<1>2. /\ active' = [active EXCEPT ![cl] = Inserted(w, k, t)]
      /\ expire' = [expire EXCEPT ![t] = e]
      BY Zenon DEF Mod, Inserted
<1>3. ClockOf(s) = c /\ \E i \in DOMAIN active'[c] : active'[c][i] = s
      BY Zenon DEF ActiveOn
<1>4. expire'[s] = expire[s]
      BY <1>1, <1>2, Zenon
<1>5. CASE c = cl
  <2>1. Ordered(cl, w, expire) /\ \A i \in DOMAIN w : w[i] # t
        BY <1>1, WithoutOrdered, Zenon
  <2>2. w \in Seq(Timers) /\ k \in 0..Len(w)
    <3>1. w \in Seq(Timers)
          BY <2>1, Zenon DEF Ordered
    <3> QED BY <1>1, <2>1, <3>1, InsertPointFacts, Zenon
  <2>3. active'[c] = Inserted(w, k, t)
        BY <1>1, <1>2, <1>5, Zenon
  <2>4. active[c] \in Seq(Timers) /\ \A i1, j1 \in DOMAIN active[c] : i1 < j1 => active[c][i1] # active[c][j1]
        BY <1>1, Zenon DEF Ordered
  <2> HIDE DEF k
  <2>5. PICK i \in DOMAIN Inserted(w, k, t) : Inserted(w, k, t)[i] = s
        BY <1>3, <2>3, Zenon
  <2>6. \E j \in DOMAIN w : w[j] = s
    <3> HIDE DEF w
    <3>1. /\ i \in 1..(Len(w) + 1)
          /\ s = (IF i <= k THEN w[i] ELSE IF i = k + 1 THEN t ELSE w[i - 1])
      <4>1. /\ Inserted(w, k, t) \in Seq(Timers) /\ Len(Inserted(w, k, t)) = Len(w) + 1
            /\ \A n \in 1..(Len(w) + 1) :
                  Inserted(w, k, t)[n] = IF n <= k THEN w[n]
                                         ELSE IF n = k + 1 THEN t ELSE w[n - 1]
            BY <2>2, InsertedFacts
      <4>2. i \in 1..(Len(w) + 1)
            BY <2>5, <4>1
      <4> QED BY <2>5, <4>1, <4>2, Zenon
    <3>2. CASE i <= k
          BY <2>2, <3>1, <3>2
    <3>3. CASE i > k + 1
      <4>1. i - 1 \in DOMAIN w
            BY <2>2, <3>1, <3>3
      <4> QED BY <2>2, <3>1, <3>3, <4>1
    <3> QED BY <2>2, <3>1, <3>2, <3>3
  <2>7. \E j \in DOMAIN active[c] : active[c][j] = s
    <3>1. PICK n : n \in DOMAIN w /\ w[n] = s
          BY <2>6, Zenon
    <3>2. n \in DOMAIN Without(active[c], t) /\ Without(active[c], t)[n] = s
          BY <1>5, <3>1, Zenon
    <3>3. \E j \in DOMAIN active[c] : active[c][j] = Without(active[c], t)[n]
          BY <2>4, <3>2, WithoutFrom
    <3> QED BY <3>2, <3>3, Zenon
  <2> QED BY <1>3, <1>4, <2>7, Zenon DEF ActiveOn
<1>6. CASE c # cl
  <2>1. active'[c] = active[c]
        BY <1>1, <1>2, <1>6, Zenon
  <2> QED BY <1>3, <1>4, <2>1, Zenon DEF ActiveOn
<1> QED BY <1>5, <1>6, Zenon

-----------------------------------------------------------------------------
(* A step that sets or deletes timer t and leaves the others to wait. *)
LEMMA SameStep ==
    ASSUME PInv, TInv', Same, NEW due \in [Timers -> Int], HistMoves(due),
           NEW t \in Timers, due[t] >= 0, \A s \in Timers : s # t => due[s] = hist.due[s],
           \A s \in Timers, c \in Clocks : ActiveOn(s, c)' /\ s # t =>
              ActiveOn(s, c) /\ expire'[s] = expire[s],
           \A c \in Clocks : ActiveOn(t, c)' =>
              due[t] >= Clock(c) /\ due[t] >= expire'[t]
    PROVE  PInv'
<1>1. Numbers /\ Numbers' /\ TInv /\ Turn /\ DueLater /\ Done /\ Waits
      BY WaitTypes, NextNumbers, Zenon DEF PInv
<1>2. /\ now' = now /\ idle' = idle /\ phase' = phase /\ current' = current
      /\ ticks' = ticks /\ enabled' = enabled /\ vmnow' = vmnow
      /\ pending' = pending /\ expired' = expired
      BY Zenon DEF Same
<1>3. \A c \in Clocks : Clock(c)' = Clock(c) /\ Began(c)' = Began(c)
      BY <1>2, Zenon DEF Clock, Began
<1>4. Turn'
  <2>1. AtStart' <=> AtStart
        BY <1>2, Zenon DEF AtStart
  <2>2. Began("vm")' = Began("vm") /\ Began("rt")' = Began("rt")
        BY <1>3, Zenon DEF Clocks
  <2>3. AtStart => hist'.set = 0
        BY Zenon DEF HistMoves
  <2>4. alarm' = Off \/ alarm' > now
        BY Zenon DEF HistMoves
  <2> QED BY <1>1, <1>2, <2>1, <2>2, <2>3, <2>4, Zenon DEF Turn
<1>5. \A s \in Timers : /\ due[s] \in Int /\ hist'.due[s] \in Int /\ hist.due[s] \in Int
                       /\ expire'[s] \in Int /\ hist'.due[s] >= due[s]
      BY <1>1, Zenon DEF HistMoves, Numbers
<1>6. DueLater'
  <2>1. ASSUME NEW s \in Timers PROVE hist'.due[s] >= 0
    <3>1. due[s] >= 0
          BY <1>1, Zenon DEF DueLater
    <3> QED BY <1>5, <3>1
  <2>2. ASSUME NEW s \in Timers, NEW c \in Clocks, ActiveOn(s, c)'
        PROVE  hist'.due[s] >= expire'[s]
    <3>1. due[s] >= expire'[s]
      <4>1. CASE s = t
            BY <2>2, <4>1, Zenon
      <4>2. CASE s # t
        <5>1. ActiveOn(s, c) /\ expire'[s] = expire[s]
              BY <2>2, <4>2, Zenon
        <5> QED BY <1>1, <4>2, <5>1, Zenon DEF DueLater
      <4> QED BY <4>1, <4>2, Zenon
    <3> QED BY <1>5, <3>1
  <2> QED BY <2>1, <2>2, Zenon DEF DueLater
<1>7. Done'
  <2> SUFFICES ASSUME phase = "rt", enabled = 1, NEW s \in Timers, ActiveOn(s, "vm")'
               PROVE  hist'.due[s] >= Began("vm")'
      BY <1>2, Zenon DEF Done
  <2>1. /\ Began("vm") \in Int /\ Began("vm")' = Began("vm") /\ Clock("vm") \in Int
        /\ Began("vm") <= Clock("vm")
        BY <1>1, <1>3, Zenon DEF Numbers, Clocks
  <2>2. due[s] >= Began("vm")
    <3>1. CASE s = t
      <4>1. due[t] >= Clock("vm")
            BY <3>1, Zenon DEF Clocks
      <4> QED BY <1>5, <2>1, <3>1, <4>1
    <3>2. CASE s # t
      <4>1. ActiveOn(s, "vm") /\ due[s] = hist.due[s]
            BY <3>2, Zenon DEF Clocks
      <4> QED BY <1>1, <4>1, Zenon DEF Done
    <3> QED BY <3>1, <3>2, Zenon
  <2>3. hist'.due[s] >= Began("vm")
    <3>1. /\ due[s] \in Int /\ hist'.due[s] \in Int /\ hist'.due[s] >= due[s]
          BY <1>5, Zenon
    <3> QED BY <2>1, <2>2, <3>1, IntOrder, Zenon
  <2> QED BY <2>1, <2>3, Zenon
<1>8. Waits'
  <2> SUFFICES ASSUME NEW s \in Timers, NEW c \in Clocks, ActiveOn(s, c)'
               PROVE  WaitOk(s, c)'
      BY Zenon DEF Waits
  <2>1. CASE s = t
    <3>1. due[t] >= Clock(c) /\ Clock(c) \in Int
          BY <1>1, <2>1, Zenon DEF Numbers
    <3>2. Late(s, c)' = Clock(c) - hist'.due[s]
          BY <1>3, Zenon DEF Late
    <3>3. Late(s, c)' <= 0
          BY <1>5, <2>1, <3>1, <3>2
    <3> QED BY <1>6, <3>3, FreshWait, Zenon
  <2>2. CASE s # t
    <3>1. ActiveOn(s, c) /\ due[s] = hist.due[s] /\ c = ClockOf(s)
          BY <2>2, Zenon DEF ActiveOn
    <3>2. /\ hist'.due[s] >= hist.due[s]
          /\ hist.set = 1 => hist'.set = 1 /\ hist'.due[s] = hist.due[s]
          /\ hist.set = 0 /\ hist'.set = 1 => hist'.due[s] >= Clock(c)
          /\ alarm # Off => alarm' <= alarm
          BY <1>5, <3>1, Zenon DEF HistMoves
    <3> QED BY <1>1, <1>6, <3>1, <3>2, WaitStays, Zenon
  <2> QED BY <2>1, <2>2, Zenon
<1> QED BY <1>4, <1>6, <1>7, <1>8, Zenon DEF PInv

(* qemu_mod_timer_ns *)
LEMMA ModWaits ==
    ASSUME PInv, TInv', Same, NEW t \in Timers, NEW e \in Int, Mod(t, e)
    PROVE  PInv'
<1> DEFINE cl == ClockOf(t)
           due == [hist.due EXCEPT ![t] = IF e < Clock(cl) THEN Clock(cl) ELSE e]
<1>1. Numbers /\ TInv /\ Turn /\ Lists(active', expire') /\ hist.due \in [Timers -> Int]
  <2>1. Numbers /\ TInv /\ Turn /\ hist.due \in [Timers -> Int]
        BY WaitTypes, InvFacts, Zenon DEF PInv
  <2> QED BY <2>1, Zenon DEF TInv, TypeOK, Lists
<1>2. cl \in Clocks /\ Clock(cl) \in Int /\ Clock(cl) >= 0
      BY <1>1, Zenon DEF Numbers
<1>3. expire' = [expire EXCEPT ![t] = e] /\ (Rearm(active', expire', due) \/ NoRearm(due))
      BY Zenon DEF Mod
<1>4. expire'[t] = e
      BY <1>1, <1>3, Zenon DEF TInv, TypeOK
<1>5. /\ due \in [Timers -> Int] /\ due[t] >= 0 /\ due[t] >= Clock(cl) /\ due[t] >= e
      /\ \A s \in Timers : s # t => due[s] = hist.due[s]
      BY <1>1, <1>2, IntOrder, IntSums, Zenon
<1> HIDE DEF due
<1>6. HistMoves(due)
      BY <1>1, <1>3, <1>5, HistStep, Zenon
<1>7. \A s \in Timers, c \in Clocks : ActiveOn(s, c)' /\ s # t =>
         ActiveOn(s, c) /\ expire'[s] = expire[s]
      BY <1>1, ModActive, Zenon
<1>8. \A c \in Clocks : ActiveOn(t, c)' =>
         due[t] >= Clock(c) /\ due[t] >= expire'[t]
      BY <1>4, <1>5, Zenon DEF ActiveOn
<1> QED BY <1>5, <1>6, <1>7, <1>8, SameStep, Zenon

(* qemu_del_timer *)
LEMMA DelWaits ==
    ASSUME PInv, TInv', Same, NEW t \in Timers, Del(t)
    PROVE  PInv'
<1> DEFINE due == [hist.due EXCEPT ![t] = 0]
<1>1. TInv /\ Turn /\ Lists(active', expire') /\ hist.due \in [Timers -> Int]
  <2>1. TInv /\ Turn /\ hist.due \in [Timers -> Int]
        BY InvFacts, Zenon DEF PInv
  <2> QED BY <2>1, Zenon DEF TInv, TypeOK, Lists
<1>2. NoRearm(due)
      BY Zenon DEF Del
<1>3. /\ due \in [Timers -> Int] /\ due[t] >= 0
      /\ \A s \in Timers : s # t => due[s] = hist.due[s]
      BY <1>1, IntOrder, IntSums, Zenon
<1> HIDE DEF due
<1>4. HistMoves(due)
      BY <1>1, <1>2, <1>3, HistStep, Zenon
<1>5. /\ \A s \in Timers, c \in Clocks : ActiveOn(s, c)' =>
            s # t /\ ActiveOn(s, c) /\ expire'[s] = expire[s]
      BY <1>1, DelActive, Zenon
<1> QED BY <1>3, <1>4, <1>5, SameStep, Zenon

(* qemu_clock_enable, in vm_start and in tcg_exec_all *)
LEMMA EnableWaits ==
    ASSUME PInv, TInv', EnableClock, phase = "select",
           UNCHANGED <<now, vmnow, stops, active, expire, signal, pending, expired, phase,
                       current, idle>>
    PROVE  PInv'
<1>1. /\ Numbers /\ Numbers' /\ TInv /\ Turn /\ DueLater /\ Waits /\ Lists(active, expire)
      /\ hist.due \in [Timers -> Int] /\ Covered
      BY WaitTypes, NextNumbers, InvFacts, CoversAll, Zenon DEF PInv
<1>2. /\ enabled' = 1
      /\ IF enabled = 0 THEN Rearm(active, expire, hist.due) ELSE NoRearm(hist.due)
      BY Zenon DEF EnableClock
<1>3. HistMoves(hist.due)
      BY <1>1, <1>2, HistStep, Zenon
<1>4. Turn'
      BY <1>1, <1>2, <1>3, Zenon DEF Turn, HistMoves, AtStart
<1>5. \A s \in Timers, c \in Clocks : /\ Clock(c)' = Clock(c)
                                      /\ ActiveOn(s, c)' <=> ActiveOn(s, c)
      BY Zenon DEF Clock, ActiveOn
<1>6. \A s \in Timers : /\ hist'.due[s] \in Int /\ hist.due[s] \in Int
                        /\ expire[s] \in Int /\ hist'.due[s] >= hist.due[s]
      BY <1>1, <1>3, Zenon DEF HistMoves, Numbers
<1>7. DueLater'
  <2>1. ASSUME NEW s \in Timers PROVE hist'.due[s] >= 0
    <3>1. hist.due[s] >= 0
          BY <1>1, Zenon DEF DueLater
    <3> QED BY <1>6, <3>1
  <2>2. ASSUME NEW s \in Timers, NEW c \in Clocks, ActiveOn(s, c)'
        PROVE  hist'.due[s] >= expire[s]
    <3>1. hist.due[s] >= expire[s]
          BY <1>1, <1>5, <2>2, Zenon DEF DueLater
    <3> QED BY <1>6, <3>1
  <2> QED BY <2>1, <2>2, Zenon DEF DueLater
<1>8. Waits'
  <2> SUFFICES ASSUME NEW s \in Timers, NEW c \in Clocks, ActiveOn(s, c)'
               PROVE  WaitOk(s, c)'
      BY Zenon DEF Waits
  <2>1. /\ ActiveOn(s, c) /\ On(c)' /\ ~Old(s, c)' /\ ~Old(s, c) /\ WaitOk(s, c)
        /\ idle' = idle /\ now' = now /\ (Quiet' <=> Quiet) /\ Wait(c)' = Wait(c)
        BY <1>1, <1>2, <1>5, Zenon DEF On, Old, Quiet, Wait, Waits
  <2>2. /\ Late(s, c) = Clock(c) - hist.due[s] /\ Late(s, c)' = Clock(c) - hist'.due[s]
        BY <1>5, Zenon DEF Late
  <2>3. /\ Late(s, c) \in Int /\ Late(s, c)' \in Int /\ Clock(c) \in Int /\ Wait(c) \in Int
        /\ alarm \in Int /\ alarm' \in Int /\ now \in Nat /\ idle \in Nat /\ MaxRun \in Nat
        /\ hist.set \in 0..1 /\ hist'.set \in 0..1 /\ MinRearm \in Nat /\ Wait(c) >= MinRearm
        BY <1>1, Zenon DEF Numbers
  <2>4. CASE hist.set = 0 /\ hist'.set = 1
    <3>1. hist'.due[s] >= Clock(c)
          BY <1>3, <2>1, <2>4, Zenon DEF HistMoves, ActiveOn
    <3>2. Late(s, c)' <= 0
          BY <1>6, <2>2, <2>3, <3>1
    <3> QED BY <1>7, <3>2, FreshWait, Zenon
  <2>5. CASE hist.set = 0 /\ hist'.set = 0
    <3>1. Late(s, c)' <= Late(s, c)
          BY <1>6, <2>2, <2>3
    <3>2. Late(s, c) <= MaxRun + idle
      <4>1. CASE On(c)
            BY <2>1, <2>5, <4>1, Zenon DEF WaitOk, FirstWait
      <4>2. CASE ~On(c)
        <5>1. enabled = 0
          <6>1. enabled \in 0..1 /\ enabled # 1
                BY <1>1, <4>2, Zenon DEF On, Numbers
          <6> QED BY <6>1
        <5>2. Deltas(active, expire) # {}
              BY <1>1, <2>1, HeadFirst, Zenon DEF Deltas
        <5>3. AtStart
          <6>1. Rearm(active, expire, hist.due)
                BY <1>2, <5>1, Zenon
          <6>2. hist'.set = IF AtStart THEN 0 ELSE 1
                BY <5>2, <6>1 DEF Rearm
          <6> QED BY <2>5, <6>2
        <5>4. now = idle /\ Clock(c) <= now /\ hist.due[s] >= 0
          <6>1. vmnow <= now
                BY <1>1 DEF TInv, TypeOK
          <6>2. now = idle /\ hist.due[s] >= 0
                BY <1>1, <5>3, Zenon DEF Turn, DueLater
          <6>3. Clock(c) <= now
                BY <1>1, <6>1, IntOrder, Zenon DEF Clock, Numbers
          <6> QED BY <6>2, <6>3, Zenon
        <5> QED BY <1>6, <2>2, <2>3, <5>4
      <4> QED BY <4>1, <4>2, Zenon
    <3>3. Late(s, c)' <= MaxRun + idle
          BY <2>3, <3>1, <3>2
    <3> QED BY <2>1, <2>5, <3>3, Zenon DEF WaitOk, FirstWait
  <2>6. CASE hist.set = 1
    <3>1. hist'.set = 1 /\ Late(s, c)' = Late(s, c)
          BY <1>3, <2>2, <2>6, Zenon DEF HistMoves
    <3>2. LaterWait(s, c)
          BY <2>1, <2>6 DEF WaitOk
    <3>3. CASE On(c)
      <4>1. Late(s, c) <= Wait(c) /\ (Quiet => alarm - now + Late(s, c) <= Wait(c))
            BY <2>1, <3>2, <3>3, Zenon DEF LaterWait
      <4>2. ASSUME Quiet PROVE alarm' - now + Late(s, c) <= Wait(c)
        <5>1. alarm # Off
              BY <1>1, <2>1, <2>6, <4>2, Zenon DEF Covered
        <5>2. alarm' <= alarm
              BY <1>3, <5>1, Zenon DEF HistMoves
        <5> QED BY <2>3, <4>1, <4>2, <5>2
      <4> QED BY <2>1, <3>1, <4>1, <4>2 DEF WaitOk, LaterWait
    <3>4. CASE ~On(c)
      <4>1. Late(s, c) <= Wait(c) - MinRearm
            BY <3>2, <3>4, Zenon DEF LaterWait
      <4>2. Late(s, c) <= Wait(c)
            BY <2>3, <4>1
      <4>3. ASSUME Quiet PROVE alarm' - now + Late(s, c) <= Wait(c)
        <5>1. Covered'
              BY <1>7, NextCovered, Zenon
        <5>2. alarm' - now <= hist'.due[s] - Clock(c) \/ alarm' - now <= MinRearm
              BY <1>5, <2>1, <3>1, <4>3, <5>1, Zenon DEF Covered
        <5>3. CASE alarm' - now <= hist'.due[s] - Clock(c)
          <6>1. alarm' - now + (Clock(c) - hist'.due[s]) <= 0
                BY <1>6, <2>3, <5>3
          <6>2. alarm' - now + Late(s, c) <= 0
                BY <2>2, <3>1, <6>1, Zenon
          <6> QED BY <2>3, <6>2
        <5>4. CASE alarm' - now <= MinRearm
          <6>1. \A a, n, l, m, w \in Int : a - n <= m /\ l <= w - m => a - n + l <= w
                OBVIOUS
          <6>2. /\ alarm' \in Int /\ now \in Int /\ Late(s, c) \in Int /\ MinRearm \in Int
                /\ Wait(c) \in Int
                BY <2>3, IntOrder, IntSums, Zenon
          <6> QED BY <4>1, <5>4, <6>1, <6>2, Zenon
        <5> QED BY <5>2, <5>3, <5>4, Zenon
      <4> QED BY <2>1, <3>1, <4>2, <4>3 DEF WaitOk, LaterWait
    <3> QED BY <3>3, <3>4, Zenon
  <2> QED BY <2>3, <2>4, <2>5, <2>6
<1>9. Done'
      BY Zenon DEF Done
<1> QED BY <1>4, <1>7, <1>8, <1>9, Zenon DEF PInv

(* host_alarm_handler *)
LEMMA HostAlarmWaits ==
    ASSUME PInv, TInv', HostAlarm
    PROVE  PInv'
<1>1. Turn /\ DueLater /\ Waits
      BY Zenon DEF PInv
<1>2. /\ phase = "select" /\ expired' = 1 /\ now' = now /\ vmnow' = vmnow /\ ticks' = ticks
      /\ stops' = stops /\ enabled' = enabled /\ active' = active /\ expire' = expire
      /\ alarm' = alarm /\ phase' = phase /\ current' = current /\ idle' = idle
      /\ hist' = hist
      BY Zenon DEF HostAlarm, clocks, lists, loop
<1>3. Turn'
      BY <1>1, <1>2 DEF Turn, AtStart
<1>4. \A s \in Timers, c \in Clocks : ActiveOn(s, c)' <=> ActiveOn(s, c)
      BY <1>2, Zenon DEF ActiveOn
<1>5. DueLater'
      BY <1>1, <1>2, <1>4, Zenon DEF DueLater
<1>6. Done'
      BY <1>2, Zenon DEF Done
<1>7. Waits'
  <2> SUFFICES ASSUME NEW s \in Timers, NEW c \in Clocks, ActiveOn(s, c)'
               PROVE  WaitOk(s, c)'
      BY Zenon DEF Waits
  <2>1. /\ Late(s, c)' = Late(s, c) /\ (On(c)' <=> On(c)) /\ (Old(s, c)' <=> Old(s, c))
        /\ Wait(c)' = Wait(c) /\ ~Quiet' /\ Clock(c)' = Clock(c) /\ Began(c)' = Began(c)
        BY <1>2 DEF Late, Clock, On, Old, Began, Wait, Quiet
  <2>2. WaitOk(s, c)
        BY <1>1, <1>4, Zenon DEF Waits
  <2> QED BY <1>2, <2>1, <2>2, Zenon DEF WaitOk, FirstWait, LaterWait
<1> QED BY <1>3, <1>5, <1>6, <1>7, Zenon DEF PInv

(* qemu_run_all_timers starts: what is due now is old. *)
LEMMA RunAllWaits ==
    ASSUME PInv, TInv', RunAll
    PROVE  PInv'
<1>1. /\ Numbers /\ Numbers' /\ TInv /\ Turn /\ DueLater /\ Waits /\ Lists(active, expire)
      /\ hist.due \in [Timers -> Int]
      BY WaitTypes, NextNumbers, InvFacts, Zenon DEF PInv
<1>2. /\ phase = "select" /\ pending' = 0 /\ expired' = 0 /\ idle' = 0 /\ phase' = AfterVm
      /\ current' = Clock(AfterVm)
      /\ now' = now /\ vmnow' = vmnow /\ ticks' = ticks /\ stops' = stops
      /\ enabled' = enabled /\ active' = active /\ expire' = expire
      /\ Rearm(active, expire, hist.due) \/ NoRearm(hist.due)
      BY Zenon DEF RunAll, StartClock, clocks, lists
<1>3. HistMoves(hist.due)
      BY <1>1, <1>2, HistStep, Zenon
<1>4. \A c \in Clocks : Clock(c)' = Clock(c) /\ Began(c)' = Clock(c) /\ Wait(c)' = Wait(c)
  <2>1. now \in Nat /\ vmnow \in Nat
        BY <1>1, Zenon DEF Numbers
  <2>2. now - 0 = now /\ vmnow - 0 = vmnow
        BY <2>1
  <2>3. \A c \in Clocks : Clock(c)' = Clock(c) /\ Wait(c)' = Wait(c)
        BY <1>2, Zenon DEF Clock, Wait
  <2>4. \A c \in Clocks : Began(c)' = Clock(c)
        BY <1>2, <2>2, Zenon DEF Clock, Began, Clocks
  <2> QED BY <2>3, <2>4, Zenon
<1>5. /\ phase' # "select" /\ (phase' = "vm" => enabled = 1) /\ (phase' = "rt" => enabled # 1)
      /\ phase' \in Clocks
      BY <1>2, Zenon DEF AfterVm, Clocks
<1>6. Turn'
  <2>1. idle' <= MaxRun
    <3>1. MaxRun \in Nat
          BY <1>1, Zenon DEF Numbers
    <3>2. 0 <= MaxRun
          BY <3>1
    <3> QED BY <1>2, <3>2, Zenon
  <2>2. phase' = "vm" => enabled' = 1 /\ current' = Began("vm")'
        BY <1>2, <1>4, <1>5, Zenon DEF Clocks
  <2>3. phase' = "rt" => current' >= Began("rt")'
    <3>1. Clock("rt") \in Int /\ Began("rt")' = Clock("rt")
          BY <1>1, <1>4, Zenon DEF Numbers, Clocks
    <3> QED BY <1>2, <3>1, IntOrder, Zenon
  <2>4. ticks' = 1 => enabled' = 1
        BY <1>1, <1>2, Zenon DEF Turn
  <2>5. alarm' = Off \/ alarm' > now'
        BY <1>2, <1>3, Zenon DEF HistMoves
  <2> QED BY <1>2, <1>5, <2>1, <2>2, <2>3, <2>4, <2>5 DEF Turn, AtStart
<1>7. \A s \in Timers, c \in Clocks : ActiveOn(s, c)' <=> ActiveOn(s, c)
      BY <1>2, Zenon DEF ActiveOn
<1>8. \A s \in Timers : /\ hist'.due[s] \in Int /\ hist.due[s] \in Int
                        /\ expire[s] \in Int /\ hist'.due[s] >= hist.due[s]
      BY <1>1, <1>3, Zenon DEF HistMoves, Numbers
<1>9. DueLater'
  <2>1. ASSUME NEW s \in Timers PROVE hist'.due[s] >= 0
    <3>1. hist.due[s] >= 0
          BY <1>1, Zenon DEF DueLater
    <3> QED BY <1>8, <3>1, IntOrder, IntSums, Zenon
  <2>2. ASSUME NEW s \in Timers, NEW c \in Clocks, ActiveOn(s, c)'
        PROVE  hist'.due[s] >= expire'[s]
    <3>1. hist.due[s] >= expire[s]
          BY <1>1, <1>7, <2>2, Zenon DEF DueLater
    <3> QED BY <1>2, <1>8, <3>1, IntOrder, Zenon
  <2> QED BY <2>1, <2>2, Zenon DEF DueLater
<1>10. Done'
      BY <1>2, <1>5, Zenon DEF Done
<1>11. Waits'
  <2> SUFFICES ASSUME NEW s \in Timers, NEW c \in Clocks, ActiveOn(s, c)'
               PROVE  WaitOk(s, c)'
      BY Zenon DEF Waits
  <2>1. /\ ActiveOn(s, c) /\ ~Old(s, c) /\ WaitOk(s, c) /\ (On(c)' <=> On(c))
        BY <1>1, <1>2, <1>7, Zenon DEF Waits, Old, On
  <2>2. Late(s, c) = Clock(c) - hist.due[s] /\ Late(s, c)' = Clock(c) - hist'.due[s]
        BY <1>4, Zenon DEF Late
  <2>3. /\ Late(s, c) \in Int /\ Late(s, c)' \in Int /\ Clock(c) \in Int /\ Wait(c) \in Int
        /\ idle \in Nat /\ MaxRun \in Nat /\ SelectTimeout \in Nat /\ MinRearm \in Nat
        /\ hist.set \in 0..1 /\ hist'.set \in 0..1 /\ idle <= SelectTimeout
        BY <1>1, <1>2, Zenon DEF Numbers, Turn
  <2>4. CASE Late(s, c)' <= 0
        BY <1>9, <2>4, FreshWait, Zenon
  <2>5. CASE Late(s, c)' > 0
    <3>1. Late(s, c)' <= Late(s, c) /\ hist'.due[s] <= Clock(c)
          BY <1>8, <2>2, <2>3, <2>5
    <3>2. On(c) => Old(s, c)'
          BY <1>4, <1>5, <3>1, Zenon DEF Old, On, Clocks
    <3>3. hist'.set = hist.set
      <4>1. ~(hist.set = 0 /\ hist'.set = 1)
        <5>1. hist.set = 0 /\ hist'.set = 1 => hist'.due[s] >= Clock(c)
              BY <1>3, <2>1, Zenon DEF HistMoves, ActiveOn
        <5> QED BY <1>8, <2>2, <2>3, <2>5, <5>1
      <4> QED BY <1>3, <2>3, <4>1 DEF HistMoves
    <3>4. CASE hist.set = 0
      <4>1. Late(s, c) <= MaxRun + SelectTimeout
        <5>1. CASE On(c)
          <6>1. Late(s, c) <= MaxRun + idle
                BY <1>2, <2>1, <3>4, <5>1, Zenon DEF WaitOk, FirstWait
          <6> QED BY <2>3, <6>1
        <5>2. CASE ~On(c)
              BY <2>1, <3>4, <5>2, Zenon DEF WaitOk, FirstWait
        <5> QED BY <5>1, <5>2, Zenon
      <4>2. /\ Late(s, c)' <= MaxRun + SelectTimeout
            /\ Late(s, c)' <= MaxRun + SelectTimeout + (Clock(c) - Clock(c))
            BY <2>3, <3>1, <4>1
      <4>3. FirstWait(s, c)'
            BY <1>4, <2>1, <3>2, <4>2, Zenon DEF FirstWait
      <4> QED BY <3>3, <3>4, <4>3, Zenon DEF WaitOk
    <3>5. CASE hist.set = 1
      <4>1. LaterWait(s, c) /\ hist'.set = 1 /\ Late(s, c)' = Late(s, c)
            BY <1>3, <2>1, <2>2, <3>5, IntSums, Zenon DEF WaitOk, HistMoves
      <4>2. CASE On(c)
        <5>1. Late(s, c) <= Wait(c)
              BY <2>1, <4>1, <4>2, Zenon DEF LaterWait
        <5>2. Late(s, c)' <= Wait(c) + (Clock(c) - Clock(c))
              BY <2>3, <4>1, <5>1
        <5>3. LaterWait(s, c)'
              BY <1>4, <2>1, <3>2, <4>2, <5>2, Zenon DEF LaterWait
        <5> QED BY <4>1, <5>3 DEF WaitOk
      <4>3. CASE ~On(c)
        <5>1. LaterWait(s, c)'
              BY <1>4, <2>1, <4>1, <4>3, Zenon DEF LaterWait
        <5> QED BY <4>1, <5>1 DEF WaitOk
      <4> QED BY <4>2, <4>3, Zenon
    <3> QED BY <2>3, <3>4, <3>5
  <2> QED BY <2>3, <2>4, <2>5, IntOrder, IntSums, Zenon
<1> QED BY <1>6, <1>9, <1>10, <1>11, Zenon DEF PInv

(* qemu_run_timers ends when the head of its list has not expired. *)
LEMMA NoneOld ==
    ASSUME PInv, phase \in Clocks, ~Expired, NEW s \in Timers, ActiveOn(s, phase)
    PROVE  ~Old(s, phase)
<1>1. Numbers /\ TInv /\ Turn /\ DueLater
      BY WaitTypes, Zenon DEF PInv
<1>2. PICK h \in Timers : h = active[phase][1] /\ active[phase] # <<>> /\ expire[h] <= expire[s]
      BY <1>1, HeadFirst, Zenon
<1>3. expire[h] > current
  <2>1. ~(expire[h] <= current)
        BY <1>2, Zenon DEF Expired
  <2> QED BY <1>1, <2>1, IntOrder, Zenon DEF Numbers
<1>4. hist.due[s] >= expire[s]
      BY <1>1, Zenon DEF DueLater
<1>5. current >= Began(phase)
      BY <1>1, IntOrder, Zenon DEF Turn, Clocks, Numbers
<1>6. /\ hist.due[s] \in Int /\ expire[s] \in Int /\ expire[h] \in Int /\ current \in Int
      /\ Began(phase) \in Int
      BY <1>1, Zenon DEF Numbers
<1>7. ~(hist.due[s] <= Began(phase))
      BY <1>2, <1>3, <1>4, <1>5, <1>6, IntOrder, Zenon
<1> QED BY <1>7, Zenon DEF Old

(* A timer that is not old has become due since the turn began. *)
LEMMA NewDue ==
    ASSUME PInv, phase # "select", NEW s \in Timers, NEW c \in Clocks, ActiveOn(s, c), On(c),
           ~Old(s, c)
    PROVE  hist.due[s] >= Began(c)
<1>1. hist.due[s] \in Int /\ Began(c) \in Int
      BY WaitTypes, Zenon DEF PInv, Numbers
<1>2. CASE phase = "rt" /\ c = "vm"
      BY <1>2, Zenon DEF PInv, Done, On
<1>3. CASE ~(phase = "rt" /\ c = "vm")
  <2>1. ~(hist.due[s] <= Began(c))
        BY <1>3, Zenon DEF Old, Clocks
  <2> QED BY <1>1, <2>1
<1> QED BY <1>2, <1>3, Zenon

(* The turn goes on to the next clock, or back to select. *)
LEMMA ClockDoneWaits ==
    ASSUME PInv, TInv', ClockDone
    PROVE  PInv'
<1>1. Numbers /\ TInv /\ Turn /\ DueLater /\ Done /\ Waits
      BY WaitTypes, Zenon DEF PInv
<1>2. /\ phase # "select" /\ ~Expired
      /\ now' = now /\ vmnow' = vmnow /\ ticks' = ticks /\ stops' = stops
      /\ enabled' = enabled /\ active' = active /\ expire' = expire /\ alarm' = alarm
      /\ signal' = signal /\ pending' = pending /\ expired' = expired /\ hist' = hist
      BY Zenon DEF ClockDone, clocks, lists, alarmVars
<1>3. phase \in Clocks
      BY <1>1, <1>2, Zenon DEF TInv, TypeOK
<1>4. \A s \in Timers, c \in Clocks :
         /\ Clock(c)' = Clock(c) /\ Late(s, c)' = Late(s, c) /\ Wait(c)' = Wait(c)
         /\ ActiveOn(s, c)' <=> ActiveOn(s, c)
         /\ On(c)' <=> On(c)
      BY <1>2, Zenon DEF Clock, Late, Wait, ActiveOn, On
<1>5. DueLater'
      BY <1>1, <1>2, <1>4, Zenon DEF DueLater
<1>6. Quiet' <=> Quiet
      BY <1>2, Zenon DEF Quiet
<1>7. CASE phase = "vm"
  <2>1. phase' = "rt" /\ current' = Clock("rt") /\ idle' = idle
        BY <1>7, Zenon DEF ClockDone, StartClock
  <2>2. \A c \in Clocks : Began(c)' = Began(c)
        BY <1>2, <2>1, Zenon DEF Began
  <2>3. Turn'
    <3>1. current' >= Began("rt")'
          BY <1>1, <2>1, <2>2, Zenon DEF Numbers, Clocks
    <3> QED BY <1>1, <1>2, <2>1, <3>1, Zenon DEF Turn, AtStart
  <2>4. Done'
    <3> SUFFICES ASSUME NEW s \in Timers, ActiveOn(s, "vm")'
                 PROVE  hist'.due[s] >= Began("vm")'
        BY Zenon DEF Done
    <3>1. ActiveOn(s, "vm")
          BY <1>4, Zenon DEF Clocks
    <3>2. ~Old(s, "vm")
          BY <1>2, <1>3, <1>7, <3>1, NoneOld, Zenon
    <3>3. ~(hist.due[s] <= Began("vm"))
          BY <1>7, <3>2, Zenon DEF Old
    <3>4. hist.due[s] \in Int /\ Began("vm") \in Int
          BY <1>1, Zenon DEF Numbers, Clocks
    <3>5. hist.due[s] >= Began("vm")
          BY <3>3, <3>4
    <3> QED BY <1>2, <2>2, <3>5, Zenon DEF Clocks
  <2>5. Waits'
    <3> SUFFICES ASSUME NEW s \in Timers, NEW c \in Clocks, ActiveOn(s, c)'
                 PROVE  WaitOk(s, c)'
        BY Zenon DEF Waits
    <3>1. WaitOk(s, c) /\ ActiveOn(s, c)
          BY <1>1, <1>4, Zenon DEF Waits
    <3>2. Old(s, c)' <=> Old(s, c)
      <4>1. CASE c = "rt"
            BY <1>2, <1>7, <2>1, <2>2, <4>1, Zenon DEF Old
      <4>2. CASE c = "vm"
        <5>1. ~Old(s, c)
              BY <1>2, <1>3, <1>7, <3>1, <4>2, NoneOld, Zenon
        <5> QED BY <2>1, <4>2, <5>1, Zenon DEF Old
      <4> QED BY <4>1, <4>2, Zenon DEF Clocks
    <3> QED BY <1>2, <1>4, <1>6, <2>1, <2>2, <3>1, <3>2, Zenon DEF WaitOk, FirstWait, LaterWait
  <2> QED BY <1>5, <2>3, <2>4, <2>5, Zenon DEF PInv
<1>8. CASE phase = "rt"
  <2>1. phase' = "select" /\ current' = 0 /\ idle' = 0
        BY <1>8, Zenon DEF ClockDone
  <2>2. Turn'
    <3>1. 0 <= SelectTimeout
          BY <1>1 DEF Numbers
    <3> QED BY <1>1, <1>2, <2>1, <3>1, Zenon DEF Turn, AtStart
  <2>3. Done'
        BY <2>1, Zenon DEF Done
  <2>4. Waits'
    <3> SUFFICES ASSUME NEW s \in Timers, NEW c \in Clocks, ActiveOn(s, c)'
                 PROVE  WaitOk(s, c)'
        BY Zenon DEF Waits
    <3>1. WaitOk(s, c) /\ ActiveOn(s, c) /\ ~Old(s, c)'
          BY <1>1, <1>4, <2>1, Zenon DEF Waits, Old
    <3>2. CASE ~On(c)
          BY <1>2, <1>4, <3>1, <3>2, Zenon DEF WaitOk, FirstWait, LaterWait
    <3>3. CASE On(c)
      <4>1. ~Old(s, c)
        <5>1. CASE c = "rt"
              BY <1>2, <1>3, <1>8, <3>1, <5>1, NoneOld, Zenon
        <5>2. CASE c = "vm"
              BY <1>8, <5>2, Zenon DEF Old
        <5> QED BY <5>1, <5>2, Zenon DEF Clocks
      <4>2. Late(s, c) <= MaxRun
        <5>1. hist.due[s] >= Began(c)
              BY <1>2, <3>1, <3>3, <4>1, NewDue, Zenon
        <5>2. /\ hist.due[s] \in Int /\ Began(c) \in Int /\ Clock(c) \in Int /\ idle \in Nat
              /\ Clock(c) - Began(c) <= idle /\ MaxRun \in Nat /\ idle <= MaxRun
              BY <1>1, <1>2, Zenon DEF Numbers, Turn
        <5>3. Clock(c) - hist.due[s] <= MaxRun
              BY <5>1, <5>2
        <5> QED BY <5>3, Zenon DEF Late
      <4>3. Late(s, c) <= MaxRun + 0
        <5>1. MaxRun \in Nat
              BY <1>1, Zenon DEF Numbers
        <5>2. MaxRun + 0 = MaxRun
              BY <5>1
        <5> QED BY <4>2, <5>2, Zenon
      <4> QED BY <1>2, <1>4, <1>6, <2>1, <3>1, <3>3, <4>1, <4>3, Zenon DEF WaitOk, FirstWait, LaterWait
    <3> QED BY <3>2, <3>3, Zenon
  <2> QED BY <1>5, <2>2, <2>3, <2>4, Zenon DEF PInv
<1> QED BY <1>3, <1>7, <1>8, Zenon DEF Clocks

(* do_vm_stop: one more alarm may be missed. *)
LEMMA VmStopWaits ==
    ASSUME PInv, TInv', VmStop
    PROVE  PInv'
<1>1. Numbers /\ TInv /\ Turn /\ DueLater /\ Waits
      BY WaitTypes, Zenon DEF PInv
<1>2. /\ phase = "select" /\ ticks = 1 /\ ticks' = 0 /\ enabled' = 0 /\ stops' = stops + 1
      /\ now' = now /\ vmnow' = vmnow /\ active' = active /\ expire' = expire
      /\ alarm' = alarm /\ signal' = signal /\ pending' = pending /\ expired' = expired
      /\ phase' = phase /\ current' = current /\ idle' = idle /\ hist' = hist
      BY Zenon DEF VmStop, lists, alarmVars, loop
<1>3. Turn'
      BY <1>1, <1>2, Zenon DEF Turn, AtStart
<1>4. \A s \in Timers, c \in Clocks :
         /\ Clock(c)' = Clock(c) /\ Late(s, c)' = Late(s, c)
         /\ ActiveOn(s, c)' <=> ActiveOn(s, c)
      BY <1>2, Zenon DEF Clock, Late, ActiveOn
<1>5. DueLater' /\ Done'
      BY <1>1, <1>2, <1>4, Zenon DEF DueLater, Done
<1>6. Waits'
  <2> SUFFICES ASSUME NEW s \in Timers, NEW c \in Clocks, ActiveOn(s, c)'
               PROVE  WaitOk(s, c)'
      BY Zenon DEF Waits
  <2>1. WaitOk(s, c) /\ ~Old(s, c) /\ ~Old(s, c)' /\ (Quiet' <=> Quiet) /\ On(c)
        BY <1>1, <1>2, <1>4, Zenon DEF Waits, Old, Quiet, On, Turn
  <2>2. CASE c = "rt"
    <3>1. Wait(c)' = Wait(c) /\ On(c)'
          BY <2>2, Zenon DEF Wait, On
    <3> QED BY <1>2, <1>4, <2>1, <3>1, Zenon DEF WaitOk, FirstWait, LaterWait
  <2>3. CASE c = "vm"
    <3>1. ~On(c)'
          BY <1>2, <2>3 DEF On
    <3>2. CASE hist.set = 0
      <4>1. Late(s, c) <= MaxRun + idle
            BY <1>2, <2>1, <3>2, Zenon DEF WaitOk, FirstWait
      <4>2. /\ Late(s, c) \in Int /\ idle \in Nat /\ MaxRun \in Nat /\ SelectTimeout \in Nat
            /\ idle <= SelectTimeout
            BY <1>1, <1>2, Zenon DEF Numbers, Turn
      <4>3. Late(s, c) <= MaxRun + SelectTimeout
            BY <4>1, <4>2
      <4> QED BY <1>2, <1>4, <3>1, <3>2, <4>3, Zenon DEF WaitOk, FirstWait
    <3>3. CASE hist.set # 0
      <4>1. Late(s, c) <= Wait(c)
            BY <2>1, <3>3, Zenon DEF WaitOk, LaterWait
      <4>2. Wait(c)' - MinRearm = Wait(c)
        <5>1. MinRearm \in Nat /\ stops \in Nat /\ MaxRun \in Nat
              BY <1>1, Zenon DEF Numbers
        <5>2. MinRearm * (stops + 1) = MinRearm * stops + MinRearm /\ MinRearm * stops \in Nat
              BY <5>1
        <5>3. Longest \in Nat
              BY <5>1, Zenon DEF Longest
        <5>4. Wait(c) = Longest + MinRearm * stops /\ Wait(c)' = Longest + MinRearm * (stops + 1)
              BY <1>2, <2>3, Zenon DEF Wait
        <5> QED BY <5>1, <5>2, <5>3, <5>4
      <4> QED BY <1>2, <1>4, <3>1, <3>3, <4>1, <4>2, Zenon DEF WaitOk, LaterWait
    <3> QED BY <3>2, <3>3, Zenon
  <2> QED BY <2>2, <2>3, Zenon DEF Clocks
<1> QED BY <1>3, <1>5, <1>6, Zenon DEF PInv

(* Time passes only while the main loop is not due. *)
LEMMA TickWaits ==
    ASSUME PInv, TInv', ~Urgent, Tick
    PROVE  PInv'
<1>1. Numbers /\ TInv /\ Turn /\ DueLater /\ Done /\ Waits /\ Covered /\ Numbers'
      BY WaitTypes, NextNumbers, CoversAll, Zenon DEF PInv
<1>2. /\ now' = now + 1 /\ vmnow' = vmnow + ticks /\ idle' = idle + 1
      /\ ticks' = ticks /\ stops' = stops /\ enabled' = enabled
      /\ active' = active /\ expire' = expire /\ pending' = pending /\ expired' = expired
      /\ phase' = phase /\ current' = current /\ hist' = hist
      BY Zenon DEF Tick, lists
<1>3. /\ alarm = now + 1 => alarm' = Off /\ signal' = 1
      /\ alarm # now + 1 => alarm' = alarm /\ signal' = signal
      BY <1>2, Zenon DEF Tick
<1>4. /\ now \in Nat /\ vmnow \in Nat /\ idle \in Nat /\ alarm \in Int /\ ticks \in 0..1
      /\ MaxRun \in Nat /\ SelectTimeout \in Nat /\ enabled \in 0..1
      BY <1>1, Zenon DEF Numbers
<1>5. ASSUME NEW c \in Clocks
      PROVE  /\ Began(c)' = Began(c)
             /\ Clock(c)' = Clock(c) \/ Clock(c)' = Clock(c) + 1
  <2>1. CASE c = "rt"
        BY <1>2, <1>4, <2>1 DEF Began, Clock
  <2>2. CASE c = "vm" /\ ticks = 1
        BY <1>2, <1>4, <2>2 DEF Began, Clock
  <2>3. CASE c = "vm" /\ ticks = 0
        BY <1>2, <1>4, <2>3 DEF Began, Clock
  <2> QED BY <1>4, <2>1, <2>2, <2>3 DEF Clocks
<1>6. \A s \in Timers, c \in Clocks :
         /\ ActiveOn(s, c)' <=> ActiveOn(s, c)
         /\ Old(s, c)' <=> Old(s, c)
         /\ On(c)' <=> On(c)
         /\ Wait(c)' = Wait(c)
      BY <1>2, <1>5, Zenon DEF ActiveOn, Old, On, Wait
<1>7. DueLater'
      BY <1>1, <1>2, <1>6, Zenon DEF DueLater
<1>8. Done'
      BY <1>1, <1>2, <1>5, <1>6, Zenon DEF Done, Clocks
<1>9. IF phase = "select" THEN idle' <= SelectTimeout /\ Quiet ELSE idle' <= MaxRun
  <2>1. CASE phase = "select"
    <3>1. signal = 0 /\ expired = 0 /\ idle # SelectTimeout
          BY <1>1, <2>1 DEF Urgent, TInv, TypeOK
    <3>2. idle <= SelectTimeout
          BY <1>1, <2>1, Zenon DEF Turn
    <3> QED BY <1>2, <1>4, <2>1, <3>1, <3>2 DEF Quiet
  <2>2. CASE phase # "select"
    <3>1. idle # MaxRun /\ idle <= MaxRun
          BY <1>1, <2>2, Zenon DEF Urgent, Turn
    <3> QED BY <1>2, <1>4, <2>2, <3>1
  <2> QED BY <2>1, <2>2, Zenon
<1>10. alarm' = Off \/ alarm' > now'
  <2>1. alarm = Off \/ alarm > now
        BY <1>1, Zenon DEF Turn
  <2> QED BY <1>2, <1>3, <1>4, <2>1 DEF Off
<1>11. Turn'
  <2>1. AtStart' => phase' = "select" /\ hist'.set = 0 /\ now' = idle'
        BY <1>1, <1>2, Zenon DEF Turn, AtStart
  <2>2. ticks' = 1 => enabled' = 1
        BY <1>1, <1>2, Zenon DEF Turn
  <2>3. IF phase' = "select" THEN idle' <= SelectTimeout
                             ELSE idle' <= MaxRun /\ pending' = 0 /\ expired' = 0
        BY <1>1, <1>2, <1>9, Zenon DEF Turn
  <2>4. /\ phase' = "vm" => enabled' = 1 /\ current' = Began("vm")'
        /\ phase' = "rt" => current' >= Began("rt")'
        BY <1>1, <1>2, <1>5, Zenon DEF Turn, Clocks
  <2> QED BY <1>10, <2>1, <2>2, <2>3, <2>4, Zenon DEF Turn
<1>12. Waits'
  <2> SUFFICES ASSUME NEW s \in Timers, NEW c \in Clocks, ActiveOn(s, c)'
               PROVE  WaitOk(s, c)'
      BY Zenon DEF Waits
  <2>1. WaitOk(s, c) /\ ActiveOn(s, c)
        BY <1>1, <1>6, Zenon DEF Waits
  <2>2. PICK a, b, k, kk, w, g \in Int :
           /\ a = Late(s, c) /\ b = Late(s, c)' /\ k = Clock(c) /\ kk = Clock(c)'
           /\ w = Wait(c) /\ g = Began(c)
        BY <1>1, Zenon DEF Numbers
  <2>3. hist.due[s] \in Int /\ a = k - hist.due[s] /\ b = kk - hist.due[s]
        BY <1>1, <1>2, <2>2, Zenon DEF Late, Numbers
  <2>4. kk = k \/ kk = k + 1
        BY <1>5, <2>2, Zenon
  <2>5. w >= MaxRun /\ kk - g <= idle'
        BY <1>1, <1>5, <2>2, Zenon DEF Numbers
  <2>6. CASE ~On(c)
    <3>1. c = "vm" /\ ticks = 0
          BY <1>1, <1>4, <2>6 DEF On, Turn, Clocks
    <3>2. kk = k
          BY <1>2, <1>4, <2>2, <3>1 DEF Clock
    <3>3. Late(s, c)' = Late(s, c)
          BY <2>2, <2>3, <3>2, Zenon
    <3> QED BY <1>2, <1>6, <2>1, <2>6, <3>3, Zenon DEF WaitOk, FirstWait, LaterWait
  <2>7. CASE On(c) /\ Old(s, c)
    <3>1. CASE hist.set = 0
      <4>1. a <= MaxRun + SelectTimeout + (k - g)
            BY <2>1, <2>2, <2>7, <3>1, Zenon DEF WaitOk, FirstWait
      <4>2. b <= MaxRun + SelectTimeout + (kk - g)
            BY <1>4, <2>3, <4>1
      <4> QED BY <1>2, <1>5, <1>6, <2>2, <2>7, <3>1, <4>2, Zenon DEF WaitOk, FirstWait
    <3>2. CASE hist.set # 0
      <4>1. a <= w + (k - g)
            BY <2>1, <2>2, <2>7, <3>2, Zenon DEF WaitOk, LaterWait
      <4>2. b <= w + (kk - g)
            BY <2>3, <4>1
      <4> QED BY <1>2, <1>5, <1>6, <2>2, <2>7, <3>2, <4>2, Zenon DEF WaitOk, LaterWait
    <3> QED BY <3>1, <3>2, Zenon
  <2>8. CASE On(c) /\ ~Old(s, c) /\ hist.set = 0
    <3>1. CASE phase = "select"
      <4>1. a <= MaxRun + idle
            BY <2>1, <2>2, <2>8, <3>1, Zenon DEF WaitOk, FirstWait
      <4>2. b <= MaxRun + idle'
            BY <1>2, <1>4, <2>3, <2>4, <4>1
      <4> QED BY <1>2, <1>6, <2>2, <2>8, <4>2, Zenon DEF WaitOk, FirstWait
    <3>2. CASE phase # "select"
          BY <1>2, <1>6, <2>8, <3>2, Zenon DEF WaitOk, FirstWait
    <3> QED BY <3>1, <3>2, Zenon
  <2>9. CASE On(c) /\ ~Old(s, c) /\ hist.set # 0
    <3>1. a <= w /\ (Quiet => alarm - now + a <= w)
          BY <2>1, <2>2, <2>9, Zenon DEF WaitOk, LaterWait
    <3>2. b <= w
      <4>1. CASE phase = "select"
        <5>1. Quiet /\ alarm # Off /\ hist.set = 1
          <6>1. hist.set \in 0..1
                BY <1>1, Zenon DEF Numbers
          <6>2. hist.set = 1
                BY <6>1, <2>9
          <6> QED BY <6>2, <1>1, <1>9, <2>1, <4>1, Zenon DEF Covered
        <5>2. alarm > now
              BY <1>1, <5>1, Zenon DEF Turn
        <5> QED BY <1>4, <2>3, <2>4, <3>1, <5>1, <5>2
      <4>2. CASE phase # "select"
        <5>1. hist.due[s] >= g
              BY <2>1, <2>2, <2>9, <4>2, NewDue, Zenon
        <5>2. idle' <= MaxRun /\ idle' \in Int
              BY <1>2, <1>4, <1>9, <4>2, IntOrder, IntSums, Zenon
        <5> QED BY <1>4, <2>3, <2>5, <5>1, <5>2
      <4> QED BY <4>1, <4>2, Zenon
    <3>3. Quiet' => alarm' - now' + b <= w
      <4> SUFFICES ASSUME Quiet' PROVE alarm' - now' + b <= w
          BY Zenon
      <4>1. alarm' = alarm /\ Quiet
        <5>1. signal' = 0 /\ expired' = 0
              BY Zenon DEF Quiet
        <5>2. signal' # 1
              BY <5>1
        <5> QED BY <5>1, <5>2, <1>2, <1>3, Zenon DEF Quiet
      <4>2. now' = now + 1 /\ alarm - now + a <= w /\ now \in Nat /\ alarm \in Int
            BY <1>2, <1>4, <3>1, <4>1, Zenon
      <4>3. b = a \/ b = a + 1
            BY <2>3, <2>4
      <4> QED BY <4>1, <4>2, <4>3
    <3> QED BY <1>2, <1>6, <2>2, <2>9, <3>2, <3>3, Zenon DEF WaitOk, LaterWait
  <2> QED BY <2>6, <2>7, <2>8, <2>9, Zenon
<1> QED BY <1>7, <1>8, <1>11, <1>12, Zenon DEF PInv

(* No timer is active at the start, and no alarm set. *)
LEMMA InitPInv == Init => PInv
<1> SUFFICES ASSUME Init PROVE PInv
    BY Zenon
<1>1. TInv
      BY InitTInv, Zenon
<1>2. \A t \in Timers, c \in Clocks : ~ActiveOn(t, c)
  <2>1. \A c \in Clocks : DOMAIN active[c] = {}
        BY DEF Init
  <2> QED BY <2>1, Zenon DEF ActiveOn
<1>3. hist.set = 0 /\ \A t \in Timers : hist.due[t] = 0
      BY Zenon DEF Init
<1>4. Turn
      BY <1>3, BoundsAssumption DEF Init, Turn, AtStart
<1>5. DueLater /\ Done /\ Waits
  <2>1. \A t \in Timers : hist.due[t] >= 0
        BY <1>3, IntOrder, IntSums, Zenon
  <2> QED BY <1>2, <2>1, Zenon DEF DueLater, Done, Waits, Clocks
<1> QED BY <1>1, <1>4, <1>5, Zenon DEF PInv

(* Every step keeps the invariant. *)
LEMMA NextPInv == PInv /\ [Next]_vars => PInv'
<1> SUFFICES ASSUME PInv, [Next]_vars PROVE PInv'
    BY Zenon
<1>1. TInv /\ TInv' /\ Numbers
      BY NextTInv, WaitTypes, Zenon DEF PInv
<1>2. ASSUME NEW t \in Timers, NEW d \in Delays, SetTimer(t, d) PROVE PInv'
  <2>1. Clock(ClockOf(t)) + d \in Int
        BY <1>1, DelaysAssumption, IntOrder, IntSums, Zenon DEF Numbers
  <2>2. Same /\ Mod(t, Clock(ClockOf(t)) + d)
        BY <1>2, Zenon DEF SetTimer, Same, clocks, loop
  <2> QED BY <1>1, <2>1, <2>2, ModWaits, Zenon
<1>3. ASSUME NEW t \in Timers, DeleteTimer(t) PROVE PInv'
  <2>1. Same /\ Del(t)
        BY <1>3, Zenon DEF DeleteTimer, Same, clocks, loop
  <2> QED BY <1>1, <2>1, DelWaits, Zenon
<1>4. CASE Fire
  <2>1. phase \in Clocks /\ active[phase] # <<>> /\ Same
        BY <1>1, <1>4, Zenon DEF Fire, Expired, Same, clocks, loop, TInv, TypeOK
  <2>2. PICK t \in Timers : t = active[phase][1] /\ ClockOf(t) = phase
    <3>1. active[phase] \in Seq(Timers)
          BY <1>1, <2>1, Zenon DEF TInv, TypeOK
    <3>2. 1 \in DOMAIN active[phase] /\ active[phase][1] \in Timers
          BY <2>1, <3>1
    <3> QED BY <1>1, <2>1, <3>2, Zenon DEF TInv, Sorted
  <2>3. Del(t) \/ \E d \in Delays : Mod(t, Clock(phase) + d)
        BY <1>4, <2>2, Zenon DEF Fire
  <2>4. CASE Del(t)
        BY <1>1, <2>1, <2>4, DelWaits, Zenon
  <2>5. ASSUME NEW d \in Delays, Mod(t, Clock(phase) + d) PROVE PInv'
    <3>1. Clock(phase) + d \in Int
          BY <1>1, <2>1, DelaysAssumption, IntOrder, IntSums, Zenon DEF Numbers
    <3> QED BY <1>1, <2>1, <2>2, <2>5, <3>1, ModWaits, Zenon
  <2> QED BY <2>3, <2>4, <2>5, Zenon
<1>5. CASE VmStart
      BY <1>1, <1>5, EnableWaits, Zenon DEF VmStart, lists, loop
<1>6. CASE ExecAll
      BY <1>1, <1>6, EnableWaits, Zenon DEF ExecAll, lists, loop, clocks
<1>7. CASE UNCHANGED vars
  <2>1. /\ Same /\ active' = active /\ expire' = expire /\ alarm' = alarm /\ hist' = hist
        BY <1>7, Zenon DEF vars, clocks, lists, alarmVars, loop, Same
  <2>2. \A c \in Clocks : /\ Clock(c)' = Clock(c) /\ Began(c)' = Began(c)
                          /\ Wait(c)' = Wait(c) /\ On(c)' = On(c)
        BY <2>1, Zenon DEF Same, Clock, Began, Wait, On
  <2>3. \A s \in Timers, c \in Clocks :
           /\ Late(s, c)' = Late(s, c)
           /\ ActiveOn(s, c)' <=> ActiveOn(s, c)
           /\ Old(s, c)' <=> Old(s, c)
        BY <2>1, <2>2, Zenon DEF Same, Late, ActiveOn, Old
  <2>4. Turn'
        BY <2>1, <2>2, Zenon DEF PInv, Turn, AtStart, Same, Clocks
  <2>5. DueLater' /\ Done'
        BY <2>1, <2>2, <2>3, Zenon DEF PInv, DueLater, Done, Same, Clocks
  <2>6. Waits'
    <3> SUFFICES ASSUME NEW s \in Timers, NEW c \in Clocks, ActiveOn(s, c)'
                 PROVE  WaitOk(s, c)'
        BY Zenon DEF Waits
    <3>1. WaitOk(s, c)
          BY <2>3, Zenon DEF PInv, Waits
    <3>2. Quiet' <=> Quiet
          BY <2>1, Zenon DEF Same, Quiet
    <3> QED BY <2>1, <2>2, <2>3, <3>1, <3>2, Zenon DEF WaitOk, FirstWait, LaterWait, Same
  <2> QED BY <1>1, <2>4, <2>5, <2>6, Zenon DEF PInv
<1> QED BY <1>1, <1>2, <1>3, <1>4, <1>5, <1>6, <1>7, HostAlarmWaits, RunAllWaits,
           ClockDoneWaits, VmStopWaits, TickWaits, Zenon DEF Next

(* What the invariant says of a timer that is active. *)
LEMMA PromptWhenInv == PInv => Prompt
<1> SUFFICES ASSUME PInv PROVE Prompt
    BY Zenon
<1> SUFFICES ASSUME NEW t \in Timers, NEW c \in Clocks, ActiveOn(t, c)
             PROVE  Late(t, c) <= MaxRun + IF hist.set = 0 THEN MaxRun + SelectTimeout
                                           ELSE Wait(c)
  <2>1. \A t \in Timers : ClockOf(t) \in Clocks
        BY WaitTypes, Zenon DEF PInv, Numbers
  <2>2. \A t \in Timers : (\E i \in DOMAIN active[ClockOf(t)] : active[ClockOf(t)][i] = t)
                              => ActiveOn(t, ClockOf(t))
        BY Zenon DEF ActiveOn
  <2> QED BY <2>1, <2>2, Zenon DEF Prompt, Late, Wait
<1>1. Numbers /\ Turn /\ WaitOk(t, c)
      BY WaitTypes, Zenon DEF PInv, Waits
<1>2. PICK a, k, w, g, u \in Int :
         /\ a = Late(t, c) /\ k = Clock(c) /\ w = Wait(c) /\ g = Began(c) /\ u = hist.due[t]
      BY <1>1, Zenon DEF Numbers
<1>3. /\ MaxRun \in Nat /\ SelectTimeout \in Nat /\ MinRearm \in Nat /\ idle \in Nat
      /\ k - g <= idle /\ a = k - u /\ w >= MaxRun
      BY <1>1, <1>2, Zenon DEF Numbers, Late
<1>4. IF phase = "select" THEN idle <= SelectTimeout ELSE idle <= MaxRun
      BY <1>1, Zenon DEF Turn
<1>5. CASE hist.set = 0
  <2>1. CASE ~On(c)
    <3>1. a <= MaxRun + SelectTimeout
          BY <1>1, <1>2, <1>5, <2>1, Zenon DEF WaitOk, FirstWait
    <3>2. a <= MaxRun + (MaxRun + SelectTimeout)
          BY <1>2, <1>3, <3>1
    <3> QED BY <1>2, <1>5, <3>2, Zenon
  <2>2. CASE On(c) /\ Old(t, c)
    <3>1. a <= MaxRun + SelectTimeout + (k - g) /\ phase # "select"
          BY <1>1, <1>2, <1>5, <2>2, Zenon DEF WaitOk, FirstWait, Old
    <3>2. a <= MaxRun + (MaxRun + SelectTimeout)
          BY <1>2, <1>3, <1>4, <3>1
    <3> QED BY <1>2, <1>5, <3>2, Zenon
  <2>3. CASE On(c) /\ ~Old(t, c)
    <3>1. IF phase = "select" THEN a <= MaxRun + idle ELSE u >= g
          BY <1>1, <1>2, <1>5, <2>3, NewDue, Zenon DEF WaitOk, FirstWait
    <3>2. a <= MaxRun + (MaxRun + SelectTimeout)
          BY <1>2, <1>3, <1>4, <3>1
    <3> QED BY <1>2, <1>5, <3>2, Zenon
  <2> QED BY <2>1, <2>2, <2>3, Zenon
<1>6. CASE hist.set # 0
  <2>1. a <= MaxRun + w
    <3>1. CASE ~On(c)
      <4>1. a <= w - MinRearm
            BY <1>1, <1>2, <1>6, <3>1, Zenon DEF WaitOk, LaterWait
      <4> QED BY <1>2, <1>3, <4>1
    <3>2. CASE On(c) /\ Old(t, c)
      <4>1. a <= w + (k - g) /\ phase # "select"
            BY <1>1, <1>2, <1>6, <3>2, Zenon DEF WaitOk, LaterWait, Old
      <4> QED BY <1>2, <1>3, <1>4, <4>1
    <3>3. CASE On(c) /\ ~Old(t, c)
      <4>1. a <= w
            BY <1>1, <1>2, <1>6, <3>3, Zenon DEF WaitOk, LaterWait
      <4> QED BY <1>2, <1>3, <4>1
    <3> QED BY <3>1, <3>2, <3>3, Zenon
  <2> QED BY <1>2, <1>6, <2>1, Zenon
<1> QED BY <1>5, <1>6, Zenon

(* How long each timer has waited is an invariant. *)
THEOREM WaitInvariant == Spec => []PInv
BY InitPInv, NextPInv, PTL DEF Spec

(* No active timer is later than the callbacks of two turns, or those of   *)
(* one and the shortest alarm, with one more alarm for each vm_stop and    *)
(* the timeout of select before the first alarm is set.                    *)
THEOREM TimersArePrompt == Spec => []Prompt
BY PromptWhenInv, WaitInvariant, PTL
=============================================================================

--------------------------- MODULE DiscoveryProofs ---------------------------
(***************************************************************************)
(* Proofs about the board and its user interface, for sockets of any size, *)
(* any number of clicks and of restarts.                                   *)
(***************************************************************************)
EXTENDS Discovery, SequenceTheorems, TLAPS

(* The last byte of a pending click is the state of the button. *)
ButtonUnderWay ==
    up => (pressed <=> Newest(BUTTON_PIN \in histA.level, btnq \o tksend))

(* Without the UI nothing is left of it, and a load is to follow. *)
NoUi == ~up => /\ restarts < MaxRestarts
               /\ pressed = FALSE /\ tksend = <<>> /\ logging = {}
               /\ \A l \in Leds : /\ ledq[l] = <<>> /\ held[l] = <<>>
                                  /\ image[l] = FALSE

(* stm32_gpio_update sends at most one level to each LED. *)
OneEach == Len(sending) = 2 => sending[1][1] # sending[2][1]

(* What SystemInit has done at each control point, and what the ports hold *)
(* until then.                                                             *)
SetUp == /\ gpioA.mode[BUTTON_PIN] = 0
         /\ gpioB.outd_old = gpioB.outd
         /\ pc # "setup_leds" \/ boots # 0 => \A i \in PinsB : gpioB.mode[i] # 0
         /\ \/ gpioA.pupd[BUTTON_PIN] # 0
            \/ pc \in {"setup_leds", "setup_button"} /\ boots = 0 /\ gpioA.ind = {}
         /\ pc \in {"setup_leds", "setup_button", "leds_off"} => boots # 2
         /\ pc \in {"setup_leds", "setup_button", "leds_off", "first_read"}
              => etat = {} /\ ~acted

(* The LEDs are off until the firmware handles a change, then ODR is what  *)
(* its last copy of IDR asks for, except between the copy and the write.   *)
OdrFollowsEtat == /\ ~acted => gpioB.outd = {}
                  /\ acted /\ pc \in {"test", "reread"} => gpioB.outd = LedsFor(etat)
                  /\ gpioB.outd \in {{}, PinsB}

(* IDR is the level of the line unless it was missed; before any load a    *)
(* press can only be missed before SetupButton, and then the firmware has  *)
(* not seen the button change.                                             *)
IdrFollowsLine ==
    /\ BUTTON_PIN \notin histA.missed
         => (BUTTON_PIN \in gpioA.ind <=> BUTTON_PIN \in histA.level)
    /\ restarts = 0 /\ BUTTON_PIN \in histA.missed
         => /\ gpioA.ind = {} /\ etat = {} /\ ~acted
            /\ pc \notin {"reread", "act"}

(* Changes of the button between the user and the thread of LED l: bytes   *)
(* of the button, a change of IDR, a change of etat, bytes of the LED.     *)
One(b) == IF b THEN 1 ELSE 0
ToButton == Len(tksend) + Len(btnq)
InFirmware == One(etat # gpioA.ind) + One(gpioB.outd # LedsFor(etat))
ToLed(l) == One(\E n \in DOMAIN sending : sending[n][1] = l)
            + Len(ledq[l]) + Len(held[l]) + One(l \in logging)

(* Every change under way is a click of its own, but for the two that a    *)
(* loaded state may hold.                                                  *)
ClicksUnderWay ==
    \A l \in Leds : ToButton + InFirmware + ToLed(l)
                      <= clicks + (IF restarts = 0 THEN 0 ELSE 2)

(* The inductive invariant. *)
DInv == /\ TypeOK /\ NoUi /\ OneEach /\ SetUp /\ OdrFollowsEtat /\ ImageFollowsOdr
        /\ ButtonUnderWay /\ IdrFollowsLine /\ ClicksUnderWay

-----------------------------------------------------------------------------
(* The queues *)

(* The length, the head and the tail of a queue. *)
LEMMA QueueFacts ==
    ASSUME NEW S, NEW q \in Seq(S)
    PROVE  /\ Len(q) \in Nat /\ DOMAIN q = 1..Len(q) /\ (q = <<>> <=> Len(q) = 0)
           /\ q # <<>> => /\ Head(q) = q[1] /\ Head(q) \in S
                          /\ Tail(q) \in Seq(S) /\ Len(Tail(q)) = Len(q) - 1
                          /\ \A i \in 1..(Len(q) - 1) : Tail(q)[i] = q[i + 1]
<1>1. Len(q) \in Nat /\ DOMAIN q = 1..Len(q)
      BY LenProperties
<1>2. q = <<>> <=> Len(q) = 0
      BY EmptySeq
<1>3. ASSUME q # <<>> PROVE /\ Tail(q) \in Seq(S) /\ Len(Tail(q)) = Len(q) - 1
                            /\ \A i \in 1..(Len(q) - 1) : Tail(q)[i] = q[i + 1]
  <2>1. /\ Tail(q) \in Seq(S) /\ Len(Tail(q)) = Len(q) - 1
        /\ \A i \in 1..Len(Tail(q)) : Tail(q)[i] = q[i + 1]
        BY <1>3, HeadTailProperties
  <2> QED BY <2>1, Zenon
<1>4. ASSUME q # <<>> PROVE Head(q) = q[1] /\ Head(q) \in S
      BY <1>1, <1>2, <1>4
<1> QED BY <1>1, <1>2, <1>3, <1>4

(* The newest element of an empty queue, of a queue that grows and of one  *)
(* whose head is consumed.                                                 *)
LEMMA NewestFacts ==
    ASSUME NEW x, NEW S, NEW q \in Seq(S)
    PROVE  /\ Newest(x, <<>>) = x
           /\ \A v : Newest(x, <<v>>) = v
           /\ \A v \in S : Newest(x, Append(q, v)) = v
           /\ q # <<>> => Newest(Head(q), Tail(q)) = Newest(x, q)
<1>1. Newest(x, <<>>) = x /\ \A v : Newest(x, <<v>>) = v
      BY DEF Newest
<1>2. ASSUME NEW v \in S PROVE Newest(x, Append(q, v)) = v
      BY DEF Newest
<1>3. ASSUME q # <<>> PROVE Newest(Head(q), Tail(q)) = Newest(x, q)
  <2>1. /\ Len(q) \in Nat /\ Len(q) > 0 /\ Tail(q) \in Seq(S) /\ Len(Tail(q)) = Len(q) - 1
        /\ Head(q) = q[1] /\ \A i \in 1..(Len(q) - 1) : Tail(q)[i] = q[i + 1]
        BY <1>3, QueueFacts
  <2>t. Tail(q) = <<>> <=> Len(q) - 1 = 0
    <3>1. \A r \in Seq(S) : r = <<>> <=> Len(r) = 0
          BY QueueFacts, Zenon
    <3> QED BY <2>1, <3>1, Zenon
  <2>2. CASE Len(q) = 1
    <3>1. Tail(q) = <<>>
          BY <2>1, <2>2, <2>t
    <3> QED BY <1>3, <2>1, <2>2, <3>1 DEF Newest
  <2>3. CASE Len(q) > 1
    <3>1. Tail(q) # <<>> /\ Tail(q)[Len(q) - 1] = q[Len(q)]
      <4>1. Len(q) - 1 \in 1..(Len(q) - 1) /\ Len(q) - 1 + 1 = Len(q) /\ Len(q) - 1 # 0
        <5>1. \A n \in Nat : n > 1 => n - 1 \in 1..(n - 1) /\ n - 1 + 1 = n /\ n - 1 # 0
              OBVIOUS
        <5> QED BY <2>1, <2>3, <5>1, Zenon
      <4>2. Tail(q)[Len(q) - 1] = q[Len(q) - 1 + 1]
            BY <2>1, <4>1, Zenon
      <4> QED BY <2>t, <4>1, <4>2
    <3> QED BY <1>3, <2>1, <3>1 DEF Newest
  <2> QED BY <2>1, <2>2, <2>3
<1> QED BY <1>1, <1>2, <1>3

(* The newest element of two queues in a row. *)
LEMMA NewestConcat ==
    ASSUME NEW x, NEW S, NEW a \in Seq(S), NEW b \in Seq(S)
    PROVE  Newest(x, a \o b) = Newest(Newest(x, a), b)
<1>1. CASE b = <<>>
  <2>1. a \o b = a
        BY <1>1
  <2> QED BY <1>1, <2>1 DEF Newest
<1>2. CASE b # <<>>
  <2>1. Len(a) \in Nat /\ Len(b) \in Nat /\ Len(b) > 0 /\ Len(a \o b) = Len(a) + Len(b)
        BY <1>2
  <2>2. a \o b # <<>> /\ (a \o b)[Len(a) + Len(b)] = b[Len(b)]
        BY <1>2, <2>1
  <2> QED BY <1>2, <2>1, <2>2 DEF Newest
<1> QED BY <1>1, <1>2

Messages == Seq(Leds \X BOOLEAN)

(* The same two facts about queues of bytes. *)
LEMMA BytesConcat ==
    \A x : \A a, b \in Seq(BOOLEAN) : Newest(x, a \o b) = Newest(Newest(x, a), b)
BY NewestConcat

LEMMA BytesNewest ==
    /\ \A x : Newest(x, <<>>) = x
    /\ \A x, v : Newest(x, <<v>>) = v
    /\ \A x : \A q \in Seq(BOOLEAN) : \A v \in BOOLEAN : Newest(x, Append(q, v)) = v
    /\ \A x : \A q \in Seq(BOOLEAN) : q # <<>> => Newest(Head(q), Tail(q)) = Newest(x, q)
<1>0. ASSUME NEW x PROVE Newest(x, <<>>) = x
      BY DEF Newest
<1>1. ASSUME NEW x, NEW v PROVE Newest(x, <<v>>) = v
  <2>1. <<>> \in Seq({x})
        OBVIOUS
  <2> QED BY <2>1, NewestFacts, Zenon
<1>2. \A x : \A q \in Seq(BOOLEAN) : \A v \in BOOLEAN : Newest(x, Append(q, v)) = v
  <2>1. ASSUME NEW S, NEW x, NEW q \in Seq(S), NEW v \in S
        PROVE  Newest(x, Append(q, v)) = v
        BY DEF Newest
  <2> QED BY <2>1, Zenon
<1>3. ASSUME NEW x, NEW q \in Seq(BOOLEAN), q # <<>>
      PROVE  Newest(Head(q), Tail(q)) = Newest(x, q)
      BY <1>3, NewestFacts
<1> QED BY <1>0, <1>1, <1>2, <1>3, Zenon

(* The newest level for an LED does not change when send_all hands its     *)
(* first message over.                                                     *)
LEMMA NewestForFacts ==
    ASSUME NEW l, NEW x, NEW s \in Messages, Len(s) <= 2
    PROVE  /\ NewestFor(l, x, <<>>) = x
           /\ s # <<>> => NewestFor(l, x, s)
                          = NewestFor(l, IF Head(s)[1] = l THEN Head(s)[2] ELSE x, Tail(s))
<1>1. NewestFor(l, x, <<>>) = x
      BY DEF NewestFor
<1>q. /\ Len(s) \in Nat /\ DOMAIN s = 1..Len(s) /\ (s = <<>> <=> Len(s) = 0)
      /\ s # <<>> => /\ Head(s) = s[1] /\ Tail(s) \in Messages /\ Len(Tail(s)) = Len(s) - 1
                     /\ \A i \in 1..(Len(s) - 1) : Tail(s)[i] = s[i + 1]
      BY QueueFacts DEF Messages
<1>t. s # <<>> => DOMAIN Tail(s) = 1..(Len(s) - 1) /\ (Tail(s) = <<>> <=> Len(s) = 1)
  <2>1. ASSUME NEW q \in Messages PROVE DOMAIN q = 1..Len(q) /\ (q = <<>> <=> Len(q) = 0)
        BY QueueFacts DEF Messages
  <2> QED BY <1>q, <2>1
<1>2. CASE Len(s) = 1
  <2>1. Tail(s) = <<>> /\ DOMAIN s = {1} /\ Head(s) = s[1]
        BY <1>2, <1>q, <1>t
  <2> QED BY <1>1, <2>1 DEF NewestFor
<1>3. CASE Len(s) = 2
  <2>1. Len(Tail(s)) = 1 /\ DOMAIN s = {1, 2} /\ Head(s) = s[1] /\ Tail(s)[1] = s[2]
        /\ DOMAIN Tail(s) = {1}
        BY <1>3, <1>q, <1>t
  <2>2. CASE s[2][1] = l
    <3>1. NewestFor(l, x, s) = s[2][2]
          BY <2>1, <2>2 DEF NewestFor
    <3>2. \A y : NewestFor(l, y, Tail(s)) = s[2][2]
          BY <2>1, <2>2 DEF NewestFor
    <3> QED BY <1>1, <3>1, <3>2
  <2>3. CASE s[2][1] # l
    <3>1. NewestFor(l, x, s) = IF s[1][1] = l THEN s[1][2] ELSE x
          BY <2>1, <2>3 DEF NewestFor
    <3>2. \A y : NewestFor(l, y, Tail(s)) = y
          BY <2>1, <2>3 DEF NewestFor
    <3> QED BY <1>1, <2>1, <3>1, <3>2
  <2> QED BY <2>2, <2>3
<1>4. CASE s = <<>>
      BY <1>1, <1>4
<1>5. Len(s) \in 0..2 /\ (Len(s) = 0 => s = <<>>)
      BY <1>q
<1> QED BY <1>2, <1>3, <1>4, <1>5

(* The second of these facts under a name. *)
HandsOver(l, x, s) ==
    NewestFor(l, x, s) = NewestFor(l, IF Head(s)[1] = l THEN Head(s)[2] ELSE x, Tail(s))

LEMMA HandOver ==
    \A l, x : \A s \in Messages : Len(s) <= 2 /\ s # <<>> => HandsOver(l, x, s)
<1> SUFFICES ASSUME NEW l, NEW x, NEW s \in Messages, Len(s) <= 2, s # <<>>
             PROVE  HandsOver(l, x, s)
    OBVIOUS
<1> QED BY NewestForFacts DEF HandsOver

-----------------------------------------------------------------------------
(* The wiring of the board *)

(* The pins of the button and of the two LEDs. *)
LEMMA Wiring ==
    /\ BUTTON_PIN = 0 /\ PinsA = {0} /\ PinsB = {6, 7}
    /\ Leds = {"blue", "green"} /\ LedPin("blue") = 6 /\ LedPin("green") = 7
    /\ \A l \in Leds : LedPin(l) \in PinsB
BY DEF BUTTON_PIN, PinsA, PinsB, Leds, LedPin

(* One message, for LED k, and two, for LEDs k and j. *)
Single(s, k, a) ==
    /\ s \in Messages /\ Len(s) = 1
    /\ \A l \in Leds : (\E n \in DOMAIN s : s[n][1] = l) <=> l = k
    /\ \A l \in Leds : \A x : NewestFor(l, x, s) = IF l = k THEN a ELSE x

Double(s, k, a, j, b) ==
    /\ s \in Messages /\ Len(s) = 2 /\ s[1][1] # s[2][1]
    /\ \A l \in Leds : (\E n \in DOMAIN s : s[n][1] = l) <=> (l = k \/ l = j)
    /\ \A l \in Leds : \A x : NewestFor(l, x, s) = IF l = k THEN a ELSE IF l = j THEN b ELSE x

(* One message. *)
LEMMA OneMessage ==
    ASSUME NEW k \in Leds, NEW a \in BOOLEAN, NEW s, s = << <<k, a>> >>
    PROVE  Single(s, k, a)
<1>1. Len(s) = 1 /\ DOMAIN s = {1} /\ s[1] = <<k, a>>
      OBVIOUS
<1>2. s \in Messages
      BY DEF Messages
<1>3. s[1][1] = k /\ s[1][2] = a
      BY <1>1
<1>4. \A l \in Leds : \A x : NewestFor(l, x, s) = IF l = k THEN a ELSE x
      BY <1>1, <1>3 DEF NewestFor
<1> QED BY <1>1, <1>2, <1>3, <1>4 DEF Single

(* Two messages. *)
LEMMA TwoMessages ==
    ASSUME NEW k \in Leds, NEW j \in Leds, k # j, NEW a \in BOOLEAN, NEW b \in BOOLEAN,
           NEW s, s = << <<k, a>>, <<j, b>> >>
    PROVE  Double(s, k, a, j, b)
<1>1. Len(s) = 2 /\ DOMAIN s = {1, 2} /\ s[1] = <<k, a>> /\ s[2] = <<j, b>>
      OBVIOUS
<1>2. s \in Messages
      BY DEF Messages
<1>3. s[1][1] = k /\ s[1][2] = a /\ s[2][1] = j /\ s[2][2] = b
      BY <1>1
<1>4. ASSUME NEW l \in Leds, NEW x
      PROVE  NewestFor(l, x, s) = IF l = k THEN a ELSE IF l = j THEN b ELSE x
  <2>1. CASE l = k
        BY <1>1, <1>3, <2>1 DEF NewestFor
  <2>2. CASE l = j
        BY <1>1, <1>3, <2>2 DEF NewestFor
  <2>3. CASE l # k /\ l # j
        BY <1>1, <1>3, <2>3 DEF NewestFor
  <2> QED BY <2>1, <2>2, <2>3
<1> QED BY <1>1, <1>2, <1>3, <1>4 DEF Double

(* Concatenations of queues with at most one element each. *)
LEMMA ShortConcats ==
    ASSUME NEW m, NEW n
    PROVE  /\ <<m>> \o <<n>> = <<m, n>> /\ <<m>> \o <<>> = <<m>>
           /\ <<>> \o <<n>> = <<n>> /\ <<>> \o <<>> = <<>>
<1> DEFINE S == {m, n}
<1>1. <<>> \in Seq(S) /\ <<m>> \in Seq(S) /\ <<n>> \in Seq(S) /\ <<m, n>> \in Seq(S)
      OBVIOUS
<1>2. \A q \in Seq(S) : q \o <<>> = q /\ <<>> \o q = q
      BY ConcatEmptySeq, Zenon
<1>3. <<m>> \o <<n>> = <<m, n>>
  <2>1. /\ <<m>> \o <<n>> \in Seq(S) /\ Len(<<m>> \o <<n>>) = Len(<<m>>) + Len(<<n>>)
        /\ \A i \in 1..(Len(<<m>>) + Len(<<n>>)) : (<<m>> \o <<n>>)[i] =
              IF i <= Len(<<m>>) THEN <<m>>[i] ELSE <<n>>[i - Len(<<m>>)]
        BY <1>1, ConcatProperties, Zenon
  <2>2. /\ Len(<<m>> \o <<n>>) = 2
        /\ (<<m>> \o <<n>>)[1] = m /\ (<<m>> \o <<n>>)[2] = n
        BY <2>1
  <2>3. Len(<<m>> \o <<n>>) = Len(<<m, n>>)
        /\ \A i \in 1..Len(<<m>> \o <<n>>) : (<<m>> \o <<n>>)[i] = <<m, n>>[i]
        BY <2>2
  <2> HIDE DEF S
  <2> QED BY <1>1, <2>1, <2>3, SeqEqual, Zenon
<1> HIDE DEF S
<1> QED BY <1>1, <1>2, <1>3, Zenon

WellFormed(s) == /\ s \in Messages /\ Len(s) <= 2
                 /\ (Len(s) = 2 => s[1][1] # s[2][1])

(* The messages s bring each LED whose pin is in d its level in o. *)
Carries(s, d, o) ==
    \A l \in Leds : /\ (\E n \in DOMAIN s : s[n][1] = l) <=> LedPin(l) \in d
                    /\ \A x : NewestFor(l, x, s)
                                = IF LedPin(l) \in d THEN LedPin(l) \in o ELSE x

(* The levels that one update sends: at most one to each LED, the one of   *)
(* its pin.                                                                *)
LEMMA LevelsFacts ==
    ASSUME NEW d, NEW o, NEW s, s = Levels("blue", d, o) \o Levels("green", d, o)
    PROVE  WellFormed(s) /\ Carries(s, d, o)
<1>0. "blue" \in Leds /\ "green" \in Leds /\ "blue" # "green"
      BY Wiring
<1>1. PICK a \in BOOLEAN : a = (LedPin("blue") \in o)
      BY (LedPin("blue") \in o) \in BOOLEAN, Zenon
<1>2. PICK b \in BOOLEAN : b = (LedPin("green") \in o)
      BY (LedPin("green") \in o) \in BOOLEAN, Zenon
<1>b. a \in BOOLEAN /\ b \in BOOLEAN
      BY <1>1, <1>2, Zenon
<1>3. s = (IF LedPin("blue") \in d THEN << <<"blue", a>> >> ELSE <<>>)
          \o (IF LedPin("green") \in d THEN << <<"green", b>> >> ELSE <<>>)
      BY <1>1, <1>2, Zenon DEF Levels
<1>4. SUFFICES
        /\ WellFormed(s)
        /\ (\E n \in DOMAIN s : s[n][1] = "blue") <=> LedPin("blue") \in d
        /\ (\E n \in DOMAIN s : s[n][1] = "green") <=> LedPin("green") \in d
        /\ \A x : NewestFor("blue", x, s) = IF LedPin("blue") \in d THEN a ELSE x
        /\ \A x : NewestFor("green", x, s) = IF LedPin("green") \in d THEN b ELSE x
  <2>1. \A l \in Leds : l = "blue" \/ l = "green"
        BY Wiring
  <2>2. ASSUME NEW l \in Leds, NEW x,
               \A y : NewestFor("blue", y, s) = IF LedPin("blue") \in d THEN a ELSE y,
               \A y : NewestFor("green", y, s) = IF LedPin("green") \in d THEN b ELSE y
        PROVE  NewestFor(l, x, s) = IF LedPin(l) \in d THEN LedPin(l) \in o ELSE x
    <3>1. NewestFor("blue", x, s) = IF LedPin("blue") \in d THEN LedPin("blue") \in o ELSE x
          BY <1>1, <2>2, Zenon
    <3>2. NewestFor("green", x, s) = IF LedPin("green") \in d THEN LedPin("green") \in o ELSE x
          BY <1>2, <2>2, Zenon
    <3> QED BY <2>1, <3>1, <3>2, Zenon
  <2> QED BY <2>1, <2>2, Zenon DEF Carries
<1>5. CASE LedPin("blue") \in d /\ LedPin("green") \in d
  <2>1. s = << <<"blue", a>>, <<"green", b>> >>
        BY <1>3, <1>5, ShortConcats, Zenon
  <2>2. Double(s, "blue", a, "green", b)
        BY <1>0, <1>b, <2>1, TwoMessages, Zenon
  <2> QED BY <1>0, <1>5, <2>2 DEF Double, WellFormed
<1>6. CASE LedPin("blue") \in d /\ LedPin("green") \notin d
  <2>1. s = << <<"blue", a>> >>
        BY <1>3, <1>6, ShortConcats, Zenon
  <2>2. Single(s, "blue", a)
        BY <1>0, <1>b, <2>1, OneMessage, Zenon
  <2> QED BY <1>0, <1>6, <2>2 DEF Single, WellFormed
<1>7. CASE LedPin("blue") \notin d /\ LedPin("green") \in d
  <2>1. s = << <<"green", b>> >>
        BY <1>3, <1>7, ShortConcats, Zenon
  <2>2. Single(s, "green", b)
        BY <1>0, <1>b, <2>1, OneMessage, Zenon
  <2> QED BY <1>0, <1>7, <2>2 DEF Single, WellFormed
<1>8. CASE LedPin("blue") \notin d /\ LedPin("green") \notin d
  <2>0. s = <<>>
        BY <1>3, <1>8, ShortConcats, Zenon
  <2>1. DOMAIN s = {} /\ Len(s) = 0 /\ s \in Messages
    <3>1. DOMAIN s = {}
        BY <2>0
    <3>2. Len(s) = 0
        BY <2>0
    <3>3. s \in Messages
        BY <2>0, EmptySeq, Zenon DEF Messages
    <3> QED BY <3>1, <3>2, <3>3
  <2>2. \A l, x : NewestFor(l, x, s) = x
        BY <2>1 DEF NewestFor
  <2> QED BY <1>8, <2>1, <2>2 DEF WellFormed
<1> QED BY <1>5, <1>6, <1>7, <1>8

(* The pins whose bit differs between two values of ODR. *)
Differ(u, v) == (u \ v) \cup (v \ u)

(* A write of the firmware to ODR, once the pins are outputs. *)
LEMMA WriteLedsEffect ==
    ASSUME TypeOK, NEW v \in SUBSET PinsB, WriteLeds(v),
           gpioB.outd_old = gpioB.outd, \A i \in PinsB : gpioB.mode[i] # 0
    PROVE  /\ gpioB' = [gpioB EXCEPT !.outd = v, !.outd_old = v]
           /\ histB' = [histB EXCEPT !.hidden = @ \ Differ(gpioB.outd, v)]
           /\ wireB' \subseteq PinsB
           /\ sending' = Levels("blue", Differ(gpioB.outd, v), v)
                         \o Levels("green", Differ(gpioB.outd, v), v)
<1> DEFINE g == [gpioB EXCEPT !.outd = v]
<1>1. /\ gpioB \in B!GpioState /\ histB \in B!PortHistory /\ wireB \subseteq PinsB
      BY DEF TypeOK, B!TypeOK
<1>2. g.outd = v /\ g.outd_old = gpioB.outd /\ g.mode = gpioB.mode /\ gpioB.outd \subseteq PinsB
      BY <1>1 DEF B!GpioState
<1>3. B!Changed(g) = Differ(gpioB.outd, v)
      BY <1>2 DEF B!Changed, Differ
<1>4. \A i \in PinsB : i < 8
      BY Wiring
<1>5. B!Driven(g) = Differ(gpioB.outd, v) /\ Differ(gpioB.outd, v) \subseteq PinsB
      BY <1>2, <1>3, <1>4 DEF B!Driven, B!UPDATED_PINS, Differ
<1>6. {i \in B!Changed(g) : g.mode[i] = 0} = {}
      BY <1>2, <1>3, <1>5
<1>7. B!UpdatePort(g) /\ LedsReceive(B!Driven(g), v)
      BY DEF WriteLeds, B!WriteOdr
<1>8. gpioB' = [g EXCEPT !.outd_old = v]
      BY <1>2, <1>7 DEF B!UpdatePort, B!Update
<1>9. [g EXCEPT !.outd_old = v] = [gpioB EXCEPT !.outd = v, !.outd_old = v]
      BY <1>1 DEF B!GpioState
<1>10. histB' = [histB EXCEPT !.hidden = @ \ Differ(gpioB.outd, v)]
      BY <1>1, <1>3, <1>6, <1>7 DEF B!UpdatePort, B!PortHistory
<1>11. wireB' \subseteq PinsB
      BY <1>1, <1>5, <1>7 DEF B!UpdatePort
<1>12. sending' = Levels("blue", Differ(gpioB.outd, v), v)
                  \o Levels("green", Differ(gpioB.outd, v), v)
      BY <1>5, <1>7 DEF LedsReceive
<1> QED BY <1>8, <1>9, <1>10, <1>11, <1>12

-----------------------------------------------------------------------------
(* The ports *)

(* The registers and the history of the two ports. *)
PortsOK == /\ gpioA \in A!GpioState /\ wireA \subseteq PinsA /\ histA \in A!PortHistory
           /\ gpioB \in B!GpioState /\ wireB \subseteq PinsB /\ histB \in B!PortHistory

(* The rest of the state. *)
RestOK == /\ up \in BOOLEAN /\ pressed \in BOOLEAN /\ clicks \in 0..MaxClicks
          /\ tksend \in Seq(BOOLEAN) /\ Len(tksend) <= 1
          /\ btnq \in Seq(BOOLEAN) /\ Len(btnq) <= CapB
          /\ button \in BOOLEAN
          /\ sending \in Messages /\ Len(sending) <= 2
          /\ ledq \in [Leds -> Seq(BOOLEAN)] /\ \A l \in Leds : Len(ledq[l]) <= CapL
          /\ held \in [Leds -> Seq(BOOLEAN)] /\ \A l \in Leds : Len(held[l]) <= 1
          /\ logging \subseteq Leds /\ image \in [Leds -> BOOLEAN]

FirmwareOK == /\ pc \in {"setup_leds", "setup_button", "leds_off", "first_read",
                         "test", "reread", "act"}
              /\ boots \in 0..2 /\ etat \subseteq PinsA /\ acted \in BOOLEAN
              /\ restarts \in 0..MaxRestarts

(* TypeOK part by part. *)
LEMMA TypeParts == TypeOK <=> PortsOK /\ RestOK /\ FirmwareOK
BY DEF TypeOK, PortsOK, RestOK, FirmwareOK, A!TypeOK, B!TypeOK, Messages

(* The same in the next state. *)
LEMMA TypePartsNext == PortsOK' /\ RestOK' /\ FirmwareOK' => TypeOK'
BY DEF TypeOK, PortsOK, RestOK, FirmwareOK, A!TypeOK, B!TypeOK, Messages

(* The fields of the two ports. *)
LEMMA PortFields ==
    ASSUME PortsOK
    PROVE  /\ gpioA.mode \in [PinsA -> 0..3] /\ gpioA.pupd \in [PinsA -> 0..3]
           /\ gpioA.ind \subseteq PinsA /\ gpioA.outd \subseteq PinsA
           /\ histA.hidden \subseteq PinsA
           /\ histA.level \subseteq PinsA /\ histA.missed \subseteq PinsA
           /\ gpioB.mode \in [PinsB -> 0..3] /\ gpioB.ind \subseteq PinsB
           /\ gpioB.outd \subseteq PinsB /\ histB.hidden \subseteq PinsB
BY DEF PortsOK, A!GpioState, A!PortHistory, B!GpioState, B!PortHistory

(* The ports stay as they are. *)
LEMMA PortsKept ==
    ASSUME PortsOK, UNCHANGED <<portA, portB>>
    PROVE  PortsOK'
BY DEF PortsOK, portA, portB, A!GpioState, A!PortHistory, B!GpioState, B!PortHistory

(* Both ports are loaded into a new process. *)
LEMMA RestorePorts ==
    ASSUME PortsOK, A!Restore, B!Restore
    PROVE  /\ PortsOK' /\ gpioA' = gpioA /\ gpioB' = gpioB
           /\ histA'.level = {} /\ histA'.missed = gpioA.ind
           /\ histB'.hidden = gpioB.outd
<1>1. /\ gpioA' = gpioA /\ gpioB' = gpioB /\ wireA' = {} /\ wireB' = {}
      /\ histA' = [hidden |-> gpioA.outd, level |-> {}, missed |-> gpioA.ind]
      /\ histB' = [hidden |-> gpioB.outd, level |-> {}, missed |-> gpioB.ind]
      BY DEF A!Restore, B!Restore, A!Loaded, B!Loaded
<1>2. histA' \in A!PortHistory /\ histB' \in B!PortHistory
      BY <1>1, PortFields DEF A!PortHistory, B!PortHistory
<1>3. gpioA' \in A!GpioState /\ gpioB' \in B!GpioState
      BY <1>1 DEF PortsOK, A!GpioState, B!GpioState
<1>4. wireA' \subseteq PinsA /\ wireB' \subseteq PinsB
      BY <1>1
<1>5. PortsOK'
      BY <1>2, <1>3, <1>4 DEF PortsOK
<1> QED BY <1>1, <1>5

(* stm32_gpio_in_recv on the pin of the button. *)
LEMMA ButtonInput ==
    ASSUME PortsOK, UNCHANGED portB, NEW level \in BOOLEAN, A!InRecv(BUTTON_PIN, level),
           gpioA.mode[BUTTON_PIN] = 0
    PROVE  /\ PortsOK' /\ gpioA'.mode = gpioA.mode /\ gpioA'.pupd = gpioA.pupd
           /\ level => BUTTON_PIN \in histA'.level
           /\ ~level => BUTTON_PIN \notin histA'.level
           /\ gpioA.pupd[BUTTON_PIN] # 0 =>
                /\ BUTTON_PIN \notin histA'.missed
                /\ level => gpioA'.ind = {BUTTON_PIN}
                /\ ~level => gpioA'.ind = {}
           /\ gpioA.pupd[BUTTON_PIN] = 0 => /\ gpioA'.ind = gpioA.ind
                                            /\ BUTTON_PIN \in histA'.missed
<1>1. A!InputConfigured(gpioA, BUTTON_PIN) <=> gpioA.pupd[BUTTON_PIN] # 0
      BY DEF A!InputConfigured
<1>2. PinsA = {BUTTON_PIN}
      BY DEF PinsA
<1>3. /\ gpioA' = IF gpioA.pupd[BUTTON_PIN] # 0
                  THEN [gpioA EXCEPT !.ind = IF level THEN @ \cup {BUTTON_PIN}
                                                      ELSE @ \ {BUTTON_PIN}]
                  ELSE gpioA
      /\ histA' = [histA EXCEPT
                     !.level = IF level THEN @ \cup {BUTTON_PIN} ELSE @ \ {BUTTON_PIN},
                     !.missed = IF gpioA.pupd[BUTTON_PIN] # 0 THEN @ \ {BUTTON_PIN}
                                                              ELSE @ \cup {BUTTON_PIN}]
      /\ wireA' = wireA
      BY <1>1 DEF A!InRecv, A!SetBit
<1>4. /\ gpioA \in A!GpioState /\ gpioA.ind \subseteq {BUTTON_PIN} /\ histA \in A!PortHistory
      BY <1>2, PortFields DEF PortsOK
<1>5. gpioA' \in A!GpioState /\ gpioA'.mode = gpioA.mode /\ gpioA'.pupd = gpioA.pupd
      BY <1>2, <1>3, <1>4 DEF A!GpioState
<1>6. histA' \in A!PortHistory
      BY <1>2, <1>3, <1>4 DEF A!PortHistory
<1>7. PortsOK'
      BY <1>3, <1>5, <1>6 DEF PortsOK, portB, B!GpioState, B!PortHistory
<1>8. /\ level => BUTTON_PIN \in histA'.level
      /\ ~level => BUTTON_PIN \notin histA'.level
      /\ gpioA.pupd[BUTTON_PIN] # 0 <=> BUTTON_PIN \notin histA'.missed
      BY <1>3, <1>4 DEF A!PortHistory
<1>9. /\ gpioA.pupd[BUTTON_PIN] # 0 /\ level => gpioA'.ind = {BUTTON_PIN}
      /\ gpioA.pupd[BUTTON_PIN] # 0 /\ ~level => gpioA'.ind = {}
      /\ gpioA.pupd[BUTTON_PIN] = 0 => gpioA'.ind = gpioA.ind
      BY <1>3, <1>4 DEF A!GpioState
<1> QED BY <1>5, <1>7, <1>8, <1>9

(* SetupLeds makes outputs of the pins of the LEDs. *)
LEMMA SetupLedsEffect ==
    ASSUME PortsOK, SetupLeds
    PROVE  /\ PortsOK' /\ UNCHANGED portA /\ histB' = histB
           /\ gpioB'.outd = gpioB.outd /\ gpioB'.outd_old = gpioB.outd_old
           /\ \A i \in PinsB : gpioB'.mode[i] # 0
<1> DEFINE m == [i \in PinsB |-> BitOr1(gpioB.mode[i])]
<1>1. \A f \in 0..3 : BitOr1(f) \in 0..3 /\ BitOr1(f) # 0
      BY DEF BitOr1
<1>2. m \in [PinsB -> 0..3] /\ \A i \in PinsB : m[i] # 0
      BY <1>1, PortFields
<1>3. gpioB' = [gpioB EXCEPT !.mode = m] /\ wireB' = wireB /\ histB' = histB /\ UNCHANGED portA
      BY DEF SetupLeds, B!WriteMode
<1> HIDE DEF m
<1>4. /\ gpioB' \in B!GpioState /\ gpioB'.mode = m
      /\ gpioB'.outd = gpioB.outd /\ gpioB'.outd_old = gpioB.outd_old
      BY <1>2, <1>3 DEF PortsOK, B!GpioState
<1>5. PortsOK'
      BY <1>3, <1>4 DEF PortsOK, portA, A!GpioState, A!PortHistory, B!PortHistory
<1> QED BY <1>2, <1>3, <1>4, <1>5

(* SetupButton gives the pin of the button a pull-down. *)
LEMMA SetupButtonEffect ==
    ASSUME PortsOK, SetupButton
    PROVE  /\ PortsOK' /\ UNCHANGED portB /\ histA' = histA
           /\ gpioA'.ind = gpioA.ind /\ gpioA'.mode = gpioA.mode
           /\ gpioA'.pupd[BUTTON_PIN] # 0
<1> DEFINE m == [i \in PinsA |-> BitOr2(gpioA.pupd[i])]
<1>1. \A f \in 0..3 : BitOr2(f) \in 0..3 /\ BitOr2(f) # 0
      BY DEF BitOr2
<1>2. m \in [PinsA -> 0..3] /\ \A i \in PinsA : m[i] # 0
      BY <1>1, PortFields
<1>3. gpioA' = [gpioA EXCEPT !.pupd = m] /\ wireA' = wireA /\ histA' = histA /\ UNCHANGED portB
      BY DEF SetupButton, A!WritePupd
<1> HIDE DEF m
<1>4. /\ gpioA' \in A!GpioState /\ gpioA'.pupd = m
      /\ gpioA'.ind = gpioA.ind /\ gpioA'.mode = gpioA.mode
      BY <1>2, <1>3 DEF PortsOK, A!GpioState
<1>5. PortsOK'
      BY <1>3, <1>4 DEF PortsOK, portB, B!GpioState, B!PortHistory, A!PortHistory
<1>6. BUTTON_PIN \in PinsA
      BY DEF PinsA
<1> QED BY <1>2, <1>3, <1>4, <1>5, <1>6

(* The ports after a write of the firmware to ODR. *)
LEMMA WriteLedsPorts ==
    ASSUME TypeOK, NEW v \in SUBSET PinsB, WriteLeds(v), UNCHANGED portA,
           gpioB.outd_old = gpioB.outd, \A i \in PinsB : gpioB.mode[i] # 0
    PROVE  /\ PortsOK' /\ gpioB'.outd = v /\ gpioB'.outd_old = v
           /\ gpioB'.mode = gpioB.mode
           /\ histB'.hidden = histB.hidden \ Differ(gpioB.outd, v)
<1>1. /\ gpioB' = [gpioB EXCEPT !.outd = v, !.outd_old = v]
      /\ histB' = [histB EXCEPT !.hidden = @ \ Differ(gpioB.outd, v)]
      /\ wireB' \subseteq PinsB
      BY WriteLedsEffect
<1>2. PortsOK
      BY TypeParts
<1>3. /\ gpioB' \in B!GpioState /\ gpioB'.outd = v /\ gpioB'.outd_old = v
      /\ gpioB'.mode = gpioB.mode
      BY <1>1, <1>2 DEF PortsOK, B!GpioState
<1>4. histB' \in B!PortHistory /\ histB'.hidden = histB.hidden \ Differ(gpioB.outd, v)
      BY <1>1, <1>2 DEF PortsOK, B!PortHistory
<1>5. PortsOK'
      BY <1>1, <1>2, <1>3, <1>4 DEF PortsOK, portA, A!GpioState, A!PortHistory
<1> QED BY <1>3, <1>4, <1>5

(* The steps that change the ports or the firmware. *)
LEMMA Quiet ==
    ASSUME Next
    PROVE  \/ ButtonReceive \/ Firmware \/ Restart
           \/ UNCHANGED <<portA, portB, cpu, restarts>>
BY DEF Next, Click, SendClick, SendLed, SendAgain, Receive, Show, Log, UiQuits, vars, cpu,
       portA, portB

-----------------------------------------------------------------------------
(* The firmware and the ports it uses *)
PortInv == PortsOK /\ FirmwareOK /\ SetUp /\ OdrFollowsEtat /\ IdrFollowsLine

(* Steps that touch neither. *)
LEMMA PortInvKept ==
    ASSUME PortInv, UNCHANGED <<portA, portB, cpu, restarts>>
    PROVE  PortInv'
<1>1. PortsOK'
      BY PortsKept DEF PortInv
<1>2. FirmwareOK'
      BY DEF PortInv, FirmwareOK, cpu
<1>3. SetUp' /\ OdrFollowsEtat' /\ IdrFollowsLine'
      BY DEF PortInv, SetUp, OdrFollowsEtat, IdrFollowsLine, cpu, portA, portB, LedsFor
<1> QED BY <1>1, <1>2, <1>3 DEF PortInv

(* ButtonReceive: IDR follows the line once SetupButton is done. *)
LEMMA PortInvReceive ==
    ASSUME TypeOK, PortInv, ButtonReceive
    PROVE  PortInv'
<1>1. PICK level \in BOOLEAN : level = Head(btnq) /\ A!InRecv(BUTTON_PIN, level)
  <2>1. Head(btnq) \in BOOLEAN
        BY QueueFacts, TypeParts DEF ButtonReceive, RestOK
  <2> QED BY <2>1, Zenon DEF ButtonReceive
<1>2. UNCHANGED portB /\ UNCHANGED cpu /\ restarts' = restarts
      BY DEF ButtonReceive
<1>3. /\ PortsOK' /\ gpioA'.mode = gpioA.mode /\ gpioA'.pupd = gpioA.pupd
      /\ level => BUTTON_PIN \in histA'.level
      /\ ~level => BUTTON_PIN \notin histA'.level
      /\ gpioA.pupd[BUTTON_PIN] # 0 =>
           /\ BUTTON_PIN \notin histA'.missed
           /\ level => gpioA'.ind = {BUTTON_PIN}
           /\ ~level => gpioA'.ind = {}
      /\ gpioA.pupd[BUTTON_PIN] = 0 => gpioA'.ind = gpioA.ind /\ BUTTON_PIN \in histA'.missed
      BY <1>1, <1>2, ButtonInput DEF PortInv, SetUp
<1>4. FirmwareOK'
      BY <1>2 DEF PortInv, FirmwareOK, cpu
<1>5. SetUp'
      BY <1>2, <1>3 DEF PortInv, SetUp, cpu, portB
<1>6. OdrFollowsEtat'
      BY <1>2 DEF PortInv, OdrFollowsEtat, cpu, portB, LedsFor
<1>7. IdrFollowsLine'
  <2>1. CASE gpioA.pupd[BUTTON_PIN] # 0
        BY <1>3, <2>1 DEF IdrFollowsLine
  <2>2. CASE gpioA.pupd[BUTTON_PIN] = 0
    <3>1. gpioA.ind = {} /\ etat = {} /\ ~acted /\ pc \notin {"reread", "act"} /\ gpioA'.ind = {}
          BY <1>3, <2>2 DEF PortInv, SetUp
    <3> QED BY <1>2, <1>3, <2>2, <3>1 DEF IdrFollowsLine, cpu
  <2> QED BY <2>1, <2>2
<1> QED BY <1>3, <1>4, <1>5, <1>6, <1>7 DEF PortInv

(* A step of the firmware. *)
LEMMA PortInvFirmware ==
    ASSUME TypeOK, PortInv, Firmware
    PROVE  PortInv'
<1>0. PortsOK /\ FirmwareOK /\ SetUp /\ OdrFollowsEtat /\ IdrFollowsLine
      BY DEF PortInv
<1>1. CASE SetupLeds
  <2>1. /\ PortsOK' /\ UNCHANGED portA /\ histB' = histB
        /\ gpioB'.outd = gpioB.outd /\ gpioB'.outd_old = gpioB.outd_old
        /\ \A i \in PinsB : gpioB'.mode[i] # 0
        BY <1>0, <1>1, SetupLedsEffect
  <2>2. pc = "setup_leds" /\ pc' = "setup_button" /\ UNCHANGED <<boots, etat, acted, restarts>>
        BY <1>1 DEF SetupLeds
  <2>3. FirmwareOK'
        BY <1>0, <2>2 DEF FirmwareOK
  <2>4. SetUp'
        BY <1>0, <2>1, <2>2 DEF SetUp, portA
  <2>5. OdrFollowsEtat' /\ IdrFollowsLine'
        BY <1>0, <2>1, <2>2 DEF SetUp, OdrFollowsEtat, IdrFollowsLine, portA
  <2> QED BY <2>1, <2>3, <2>4, <2>5 DEF PortInv
<1>2. CASE SetupButton
  <2>1. /\ PortsOK' /\ UNCHANGED portB /\ histA' = histA
        /\ gpioA'.ind = gpioA.ind /\ gpioA'.mode = gpioA.mode
        /\ gpioA'.pupd[BUTTON_PIN] # 0
        BY <1>0, <1>2, SetupButtonEffect
  <2>2. pc = "setup_button" /\ pc' = "leds_off" /\ UNCHANGED <<boots, etat, acted, restarts>>
        BY <1>2 DEF SetupButton
  <2>3. FirmwareOK'
        BY <1>0, <2>2 DEF FirmwareOK
  <2>4. SetUp'
        BY <1>0, <2>1, <2>2 DEF SetUp, portB
  <2>5. OdrFollowsEtat' /\ IdrFollowsLine'
        BY <1>0, <2>1, <2>2 DEF SetUp, OdrFollowsEtat, IdrFollowsLine, portB
  <2> QED BY <2>1, <2>3, <2>4, <2>5 DEF PortInv
<1>3. CASE LedsOff
  <2>1. /\ pc = "leds_off" /\ WriteLeds({}) /\ UNCHANGED <<portA, etat, acted, restarts>>
        /\ boots' = boots + 1 /\ pc' = IF boots' = 2 THEN "first_read" ELSE "setup_leds"
        BY <1>3 DEF LedsOff
  <2>2. /\ PortsOK' /\ gpioB'.outd = {} /\ gpioB'.outd_old = {} /\ gpioB'.mode = gpioB.mode
        BY <1>0, <2>1, WriteLedsPorts DEF SetUp
  <2>3. boots \in 0..1
        BY <1>0, <2>1 DEF SetUp, FirmwareOK
  <2>4. FirmwareOK'
        BY <1>0, <2>1, <2>3 DEF FirmwareOK
  <2>5. SetUp'
        BY <1>0, <2>1, <2>2, <2>3 DEF SetUp, portA
  <2>6. OdrFollowsEtat' /\ IdrFollowsLine'
        BY <1>0, <2>1, <2>2, <2>3 DEF SetUp, OdrFollowsEtat, IdrFollowsLine, portA
  <2> QED BY <2>2, <2>4, <2>5, <2>6 DEF PortInv
<1>4. CASE FirstRead
  <2>1. /\ pc = "first_read" /\ pc' = "test" /\ etat' = gpioA.ind
        /\ UNCHANGED <<portA, portB, boots, acted, restarts>>
        BY <1>4 DEF FirstRead
  <2>2. PortsOK'
        BY <1>0, <2>1, PortsKept
  <2>3. FirmwareOK'
        BY <1>0, <2>1, PortFields DEF FirmwareOK
  <2>4. SetUp'
        BY <1>0, <2>1 DEF SetUp, portA, portB
  <2>5. OdrFollowsEtat' /\ IdrFollowsLine'
        BY <1>0, <2>1 DEF SetUp, OdrFollowsEtat, IdrFollowsLine, portA, portB
  <2> QED BY <2>2, <2>3, <2>4, <2>5 DEF PortInv
<1>5. CASE Test
  <2>1. /\ pc = "test" /\ pc' = (IF etat # gpioA.ind THEN "reread" ELSE "test")
        /\ UNCHANGED <<portA, portB, boots, etat, acted, restarts>>
        BY <1>5 DEF Test
  <2>2. PortsOK'
        BY <1>0, <2>1, PortsKept
  <2>3. FirmwareOK'
        BY <1>0, <2>1 DEF FirmwareOK
  <2>4. SetUp'
        BY <1>0, <2>1 DEF SetUp, portA, portB
  <2>5. OdrFollowsEtat' /\ IdrFollowsLine'
        BY <1>0, <2>1 DEF OdrFollowsEtat, IdrFollowsLine, portA, portB, LedsFor
  <2> QED BY <2>2, <2>3, <2>4, <2>5 DEF PortInv
<1>6. CASE Reread
  <2>1. /\ pc = "reread" /\ pc' = "act" /\ etat' = gpioA.ind
        /\ UNCHANGED <<portA, portB, boots, acted, restarts>>
        BY <1>6 DEF Reread
  <2>2. PortsOK'
        BY <1>0, <2>1, PortsKept
  <2>3. FirmwareOK'
        BY <1>0, <2>1, PortFields DEF FirmwareOK
  <2>4. SetUp'
        BY <1>0, <2>1 DEF SetUp, portA, portB
  <2>5. OdrFollowsEtat' /\ IdrFollowsLine'
        BY <1>0, <2>1 DEF OdrFollowsEtat, IdrFollowsLine, portA, portB
  <2> QED BY <2>2, <2>3, <2>4, <2>5 DEF PortInv
<1>7. CASE Act
  <2>1. /\ pc = "act" /\ pc' = "test" /\ WriteLeds(LedsFor(etat)) /\ acted' = TRUE
        /\ UNCHANGED <<portA, boots, etat, restarts>>
        BY <1>7 DEF Act
  <2>2. LedsFor(etat) \in {{}, PinsB} /\ LedsFor(etat) \in SUBSET PinsB
        BY DEF LedsFor
  <2>3. /\ PortsOK' /\ gpioB'.outd = LedsFor(etat) /\ gpioB'.outd_old = LedsFor(etat)
        /\ gpioB'.mode = gpioB.mode
        BY <1>0, <2>1, <2>2, WriteLedsPorts DEF SetUp
  <2>4. FirmwareOK'
        BY <1>0, <2>1 DEF FirmwareOK
  <2>5. SetUp'
        BY <1>0, <2>1, <2>3 DEF SetUp, portA
  <2>6. OdrFollowsEtat'
        BY <2>1, <2>2, <2>3 DEF OdrFollowsEtat, LedsFor
  <2>7. IdrFollowsLine'
        BY <1>0, <2>1 DEF IdrFollowsLine, portA
  <2> QED BY <2>3, <2>4, <2>5, <2>6, <2>7 DEF PortInv
<1> QED BY <1>1, <1>2, <1>3, <1>4, <1>5, <1>6, <1>7 DEF Firmware

(* The board is loaded. *)
LEMMA PortInvRestart ==
    ASSUME TypeOK, PortInv, restarts < MaxRestarts, Restart
    PROVE  PortInv'
<1>0. PortsOK /\ FirmwareOK /\ SetUp /\ OdrFollowsEtat /\ IdrFollowsLine
      BY DEF PortInv
<1>1. A!Restore /\ B!Restore /\ restarts' = restarts + 1 /\ UNCHANGED cpu
      BY DEF Restart
<1>2. /\ PortsOK' /\ gpioA' = gpioA /\ gpioB' = gpioB
      /\ histA'.level = {} /\ histA'.missed = gpioA.ind
      BY <1>0, <1>1, RestorePorts
<1>3. restarts' # 0 /\ restarts' \in 0..MaxRestarts
      BY <1>0, <1>1, ClicksAssumption DEF FirmwareOK
<1>4. FirmwareOK'
      BY <1>0, <1>1, <1>3 DEF FirmwareOK, cpu
<1>5. SetUp' /\ OdrFollowsEtat'
      BY <1>0, <1>1, <1>2 DEF SetUp, OdrFollowsEtat, cpu, LedsFor
<1>6. IdrFollowsLine'
      BY <1>2, <1>3 DEF IdrFollowsLine
<1> QED BY <1>2, <1>4, <1>5, <1>6 DEF PortInv

-----------------------------------------------------------------------------
(* The sockets and the UI *)

(* The firmware has written v to ODR. *)
Wrote(v) == /\ gpioB'.outd = v
            /\ histB'.hidden = histB.hidden \ Differ(gpioB.outd, v)
            /\ sending' = Levels("blue", Differ(gpioB.outd, v), v)
                          \o Levels("green", Differ(gpioB.outd, v), v)

(* What the firmware sends: nothing, or the levels of a write to ODR. *)
LEMMA FirmwareSends ==
    ASSUME TypeOK, PortInv, Firmware
    PROVE  \/ /\ UNCHANGED <<sending, histB>> /\ gpioB'.outd = gpioB.outd
           \/ \E v \in {{}, PinsB} :
                /\ Wrote(v)
                /\ (v = {} /\ pc = "leds_off") \/ (v = LedsFor(etat) /\ etat' = etat)
<1>0. PortsOK /\ FirmwareOK /\ SetUp
      BY DEF PortInv
<1>1. CASE SetupLeds
      BY <1>0, <1>1, SetupLedsEffect DEF SetupLeds
<1>2. CASE SetupButton \/ FirstRead \/ Test \/ Reread
      BY <1>2 DEF SetupButton, FirstRead, Test, Reread, portB
<1>3. ASSUME NEW v \in {{}, PinsB}, WriteLeds(v), UNCHANGED portA,
             pc # "setup_leds"
      PROVE  Wrote(v)
  <2>1. v \in SUBSET PinsB
        BY <1>3
  <2>2. gpioB.outd_old = gpioB.outd /\ \A i \in PinsB : gpioB.mode[i] # 0
        BY <1>0, <1>3 DEF SetUp
  <2> QED BY <1>3, <2>1, <2>2, WriteLedsPorts, WriteLedsEffect, Zenon DEF Wrote
<1>4. CASE LedsOff
  <2>1. WriteLeds({}) /\ UNCHANGED portA /\ pc = "leds_off"
        BY <1>4 DEF LedsOff
  <2>2. {} \in {{}, PinsB} /\ pc # "setup_leds"
        BY <2>1
  <2>3. Wrote({})
        BY <1>3, <2>1, <2>2, Zenon
  <2>4. \E v \in {{}, PinsB} :
           Wrote(v) /\ ((v = {} /\ pc = "leds_off") \/ (v = LedsFor(etat) /\ etat' = etat))
    <3> WITNESS {} \in {{}, PinsB}
    <3> QED BY <2>1, <2>3
  <2> QED BY <2>4, Zenon
<1>5. CASE Act
  <2>1. WriteLeds(LedsFor(etat)) /\ UNCHANGED portA /\ pc = "act" /\ etat' = etat
        BY <1>5 DEF Act
  <2>2. LedsFor(etat) \in {{}, PinsB}
        BY DEF LedsFor
  <2> QED BY <1>3, <2>1, <2>2
<1> QED BY <1>1, <1>2, <1>4, <1>5 DEF Firmware

(* Types of the sockets and of the UI, and at most one level for each LED. *)
LEMMA RestOKStep ==
    ASSUME TypeOK, PortInv, OneEach, NoUi, Next
    PROVE  RestOK' /\ OneEach'
<1>0. RestOK
      BY TypeParts
<1>1. CASE Click
  <2>1. /\ clicks < MaxClicks /\ clicks' = clicks + 1 /\ pressed' = ~pressed
        /\ tksend' = <<pressed'>>
        /\ UNCHANGED <<up, held, logging, image, btnq, button, sending, ledq>>
        BY <1>1 DEF Click, threads
  <2>2. clicks' \in 0..MaxClicks
        BY <1>0, <2>1, ClicksAssumption DEF RestOK
  <2>3. pressed' \in BOOLEAN
        BY <2>1
  <2>4. tksend' \in Seq(BOOLEAN) /\ Len(tksend') <= 1
        BY <2>1, <2>3
  <2>5. OneEach'
        BY <2>1 DEF OneEach
  <2> QED BY <1>0, <2>1, <2>2, <2>3, <2>4, <2>5 DEF RestOK
<1>2. CASE SendClick
  <2>1. /\ tksend # <<>> /\ Len(btnq) < CapB /\ btnq' = btnq \o tksend /\ tksend' = <<>>
        /\ UNCHANGED <<up, pressed, clicks, held, logging, image, button, sending, ledq>>
        BY <1>2 DEF SendClick, threads
  <2>2. Len(btnq \o tksend) = Len(btnq) + Len(tksend) /\ btnq \o tksend \in Seq(BOOLEAN)
        BY <1>0, ConcatProperties DEF RestOK
  <2>3. Len(tksend) \in Nat /\ Len(btnq) \in Nat /\ Len(tksend) <= 1 /\ CapB \in Nat
        BY <1>0, SocketAssumption DEF RestOK
  <2>4. Len(btnq') <= CapB /\ btnq' \in Seq(BOOLEAN)
        BY <2>1, <2>2, <2>3
  <2>5. tksend' \in Seq(BOOLEAN) /\ Len(tksend') <= 1
        BY <2>1
  <2>6. OneEach'
        BY <2>1 DEF OneEach
  <2> QED BY <1>0, <2>1, <2>4, <2>5, <2>6 DEF RestOK
<1>3. CASE ButtonReceive
  <2>1. /\ btnq # <<>> /\ btnq' = Tail(btnq) /\ button' = Head(btnq)
        /\ UNCHANGED <<up, pressed, clicks, tksend, held, logging, image, sending, ledq>>
        BY <1>3 DEF ButtonReceive, ui, tk, threads
  <2>2. /\ btnq \in Seq(BOOLEAN) /\ Len(btnq) <= CapB /\ CapB \in Nat
        BY <1>0, SocketAssumption DEF RestOK
  <2>3. Head(btnq) \in BOOLEAN /\ Tail(btnq) \in Seq(BOOLEAN) /\ Len(Tail(btnq)) = Len(btnq) - 1
        /\ Len(btnq) \in Nat
        BY <2>1, <2>2, QueueFacts
  <2>4. Len(btnq') <= CapB
        BY <2>1, <2>2, <2>3
  <2>5. OneEach'
        BY <2>1 DEF OneEach
  <2> QED BY <1>0, <2>1, <2>3, <2>4, <2>5 DEF RestOK
<1>4. CASE Firmware
  <2>1. UNCHANGED <<up, pressed, clicks, tksend, btnq, button, held, logging, image, ledq>>
        BY <1>4 DEF Firmware, SetupLeds, SetupButton, LedsOff, FirstRead, Test, Reread, Act,
                    ui, tk, threads
  <2>2. sending' \in Messages /\ Len(sending') <= 2 /\ OneEach'
    <3>1. CASE sending' = sending
          BY <1>0, <3>1 DEF OneEach, RestOK
    <3>2. CASE \E d, o : sending' = Levels("blue", d, o) \o Levels("green", d, o)
      <4>1. PICK d, o : sending' = Levels("blue", d, o) \o Levels("green", d, o)
            BY <3>2
      <4>2. WellFormed(sending')
            BY <4>1, LevelsFacts, Zenon
      <4> QED BY <4>2 DEF OneEach, WellFormed
    <3> QED BY <1>4, <3>1, <3>2, FirmwareSends DEF Wrote
  <2> QED BY <1>0, <2>1, <2>2 DEF RestOK
<1>5. CASE SendLed
  <2>1. /\ sending # <<>> /\ sending' = Tail(sending)
        /\ UNCHANGED <<up, pressed, clicks, tksend, btnq, button, held, logging, image>>
        BY <1>5 DEF SendLed, ui, tk, threads
  <2>2. sending \in Messages /\ Len(sending) <= 2
        BY <1>0 DEF RestOK
  <2>3. /\ Head(sending) \in Leds \X BOOLEAN /\ Tail(sending) \in Messages
        /\ Len(Tail(sending)) = Len(sending) - 1 /\ Len(sending) \in Nat
        BY <2>1, <2>2, QueueFacts DEF Messages
  <2>4. sending' \in Messages /\ Len(sending') <= 1
        BY <2>1, <2>2, <2>3
  <2>5. /\ ledq' \in [Leds -> Seq(BOOLEAN)] /\ \A l \in Leds : Len(ledq'[l]) <= CapL
    <3>1. CASE ~up
          BY <1>0, <1>5, <3>1 DEF SendLed, RestOK
    <3>2. CASE up
      <4>1. PICK l \in Leds : /\ Len(ledq[l]) < CapL
                              /\ ledq' = [ledq EXCEPT ![l] = Append(@, Head(sending)[2])]
            BY <1>5, <2>3, <3>2 DEF SendLed
      <4>2. PICK v \in BOOLEAN : v = Head(sending)[2]
            BY <2>3
      <4>3. /\ Append(ledq[l], v) \in Seq(BOOLEAN)
            /\ Len(Append(ledq[l], v)) = Len(ledq[l]) + 1 /\ Len(ledq[l]) \in Nat
            BY <1>0, AppendProperties DEF RestOK
      <4>4. Len(Append(ledq[l], v)) <= CapL
            BY <4>1, <4>3, SocketAssumption
      <4> QED BY <1>0, <4>1, <4>2, <4>3, <4>4 DEF RestOK
    <3> QED BY <3>1, <3>2
  <2>6. OneEach'
        BY <2>4 DEF OneEach, Messages
  <2>7. Len(sending') <= 2
        BY <2>4 DEF Messages
  <2> QED BY <1>0, <2>1, <2>4, <2>5, <2>6, <2>7 DEF RestOK
<1>6. CASE SendAgain \/ \E l \in Leds : Log(l)
      BY <1>0, <1>6 DEF RestOK, OneEach, SendAgain, Log, vars, ui, tk, threads
<1>7. ASSUME NEW l \in Leds, Receive(l) PROVE RestOK' /\ OneEach'
  <2>1. /\ ledq[l] # <<>> /\ ledq' = [ledq EXCEPT ![l] = Tail(@)]
        /\ held' = [held EXCEPT ![l] = <<Head(ledq[l])>>]
        /\ UNCHANGED <<up, pressed, clicks, tksend, btnq, button, sending, logging, image>>
        BY <1>7 DEF Receive, tk
  <2>2. ledq[l] \in Seq(BOOLEAN) /\ Len(ledq[l]) <= CapL /\ CapL \in Nat
        BY <1>0, SocketAssumption DEF RestOK
  <2>3. /\ Head(ledq[l]) \in BOOLEAN /\ Tail(ledq[l]) \in Seq(BOOLEAN)
        /\ Len(Tail(ledq[l])) = Len(ledq[l]) - 1 /\ Len(ledq[l]) \in Nat
        BY <2>1, <2>2, QueueFacts
  <2>4. /\ ledq' \in [Leds -> Seq(BOOLEAN)] /\ \A k \in Leds : Len(ledq'[k]) <= CapL
    <3>1. Len(Tail(ledq[l])) <= CapL
          BY <2>2, <2>3
    <3> QED BY <1>0, <2>1, <2>3, <3>1 DEF RestOK
  <2>5. /\ held' \in [Leds -> Seq(BOOLEAN)] /\ \A k \in Leds : Len(held'[k]) <= 1
    <3>1. ASSUME NEW b \in BOOLEAN PROVE <<b>> \in Seq(BOOLEAN) /\ Len(<<b>>) <= 1
          OBVIOUS
    <3>2. <<Head(ledq[l])>> \in Seq(BOOLEAN) /\ Len(<<Head(ledq[l])>>) <= 1
          BY <2>3, <3>1, Zenon
    <3> QED BY <1>0, <2>1, <3>2 DEF RestOK
  <2>6. OneEach'
        BY <2>1 DEF OneEach
  <2> QED BY <1>0, <2>1, <2>4, <2>5, <2>6 DEF RestOK
<1>8. ASSUME NEW l \in Leds, Show(l) PROVE RestOK' /\ OneEach'
  <2>1. /\ held[l] # <<>> /\ image' = [image EXCEPT ![l] = Head(held[l])]
        /\ held' = [held EXCEPT ![l] = <<>>] /\ logging' = logging \cup {l}
        /\ UNCHANGED <<up, pressed, clicks, tksend, btnq, button, sending, ledq>>
        BY <1>8 DEF Show, tk
  <2>2. held[l] \in Seq(BOOLEAN)
        BY <1>0 DEF RestOK
  <2>3. Head(held[l]) \in BOOLEAN
        BY <2>1, <2>2, QueueFacts
  <2>4. image' \in [Leds -> BOOLEAN] /\ logging' \subseteq Leds
        BY <1>0, <2>1, <2>3 DEF RestOK
  <2>5. /\ held' \in [Leds -> Seq(BOOLEAN)] /\ \A k \in Leds : Len(held'[k]) <= 1
        BY <1>0, <2>1 DEF RestOK
  <2>6. OneEach'
        BY <2>1 DEF OneEach
  <2> QED BY <1>0, <2>1, <2>4, <2>5, <2>6 DEF RestOK
<1>9. CASE UiQuits
  <2>1. /\ up' = FALSE /\ btnq' \in {btnq, <<>>} /\ pressed' = FALSE /\ tksend' = <<>>
        /\ ledq' = [l \in Leds |-> <<>>] /\ held' = [l \in Leds |-> <<>>]
        /\ logging' = {} /\ image' = [l \in Leds |-> FALSE]
        /\ UNCHANGED <<clicks, button, sending>>
        BY <1>9 DEF UiQuits
  <2>2. /\ ledq' \in [Leds -> Seq(BOOLEAN)] /\ \A l \in Leds : Len(ledq'[l]) <= CapL
        /\ held' \in [Leds -> Seq(BOOLEAN)] /\ \A l \in Leds : Len(held'[l]) <= 1
        BY <2>1, SocketAssumption
  <2>3. /\ btnq' \in Seq(BOOLEAN) /\ Len(btnq') <= CapB
        /\ tksend' \in Seq(BOOLEAN) /\ Len(tksend') <= 1
    <3>1. /\ <<>> \in Seq(BOOLEAN) /\ Len(<<>>) <= 1 /\ Len(<<>>) <= CapB
          BY SocketAssumption
    <3> QED BY <1>0, <2>1, <3>1, Zenon DEF RestOK
  <2>4. OneEach'
        BY <2>1 DEF OneEach
  <2> QED BY <1>0, <2>1, <2>2, <2>3, <2>4 DEF RestOK
<1>10. CASE Restart
  <2>1. /\ up' = TRUE /\ clicks' = 0 /\ btnq' = <<>>
        /\ UNCHANGED <<pressed, tksend, held, logging, image, button, sending, ledq>>
        BY <1>10 DEF Restart, threads
  <2>2. /\ btnq' \in Seq(BOOLEAN) /\ Len(btnq') <= CapB /\ clicks' \in 0..MaxClicks
        BY <2>1, SocketAssumption, ClicksAssumption
  <2>3. OneEach'
        BY <2>1 DEF OneEach
  <2> QED BY <1>0, <2>1, <2>2, <2>3 DEF RestOK
<1> QED BY <1>1, <1>2, <1>3, <1>4, <1>5, <1>6, <1>7, <1>8, <1>9, <1>10 DEF Next

(* Without the UI nothing is left of it. *)
LEMMA NoUiStep ==
    ASSUME TypeOK, NoUi, Next
    PROVE  NoUi'
<1>1. CASE up'
      BY <1>1 DEF NoUi
<1>2. CASE UiQuits
      BY <1>2 DEF NoUi, UiQuits
<1>3. CASE ~up' /\ ~UiQuits
  <2>1. ~up /\ UNCHANGED <<up, restarts, pressed, tksend, logging, image, held, ledq>>
    <3>1. ~up
          BY <1>3 DEF Next, Click, SendClick, ButtonReceive, Firmware, SetupLeds, SetupButton,
             LedsOff, FirstRead, Test, Reread, Act, SendLed, SendAgain, Receive, Show, Log,
             Restart, vars, ui
    <3>2. tksend = <<>> /\ logging = {} /\ \A l \in Leds : ledq[l] = <<>> /\ held[l] = <<>>
          BY <3>1 DEF NoUi
    <3> QED BY <1>3, <3>1, <3>2 DEF Next, Click, SendClick, ButtonReceive, Firmware, SetupLeds,
             SetupButton, LedsOff, FirstRead, Test, Reread, Act, SendLed, SendAgain, Receive,
             Show, Log, Restart, vars, ui, tk, threads, cpu
  <2> QED BY <2>1 DEF NoUi
<1> QED BY <1>1, <1>2, <1>3

-----------------------------------------------------------------------------
(* The levels under way to the LEDs *)

(* The last level that the socket, the thread or the image of LED l has. *)
LastReceived(l) == Newest(Newest(image[l], held[l]), ledq[l])

(* LastLevel without the concatenation. *)
LEMMA LastLevelParts ==
    ASSUME RestOK, NEW l \in Leds
    PROVE  LastLevel(l) = NewestFor(l, LastReceived(l), sending)
<1>1. held[l] \in Seq(BOOLEAN) /\ ledq[l] \in Seq(BOOLEAN)
      BY DEF RestOK
<1>2. Newest(image[l], held[l] \o ledq[l]) = LastReceived(l)
      BY <1>1, BytesConcat, Zenon DEF LastReceived
<1> QED BY <1>2, Zenon DEF LastLevel

(* The same in the next state. *)
LEMMA LastLevelPartsNext ==
    ASSUME RestOK', NEW l \in Leds
    PROVE  LastLevel(l)' = NewestFor(l, LastReceived(l)', sending')
<1>1. held'[l] \in Seq(BOOLEAN) /\ ledq'[l] \in Seq(BOOLEAN)
      BY DEF RestOK
<1>2. Newest(image'[l], held'[l] \o ledq'[l]) = LastReceived(l)'
      BY <1>1, BytesConcat, Zenon DEF LastReceived
<1> QED BY <1>2, Zenon DEF LastLevel

(* No step loses, duplicates or reorders a level while the UI runs. *)
LEMMA SameLastLevel ==
    ASSUME TypeOK, OneEach, RestOK', up, NEW l \in Leds,
           SendLed \/ Receive(l) \/ Show(l)
    PROVE  LastLevel(l)' = LastLevel(l)
<1>0. /\ RestOK /\ held[l] \in Seq(BOOLEAN) /\ ledq[l] \in Seq(BOOLEAN)
      /\ LastLevel(l) = NewestFor(l, LastReceived(l), sending)
      /\ LastLevel(l)' = NewestFor(l, LastReceived(l)', sending')
  <2>1. RestOK
        BY TypeParts
  <2>2. held[l] \in Seq(BOOLEAN) /\ ledq[l] \in Seq(BOOLEAN)
        BY <2>1 DEF RestOK
  <2> QED BY <2>1, <2>2, LastLevelParts, LastLevelPartsNext
<1>1. CASE SendLed
  <2>1. /\ sending \in Messages /\ Len(sending) <= 2 /\ sending # <<>>
        /\ sending' = Tail(sending) /\ held' = held /\ image' = image
        BY <1>0, <1>1 DEF RestOK, SendLed, ui, threads
  <2>2. NewestFor(l, LastReceived(l), sending)
          = NewestFor(l, IF Head(sending)[1] = l THEN Head(sending)[2] ELSE LastReceived(l),
                      Tail(sending))
    <3>1. HandsOver(l, LastReceived(l), sending)
          BY <2>1, HandOver, Zenon
    <3> QED BY <3>1, Zenon DEF HandsOver
  <2>3. Head(sending) \in Leds \X BOOLEAN
        BY <2>1, QueueFacts DEF Messages
  <2>4. CASE Head(sending)[1] = l
    <3>1. ledq'[l] = Append(ledq[l], Head(sending)[2])
          BY <1>0, <1>1, <2>4 DEF SendLed, RestOK
    <3>2. Head(sending)[2] \in BOOLEAN
          BY <2>3
    <3>3. LastReceived(l)' = Head(sending)[2]
      <4>1. \A x : Newest(x, Append(ledq[l], Head(sending)[2])) = Head(sending)[2]
            BY <1>0, <3>2, BytesNewest, Zenon
      <4>2. \A x : Newest(x, ledq'[l]) = Head(sending)[2]
            BY <3>1, <4>1
      <4> QED BY <4>2, Zenon DEF LastReceived
    <3> QED BY <1>0, <2>1, <2>2, <2>4, <3>3, Zenon
  <2>5. CASE Head(sending)[1] # l
    <3>1. ledq'[l] = ledq[l]
          BY <1>0, <1>1, <2>5 DEF SendLed, RestOK
    <3>2. LastReceived(l)' = LastReceived(l)
          BY <2>1, <3>1, Zenon DEF LastReceived
    <3> QED BY <1>0, <2>1, <2>2, <2>5, <3>2, Zenon
  <2> QED BY <2>4, <2>5
<1>2. CASE Receive(l)
  <2>1. /\ held[l] = <<>> /\ ledq[l] # <<>> /\ image' = image /\ sending' = sending
        /\ ledq'[l] = Tail(ledq[l]) /\ held'[l] = <<Head(ledq[l])>>
        BY <1>0, <1>2 DEF Receive, RestOK
  <2>2. LastReceived(l) = Newest(image[l], ledq[l])
        BY <1>0, <2>1, BytesNewest, Zenon DEF LastReceived
  <2>3. LastReceived(l)' = Newest(Head(ledq[l]), Tail(ledq[l]))
    <3>1. \A x, v : Newest(x, <<v>>) = v
          BY <1>0, BytesNewest, Zenon
    <3> QED BY <2>1, <3>1, Zenon DEF LastReceived
  <2>4. Newest(Head(ledq[l]), Tail(ledq[l])) = Newest(image[l], ledq[l])
        BY <1>0, <2>1, BytesNewest, Zenon
  <2> QED BY <1>0, <2>1, <2>2, <2>3, <2>4, Zenon
<1>3. CASE Show(l)
  <2>1. /\ held[l] # <<>> /\ ledq' = ledq /\ sending' = sending
        /\ image'[l] = Head(held[l]) /\ held'[l] = <<>>
        BY <1>0, <1>3 DEF Show, RestOK
  <2>2. Newest(image[l], held[l]) = Head(held[l])
    <3>1. Len(held[l]) = 1 /\ Head(held[l]) = held[l][1]
      <4>1. Len(held[l]) \in Nat /\ Len(held[l]) # 0 /\ Head(held[l]) = held[l][1]
            BY <1>0, <2>1, QueueFacts
      <4>2. Len(held[l]) <= 1
            BY <1>0 DEF RestOK
      <4>3. \A n \in Nat : n # 0 /\ n <= 1 => n = 1
            OBVIOUS
      <4> QED BY <4>1, <4>2, <4>3, Zenon
    <3> QED BY <2>1, <3>1 DEF Newest
  <2>3. Newest(Head(held[l]), <<>>) = Head(held[l])
        BY DEF Newest
  <2>4. LastReceived(l)' = LastReceived(l)
        BY <2>1, <2>2, <2>3, Zenon DEF LastReceived
  <2> QED BY <1>0, <2>1, <2>4, Zenon
<1> QED BY <1>1, <1>2, <1>3

(* The level of LED l was sent, or is hidden. *)
Follows(l) == ~Undriven(l) => (LastLevel(l) <=> LedPin(l) \in gpioB.outd)

(* A write to ODR sends the bits it changes. *)
LEMMA WriteFollows ==
    ASSUME TypeOK, RestOK', sending = <<>>, UNCHANGED <<ledq, held, image>>,
           NEW v, Wrote(v), NEW l \in Leds, Follows(l)
    PROVE  Follows(l)'
<1> DEFINE d == Differ(gpioB.outd, v)
<1>1. LastLevel(l) = LastReceived(l)
  <2>1. LastLevel(l) = NewestFor(l, LastReceived(l), <<>>)
        BY LastLevelParts, TypeParts
  <2>2. \A x : NewestFor(l, x, <<>>) = x
        BY DEF NewestFor
  <2> QED BY <2>1, <2>2, Zenon
<1>2. LastReceived(l)' = LastReceived(l)
      BY Zenon DEF LastReceived
<1>3. LastLevel(l)' = IF LedPin(l) \in d THEN LedPin(l) \in v ELSE LastReceived(l)
  <2>1. LastLevel(l)' = NewestFor(l, LastReceived(l), sending')
        BY <1>2, LastLevelPartsNext
  <2>2. sending' = Levels("blue", d, v) \o Levels("green", d, v)
        BY DEF Wrote
  <2> HIDE DEF d
  <2>c. Carries(sending', d, v)
        BY <2>2, LevelsFacts, Zenon
  <2>3. \A x : NewestFor(l, x, sending') = IF LedPin(l) \in d THEN LedPin(l) \in v ELSE x
        BY <2>c, Zenon DEF Carries
  <2> QED BY <2>1, <2>3, Zenon
<1>4. gpioB'.outd = v /\ histB'.hidden = histB.hidden \ d
      BY DEF Wrote
<1>5. CASE LedPin(l) \in d
  <2>1. LastLevel(l)' = (LedPin(l) \in v)
        BY <1>3, <1>5, Zenon
  <2> QED BY <1>4, <2>1, Zenon DEF Follows
<1>6. CASE LedPin(l) \notin d
  <2>1. LastLevel(l)' = LastLevel(l)
        BY <1>1, <1>3, <1>6, Zenon
  <2>2. LedPin(l) \in v <=> LedPin(l) \in gpioB.outd
        BY <1>6 DEF Differ
  <2>3. LedPin(l) \in histB'.hidden <=> LedPin(l) \in histB.hidden
        BY <1>4, <1>6
  <2> HIDE DEF d
  <2> QED BY <1>4, <2>1, <2>2, <2>3, Zenon DEF Follows, Undriven
<1> QED BY <1>5, <1>6

(* Every step keeps the levels of the LEDs and ODR together. *)
LEMMA ImageStep ==
    ASSUME TypeOK, PortInv, NoUi, OneEach, ImageFollowsOdr, RestOK', Next
    PROVE  ImageFollowsOdr'
<1>0. SUFFICES ASSUME up', NEW l \in Leds PROVE Follows(l)'
      BY Zenon DEF ImageFollowsOdr, Follows
<1>1. up => Follows(l)
      BY Zenon DEF ImageFollowsOdr, Follows
<1>2. RestOK
      BY TypeParts
<1>3. ASSUME up, UNCHANGED <<sending, ledq[l], held[l], image[l], histB>>, gpioB'.outd = gpioB.outd
      PROVE  Follows(l)'
  <2>1. LastReceived(l)' = LastReceived(l)
        BY <1>3, Zenon DEF LastReceived
  <2>2. LastLevel(l)' = LastLevel(l)
        BY <1>2, <1>3, <2>1, LastLevelParts, LastLevelPartsNext, Zenon
  <2>3. Undriven(l)' <=> Undriven(l)
        BY <1>3 DEF Undriven
  <2> QED BY <1>1, <1>3, <2>2, <2>3, Zenon DEF Follows
<1>4. CASE Click \/ SendClick \/ ButtonReceive \/ SendAgain \/ \E k \in Leds : Log(k)
  <2>1. up /\ UNCHANGED <<sending, ledq[l], held[l], image[l], histB>> /\ gpioB' = gpioB
        BY <1>0, <1>4 DEF Click, SendClick, ButtonReceive, SendAgain, Log, vars, ui, tk, threads, portB
  <2> QED BY <1>3, <2>1
<1>5. CASE Firmware
  <2>1. up /\ UNCHANGED <<ledq, held, image>> /\ sending = <<>>
        BY <1>0, <1>5 DEF Firmware, SetupLeds, SetupButton, LedsOff, FirstRead, Test, Reread, Act,
                    ui, threads
  <2>2. CASE UNCHANGED <<sending, histB>> /\ gpioB'.outd = gpioB.outd
        BY <1>3, <2>1, <2>2
  <2>3. ASSUME NEW v, Wrote(v) PROVE Follows(l)'
        BY <1>1, <2>1, <2>3, WriteFollows
  <2> QED BY <1>5, <2>2, <2>3, FirmwareSends, Zenon
<1>6. CASE SendLed \/ Receive(l) \/ Show(l)
  <2>1. up /\ UNCHANGED <<histB, gpioB>>
        BY <1>0, <1>6 DEF SendLed, Receive, Show, ui, portB
  <2>2. LastLevel(l)' = LastLevel(l)
        BY <1>6, <2>1, SameLastLevel
  <2>3. Undriven(l)' <=> Undriven(l)
        BY <2>1 DEF Undriven
  <2> QED BY <1>1, <2>1, <2>2, <2>3, Zenon DEF Follows
<1>7. ASSUME NEW k \in Leds, k # l, Receive(k) \/ Show(k) PROVE Follows(l)'
  <2>1. up /\ UNCHANGED <<sending, ledq[l], held[l], image[l], histB>> /\ gpioB' = gpioB
        BY <1>0, <1>2, <1>7 DEF Receive, Show, RestOK, portB
  <2> QED BY <1>3, <2>1
<1>8. CASE Restart
  <2>1. /\ ~up /\ sending' = <<>> /\ UNCHANGED <<ledq, held, image>>
        /\ A!Restore /\ B!Restore
        BY <1>8 DEF Restart, threads
  <2>2. ledq'[l] = <<>> /\ held'[l] = <<>> /\ image'[l] = FALSE
        BY <2>1 DEF NoUi
  <2>3. LastLevel(l)' = FALSE
    <3>1. \A x : Newest(x, <<>>) = x /\ NewestFor(l, x, <<>>) = x
          BY DEF Newest, NewestFor
    <3>2. LastReceived(l)' = FALSE
          BY <2>2, <3>1, Zenon DEF LastReceived
    <3> QED BY <2>1, <3>1, <3>2, LastLevelPartsNext, Zenon
  <2>4. gpioB' = gpioB /\ histB'.hidden = gpioB.outd
        BY <2>1, RestorePorts DEF PortInv
  <2> QED BY <2>3, <2>4, Zenon DEF Follows, Undriven
<1>9. CASE UiQuits
      BY <1>0, <1>9 DEF UiQuits
<1> QED BY <1>4, <1>5, <1>6, <1>7, <1>8, <1>9 DEF Next

-----------------------------------------------------------------------------
(* The clicks under way to the firmware *)

(* Every step keeps the newest click and the state of the button together. *)
LEMMA ButtonStep ==
    ASSUME TypeOK, PortInv, NoUi, ButtonUnderWay, Next
    PROVE  ButtonUnderWay'
<1> DEFINE level == BUTTON_PIN \in histA.level
<1>0. RestOK /\ btnq \in Seq(BOOLEAN) /\ tksend \in Seq(BOOLEAN)
      BY TypeParts DEF RestOK
<1>1. ASSUME UNCHANGED <<up, pressed, btnq, tksend, histA>> PROVE ButtonUnderWay'
      BY <1>1, Zenon DEF ButtonUnderWay
<1>2. CASE SendAgain \/ SendLed \/ \E l \in Leds : Receive(l) \/ Show(l) \/ Log(l)
  <2>1. UNCHANGED <<up, pressed, btnq, tksend, histA>>
        BY <1>2 DEF SendAgain, SendLed, Receive, Show, Log, vars, ui, tk, portA
  <2> QED BY <1>1, <2>1
<1>3. CASE Firmware
  <2>1. UNCHANGED <<up, pressed, btnq, tksend>>
        BY <1>3 DEF Firmware, SetupLeds, SetupButton, LedsOff, FirstRead, Test, Reread, Act,
                    ui, tk
  <2>2. histA' = histA
    <3>1. CASE SetupButton
          BY <3>1, SetupButtonEffect DEF PortInv
    <3>2. CASE ~SetupButton
          BY <1>3, <3>2 DEF Firmware, SetupLeds, LedsOff, FirstRead, Test, Reread, Act, portA
    <3> QED BY <3>1, <3>2
  <2> QED BY <1>1, <2>1, <2>2
<1>4. CASE Click
  <2>1. tksend = <<>> /\ tksend' = <<pressed'>> /\ btnq' = btnq /\ pressed' = ~pressed
        BY <1>4 DEF Click
  <2>2. tksend' \in Seq(BOOLEAN)
    <3>1. ASSUME NEW b \in BOOLEAN PROVE <<b>> \in Seq(BOOLEAN)
          OBVIOUS
    <3>2. pressed' \in BOOLEAN
          BY <2>1
    <3>3. <<pressed'>> \in Seq(BOOLEAN)
          BY <3>1, <3>2, Zenon
    <3> QED BY <2>1, <3>3, Zenon
  <2>3. ASSUME NEW x PROVE Newest(x, btnq' \o tksend') = pressed'
    <3>0. btnq' \in Seq(BOOLEAN)
          BY <1>0, <2>1
    <3>1. Newest(x, btnq' \o tksend') = Newest(Newest(x, btnq'), tksend')
          BY <2>2, <3>0, BytesConcat, Zenon
    <3>2. \A y, v : Newest(y, <<v>>) = v
          BY <1>0, BytesNewest, Zenon
    <3> QED BY <2>1, <3>1, <3>2, Zenon
  <2> QED BY <2>3, Zenon DEF ButtonUnderWay
<1>5. CASE SendClick
  <2>1. /\ btnq' = btnq \o tksend /\ tksend' = <<>> /\ UNCHANGED <<up, pressed, histA>>
        BY <1>5 DEF SendClick, portA
  <2>2. btnq \o tksend \in Seq(BOOLEAN)
        BY <1>0, ConcatProperties
  <2>3. btnq' \o tksend' = btnq \o tksend
        BY <2>1, <2>2, ConcatEmptySeq, Zenon
  <2> QED BY <2>1, <2>3, Zenon DEF ButtonUnderWay
<1>6. CASE ButtonReceive
  <2>1. /\ btnq # <<>> /\ btnq' = Tail(btnq) /\ UNCHANGED <<up, pressed, tksend, portB>>
        /\ A!InRecv(BUTTON_PIN, Head(btnq))
        BY <1>6 DEF ButtonReceive, ui, tk
  <2>2. Head(btnq) \in BOOLEAN /\ Tail(btnq) \in Seq(BOOLEAN)
        BY <1>0, <2>1, QueueFacts
  <2>3. PICK b \in BOOLEAN : b = Head(btnq)
        BY <2>2, Zenon
  <2>4. /\ b => BUTTON_PIN \in histA'.level
        /\ ~b => BUTTON_PIN \notin histA'.level
        BY <2>1, <2>3, ButtonInput DEF PortInv, SetUp
  <2>5. (BUTTON_PIN \in histA'.level) = Head(btnq)
    <3>1. (BUTTON_PIN \in histA'.level) = b
          BY <2>4
    <3> QED BY <2>3, <3>1, Zenon
  <2>6. ASSUME NEW x
        PROVE  Newest(Head(btnq), Tail(btnq) \o tksend) = Newest(x, btnq \o tksend)
    <3>1. Newest(Head(btnq), Tail(btnq) \o tksend)
            = Newest(Newest(Head(btnq), Tail(btnq)), tksend)
          BY <1>0, <2>2, BytesConcat, Zenon
    <3>2. Newest(x, btnq \o tksend) = Newest(Newest(x, btnq), tksend)
          BY <1>0, BytesConcat, Zenon
    <3>3. Newest(Head(btnq), Tail(btnq)) = Newest(x, btnq)
          BY <1>0, <2>1, BytesNewest, Zenon
    <3> QED BY <3>1, <3>2, <3>3, Zenon
  <2>7. Newest(BUTTON_PIN \in histA'.level, btnq' \o tksend') = Newest(level, btnq \o tksend)
        BY <2>1, <2>5, <2>6, Zenon
  <2> QED BY <2>1, <2>7, Zenon DEF ButtonUnderWay
<1>7. CASE UiQuits
      BY <1>7 DEF UiQuits, ButtonUnderWay
<1>8. CASE Restart
  <2>1. ~up /\ btnq' = <<>> /\ UNCHANGED <<pressed, tksend>> /\ A!Restore /\ B!Restore
        BY <1>8 DEF Restart
  <2>2. pressed' = FALSE /\ tksend' = <<>>
        BY <2>1 DEF NoUi
  <2>3. btnq' \o tksend' = <<>>
    <3>1. <<>> \o <<>> = <<>>
          BY ShortConcats, Zenon
    <3> QED BY <2>1, <2>2, <3>1, Zenon
  <2>4. BUTTON_PIN \notin histA'.level
        BY <2>1, RestorePorts DEF PortInv
  <2>5. \A x : Newest(x, <<>>) = x
        BY DEF Newest
  <2>6. Newest(BUTTON_PIN \in histA'.level, btnq' \o tksend') = (BUTTON_PIN \in histA'.level)
        BY <2>3, <2>5, Zenon
  <2> QED BY <2>2, <2>4, <2>6, Zenon DEF ButtonUnderWay
<1> QED BY <1>2, <1>3, <1>4, <1>5, <1>6, <1>7, <1>8 DEF Next

-----------------------------------------------------------------------------
(* Clicks and changes under way *)

(* The three terms are natural numbers. *)
LEMMA TermTypes ==
    ASSUME RestOK, NEW l \in Leds
    PROVE  ToButton \in Nat /\ InFirmware \in 0..2 /\ ToLed(l) \in Nat
<1>1. Len(tksend) \in Nat /\ Len(btnq) \in Nat /\ Len(ledq[l]) \in Nat /\ Len(held[l]) \in Nat
      BY DEF RestOK
<1>2. \A b : One(b) \in 0..1
      BY DEF One
<1>3. ToButton \in Nat
      BY <1>1 DEF ToButton
<1>4. ASSUME NEW x \in 0..1, NEW y \in 0..1 PROVE x + y \in 0..2
      OBVIOUS
<1>5. InFirmware \in 0..2
      BY <1>2, <1>4, Zenon DEF InFirmware
<1>6. ASSUME NEW x \in 0..1, NEW y \in 0..1, NEW n \in Nat, NEW m \in Nat
      PROVE  x + n + m + y \in Nat
      OBVIOUS
<1>7. ToLed(l) \in Nat
      BY <1>1, <1>2, <1>6, Zenon DEF ToLed
<1> QED BY <1>3, <1>5, <1>7

(* The terms of a step that leaves them alone. *)
LEMMA SameTerms ==
    /\ UNCHANGED <<tksend, btnq>> => ToButton' = ToButton
    /\ /\ UNCHANGED etat /\ gpioA'.ind = gpioA.ind /\ gpioB'.outd = gpioB.outd
       => InFirmware' = InFirmware
    /\ \A l \in Leds : UNCHANGED <<sending, ledq[l], held[l]>> /\ (l \in logging' <=> l \in logging)
                        => ToLed(l)' = ToLed(l)
<1>1. UNCHANGED <<tksend, btnq>> => ToButton' = ToButton
      BY DEF ToButton
<1>2. ASSUME UNCHANGED etat, gpioA'.ind = gpioA.ind, gpioB'.outd = gpioB.outd
      PROVE  InFirmware' = InFirmware
      BY <1>2, Zenon DEF InFirmware, LedsFor, One
<1>3. ASSUME NEW l \in Leds, UNCHANGED <<sending, ledq[l], held[l]>>, l \in logging' <=> l \in logging
      PROVE  ToLed(l)' = ToLed(l)
      BY <1>3, Zenon DEF ToLed, One
<1> QED BY <1>1, <1>2, <1>3, Zenon

(* A step of the firmware turns a change of IDR into one of etat, or one   *)
(* of etat into a byte to each LED, and adds none.                         *)
LEMMA FirmwareTerms ==
    ASSUME TypeOK, PortInv, Firmware, RestOK', NEW l \in Leds
    PROVE  InFirmware' + ToLed(l)' <= InFirmware + ToLed(l)
<1>0. PortsOK /\ FirmwareOK /\ SetUp /\ OdrFollowsEtat /\ RestOK
      BY TypeParts DEF PortInv
<1>1. UNCHANGED <<ledq, held, logging>> /\ sending = <<>>
      BY DEF Firmware, SetupLeds, SetupButton, LedsOff, FirstRead, Test, Reread, Act, ui, threads
<1>2. InFirmware \in 0..2 /\ ToLed(l) \in Nat
      BY <1>0, TermTypes
<1>3. CASE UNCHANGED <<sending, histB>> /\ gpioB'.outd = gpioB.outd
  <2>1. ToLed(l)' = ToLed(l)
        BY <1>1, <1>3, SameTerms, Zenon
  <2>2. gpioA'.ind = gpioA.ind
    <3>1. CASE SetupButton
          BY <1>0, <3>1, SetupButtonEffect
    <3>2. CASE ~SetupButton
          BY <3>2 DEF Firmware, SetupLeds, LedsOff, FirstRead, Test, Reread, Act, portA
    <3> QED BY <3>1, <3>2
  <2>3. etat' = etat \/ etat' = gpioA.ind
        BY DEF Firmware, SetupLeds, SetupButton, LedsOff, FirstRead, Test, Reread, Act
  <2>4. CASE etat' = etat
    <3>1. InFirmware' = InFirmware
          BY <1>3, <2>2, <2>4, SameTerms, Zenon
    <3> QED BY <1>2, <2>1, <3>1
  <2>5. CASE etat' = gpioA.ind /\ etat # gpioA.ind
    <3>1. One(etat # gpioA.ind) = 1 /\ One(etat' # gpioA'.ind) = 0
          BY <2>2, <2>5 DEF One
    <3>3. \A e0, e1, o0, o1, t \in Int :
             e0 = 1 /\ e1 = 0 /\ o0 >= 0 /\ o1 <= 1 => (e1 + o1) + t <= (e0 + o0) + t
          OBVIOUS
    <3>4. /\ \A b : One(b) \in Int /\ One(b) >= 0 /\ One(b) <= 1
          /\ ToLed(l) \in Int
          BY <1>2 DEF One
    <3>5. (One(etat' # gpioA'.ind) + One(gpioB'.outd # LedsFor(etat'))) + ToLed(l)
            <= (One(etat # gpioA.ind) + One(gpioB.outd # LedsFor(etat))) + ToLed(l)
          BY <3>1, <3>3, <3>4, Zenon
    <3> QED BY <2>1, <3>5, Zenon DEF InFirmware
  <2> QED BY <2>3, <2>4, <2>5
<1>4. ASSUME NEW v \in {{}, PinsB}, Wrote(v),
             (v = {} /\ pc = "leds_off") \/ (v = LedsFor(etat) /\ etat' = etat)
      PROVE  InFirmware' + ToLed(l)' <= InFirmware + ToLed(l)
  <2> DEFINE d == Differ(gpioB.outd, v)
  <2>1. gpioA'.ind = gpioA.ind /\ etat' = etat /\ v = LedsFor(etat) /\ gpioB'.outd = v
    <3>1. gpioB'.outd = v
          BY <1>4 DEF Wrote
    <3>2. CASE pc = "leds_off"
      <4>1. LedsOff
            BY <3>2 DEF Firmware, SetupLeds, SetupButton, FirstRead, Test, Reread, Act
      <4>2. etat' = etat /\ gpioA'.ind = gpioA.ind /\ etat = {}
            BY <1>0, <3>2, <4>1 DEF LedsOff, SetUp, portA
      <4>3. LedsFor(etat) = {}
            BY <4>2 DEF LedsFor
      <4> QED BY <1>4, <3>1, <4>2, <4>3
    <3>3. CASE pc # "leds_off"
      <4>1. v = LedsFor(etat) /\ etat' = etat
            BY <1>4, <3>3
      <4>2. gpioA'.ind = gpioA.ind
        <5>1. CASE SetupButton
              BY <1>0, <5>1, SetupButtonEffect
        <5>2. CASE ~SetupButton
              BY <5>2 DEF Firmware, SetupLeds, LedsOff, FirstRead, Test, Reread, Act, portA
        <5> QED BY <5>1, <5>2
      <4> QED BY <3>1, <4>1, <4>2
    <3> QED BY <3>2, <3>3
  <2>2. sending' = Levels("blue", d, v) \o Levels("green", d, v)
        BY <1>4 DEF Wrote
  <2>3. (\E n \in DOMAIN sending' : sending'[n][1] = l) <=> LedPin(l) \in d
    <3> HIDE DEF d
    <3>1. Carries(sending', d, v)
          BY <2>2, LevelsFacts, Zenon
    <3> QED BY <3>1, Zenon DEF Carries
  <2>4. LedPin(l) \in d => gpioB.outd # LedsFor(etat)
        BY <2>1 DEF Differ
  <2>5. ~\E n \in DOMAIN sending : sending[n][1] = l
        BY <1>1
  <2>6. /\ One(\E n \in DOMAIN sending' : sending'[n][1] = l) \in 0..1
        /\ One(\E n \in DOMAIN sending : sending[n][1] = l) = 0
        /\ One(gpioB.outd # LedsFor(etat)) \in 0..1
        /\ One(gpioB'.outd # LedsFor(etat')) = 0
        /\ One(\E n \in DOMAIN sending' : sending'[n][1] = l) <= One(gpioB.outd # LedsFor(etat))
        /\ One(etat' # gpioA'.ind) = One(etat # gpioA.ind) /\ One(etat # gpioA.ind) \in 0..1
    <3>1. /\ One(\E n \in DOMAIN sending' : sending'[n][1] = l) \in 0..1
          /\ One(\E n \in DOMAIN sending : sending[n][1] = l) = 0
          /\ One(gpioB.outd # LedsFor(etat)) \in 0..1
          /\ One(etat # gpioA.ind) \in 0..1
          BY <2>5 DEF One
    <3>2. One(gpioB'.outd # LedsFor(etat')) = 0 /\ One(etat' # gpioA'.ind) = One(etat # gpioA.ind)
      <4>1. ~(gpioB'.outd # LedsFor(etat'))
            BY <2>1, Zenon
      <4> QED BY <2>1, <4>1, Zenon DEF One
    <3>3. One(\E n \in DOMAIN sending' : sending'[n][1] = l) <= One(gpioB.outd # LedsFor(etat))
      <4>1. ASSUME NEW b, NEW c, b => c PROVE One(b) <= One(c)
            BY <4>1 DEF One
      <4> QED BY <2>3, <2>4, <4>1, Zenon
    <3> QED BY <3>1, <3>2, <3>3
  <2>7. /\ ToLed(l) = One(\E n \in DOMAIN sending : sending[n][1] = l) + Len(ledq[l])
                      + Len(held[l]) + One(l \in logging)
        /\ ToLed(l)' = One(\E n \in DOMAIN sending' : sending'[n][1] = l) + Len(ledq[l])
                       + Len(held[l]) + One(l \in logging)
        BY <1>1, Zenon DEF ToLed
  <2>8. Len(ledq[l]) \in Nat /\ Len(held[l]) \in Nat /\ One(l \in logging) \in 0..1
        BY <1>0 DEF RestOK, One
  <2>10. /\ InFirmware = One(etat # gpioA.ind) + One(gpioB.outd # LedsFor(etat))
         /\ InFirmware' = One(etat # gpioA.ind) + One(gpioB'.outd # LedsFor(etat'))
        BY <2>6, Zenon DEF InFirmware
  <2>11. PICK e \in Int, a \in Int, b \in Int, c \in Int,
              o0 \in Int, o1 \in Int, s0 \in Int, s1 \in Int :
           /\ e = One(etat # gpioA.ind) /\ a = Len(ledq[l]) /\ b = Len(held[l])
           /\ c = One(l \in logging) /\ o0 = One(gpioB.outd # LedsFor(etat))
           /\ o1 = One(gpioB'.outd # LedsFor(etat'))
           /\ s0 = One(\E n \in DOMAIN sending : sending[n][1] = l)
           /\ s1 = One(\E n \in DOMAIN sending' : sending'[n][1] = l)
    <3>1. /\ One(etat # gpioA.ind) \in Int /\ One(l \in logging) \in Int
          /\ One(gpioB.outd # LedsFor(etat)) \in Int
          /\ One(gpioB'.outd # LedsFor(etat')) \in Int
          /\ One(\E n \in DOMAIN sending : sending[n][1] = l) \in Int
          /\ One(\E n \in DOMAIN sending' : sending'[n][1] = l) \in Int
      <4>1. \A x : One(x) \in Int
            BY DEF One
      <4> QED BY <4>1, Zenon
    <3>2. Len(ledq[l]) \in Int /\ Len(held[l]) \in Int
          BY <2>8
    <3> QED BY <3>1, <3>2, Zenon
  <2>12. s0 = 0 /\ o1 = 0 /\ s1 <= o0
        BY <2>6, <2>11, Zenon
  <2>13. (e + o1) + (s1 + a + b + c) <= (e + o0) + (s0 + a + b + c)
        BY <2>12
  <2> QED BY <2>7, <2>10, <2>11, <2>13, Zenon
<1> QED BY <1>3, <1>4, FirmwareSends, Zenon

(* The sockets and the threads hand a byte on, or drop it. *)
LEMMA UiTerms ==
    ASSUME TypeOK, OneEach, RestOK', NEW l \in Leds,
           \/ SendLed \/ UiQuits
           \/ \E k \in Leds : Receive(k) \/ Show(k) \/ Log(k)
    PROVE  ToLed(l)' <= ToLed(l)
<1> DEFINE toL(s) == \E n \in DOMAIN s : s[n][1] = l
<1>0. RestOK
      BY TypeParts
<1>t. /\ Len(ledq[l]) \in Nat /\ Len(held[l]) \in Nat /\ ledq[l] \in Seq(BOOLEAN)
      /\ Len(ledq'[l]) \in Nat /\ Len(held'[l]) \in Nat /\ held[l] \in Seq(BOOLEAN)
      BY <1>0 DEF RestOK
<1>o. \A b : One(b) \in 0..1
      BY DEF One
<1>d. /\ ToLed(l) = One(toL(sending)) + Len(ledq[l]) + Len(held[l]) + One(l \in logging)
      /\ ToLed(l)' = One(toL(sending')) + Len(ledq'[l]) + Len(held'[l]) + One(l \in logging')
      BY DEF ToLed
<1> HIDE DEF toL
<1>b. /\ One(toL(sending)) \in 0..1 /\ One(toL(sending')) \in 0..1
      /\ One(l \in logging) \in 0..1 /\ One(l \in logging') \in 0..1
      BY <1>o, Zenon
<1>p. PICK s0 \in 0..1, s1 \in 0..1, q0 \in Nat, q1 \in Nat,
           h0 \in Nat, h1 \in Nat, g0 \in 0..1, g1 \in 0..1 :
        /\ s0 = One(toL(sending)) /\ s1 = One(toL(sending'))
        /\ q0 = Len(ledq[l]) /\ q1 = Len(ledq'[l])
        /\ h0 = Len(held[l]) /\ h1 = Len(held'[l])
        /\ g0 = One(l \in logging) /\ g1 = One(l \in logging')
      BY <1>b, <1>t, Zenon
<1>q. SUFFICES s1 + q1 + h1 + g1 <= s0 + q0 + h0 + g0
      BY <1>d, <1>p, Zenon
<1>s. ASSUME UNCHANGED <<sending, ledq[l], held[l]>>, l \in logging' => l \in logging
      PROVE  s1 + q1 + h1 + g1 <= s0 + q0 + h0 + g0
  <2>1. g1 <= g0
    <3>1. ASSUME NEW b, NEW c, b => c PROVE One(b) <= One(c)
          BY <3>1 DEF One
    <3> QED BY <1>p, <1>s, <3>1, Zenon
  <2>2. s1 = s0 /\ q1 = q0 /\ h1 = h0
        BY <1>p, <1>s, Zenon
  <2> QED BY <2>1, <2>2
<1>1. CASE SendLed
  <2>1. /\ sending \in Messages /\ Len(sending) <= 2 /\ sending # <<>>
        /\ sending' = Tail(sending) /\ held' = held /\ logging' = logging
        BY <1>0, <1>1 DEF RestOK, SendLed, ui, threads
  <2>2. /\ Len(sending) \in Nat /\ DOMAIN sending = 1..Len(sending)
        /\ Head(sending) = sending[1] /\ Head(sending) \in Leds \X BOOLEAN
        /\ Tail(sending) \in Messages /\ Len(Tail(sending)) = Len(sending) - 1
        /\ \A i \in 1..(Len(sending) - 1) : Tail(sending)[i] = sending[i + 1]
        BY <2>1, QueueFacts DEF Messages
  <2>3. DOMAIN Tail(sending) = 1..(Len(sending) - 1)
    <3>1. \A q \in Messages : DOMAIN q = 1..Len(q)
          BY QueueFacts DEF Messages
    <3> QED BY <2>2, <3>1, Zenon
  <2>4. Len(sending) \in {1, 2}
    <3>1. Len(sending) # 0
          BY <2>1, QueueFacts DEF Messages
    <3> QED BY <2>1, <2>2, <3>1
  <2>5. toL(sending) <=> (sending[1][1] = l \/ toL(Tail(sending)))
    <3>1. CASE Len(sending) = 1
      <4>1. DOMAIN Tail(sending) = {} /\ DOMAIN sending = {1}
            BY <2>2, <2>3, <3>1
      <4> QED BY <4>1 DEF toL
    <3>2. CASE Len(sending) = 2
      <4>1. DOMAIN Tail(sending) = {1} /\ DOMAIN sending = {1, 2} /\ Tail(sending)[1] = sending[2]
            BY <2>2, <2>3, <3>2
      <4> QED BY <4>1 DEF toL
    <3> QED BY <2>4, <3>1, <3>2
  <2>6. sending[1][1] = l => ~toL(Tail(sending))
    <3>1. CASE Len(sending) = 1
      <4>1. DOMAIN Tail(sending) = {}
            BY <2>2, <2>3, <3>1
      <4> QED BY <4>1 DEF toL
    <3>2. CASE Len(sending) = 2
      <4>1. DOMAIN Tail(sending) = {1} /\ Tail(sending)[1] = sending[2]
            BY <2>2, <2>3, <3>2
      <4>2. sending[1][1] # sending[2][1]
            BY <3>2 DEF OneEach
      <4> QED BY <4>1, <4>2 DEF toL
    <3> QED BY <2>4, <3>1, <3>2
  <2>7. CASE sending[1][1] = l
    <3>1. s0 = 1 /\ s1 = 0
      <4>1. toL(sending) /\ ~toL(sending')
            BY <2>1, <2>5, <2>6, <2>7, Zenon
      <4> QED BY <1>p, <4>1, Zenon DEF One
    <3>2. q1 <= q0 + 1
      <4>1. CASE up
        <5>1. ledq'[l] = Append(ledq[l], Head(sending)[2])
              BY <1>0, <1>1, <2>2, <2>7, <4>1 DEF SendLed, RestOK
        <5>2. Head(sending)[2] \in BOOLEAN
              BY <2>2
        <5>3. \A b \in BOOLEAN : Len(Append(ledq[l], b)) = Len(ledq[l]) + 1
              BY <1>t, AppendProperties
        <5>4. q1 = q0 + 1
              BY <1>p, <5>1, <5>2, <5>3, Zenon
        <5> QED BY <5>4
      <4>2. CASE ~up
        <5>1. ledq' = ledq
              BY <1>1, <4>2 DEF SendLed
        <5>2. q1 = q0
              BY <1>p, <5>1, Zenon
        <5> QED BY <5>2
      <4> QED BY <4>1, <4>2
    <3>3. h1 = h0 /\ g1 = g0
          BY <1>p, <2>1, Zenon
    <3> QED BY <3>1, <3>2, <3>3
  <2>8. CASE sending[1][1] # l
    <3>1. toL(sending') <=> toL(sending)
          BY <2>1, <2>5, <2>8, Zenon
    <3>2. ledq'[l] = ledq[l]
          BY <1>0, <1>1, <2>2, <2>8 DEF SendLed, RestOK
    <3>3. s1 = s0
          BY <1>p, <3>1, Zenon DEF One
    <3>4. q1 = q0 /\ h1 = h0 /\ g1 = g0
          BY <1>p, <2>1, <3>2, Zenon
    <3> QED BY <3>3, <3>4
  <2> QED BY <2>7, <2>8
<1>2. CASE UiQuits
  <2>1. Len(ledq'[l]) = 0 /\ Len(held'[l]) = 0 /\ One(l \in logging') = 0 /\ sending' = sending
        BY <1>2 DEF UiQuits, One
  <2>2. q1 = 0 /\ h1 = 0 /\ g1 = 0 /\ s1 = s0
        BY <1>p, <2>1, Zenon
  <2> QED BY <2>2
<1>3. CASE Receive(l)
  <2>1. /\ held[l] = <<>> /\ ledq[l] # <<>> /\ sending' = sending /\ logging' = logging
        /\ ledq'[l] = Tail(ledq[l]) /\ held'[l] = <<Head(ledq[l])>>
        BY <1>0, <1>3 DEF Receive, RestOK
  <2>2. Len(ledq'[l]) = Len(ledq[l]) - 1 /\ Len(held[l]) = 0 /\ Len(held'[l]) = 1
    <3>1. Len(Tail(ledq[l])) = Len(ledq[l]) - 1
          BY <1>t, <2>1, QueueFacts
    <3>2. \A v : Len(<<v>>) = 1
          OBVIOUS
    <3>3. Len(<<>>) = 0
          OBVIOUS
    <3> QED BY <2>1, <3>1, <3>2, <3>3, Zenon
  <2>3. q1 = q0 - 1 /\ h0 = 0 /\ h1 = 1 /\ s1 = s0 /\ g1 = g0
        BY <1>p, <2>1, <2>2, Zenon
  <2> QED BY <2>3
<1>4. CASE Show(l)
  <2>1. /\ held[l] # <<>> /\ sending' = sending /\ ledq' = ledq /\ held'[l] = <<>>
        BY <1>0, <1>4 DEF Show, RestOK
  <2>2. Len(held[l]) >= 1 /\ Len(held'[l]) = 0
    <3>1. Len(held[l]) # 0
          BY <1>t, <2>1, QueueFacts
    <3>2. Len(held'[l]) = 0
          BY <2>1
    <3>3. \A n \in Nat : n # 0 => n >= 1
          OBVIOUS
    <3> QED BY <1>t, <3>1, <3>2, <3>3, Zenon
  <2>3. h0 >= 1 /\ h1 = 0 /\ s1 = s0 /\ q1 = q0
        BY <1>p, <2>1, <2>2, Zenon
  <2> QED BY <2>3
<1>5. CASE Log(l)
  <2>1. UNCHANGED <<sending, ledq[l], held[l]>> /\ (l \in logging' => l \in logging)
        BY <1>5 DEF Log
  <2> QED BY <1>s, <2>1
<1>6. ASSUME NEW k \in Leds, k # l, Receive(k) \/ Show(k) \/ Log(k)
      PROVE  s1 + q1 + h1 + g1 <= s0 + q0 + h0 + g0
  <2>1. UNCHANGED <<sending, ledq[l], held[l]>> /\ (l \in logging' => l \in logging)
    <3>1. /\ ledq \in [Leds -> Seq(BOOLEAN)] /\ held \in [Leds -> Seq(BOOLEAN)]
          BY <1>0 DEF RestOK
    <3>2. CASE Receive(k)
          BY <1>6, <3>1, <3>2 DEF Receive
    <3>3. CASE Show(k)
          BY <1>6, <3>1, <3>3 DEF Show
    <3>4. CASE Log(k)
          BY <1>6, <3>4 DEF Log
    <3> QED BY <1>6, <3>2, <3>3, <3>4
  <2> QED BY <1>s, <2>1
<1> QED BY <1>1, <1>2, <1>3, <1>4, <1>5, <1>6

(* TermTypes in the next state. *)
LEMMA TermTypesNext ==
    ASSUME RestOK', NEW l \in Leds
    PROVE  ToButton' \in Nat /\ InFirmware' \in 0..2 /\ ToLed(l)' \in Nat
<1>1. /\ Len(tksend') \in Nat /\ Len(btnq') \in Nat
      /\ Len(ledq'[l]) \in Nat /\ Len(held'[l]) \in Nat
      BY DEF RestOK
<1>2. \A b : One(b) \in 0..1
      BY DEF One
<1>3. ToButton' \in Nat
      BY <1>1 DEF ToButton
<1>4. ASSUME NEW x \in 0..1, NEW y \in 0..1 PROVE x + y \in 0..2
      OBVIOUS
<1>5. InFirmware' \in 0..2
      BY <1>2, <1>4, Zenon DEF InFirmware
<1>6. ASSUME NEW x \in 0..1, NEW y \in 0..1, NEW n \in Nat, NEW m \in Nat
      PROVE  x + n + m + y \in Nat
      OBVIOUS
<1>7. ToLed(l)' \in Nat
      BY <1>1, <1>2, <1>6, Zenon DEF ToLed
<1> QED BY <1>3, <1>5, <1>7

(* No step makes more of a click than one change under way. *)
LEMMA ClicksStep ==
    ASSUME TypeOK, PortInv, NoUi, OneEach, ClicksUnderWay, RestOK', Next
    PROVE  ClicksUnderWay'
<1> DEFINE loaded == IF restarts = 0 THEN 0 ELSE 2
<1>0. RestOK /\ PortsOK /\ FirmwareOK
      BY TypeParts
<1>s. SUFFICES ASSUME NEW l \in Leds
               PROVE  ToButton' + InFirmware' + ToLed(l)' <= clicks' + loaded'
      BY Zenon DEF ClicksUnderWay
<1>i. ToButton + InFirmware + ToLed(l) <= clicks + loaded
      BY Zenon DEF ClicksUnderWay
<1>t. /\ ToButton \in Nat /\ InFirmware \in 0..2 /\ ToLed(l) \in Nat
      /\ ToButton' \in Nat /\ InFirmware' \in 0..2 /\ ToLed(l)' \in Nat
      /\ clicks \in Nat /\ loaded \in Nat
  <2>1. clicks \in Nat /\ loaded \in Nat
        BY <1>0, ClicksAssumption DEF RestOK
  <2> QED BY <1>0, <2>1, TermTypes, TermTypesNext
<1>f. ASSUME UNCHANGED <<portA, portB, cpu>> PROVE InFirmware' = InFirmware
  <2>1. UNCHANGED <<etat, gpioA, gpioB>>
        BY <1>f DEF portA, portB, cpu
  <2> QED BY <2>1, SameTerms, Zenon
<1>1. CASE Click
  <2>1. /\ tksend = <<>> /\ tksend' = <<pressed'>> /\ clicks' = clicks + 1
        /\ UNCHANGED <<btnq, sending, ledq, held, logging, portA, portB, cpu, restarts>>
        BY <1>1 DEF Click, threads
  <2>2. ToButton' = ToButton + 1
    <3>1. Len(tksend) = 0 /\ Len(tksend') = 1
          BY <2>1
    <3>2. Len(btnq) \in Nat
          BY <1>0 DEF RestOK
    <3> QED BY <2>1, <3>1, <3>2 DEF ToButton
  <2>3. InFirmware' = InFirmware /\ ToLed(l)' = ToLed(l)
        BY <1>f, <2>1, SameTerms, Zenon
  <2>4. loaded' = loaded
        BY <2>1
  <2> HIDE DEF loaded
  <2> QED BY <1>i, <1>t, <2>1, <2>2, <2>3, <2>4
<1>2. CASE SendClick
  <2>1. /\ btnq' = btnq \o tksend /\ tksend' = <<>>
        /\ UNCHANGED <<clicks, sending, ledq, held, logging, portA, portB, cpu, restarts>>
        BY <1>2 DEF SendClick, threads
  <2>2. ToButton' = ToButton
    <3>1. tksend \in Seq(BOOLEAN) /\ btnq \in Seq(BOOLEAN)
          BY <1>0 DEF RestOK
    <3>2. Len(btnq \o tksend) = Len(btnq) + Len(tksend) /\ Len(btnq) \in Nat /\ Len(tksend) \in Nat
          BY <3>1
    <3>3. Len(tksend') = 0 /\ Len(btnq') = Len(btnq) + Len(tksend)
          BY <2>1, <3>2
    <3> QED BY <3>2, <3>3 DEF ToButton
  <2>3. InFirmware' = InFirmware /\ ToLed(l)' = ToLed(l)
        BY <1>f, <2>1, SameTerms, Zenon
  <2> QED BY <1>i, <2>1, <2>2, <2>3
<1>3. CASE ButtonReceive
  <2>1. /\ btnq # <<>> /\ btnq' = Tail(btnq)
        /\ UNCHANGED <<tksend, clicks, sending, ledq, held, logging, portB, etat, restarts>>
        BY <1>3 DEF ButtonReceive, ui, tk, threads, cpu
  <2>2. ToButton' = ToButton - 1
    <3>1. tksend \in Seq(BOOLEAN) /\ btnq \in Seq(BOOLEAN)
          BY <1>0 DEF RestOK
    <3>2. Len(btnq) \in Nat /\ Len(tksend) \in Nat /\ Len(btnq') = Len(btnq) - 1
          BY <2>1, <3>1, QueueFacts
    <3> QED BY <2>1, <3>2 DEF ToButton
  <2>3. ToLed(l)' = ToLed(l)
        BY <2>1, SameTerms, Zenon
  <2>4. InFirmware' <= InFirmware + 1
    <3>1. \A b : One(b) \in 0..1
          BY DEF One
    <3>2. One(gpioB'.outd # LedsFor(etat')) = One(gpioB.outd # LedsFor(etat))
          BY <2>1 DEF portB
    <3>3. One(etat # gpioA.ind) \in 0..1 /\ One(etat' # gpioA'.ind) \in 0..1
          /\ One(gpioB.outd # LedsFor(etat)) \in 0..1
          BY <3>1, Zenon
    <3>4. \A x, y, z \in 0..1 : x + z <= (y + z) + 1
          OBVIOUS
    <3> QED BY <3>2, <3>3, <3>4, Zenon DEF InFirmware
  <2>5. loaded' = loaded
        BY <2>1
  <2> HIDE DEF loaded
  <2> QED BY <1>i, <1>t, <2>1, <2>2, <2>3, <2>4, <2>5
<1>4. CASE Firmware
  <2>1. UNCHANGED <<tksend, btnq, clicks, restarts>>
        BY <1>4 DEF Firmware, SetupLeds, SetupButton, LedsOff, FirstRead, Test, Reread, Act,
                    ui, tk
  <2>2. ToButton' = ToButton /\ loaded' = loaded
        BY <2>1, SameTerms
  <2>3. InFirmware' + ToLed(l)' <= InFirmware + ToLed(l)
        BY <1>4, FirmwareTerms
  <2> HIDE DEF loaded
  <2> QED BY <1>i, <1>t, <2>1, <2>2, <2>3
<1>5. CASE UiQuits \/ SendLed \/ \E k \in Leds : Receive(k) \/ Show(k) \/ Log(k)
  <2>1. UNCHANGED <<clicks, restarts, portA, portB, cpu>>
        BY <1>5 DEF UiQuits, SendLed, Receive, Show, Log, ui, tk
  <2>2. InFirmware' = InFirmware /\ loaded' = loaded
        BY <1>f, <2>1
  <2>3. ToLed(l)' <= ToLed(l)
        BY <1>5, UiTerms
  <2>4. ToButton' <= ToButton
    <3>1. CASE UiQuits
      <4>1. Len(tksend') = 0 /\ (btnq' = btnq \/ Len(btnq') = 0)
            BY <3>1 DEF UiQuits
      <4>2. Len(btnq) \in Nat /\ Len(tksend) \in Nat
            BY <1>0 DEF RestOK
      <4> QED BY <4>1, <4>2 DEF ToButton
    <3>2. CASE ~UiQuits
      <4>1. UNCHANGED <<tksend, btnq>>
            BY <1>5, <3>2 DEF SendLed, Receive, Show, Log, ui, tk
      <4>2. ToButton' = ToButton
            BY <4>1, SameTerms, Zenon
      <4>3. \A n \in Nat : n <= n
            OBVIOUS
      <4> QED BY <1>t, <4>2, <4>3, Zenon
    <3> QED BY <3>1, <3>2
  <2> HIDE DEF loaded
  <2> QED BY <1>i, <1>t, <2>1, <2>2, <2>3, <2>4
<1>6. CASE SendAgain
  <2>1. UNCHANGED <<tksend, btnq, clicks, restarts, portA, portB, cpu, sending, ledq, held, logging>>
        BY <1>6 DEF SendAgain, vars, ui, tk, threads
  <2>2. ToButton' = ToButton /\ InFirmware' = InFirmware /\ ToLed(l)' = ToLed(l)
        BY <1>f, <2>1, SameTerms, Zenon
  <2> QED BY <1>i, <2>1, <2>2
<1>7. CASE Restart
  <2>1. /\ ~up /\ sending = <<>> /\ clicks' = 0 /\ btnq' = <<>> /\ restarts' = restarts + 1
        /\ UNCHANGED <<tksend, held, logging, ledq, sending>>
        BY <1>7 DEF Restart, threads
  <2>2. tksend = <<>> /\ logging = {} /\ ledq[l] = <<>> /\ held[l] = <<>>
        BY <2>1 DEF NoUi
  <2>3. ToButton' = 0
        BY <2>1, <2>2 DEF ToButton
  <2>4. ToLed(l)' = 0
        BY <2>1, <2>2 DEF ToLed, One
  <2>5. loaded' = 2
        BY <1>0, <2>1, ClicksAssumption DEF FirmwareOK
  <2> HIDE DEF loaded
  <2>6. clicks' = 0
        BY <2>1
  <2>7. \A f \in 0..2 : 0 + f + 0 <= 0 + 2
        OBVIOUS
  <2>8. 0 + InFirmware' + 0 <= 0 + 2
        BY <1>t, <2>7, Zenon
  <2> QED BY <2>3, <2>4, <2>5, <2>6, <2>8, Zenon
<1> QED BY <1>1, <1>2, <1>3, <1>4, <1>5, <1>6, <1>7 DEF Next

-----------------------------------------------------------------------------
(* The inductive invariant *)

(* The board is reset and the UI has just been started. *)
LEMMA InitDInv == Init => DInv
<1> SUFFICES ASSUME Init PROVE DInv
    OBVIOUS
<1>1. /\ gpioA = A!ResetPort /\ wireA = {}
      /\ histA = [hidden |-> {}, level |-> {}, missed |-> {}]
      /\ gpioB = B!ResetPort /\ wireB = {}
      /\ histB = [hidden |-> {}, level |-> {}, missed |-> {}]
      BY DEF Init, A!Init, B!Init
<1>2. /\ ResetModeA \in [PinsA -> 0..3] /\ ResetPupdA \in [PinsA -> 0..3]
      /\ ResetModeB \in [PinsB -> 0..3] /\ ResetPupdB \in [PinsB -> 0..3]
      BY DEF ResetModeA, ResetPupdA, ResetModeB, ResetPupdB
<1>3. /\ gpioA \in A!GpioState /\ gpioA.mode = ResetModeA
      /\ gpioA.ind = {} /\ gpioA.outd = {}
      BY <1>1, <1>2 DEF A!ResetPort, A!GpioState, A!StoreRegs
<1>4. /\ gpioB \in B!GpioState /\ gpioB.outd = {} /\ gpioB.outd_old = {}
      BY <1>1, <1>2 DEF B!ResetPort, B!GpioState, B!StoreRegs
<1>5. PortsOK
      BY <1>1, <1>3, <1>4 DEF PortsOK, A!PortHistory, B!PortHistory
<1>6. RestOK
  <2>1. /\ up = TRUE /\ pressed = FALSE /\ clicks = 0 /\ tksend = <<>> /\ btnq = <<>>
        /\ button = FALSE /\ sending = <<>> /\ ledq = [l \in Leds |-> <<>>]
        /\ held = [l \in Leds |-> <<>>] /\ logging = {} /\ image = [l \in Leds |-> FALSE]
        BY DEF Init
  <2>2. <<>> \in Seq(BOOLEAN) /\ <<>> \in Messages /\ Len(<<>>) = 0
    <3>1. <<>> \in Seq(BOOLEAN) /\ <<>> \in Seq(Leds \X BOOLEAN) /\ Len(<<>>) = 0
          BY EmptySeq
    <3> QED BY <3>1 DEF Messages
  <2>3. 0 <= CapB /\ 0 <= CapL /\ 0 \in 0..MaxClicks
        BY ClicksAssumption, SocketAssumption
  <2>4. /\ tksend \in Seq(BOOLEAN) /\ Len(tksend) <= 1 /\ btnq \in Seq(BOOLEAN)
        /\ Len(btnq) <= CapB /\ sending \in Messages /\ Len(sending) <= 2
    <3>1. Len(tksend) = 0 /\ Len(btnq) = 0 /\ Len(sending) = 0
          BY <2>1, <2>2, Zenon
    <3> QED BY <2>1, <2>2, <2>3, <3>1
  <2>5. /\ ledq \in [Leds -> Seq(BOOLEAN)] /\ held \in [Leds -> Seq(BOOLEAN)]
        /\ \A l \in Leds : ledq[l] = <<>> /\ held[l] = <<>>
        BY <2>1, <2>2
  <2>6. \A l \in Leds : Len(ledq[l]) <= CapL /\ Len(held[l]) <= 1
    <3>1. \A l \in Leds : Len(ledq[l]) = 0 /\ Len(held[l]) = 0
          BY <2>2, <2>5, Zenon
    <3> QED BY <2>3, <3>1
  <2>7. /\ up \in BOOLEAN /\ pressed \in BOOLEAN /\ clicks \in 0..MaxClicks
        /\ button \in BOOLEAN /\ logging \subseteq Leds /\ image \in [Leds -> BOOLEAN]
        BY <2>1, <2>3
  <2> QED BY <2>4, <2>5, <2>6, <2>7 DEF RestOK
<1>7. /\ pc = "setup_leds" /\ boots = 0 /\ etat = {} /\ acted = FALSE /\ restarts = 0
      BY DEF Init
<1>8. FirmwareOK
  <2>1. boots \in 0..2 /\ restarts \in 0..MaxRestarts
        BY <1>7, ClicksAssumption
  <2>2. acted \in BOOLEAN
        BY <1>7
  <2>3. etat \subseteq PinsA
        BY <1>7
  <2> QED BY <1>7, <2>1, <2>2, <2>3, Zenon DEF FirmwareOK
<1>9. SetUp
  <2>1. gpioA.mode[BUTTON_PIN] = 0
        BY <1>3 DEF ResetModeA, PinsA, BUTTON_PIN
  <2>2. boots # 2
        BY <1>7
  <2> QED BY <1>3, <1>4, <1>7, <2>1, <2>2, Zenon DEF SetUp
<1>10. OdrFollowsEtat /\ IdrFollowsLine
  <2>1. histA.missed = {} /\ histA.level = {}
        BY <1>1
  <2> QED BY <1>3, <1>4, <1>7, <2>1, Zenon DEF OdrFollowsEtat, IdrFollowsLine
<1>11. NoUi /\ OneEach
       BY DEF Init, NoUi, OneEach
<1>12. ImageFollowsOdr
  <2>1. SUFFICES ASSUME NEW l \in Leds PROVE LastLevel(l) = FALSE
        BY <1>4 DEF ImageFollowsOdr
  <2>2. image[l] = FALSE /\ held[l] = <<>> /\ ledq[l] = <<>> /\ sending = <<>>
        BY DEF Init
  <2>3. LastReceived(l) = FALSE
        BY <2>2, BytesNewest, Zenon DEF LastReceived
  <2>4. \A x : NewestFor(l, x, <<>>) = x
        BY DEF NewestFor
  <2> QED BY <1>6, <2>2, <2>3, <2>4, LastLevelParts, Zenon
<1>13. ButtonUnderWay
  <2>1. <<>> \o <<>> = <<>>
        BY ShortConcats, Zenon
  <2>2. btnq \o tksend = <<>> /\ pressed = FALSE /\ BUTTON_PIN \notin histA.level
        BY <1>1, <2>1 DEF Init
  <2>3. Newest(BUTTON_PIN \in histA.level, btnq \o tksend) = (BUTTON_PIN \in histA.level)
        BY <2>2, BytesNewest, Zenon
  <2> QED BY <2>2, <2>3, Zenon DEF ButtonUnderWay
<1>14. ClicksUnderWay
  <2>1. SUFFICES ASSUME NEW l \in Leds PROVE ToButton + InFirmware + ToLed(l) = 0
    <3>1. clicks = 0 /\ restarts = 0
          BY DEF Init
    <3> QED BY <3>1 DEF ClicksUnderWay
  <2>2. ToButton = 0
        BY DEF Init, ToButton
  <2>3. InFirmware = 0
        BY <1>3, <1>4, <1>7 DEF InFirmware, One, LedsFor
  <2>4. ToLed(l) = 0
        BY DEF Init, ToLed, One
  <2> QED BY <2>2, <2>3, <2>4
<1> QED BY <1>5, <1>6, <1>8, <1>9, <1>10, <1>11, <1>12, <1>13, <1>14, TypeParts DEF DInv

(* Nothing happens. *)
LEMMA StutterDInv ==
    ASSUME DInv, UNCHANGED vars
    PROVE  DInv'
<1>0. /\ UNCHANGED <<up, pressed, clicks, tksend, held, logging, image, btnq, button>>
      /\ UNCHANGED <<gpioA, wireA, histA, gpioB, wireB, histB, sending, ledq>>
      /\ UNCHANGED <<pc, boots, etat, acted, restarts>>
      BY DEF vars, ui, tk, threads, portA, portB, cpu
<1>1. PortInv'
      BY <1>0, PortInvKept, TypeParts DEF DInv, PortInv, portA, portB, cpu
<1>2. RestOK'
      BY <1>0, TypeParts, Zenon DEF DInv, RestOK
<1>3. NoUi' /\ OneEach'
      BY <1>0, Zenon DEF DInv, NoUi, OneEach
<1>4. ImageFollowsOdr'
      BY <1>0, Zenon DEF DInv, ImageFollowsOdr, LastLevel, Undriven
<1>5. ButtonUnderWay'
      BY <1>0, Zenon DEF DInv, ButtonUnderWay
<1>6. ClicksUnderWay'
      BY <1>0, Zenon DEF DInv, ClicksUnderWay, ToButton, InFirmware, ToLed
<1>7. TypeOK'
      BY <1>1, <1>2, TypePartsNext DEF PortInv
<1> QED BY <1>1, <1>3, <1>4, <1>5, <1>6, <1>7 DEF DInv, PortInv

(* Every step of the board, of the UI and of the user keeps the invariant. *)
LEMMA NextDInv == DInv /\ [Next]_vars => DInv'
<1>1. ASSUME DInv, Next PROVE DInv'
  <2>0. /\ TypeOK /\ PortInv /\ NoUi /\ OneEach /\ ImageFollowsOdr /\ ButtonUnderWay
        /\ ClicksUnderWay
        BY <1>1, TypeParts DEF DInv, PortInv
  <2>1. PortInv'
    <3>1. CASE Restart
      <4>1. restarts < MaxRestarts
            BY <2>0, <3>1 DEF Restart, NoUi
      <4> QED BY <2>0, <3>1, <4>1, PortInvRestart
    <3>2. CASE ButtonReceive
          BY <2>0, <3>2, PortInvReceive
    <3>3. CASE Firmware
          BY <2>0, <3>3, PortInvFirmware
    <3> QED BY <1>1, <2>0, <3>1, <3>2, <3>3, Quiet, PortInvKept
  <2>2. RestOK' /\ OneEach'
        BY <1>1, <2>0, RestOKStep
  <2>3. NoUi'
        BY <1>1, <2>0, NoUiStep
  <2>4. ImageFollowsOdr'
        BY <1>1, <2>0, <2>2, ImageStep
  <2>5. ButtonUnderWay'
        BY <1>1, <2>0, ButtonStep
  <2>6. ClicksUnderWay'
        BY <1>1, <2>0, <2>2, ClicksStep
  <2>7. TypeOK'
        BY <2>1, <2>2, TypePartsNext DEF PortInv
  <2> QED BY <2>1, <2>2, <2>3, <2>4, <2>5, <2>6, <2>7 DEF DInv, PortInv
<1> QED BY <1>1, StutterDInv

-----------------------------------------------------------------------------
(* The theorems *)

(* The inductive invariant holds whatever the sockets hold and however     *)
(* often the user clicks and the board is saved and loaded.                *)
THEOREM BoardInvariant == Spec => []DInv
BY InitDInv, NextDInv, PTL DEF Spec

(* The sockets never hold more than fits, send_all never has more than two *)
(* bytes to send, and the ports and the firmware keep their types.         *)
THEOREM BoardTypes == Spec => []TypeOK
<1>1. DInv => TypeOK
      BY DEF DInv
<1> QED BY <1>1, BoardInvariant, PTL

(* The last level sent to an LED is the ODR bit of its pin: no level is    *)
(* lost, duplicated or reordered between stm32_gpio_update and the image,  *)
(* whoever is slow.                                                        *)
THEOREM LedsFollowOdr == Spec => []ImageFollowsOdr
<1>1. DInv => ImageFollowsOdr
      BY DEF DInv
<1> QED BY <1>1, BoardInvariant, PTL

(* Once every byte is consumed the images show the button, if the firmware *)
(* has handled a change of it and no load hides it.                        *)
THEOREM LedsShowButton == Spec => []IdleLedsShowButton
<1>1. DInv => IdleLedsShowButton
  <2>1. SUFFICES ASSUME DInv, Idle, ~StuckDown, NEW l \in Leds, ~Undriven(l)
                 PROVE  image[l] <=> (pressed /\ acted)
        BY Zenon DEF IdleLedsShowButton
  <2>2. /\ up /\ pc = "test" /\ etat = gpioA.ind /\ tksend = <<>> /\ btnq = <<>>
        /\ sending = <<>> /\ held[l] = <<>> /\ ledq[l] = <<>>
        BY <2>1 DEF Idle
  <2>3. /\ RestOK /\ FirmwareOK /\ OdrFollowsEtat /\ ImageFollowsOdr /\ ButtonUnderWay
        /\ IdrFollowsLine
        BY <2>1, TypeParts DEF DInv
  <2>4. LastLevel(l) = image[l]
    <3>1. LastReceived(l) = image[l]
          BY <2>2, BytesNewest, Zenon DEF LastReceived
    <3>2. \A x : NewestFor(l, x, <<>>) = x
          BY DEF NewestFor
    <3>3. NewestFor(l, LastReceived(l), sending) = LastReceived(l)
          BY <2>2, <3>2, Zenon
    <3> QED BY <2>3, <3>1, <3>3, LastLevelParts, Zenon
  <2>5. image[l] <=> LedPin(l) \in gpioB.outd
        BY <2>1, <2>2, <2>3, <2>4, Zenon DEF ImageFollowsOdr
  <2>6. pressed <=> BUTTON_PIN \in histA.level
    <3>1. <<>> \o <<>> = <<>>
          BY ShortConcats, Zenon
    <3>2. btnq \o tksend = <<>>
          BY <2>2, <3>1, Zenon
    <3>3. Newest(BUTTON_PIN \in histA.level, btnq \o tksend) = (BUTTON_PIN \in histA.level)
          BY <3>2, BytesNewest, Zenon
    <3> QED BY <2>2, <2>3, <3>3, Zenon DEF ButtonUnderWay
  <2>7. CASE ~acted
    <3>1. LedPin(l) \notin gpioB.outd
          BY <2>3, <2>7 DEF OdrFollowsEtat
    <3> QED BY <2>5, <2>7, <3>1, Zenon
  <2>8. CASE acted
    <3>1. gpioB.outd = LedsFor(gpioA.ind)
          BY <2>2, <2>3, <2>8 DEF OdrFollowsEtat
    <3>2. LedPin(l) \in PinsB
          BY DEF PinsB
    <3>3. LedPin(l) \in gpioB.outd <=> BUTTON_PIN \in gpioA.ind
          BY <3>1, <3>2 DEF LedsFor
    <3>4. BUTTON_PIN \notin histA.missed
      <4>1. restarts = 0 \/ restarts > 0
            BY <2>3, ClicksAssumption DEF FirmwareOK
      <4> QED BY <2>1, <2>3, <2>8, <4>1, Zenon DEF IdrFollowsLine, StuckDown
    <3>5. BUTTON_PIN \in gpioA.ind <=> BUTTON_PIN \in histA.level
          BY <2>3, <3>4, Zenon DEF IdrFollowsLine
    <3> QED BY <2>5, <2>6, <2>8, <3>3, <3>5, Zenon
  <2> QED BY <2>7, <2>8, Zenon
<1> QED BY <1>1, BoardInvariant, PTL

(* Everyone waits on everyone only if the user is ahead of the UI by more  *)
(* clicks than both sockets hold.                                          *)
THEOREM WaitIsBurst == Spec => []WaitNeedsBurst
<1>1. DInv => WaitNeedsBurst
  <2>1. SUFFICES ASSUME DInv, CircularWait
                 PROVE  clicks + (IF restarts = 0 THEN 0 ELSE 2) >= CapB + CapL + 3
        BY Zenon DEF WaitNeedsBurst
  <2> DEFINE l == Head(sending)[1]
             loaded == IF restarts = 0 THEN 0 ELSE 2
  <2>2. RestOK /\ ClicksUnderWay
        BY <2>1, TypeParts DEF DInv
  <2>3. /\ sending \in Messages /\ sending # <<>> /\ tksend \in Seq(BOOLEAN) /\ tksend # <<>>
        /\ Len(btnq) = CapB /\ Len(ledq[l]) = CapL /\ (held[l] # <<>> \/ l \in logging)
        BY <2>1, <2>2 DEF RestOK, CircularWait, TkFree
  <2>4. l \in Leds /\ \E n \in DOMAIN sending : sending[n][1] = l
    <3>1. /\ Head(sending) \in Leds \X BOOLEAN /\ Head(sending) = sending[1]
          /\ DOMAIN sending = 1..Len(sending) /\ Len(sending) \in Nat /\ Len(sending) # 0
          BY <2>3, QueueFacts DEF Messages
    <3>2. 1 \in DOMAIN sending
          BY <3>1
    <3>3. l \in Leds
          BY <3>1
    <3> QED BY <3>1, <3>2, <3>3, Zenon
  <2>5. held[l] \in Seq(BOOLEAN)
        BY <2>2, <2>4 DEF RestOK
  <2> HIDE DEF l
  <2>6. Len(tksend) \in Nat /\ Len(tksend) # 0
        BY <2>3, QueueFacts
  <2>7. Len(held[l]) \in Nat /\ (held[l] # <<>> => Len(held[l]) # 0)
        BY <2>5, QueueFacts
  <2>8. ToButton >= CapB + 1
        BY <2>3, <2>6, SocketAssumption DEF ToButton
  <2>9. ToLed(l) >= CapL + 2
    <3>1. One(\E n \in DOMAIN sending : sending[n][1] = l) = 1
          BY <2>4 DEF One
    <3>2. One(l \in logging) \in 0..1 /\ (l \in logging => One(l \in logging) = 1)
          BY DEF One
    <3>3. Len(held[l]) + One(l \in logging) >= 1
          BY <2>3, <2>7, <3>2
    <3>4. \A s, q, h, g \in Int : s = 1 /\ q = CapL /\ h + g >= 1 => s + q + h + g >= CapL + 2
          BY SocketAssumption
    <3>5. /\ One(\E n \in DOMAIN sending : sending[n][1] = l) \in Int
          /\ Len(ledq[l]) \in Int /\ Len(held[l]) \in Int /\ One(l \in logging) \in Int
      <4>1. \A b : One(b) \in Int
            BY DEF One
      <4>2. Len(ledq[l]) \in Int /\ Len(held[l]) \in Int
            BY <2>3, <2>7, SocketAssumption
      <4> QED BY <4>1, <4>2, Zenon
    <3> QED BY <2>3, <3>1, <3>3, <3>4, <3>5, Zenon DEF ToLed
  <2>10. ToButton + InFirmware + ToLed(l) <= clicks + loaded
        BY <2>2, <2>4, Zenon DEF ClicksUnderWay
  <2>11. /\ ToButton \in Nat /\ InFirmware \in 0..2 /\ ToLed(l) \in Nat
         /\ clicks \in Nat /\ loaded \in Nat
    <3>1. clicks \in Nat /\ loaded \in Nat
          BY <2>2, ClicksAssumption DEF RestOK
    <3> QED BY <2>2, <2>4, <3>1, TermTypes
  <2>12. clicks + loaded >= CapB + CapL + 3
    <3> HIDE DEF loaded
    <3>1. \A b, f, t, c, m, x, y \in Nat :
             b >= x + 1 /\ t >= y + 2 /\ b + f + t <= c + m => c + m >= x + y + 3
          OBVIOUS
    <3>2. InFirmware \in Nat /\ CapB \in Nat /\ CapL \in Nat
          BY <2>11, SocketAssumption
    <3> QED BY <2>8, <2>9, <2>10, <2>11, <3>1, <3>2, Zenon
  <2> QED BY <2>12
<1> QED BY <1>1, BoardInvariant, PTL
=============================================================================

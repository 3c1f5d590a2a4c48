------------------------------ MODULE Discovery ------------------------------
(***************************************************************************)
(* The emulated STM32L-Discovery board running the button demonstration,   *)
(* with the user interface connected to its three sockets:                 *)
(*                                                                         *)
(*   user -> UI.py -> socket -> chardev user0 -> stm32_button -> GPIO_A    *)
(*        -> firmware (Demo2) -> GPIO_B -> stm32_led -> chardev -> socket  *)
(*        -> UI.py                                                         *)
(*                                                                         *)
(* The actors interleave: the user and the Tk thread of the UI, QEMU's     *)
(* main loop (it hands socket bytes to the button), the virtual CPU (one   *)
(* register access per step) and the two UI threads that read the LED      *)
(* sockets.  QEMU runs the main loop and the CPU under one lock, so a      *)
(* callback and a register access are each atomic down to the socket; a    *)
(* socket that is full blocks them all in send_all.  The UI may be quit,   *)
(* and the board saved and loaded into a new QEMU beside a new UI.         *)
(***************************************************************************)
EXTENDS Naturals, Sequences

CONSTANTS MaxClicks,    \* presses and releases in the life of a UI
          MaxRestarts,  \* times the board is loaded into a new QEMU
          CapB, CapL,   \* bytes that fit in the button and in an LED socket
          ThreadedTcl   \* Tcl runs the calls of every thread in Tk's thread

ASSUME ClicksAssumption == MaxClicks \in Nat /\ MaxRestarts \in Nat
ASSUME SocketAssumption == CapB \in Nat \ {0} /\ CapL \in Nat \ {0}
ASSUME TclAssumption == ThreadedTcl \in BOOLEAN

VARIABLES
    up,       \* the UI runs
    pressed,  \* the user holds the button of the UI down
    clicks,   \* presses and releases so far in this UI
    tksend,   \* the byte the Tk thread is sending, if any
    btnq,     \* bytes in the user0 socket
    button,   \* buttonState of stm32_button
    gpioA, wireA, histA,  \* port A, see Stm32Gpio
    gpioB, wireB, histB,  \* port B
    sending,  \* <<LED, level>> that stm32_gpio_update still has to send
    ledq,     \* bytes in each LED socket
    held,     \* the byte each LED thread has received and not displayed
    logging,  \* the LED threads that write the log
    image,    \* the LED images the UI displays
    pc,       \* control point of the firmware
    boots,    \* calls of SystemInit that are finished
    etat,     \* the firmware's last copy of GPIOA_IDR
    acted,    \* history: the firmware has handled a change of the button
    restarts  \* times the board was loaded

portA == <<gpioA, wireA, histA>>
portB == <<gpioB, wireB, histB>>
cpu == <<pc, boots, etat, acted>>
tk == <<pressed, clicks, tksend>>
threads == <<held, logging, image>>
ui == <<up, tk, threads>>
vars == <<ui, btnq, button, portA, portB, sending, ledq, cpu, restarts>>

-----------------------------------------------------------------------------
(* stm32l152rbt6_init: the wiring of the board, and the reset values of    *)
(* the two ports it creates.                                               *)
BUTTON_PIN == 0
PinsA == {BUTTON_PIN}

Leds == {"blue", "green"}
LedPin(l) == IF l = "blue" THEN 6 ELSE 7
PinsB == {LedPin(l) : l \in Leds}

ResetModeA == [i \in PinsA |-> IF i \in {13, 14, 15} THEN 2 ELSE 0]
ResetPupdA == [i \in PinsA |-> IF i = 14 THEN 2 ELSE IF i \in {13, 15} THEN 1 ELSE 0]
ResetModeB == [i \in PinsB |-> IF i \in {3, 4} THEN 2 ELSE 0]
ResetPupdB == [i \in PinsB |-> IF i = 4 THEN 1 ELSE 0]

A == INSTANCE Stm32Gpio
       WITH Pins <- PinsA, ResetMode <- ResetModeA, ResetPupd <- ResetPupdA,
            Config <- 0..3, StoreVals <- {0}, StoreReset <- 0,
            gpio <- gpioA, wire <- wireA, hist <- histA

B == INSTANCE Stm32Gpio
       WITH Pins <- PinsB, ResetMode <- ResetModeB, ResetPupd <- ResetPupdB,
            Config <- 0..3, StoreVals <- {0}, StoreReset <- 0,
            gpio <- gpioB, wire <- wireB, hist <- histB

Init == /\ up = TRUE
        /\ pressed = FALSE
        /\ clicks = 0
        /\ tksend = <<>>
        /\ btnq = <<>>
        /\ sending = <<>>
        /\ ledq = [l \in Leds |-> <<>>]
        /\ held = [l \in Leds |-> <<>>]
        /\ logging = {}
        /\ image = [l \in Leds |-> FALSE]
        /\ button = FALSE
        /\ A!Init
        /\ B!Init
        /\ pc = "setup_leds"
        /\ boots = 0
        /\ etat = {}
        /\ acted = FALSE
        /\ restarts = 0

-----------------------------------------------------------------------------
(* The user presses or releases the button: the Tk thread calls            *)
(* user_pressed or user_released, whose send blocks while the socket is    *)
(* full.                                                                   *)
Click == /\ up /\ tksend = <<>>
         /\ clicks < MaxClicks
         /\ clicks' = clicks + 1
         /\ pressed' = ~pressed
         /\ tksend' = <<pressed'>>
         /\ UNCHANGED <<up, threads, btnq, button, portA, portB, sending, ledq,
                        cpu, restarts>>

SendClick == /\ tksend # <<>> /\ Len(btnq) < CapB
             /\ btnq' = btnq \o tksend
             /\ tksend' = <<>>
             /\ UNCHANGED <<up, pressed, clicks, threads, button, portA, portB,
                            sending, ledq, cpu, restarts>>

(* The main loop reads one byte, as much as stm32_can_receive allows, and  *)
(* hands it to stm32_receive, which sets the input line of port A.         *)
ButtonReceive == /\ sending = <<>>
                 /\ btnq # <<>>
                 /\ btnq' = Tail(btnq)
                 /\ button' = Head(btnq)
                 /\ A!InRecv(BUTTON_PIN, Head(btnq))
                 /\ UNCHANGED <<ui, portB, sending, ledq, cpu, restarts>>

-----------------------------------------------------------------------------
(* The firmware: a step is one access to a register of a port. *)

(* stm32_led_recvirq, called by the update of port B for each driven pin   *)
(* in turn, sends the level to the socket of the LED.                      *)
Levels(l, driven, outd) ==
    IF LedPin(l) \in driven THEN << <<l, LedPin(l) \in outd>> >> ELSE <<>>

LedsReceiveHigh(driven, outd) ==  \* mutant: only a raised line is sent
    sending' = Levels("blue", driven \cap outd, outd) \o Levels("green", driven \cap outd, outd)
LedsReceive(driven, outd) ==
    sending' = Levels("blue", driven, outd) \o Levels("green", driven, outd)

WriteLeds(v) == /\ B!WriteOdr(v)
                /\ LedsReceive(B!Driven([gpioB EXCEPT !.outd = v]), v)

(* tcp_chr_write and send_all: the byte goes into the socket, or the write *)
(* fails because the UI is gone.                                           *)
SendLedRetries ==  \* mutant: any failed write is tried again
    /\ sending # <<>>
    /\ IF up THEN LET l == Head(sending)[1]
                 IN  /\ Len(ledq[l]) < CapL
                     /\ ledq' = [ledq EXCEPT ![l] = Append(@, Head(sending)[2])]
                     /\ sending' = Tail(sending)
             ELSE UNCHANGED <<ledq, sending>>
    /\ UNCHANGED <<ui, btnq, button, portA, portB, cpu, restarts>>
SendLed == /\ sending # <<>>
           /\ LET l == Head(sending)[1]
              IN  /\ up => Len(ledq[l]) < CapL
                  /\ ledq' = IF up THEN [ledq EXCEPT ![l] = Append(@, Head(sending)[2])]
                                   ELSE ledq
           /\ sending' = Tail(sending)
           /\ UNCHANGED <<ui, btnq, button, portA, portB, cpu, restarts>>

(* send_all tries again at once when the socket is full, under the lock. *)
SendAgain == /\ sending # <<>>
             /\ up /\ Len(ledq[Head(sending)[1]]) = CapL
             /\ UNCHANGED vars

BitOr1(field) == IF field % 2 = 0 THEN field + 1 ELSE field
BitAdd2(field) == field + 2  \* mutant: += in place of |=
BitOr2(field) == IF field < 2 THEN field + 2 ELSE field

(* SystemInit: the start-up code calls it, then main calls it again.  The  *)
(* writes to the absent RCC have no effect.  Nothing but the firmware      *)
(* writes MODER or PUPDR, so each |= is one step.                          *)
SetupLeds == /\ pc = "setup_leds"
             /\ B!WriteMode([i \in PinsB |-> BitOr1(gpioB.mode[i])])
             /\ pc' = "setup_button"
             /\ UNCHANGED <<ui, btnq, button, portA, sending, ledq, boots, etat, acted, restarts>>

SetupButton == /\ pc = "setup_button"
               /\ A!WritePupd([i \in PinsA |-> BitOr2(gpioA.pupd[i])])
               /\ pc' = "leds_off"
               /\ UNCHANGED <<ui, btnq, button, portB, sending, ledq, boots, etat, acted, restarts>>

LedsOff == /\ pc = "leds_off"
           /\ WriteLeds({})
           /\ boots' = boots + 1
           /\ pc' = IF boots' = 2 THEN "first_read" ELSE "setup_leds"
           /\ UNCHANGED <<ui, btnq, button, portA, ledq, etat, acted, restarts>>

FirstRead == /\ pc = "first_read"
             /\ etat' = gpioA.ind
             /\ pc' = "test"
             /\ UNCHANGED <<ui, btnq, button, portA, portB, sending, ledq, boots, acted, restarts>>

(* main: while (1) if (etat != IDR) { etat = IDR; leds on or off } polls   *)
(* IDR, and reads it a second time after a change.                         *)
Test == /\ pc = "test"
        /\ pc' = IF etat # gpioA.ind THEN "reread" ELSE "test"
        /\ UNCHANGED <<ui, btnq, button, portA, portB, sending, ledq, boots, etat, acted, restarts>>

RereadForgets ==  \* mutant: etat is not refreshed
    /\ pc = "reread"
    /\ pc' = "act"
    /\ UNCHANGED <<ui, btnq, button, portA, portB, sending, ledq, boots, etat, acted,
                   restarts>>
Reread == /\ pc = "reread"
          /\ etat' = gpioA.ind
          /\ pc' = "act"
          /\ UNCHANGED <<ui, btnq, button, portA, portB, sending, ledq, boots, acted, restarts>>

LedsForOn(e) == PinsB  \* mutant: the LEDs are switched on in both branches
LedsFor(e) == IF BUTTON_PIN \in e THEN PinsB ELSE {}

Act == /\ pc = "act"
       /\ WriteLeds(LedsFor(etat))
       /\ pc' = "test"
       /\ acted' = TRUE
       /\ UNCHANGED <<ui, btnq, button, portA, ledq, boots, etat, restarts>>

Firmware == /\ sending = <<>>
            /\ \/ SetupLeds \/ SetupButton \/ LedsOff \/ FirstRead
               \/ Test \/ Reread \/ Act

-----------------------------------------------------------------------------
(* traiterrecv, in the thread of LED l: a byte is received, the image is   *)
(* changed, the log is written.  The two calls of Tk need its thread.      *)
TkFree == tksend = <<>> \/ ~ThreadedTcl

Receive(l) == /\ held[l] = <<>> /\ l \notin logging
              /\ ledq[l] # <<>>
              /\ ledq' = [ledq EXCEPT ![l] = Tail(@)]
              /\ held' = [held EXCEPT ![l] = <<Head(ledq[l])>>]
              /\ UNCHANGED <<up, tk, logging, image, btnq, button, portA, portB,
                             sending, cpu, restarts>>

Show(l) == /\ held[l] # <<>> /\ TkFree
           /\ image' = [image EXCEPT ![l] = Head(held[l])]
           /\ held' = [held EXCEPT ![l] = <<>>]
           /\ logging' = logging \cup {l}
           /\ UNCHANGED <<up, tk, btnq, button, portA, portB, sending, ledq, cpu,
                          restarts>>

Log(l) == /\ l \in logging /\ TkFree
          /\ logging' = logging \ {l}
          /\ UNCHANGED <<up, tk, held, image, btnq, button, portA, portB, sending,
                         ledq, cpu, restarts>>

-----------------------------------------------------------------------------
(* The UI is quit: what its sockets hold is lost, except that QEMU may     *)
(* still read the bytes the button sent.                                   *)
UiQuits == /\ up /\ restarts < MaxRestarts
           /\ up' = FALSE
           /\ btnq' \in {btnq, <<>>}
           /\ pressed' = FALSE
           /\ tksend' = <<>>
           /\ ledq' = [l \in Leds |-> <<>>]
           /\ held' = [l \in Leds |-> <<>>]
           /\ logging' = {}
           /\ image' = [l \in Leds |-> FALSE]
           /\ UNCHANGED <<clicks, button, portA, portB, sending, cpu, restarts>>

(* The state of the machine is saved and loaded into a new QEMU, which is  *)
(* connected to a new UI: the button is up, the images are off and the     *)
(* sockets are empty.                                                      *)
Restart == /\ ~up /\ sending = <<>>
           /\ up' = TRUE
           /\ clicks' = 0
           /\ btnq' = <<>>
           /\ A!Restore
           /\ B!Restore
           /\ restarts' = restarts + 1
           /\ UNCHANGED <<pressed, tksend, threads, button, sending, ledq, cpu>>

Next == \/ Click
        \/ SendClick
        \/ ButtonReceive
        \/ Firmware
        \/ SendLed
        \/ SendAgain
        \/ \E l \in Leds : Receive(l) \/ Show(l) \/ Log(l)
        \/ UiQuits
        \/ Restart

(* The CPU thread, the main loop and the UI threads keep running; the user *)
(* owes nothing.                                                           *)
Fairness == /\ WF_vars(SendClick)
            /\ WF_vars(ButtonReceive)
            /\ WF_vars(Firmware)
            /\ WF_vars(SendLed)
            /\ \A l \in Leds : WF_vars(Receive(l) \/ Show(l) \/ Log(l))

Spec == Init /\ [][Next]_vars /\ Fairness

-----------------------------------------------------------------------------
(* Types of the sockets, the devices, the ports, the images and the        *)
(* firmware; a socket never holds more than fits.                          *)
TypeOK == /\ up \in BOOLEAN
          /\ pressed \in BOOLEAN
          /\ clicks \in 0..MaxClicks
          /\ tksend \in Seq(BOOLEAN) /\ Len(tksend) <= 1
          /\ btnq \in Seq(BOOLEAN) /\ Len(btnq) <= CapB
          /\ button \in BOOLEAN
          /\ A!TypeOK
          /\ B!TypeOK
          /\ sending \in Seq(Leds \X BOOLEAN) /\ Len(sending) <= 2
          /\ ledq \in [Leds -> Seq(BOOLEAN)] /\ \A l \in Leds : Len(ledq[l]) <= CapL
          /\ held \in [Leds -> Seq(BOOLEAN)] /\ \A l \in Leds : Len(held[l]) <= 1
          /\ logging \subseteq Leds
          /\ image \in [Leds -> BOOLEAN]
          /\ pc \in {"setup_leds", "setup_button", "leds_off", "first_read",
                     "test", "reread", "act"}
          /\ boots \in 0..2
          /\ etat \subseteq PinsA
          /\ acted \in BOOLEAN
          /\ restarts \in 0..MaxRestarts

(* The last of the elements of a queue, or the one consumed last if it is empty. *)
Newest(last, queue) == IF queue = <<>> THEN last ELSE queue[Len(queue)]

(* The level in the last of the messages for LED l, or an older one. *)
NewestFor(l, older, messages) ==
    LET own == {n \in DOMAIN messages : messages[n][1] = l}
    IN  IF own = {} THEN older
        ELSE messages[CHOOSE n \in own : \A m \in own : m <= n][2]

(* The level of LED l that was sent last: still in send_all, in the socket *)
(* or in the thread, or displayed.                                         *)
LastLevel(l) ==
    NewestFor(l, Newest(image[l], held[l] \o ledq[l]), sending)

(* A loaded state has shown nothing yet on these LEDs. *)
Undriven(l) == LedPin(l) \in histB.hidden

(* Once the bytes on their way are displayed, the image of an LED is the   *)
(* ODR bit of its pin: no change the firmware makes is lost, duplicated or *)
(* reordered between stm32_gpio_update, stm32_led_recvirq, send_all and    *)
(* the UI.  The one exception is an LED that was on when the board was     *)
(* saved and that the firmware has not changed since it was loaded.        *)
ImageFollowsOdr ==
    up => \A l \in Leds : ~Undriven(l) => (LastLevel(l) <=> LedPin(l) \in gpioB.outd)

(* Every byte is consumed and the firmware sees no change. *)
Idle == /\ up /\ pc = "test" /\ etat = gpioA.ind
        /\ tksend = <<>> /\ btnq = <<>> /\ sending = <<>>
        /\ \A l \in Leds : held[l] = <<>> /\ ledq[l] = <<>>

(* The board was saved with the button down and the user has not touched   *)
(* it since the board was loaded.                                          *)
StuckDown == restarts > 0 /\ BUTTON_PIN \in histA.missed

(* When every byte is consumed and the firmware sees no change, the LEDs   *)
(* show the button, if the firmware has handled a change at all.  Before   *)
(* that they are off, even if the button is held: a press delivered before *)
(* SetupButton is dropped by stm32_gpio_in_recv, one delivered before      *)
(* FirstRead is taken for the initial state.  After a load they may differ *)
(* only until the button is used, or until the firmware changes an LED     *)
(* that was on.                                                            *)
IdleLedsShowButton ==
    Idle /\ ~StuckDown
       => \A l \in Leds : Undriven(l) \/ (image[l] <=> (pressed /\ acted))

(* send_all waits for the thread of an LED, the thread for Tk, Tk's send   *)
(* for the main loop, and the main loop for the lock that send_all holds.  *)
CircularWait ==
    /\ sending # <<>> /\ up /\ ~TkFree
    /\ Len(btnq) = CapB
    /\ Len(ledq[Head(sending)[1]]) = CapL
    /\ held[Head(sending)[1]] # <<>> \/ Head(sending)[1] \in logging

(* The circular wait needs a user who is ahead of the UI by more than both *)
(* sockets hold: a byte in each of send_all, the LED thread and Tk's send, *)
(* and the sockets full.  A loaded state may bring two of the changes: the *)
(* one the firmware handles and the one IDR holds.                         *)
WaitNeedsBurst ==
    CircularWait
      => clicks + (IF restarts = 0 THEN 0 ELSE 2) >= CapB + CapL + 3

(* The circular wait is the only way send_all blocks the emulator forever. *)
SendEnds == [](sending # <<>> => <>(sending = <<>> \/ CircularWait))

(* When the user leaves the button alone, the images settle on its state,  *)
(* unless the firmware never saw it change, or everyone waits.             *)
LedsSettle ==
    <>[](\/ CircularWait \/ ~up \/ StuckDown
         \/ \A l \in Leds : Undriven(l) \/ (acted => (image[l] <=> pressed)))

(* A press the firmware is ready for lights both LEDs, or the user         *)
(* releases the button before it does, or the UI is stuck or quit.         *)
PressLights ==
    (up /\ pressed /\ pc = "test" /\ etat = {} /\ BUTTON_PIN \notin histA.missed)
       ~> (~pressed \/ CircularWait \/ \A l \in Leds : image[l])
=============================================================================

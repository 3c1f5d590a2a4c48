----------------------------- MODULE MCStm32Gpio -----------------------------
(***************************************************************************)
(* TLC instance of Stm32Gpio: pin 7, the last one stm32_gpio_update        *)
(* visits, and pin 8, the first one it does not.                           *)
(***************************************************************************)
EXTENDS Stm32Gpio

MCPins == {7, 8}
MCResetMode == [i \in MCPins |-> 0]
MCResetPupd == [i \in MCPins |-> 0]
=============================================================================

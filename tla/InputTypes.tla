----------------------------- MODULE InputTypes -----------------------------
(***************************************************************************)
(* The audio inputs that the front panel steps through (drivers/inc.h):    *)
(* the code's words 0x2105 .. 0x2605 stand here as the numbers 1 .. 6.     *)
(***************************************************************************)
EXTENDS Integers

INIT_INPUT == 1
MIC_INPUT == 6

InputType == INIT_INPUT..MIC_INPUT

\* What a press of key 1 does to g_i_key_led_handle_count.  The microphone is
\* not on the round, and a round that starts at it begins with its second input.
NextInput(n) ==
  LET from == IF n = MIC_INPUT THEN INIT_INPUT ELSE n
  IN IF from + 1 = MIC_INPUT THEN INIT_INPUT ELSE from + 1
=============================================================================

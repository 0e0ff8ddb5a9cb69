----------------------------- MODULE InputSwitch -----------------------------
(***************************************************************************)
(* What the DSP promises about its inputs, without converters, interrupts  *)
(* or mutes: a change of input is heard only after the old input has had   *)
(* FADE blocks to fade out, counted from the LAST change of mind.          *)
(***************************************************************************)
EXTENDS Naturals

CONSTANTS
  Sources,    \* what may be played
  Silence,    \* the source that plays nothing
  FADE        \* blocks that a fade takes

VARIABLES
  wanted,     \* the source chosen last
  playing,    \* the source that is connected
  fading,     \* the old source is being faded out
  blocks      \* blocks played since the last change of mind, up to FADE

svars == <<wanted, playing, fading, blocks>>

Init ==
  /\ wanted = Silence
  /\ playing \in Sources
  /\ fading = FALSE
  /\ blocks = 0

Choose(s) ==
  /\ s # wanted
  /\ wanted' = s
  /\ fading' = TRUE
  /\ blocks' = 0
  /\ UNCHANGED playing

PlayBlock ==
  /\ blocks < FADE
  /\ blocks' = blocks + 1
  /\ UNCHANGED <<wanted, playing, fading>>

Switch ==
  /\ fading
  /\ blocks = FADE
  /\ playing' = wanted
  /\ fading' = FALSE
  /\ UNCHANGED <<wanted, blocks>>

\* Nothing has been chosen yet: what the device was built with is let go.
Forget ==
  /\ ~fading
  /\ wanted = Silence
  /\ playing' = Silence
  /\ UNCHANGED <<wanted, fading, blocks>>

Next ==
  \/ \E s \in Sources : Choose(s)
  \/ PlayBlock
  \/ Switch
  \/ Forget

Spec == Init /\ [][Next]_svars
===============================================================================

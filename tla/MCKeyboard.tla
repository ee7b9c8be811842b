----------------------------- MODULE MCKeyboard -----------------------------
(* Three keys held together, four bytes under way (an extended key pressed     *)
(* under a shift sends four) and a buffer of one character.                   *)
EXTENDS Keyboard
=============================================================================

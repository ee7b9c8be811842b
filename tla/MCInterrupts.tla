---------------------------- MODULE MCInterrupts ----------------------------
(* A buffer of two characters, two bytes on the wire and a counter that wraps *)
(* after three ticks.                                                         *)
EXTENDS Interrupts
=============================================================================

----------------------------- MODULE MCKbdRing ------------------------------
(* Four slots and two characters: the buffer fills, wraps and drops.          *)
EXTENDS KbdRing
CONSTANTS a, b
MCChar == {a, b}

=============================================================================

------------------------------ MODULE MCStubs ------------------------------
(* Half words: zero, the selector, two others; the null selector and one other *)
(* as the codes of the program's own protection faults.                       *)
EXTENDS Stubs

MCHalf == {0, 2, 16}
MCSelectors == {0, 64}
=============================================================================

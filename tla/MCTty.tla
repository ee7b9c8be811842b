------------------------------- MODULE MCTty --------------------------------
(* Lines of two characters, a screen of two short rows, and the four kinds of *)
(* key: a letter, n-tilde (negative in CP437), Enter and Backspace.           *)
EXTENDS Tty
MCKeys   == {120, -92, 10, 8}
MCOutputs == {<<36, -92, 36, 36>>}
MCBeyond == {<<>>, <<36>>}
=============================================================================

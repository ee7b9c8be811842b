------------------------------ MODULE MCVga13 ------------------------------
(* A screen of three columns and two rows with ints of four bits: positions    *)
(* on, left of and right of the screen, and sums that overflow both ways.  The *)
(* colour is one that both palettes have an index for in COLOURS.             *)
EXTENDS Vga13

MCCoords == {-8, -1, 0, 1, 7}
MCColours == {19, 39}
MCWords == {<<255, 0, 128, 255>>}
MCEntries == {[index |-> 255, rgb |-> <<63, 31, 0>>]}
\* Two entries that run over the end of the DAC.
MCRanges == {[start |-> 255, rgb |-> [k \in {0, 1} |-> <<k, 1, 2>>]]}
=============================================================================

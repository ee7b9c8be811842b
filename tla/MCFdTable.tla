------------------------------ MODULE MCFdTable ------------------------------
(* Values of FdTable's constants for TLC. *)
EXTENDS FdTable, TLC
CONSTANTS a, b, x
MCNames == {a, b}
MCData == {x}
MCCounts == {1, 2}
MCOffsets == {-1, 1}
MCFlags == {{}, {"TRUNC"}, {"APPEND"}, {"CREAT"}, {"CREAT", "EXCL"}, {"CREAT", "TRUNC"},
            {"CREAT", "APPEND"}}
\* What no call reads.
View == <<vol, g_fd, g_mounted, held>>
Symmetry == Permutations(MCNames)
=============================================================================

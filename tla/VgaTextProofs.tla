--------------------------- MODULE VgaTextProofs ----------------------------
(* The console for every size of the screen: where each operation leaves the   *)
(* cursor and which cell it writes; and the induction that the loops of the    *)
(* terminal and the console need (recursive functions over a sequence).        *)
EXTENDS VgaText, SequenceTheorems, FiniteSetTheorems, TLAPS

-----------------------------------------------------------------------------
(* Induction.                                                                 *)

(* Every set of naturals that is not empty has a least element: sets 1 .. n    *)
(* are finite, and finite sets are well-founded under inclusion.              *)
LEMMA LeastNatural ==
  ASSUME NEW T, T \subseteq Nat, T # {}
  PROVE  \E n \in T : \A m \in T : n <= m
<1> DEFINE Below == {1 .. n : n \in T}
<1>1. Below \subseteq FiniteSubsetsOf(Nat) /\ Below # {}
  <2>1. ASSUME NEW n \in T PROVE 1 .. n \in FiniteSubsetsOf(Nat)
    <3>1. n \in Int /\ 1 \in Int
      OBVIOUS
    <3>2. IsFiniteSet(1 .. n)
      BY <3>1, FS_Interval
    <3>3. 1 .. n \subseteq Nat
      BY SMT
    <3>4. QED BY <3>2, <3>3 DEF FiniteSubsetsOf
  <2>2. QED BY <2>1
<1>2. PICK S \in Below : \A U \in Below : <<U, S>> \notin StrictSubsetOrdering(Nat)
  <2> HIDE DEF Below
  <2>1. QED BY <1>1, FS_StrictSubsetOrderingWellFounded, WFMin
<1>3. PICK n \in T : S = 1 .. n
  BY <1>2
<1>4. ASSUME NEW m \in T PROVE n <= m
  <2>1. SUFFICES ASSUME m < n PROVE FALSE
    BY SMT
  <2>2. 1 .. m \subseteq 1 .. n /\ 1 .. m # 1 .. n /\ 1 .. m \subseteq Nat /\ 1 .. n \subseteq Nat
    <3>1. n \in 1 .. n /\ n \notin 1 .. m
      BY <2>1, SMT
    <3>2. 1 .. m \subseteq 1 .. n /\ 1 .. m \subseteq Nat /\ 1 .. n \subseteq Nat
      BY <2>1, SMT
    <3>3. QED BY <3>1, <3>2
  <2>3. <<1 .. m, 1 .. n>> \in StrictSubsetOrdering(Nat)
    BY <2>2 DEF StrictSubsetOrdering
  <2>4. QED BY <1>2, <1>3, <2>3
<1>5. QED BY <1>4

(* A set that holds 0 and with each natural up to n the next holds all of them.*)
LEMMA InductionUpTo ==
  ASSUME NEW n \in Nat, NEW T, 0 \in T, \A i \in 0 .. n - 1 : i \in T => i + 1 \in T
  PROVE  0 .. n \subseteq T
<1> SUFFICES ASSUME ~(0 .. n \subseteq T) PROVE FALSE
  OBVIOUS
<1> DEFINE Bad == (0 .. n) \ T
<1>1. Bad \subseteq Nat /\ Bad # {}
  BY SMT
<1>2. PICK m \in Bad : \A k \in Bad : m <= k
  <2> HIDE DEF Bad
  <2>1. QED BY <1>1, LeastNatural
<1>3. m \in 0 .. n /\ m # 0 /\ m - 1 \in 0 .. n - 1
  BY SMT
<1>4. m - 1 \in T
  <2>1. ~(m <= m - 1) /\ m - 1 \in 0 .. n
    BY <1>3, SMT
  <2>2. QED BY <1>2, <2>1
<1>5. (m - 1) + 1 = m
  BY <1>3, SMT
<1>6. QED BY <1>2, <1>3, <1>4, <1>5

(* f is what a loop over 1 .. n makes of b, step by step.                      *)
Iterates(f, n, b, step) ==
  f = [i \in 0 .. n |-> IF i = 0 THEN b ELSE step[<<f[i - 1], i>>]]

LEMMA IterationStep ==
  ASSUME NEW D, NEW n \in Nat, NEW b \in D, NEW step \in [D \X (1 .. n + 1) -> D],
         NEW f \in [0 .. n -> D], Iterates(f, n, b, step)
  PROVE  \E g \in [0 .. n + 1 -> D] : Iterates(g, n + 1, b, step)
<1> DEFINE g == [i \in 0 .. n + 1 |-> IF i <= n THEN f[i] ELSE step[<<f[n], n + 1>>]]
<1>1. g \in [0 .. n + 1 -> D]
  <2>1. ASSUME NEW i \in 0 .. n + 1 PROVE g[i] \in D
    <3>1. i <= n => i \in 0 .. n
      BY SMT
    <3>2. n \in 0 .. n /\ n + 1 \in 1 .. n + 1
      BY SMT
    <3>3. QED BY <3>1, <3>2
  <2>2. QED BY <2>1
<1>2. ASSUME NEW i \in 0 .. n + 1
      PROVE  g[i] = IF i = 0 THEN b ELSE step[<<g[i - 1], i>>]
  <2>1. CASE i = 0
    <3>1. 0 <= n /\ 0 \in 0 .. n
      BY SMT
    <3>2. QED BY <2>1, <3>1 DEF Iterates
  <2>2. CASE i # 0 /\ i <= n
    <3>1. i \in 0 .. n /\ i - 1 \in 0 .. n /\ i - 1 <= n
      BY <2>2, SMT
    <3>2. f[i] = step[<<f[i - 1], i>>]
      BY <2>2, <3>1 DEF Iterates
    <3>3. g[i] = f[i] /\ g[i - 1] = f[i - 1]
      BY <2>2, <3>1
    <3> HIDE DEF g
    <3>4. QED BY <2>2, <3>2, <3>3
  <2>3. CASE i = n + 1
    <3>1. i - 1 = n /\ n <= n /\ ~(n + 1 <= n) /\ n \in 0 .. n + 1 /\ i # 0
      BY <2>3, SMT
    <3>2. g[i] = step[<<f[n], n + 1>>] /\ g[n] = f[n]
      BY <2>3, <3>1
    <3> HIDE DEF g
    <3>3. QED BY <2>3, <3>1, <3>2
  <2>4. i = 0 \/ (i # 0 /\ i <= n) \/ i = n + 1
    BY SMT
  <2>5. QED BY <2>1, <2>2, <2>3, <2>4
<1>3. Iterates(g, n + 1, b, step)
  BY <1>2 DEF Iterates
<1> HIDE DEF g
<1>4. QED BY <1>1, <1>3

LEMMA IterationExists ==
  ASSUME NEW D, NEW n \in Nat, NEW b \in D, NEW step \in [D \X (1 .. n) -> D]
  PROVE  \E f \in [0 .. n -> D] : Iterates(f, n, b, step)
<1> DEFINE T == {i \in 0 .. n : \E f \in [0 .. i -> D] : Iterates(f, i, b, step)}
<1>1. 0 \in T
  <2> DEFINE f == [i \in 0 .. 0 |-> b]
  <2>1. \A i \in 0 .. 0 : i = 0
    BY SMT
  <2>2. f \in [0 .. 0 -> D] /\ Iterates(f, 0, b, step)
    BY <2>1 DEF Iterates
  <2> HIDE DEF f
  <2>3. 0 \in 0 .. n
    BY SMT
  <2>4. QED BY <2>2, <2>3
<1>2. ASSUME NEW i \in 0 .. n - 1, i \in T PROVE i + 1 \in T
  <2>1. PICK f \in [0 .. i -> D] : Iterates(f, i, b, step)
    BY <1>2
  <2> DEFINE first == [p \in D \X (1 .. i + 1) |-> step[p]]
  <2>2. 1 .. i + 1 \subseteq 1 .. n /\ i \in Nat /\ i + 1 \in 0 .. n
    BY SMT
  <2>3. first \in [D \X (1 .. i + 1) -> D]
    BY <2>2
  <2>4. \A d \in D, k \in 1 .. i + 1 : first[<<d, k>>] = step[<<d, k>>]
    OBVIOUS
  <2>5. Iterates(f, i, b, first)
    <3>1. \A k \in 0 .. i : k # 0 => k \in 1 .. i + 1 /\ k - 1 \in 0 .. i
      BY <2>2, SMT
    <3> HIDE DEF first
    <3>2. \A k \in 0 .. i : k # 0 => first[<<f[k - 1], k>>] = step[<<f[k - 1], k>>]
      BY <2>4, <3>1
    <3>3. [k \in 0 .. i |-> IF k = 0 THEN b ELSE step[<<f[k - 1], k>>]]
            = [k \in 0 .. i |-> IF k = 0 THEN b ELSE first[<<f[k - 1], k>>]]
      BY <3>2
    <3>4. QED BY <2>1, <3>3 DEF Iterates
  <2> HIDE DEF first
  <2>6. PICK g \in [0 .. i + 1 -> D] : Iterates(g, i + 1, b, first)
    BY <2>2, <2>3, <2>5, IterationStep
  <2>7. Iterates(g, i + 1, b, step)
    <3>1. \A k \in 0 .. i + 1 : k # 0 => k \in 1 .. i + 1 /\ k - 1 \in 0 .. i + 1
      BY <2>2, SMT
    <3>2. \A k \in 0 .. i + 1 : k # 0 => first[<<g[k - 1], k>>] = step[<<g[k - 1], k>>]
      BY <2>4, <3>1
    <3>3. [k \in 0 .. i + 1 |-> IF k = 0 THEN b ELSE step[<<g[k - 1], k>>]]
            = [k \in 0 .. i + 1 |-> IF k = 0 THEN b ELSE first[<<g[k - 1], k>>]]
      BY <3>2
    <3>4. QED BY <2>6, <3>3 DEF Iterates
  <2>8. QED BY <2>2, <2>7
<1>3. n \in T
  <2> HIDE DEF T
  <2>1. 0 .. n \subseteq T
    BY <1>1, <1>2, InductionUpTo
  <2>2. QED BY <2>1, SMT
<1>4. QED BY <1>3

(* Two loops that begin alike and step alike end alike.                       *)
InStep(f, g, n) == f[0] = g[0] /\ \A i \in 1 .. n : f[i - 1] = g[i - 1] => f[i] = g[i]

LEMMA IterationsAgree ==
  ASSUME NEW n \in Nat, NEW f, NEW g, InStep(f, g, n)
  PROVE  f[n] = g[n]
<1> DEFINE T == {i \in 0 .. n : f[i] = g[i]}
<1>1. 0 \in T
  BY SMT DEF InStep
<1>2. ASSUME NEW i \in 0 .. n - 1, i \in T PROVE i + 1 \in T
  <2>1. i + 1 \in 1 .. n /\ (i + 1) - 1 = i /\ i + 1 \in 0 .. n
    BY SMT
  <2>2. f[(i + 1) - 1] = g[(i + 1) - 1] => f[i + 1] = g[i + 1]
    BY <2>1 DEF InStep
  <2>3. f[i] = g[i]
    BY <1>2
  <2>4. QED BY <2>1, <2>2, <2>3
<1>3. n \in T
  <2> HIDE DEF T
  <2>1. 0 .. n \subseteq T
    BY <1>1, <1>2, InductionUpTo
  <2>2. QED BY <2>1, SMT
<1>4. QED BY <1>3

-----------------------------------------------------------------------------
(* The screen.                                                                *)

USE ScreenAssumption

Chars == -128 .. 127
Entries == [ch : 0 .. 255, attr : {7, 255}]
Consoles == [mem : [Cells -> Entries], row : 0 .. VGA_H - 1, col : 0 .. VGA_W - 1, cursor : Cells]

\* The cell the driver writes next, and the hardware cursor standing on it.
At(con) == con.row * VGA_W + con.col
Synced(con) == con.cursor = At(con)

LEMMA EntryType == \A ch \in Chars : vga_entry(ch) \in Entries
<1> SUFFICES ASSUME NEW ch \in Chars PROVE vga_entry(ch) \in Entries
  OBVIOUS
<1>1. CASE ch < 0
  <2>1. ch + 256 \in 0 .. 255
    BY <1>1, SMT DEF Chars
  <2>2. QED BY <1>1, <2>1 DEF vga_entry, Entries
<1>2. CASE ~(ch < 0)
  <2>1. ch \in 0 .. 255
    BY <1>2, SMT DEF Chars
  <2>2. QED BY <1>2, <2>1 DEF vga_entry, Entries
<1>3. QED BY <1>1, <1>2

LEMMA CellOf ==
  ASSUME NEW row \in 0 .. VGA_H - 1, NEW col \in 0 .. VGA_W - 1
  PROVE  row * VGA_W + col \in Cells
<1>1. VGA_W \in Int /\ VGA_H \in Int /\ row \in Int /\ col \in Int /\ 0 <= row /\ row + 1 <= VGA_H
      /\ 0 <= col /\ col < VGA_W /\ 0 <= VGA_W
  BY SMT
<1>2. (VGA_H - (row + 1)) * VGA_W >= 0 /\ row * VGA_W >= 0
  BY <1>1, SMT
<1>3. (VGA_H - (row + 1)) * VGA_W = VGA_W * VGA_H - (row * VGA_W + VGA_W)
  BY <1>1, SMT
<1>4. row * VGA_W \in Int /\ VGA_W * VGA_H \in Int
  BY <1>1, SMT
<1>5. QED BY <1>1, <1>2, <1>3, <1>4, SMT DEF Cells

LEMMA AtIsACell == \A con \in Consoles : At(con) \in Cells
BY CellOf DEF At, Consoles

\* con with its cursor moved to a row and a column.
Moved(con, row, col) ==
  [con EXCEPT !.row = row, !.col = col, !.cursor = row * VGA_W + col]

LEMMA MovedType ==
  ASSUME NEW con \in Consoles, NEW row \in 0 .. VGA_H - 1, NEW col \in 0 .. VGA_W - 1
  PROVE  Moved(con, row, col) \in Consoles /\ Synced(Moved(con, row, col))
BY CellOf DEF Moved, Synced, At, Consoles

LEMMA UpdateMoves ==
  ASSUME NEW con \in Consoles, NEW row, NEW col, NEW c,
         c = [con EXCEPT !.row = row, !.col = col]
  PROVE  vga_update_cursor(c) = Moved(con, row, col)
<1>1. c.row = row /\ c.col = col /\ c.mem = con.mem
  BY DEF Consoles
<1> DEFINE place == row * VGA_W + col
<1>2. vga_update_cursor(c) = [c EXCEPT !.cursor = place]
  BY <1>1 DEF vga_update_cursor
<1>3. Moved(con, row, col) = [con EXCEPT !.row = row, !.col = col, !.cursor = place]
  BY DEF Moved
<1> HIDE DEF place
<1>4. [c EXCEPT !.cursor = place] = [con EXCEPT !.row = row, !.col = col, !.cursor = place]
  BY DEF Consoles
<1>5. QED BY <1>2, <1>3, <1>4

\* The row below, or the first one.
Below(row) == IF row + 1 >= VGA_H THEN 0 ELSE row + 1

LEMMA BelowType == \A row \in 0 .. VGA_H - 1 : Below(row) \in 0 .. VGA_H - 1
BY SMT DEF Below

LEMMA Columns == 0 \in 0 .. VGA_W - 1 /\ 0 \in 0 .. VGA_H - 1
BY SMT

(* A character goes into the cell of the cursor, which moves on by one and      *)
(* from the last column to the next row (video_text.c:75-81).                 *)
Written(con, ch) == [con EXCEPT !.mem = [con.mem EXCEPT ![At(con)] = vga_entry(ch)]]

LEMMA PutCharacter ==
  ASSUME NEW con \in Consoles, NEW ch \in Chars, ch \notin {CR, NL, BS}
  PROVE  /\ Written(con, ch) \in Consoles
         /\ con.col + 1 < VGA_W =>
              /\ con.col + 1 \in 0 .. VGA_W - 1
              /\ vga_putc(con, ch) = Moved(Written(con, ch), con.row, con.col + 1)
         /\ ~(con.col + 1 < VGA_W) =>
              vga_putc(con, ch) = Moved(Written(con, ch), Below(con.row), 0)
<1> DEFINE w == Written(con, ch)
<1>1. vga_putc(con, ch) = vga_update_cursor(Show(con, ch))
  BY DEF vga_putc
<1>2. [con EXCEPT !.mem[con.row * VGA_W + con.col] = vga_entry(ch)] = w
  BY DEF Written, At, Consoles
<1>3. w \in Consoles
  <2>1. At(con) \in Cells /\ vga_entry(ch) \in Entries
    BY AtIsACell, EntryType
  <2>2. QED BY <2>1 DEF Written, Consoles
<1>4. w.row = con.row /\ w.col = con.col
  BY DEF Written, Consoles
<1> HIDE DEF w
<1>5. CASE con.col + 1 < VGA_W
  <2>1. ~(con.col + 1 >= VGA_W) /\ con.col + 1 \in 0 .. VGA_W - 1
    BY <1>5, SMT DEF Consoles
  <2>2. Show(con, ch) = [w EXCEPT !.col = con.col + 1]
    BY <1>2, <1>4, <2>1 DEF Show
  <2>3. [w EXCEPT !.col = con.col + 1] = [w EXCEPT !.row = con.row, !.col = con.col + 1]
    BY <1>3, <1>4 DEF Consoles
  <2>4. vga_putc(con, ch) = Moved(w, con.row, con.col + 1)
    BY <1>1, <1>3, <2>2, <2>3, UpdateMoves, ZenonT(30)
  <2>5. QED BY <1>3, <1>5, <2>1, <2>4 DEF w
<1>6. CASE ~(con.col + 1 < VGA_W)
  <2>1. con.col + 1 >= VGA_W
    BY <1>6, SMT DEF Consoles
  <2>2. Show(con, ch) = NewLine(w)
    BY <1>2, <2>1 DEF Show
  <2>3. NewLine(w) = [w EXCEPT !.row = Below(con.row), !.col = 0]
    BY <1>3, <1>4 DEF NewLine, Below, Consoles
  <2>4. vga_putc(con, ch) = Moved(w, Below(con.row), 0)
    BY <1>1, <1>3, <2>2, <2>3, UpdateMoves
  <2>5. QED BY <1>3, <1>6, <2>4 DEF w
<1>7. QED BY <1>5, <1>6

(* Backspace moves the cursor, not over the left edge (video_text.c:57-64).    *)
LEMMA PutBackspace ==
  ASSUME NEW con \in Consoles
  PROVE  /\ con.col > 0 => /\ con.col - 1 \in 0 .. VGA_W - 1
                           /\ vga_putc(con, BS) = Moved(con, con.row, con.col - 1)
         /\ ~(con.col > 0) => vga_putc(con, BS) = con
<1>1. BS # CR /\ BS # NL
  BY SMT DEF BS, CR, NL
<1>2. vga_putc(con, BS) = vga_backspace(con)
  BY <1>1 DEF vga_putc
<1>3. [con EXCEPT !.col = @ - 1] = [con EXCEPT !.row = con.row, !.col = con.col - 1]
  BY DEF Consoles
<1>4. con.col > 0 => con.col - 1 \in 0 .. VGA_W - 1
  BY SMT DEF Consoles
<1>5. QED BY <1>2, <1>3, <1>4, UpdateMoves DEF vga_backspace

LEMMA PutNewLine ==
  ASSUME NEW con \in Consoles
  PROVE  /\ vga_putc(con, CR) = Moved(con, con.row, 0)
         /\ vga_putc(con, NL) = Moved(con, Below(con.row), 0)
<1>1. CR # NL
  BY SMT DEF CR, NL
<1>2. vga_putc(con, CR) = vga_update_cursor([con EXCEPT !.col = 0])
  BY DEF vga_putc
<1>3. vga_putc(con, NL) = vga_update_cursor(NewLine(con))
  BY <1>1 DEF vga_putc
<1>4. [con EXCEPT !.col = 0] = [con EXCEPT !.row = con.row, !.col = 0]
  BY DEF Consoles
<1>5. NewLine(con) = [con EXCEPT !.row = Below(con.row), !.col = 0]
  BY DEF NewLine, Below, Consoles
<1>6. vga_update_cursor([con EXCEPT !.col = 0]) = Moved(con, con.row, 0)
  BY <1>4, UpdateMoves
<1>7. vga_update_cursor(NewLine(con)) = Moved(con, Below(con.row), 0)
  BY <1>5, UpdateMoves
<1>8. QED BY <1>2, <1>3, <1>6, <1>7

(* Whatever is written, the cursor stays on the screen, and the hardware's is  *)
(* where the driver's is.                                                     *)
LEMMA PutType ==
  ASSUME NEW con \in Consoles, NEW ch \in Chars
  PROVE  vga_putc(con, ch) \in Consoles /\ (Synced(con) => Synced(vga_putc(con, ch)))
<1>1. con.row \in 0 .. VGA_H - 1 /\ con.col \in 0 .. VGA_W - 1
  BY DEF Consoles
<1>2. CASE ch = BS
  <2>1. CASE con.col > 0
    BY <1>1, <1>2, <2>1, PutBackspace, MovedType
  <2>2. CASE ~(con.col > 0)
    BY <1>2, <2>2, PutBackspace
  <2>3. QED BY <2>1, <2>2
<1>3. CASE ch \in {CR, NL}
  BY <1>1, <1>3, PutNewLine, MovedType, BelowType, Columns
<1>4. CASE ch \notin {CR, NL, BS}
  <2> DEFINE w == Written(con, ch)
  <2>1. w \in Consoles
    BY <1>4, PutCharacter
  <2>2. \/ vga_putc(con, ch) = Moved(w, Below(con.row), 0)
        \/ /\ vga_putc(con, ch) = Moved(w, con.row, con.col + 1)
           /\ con.col + 1 \in 0 .. VGA_W - 1
    BY <1>4, PutCharacter
  <2> HIDE DEF w
  <2>3. QED BY <1>1, <2>1, <2>2, MovedType, BelowType, Columns
<1>5. QED BY <1>2, <1>3, <1>4

LEMMA ClearType ==
  ASSUME NEW con \in Consoles
  PROVE  vga_clear(con) \in Consoles /\ Synced(vga_clear(con))
<1>1. Space \in Chars
  BY SMT DEF Space, Chars
<1> DEFINE blank == [con EXCEPT !.mem = [p \in Cells |-> vga_entry(Space)]]
<1>2. blank \in Consoles
  BY <1>1, EntryType DEF Consoles
<1>3. [con EXCEPT !.mem = [p \in Cells |-> vga_entry(Space)], !.row = 0, !.col = 0]
        = [blank EXCEPT !.row = 0, !.col = 0]
  BY DEF Consoles
<1> HIDE DEF blank
<1>4. vga_clear(con) = Moved(blank, 0, 0)
  BY <1>2, <1>3, UpdateMoves DEF vga_clear
<1>5. QED BY <1>2, <1>4, MovedType, Columns

-----------------------------------------------------------------------------
(* vga_write.                                                                 *)

IsWrite(f, con, s) ==
  f = [i \in 0 .. Len(s) |-> IF i = 0 THEN con ELSE vga_putc(f[i - 1], s[i])]

(* vga_write is vga_putc for each character in turn (video_text.c:84-86).      *)
LEMMA WriteIsALoop ==
  ASSUME NEW con \in Consoles, NEW s \in Seq(Chars)
  PROVE  \E f \in [0 .. Len(s) -> Consoles] :
           /\ f[0] = con /\ \A i \in 1 .. Len(s) : f[i] = vga_putc(f[i - 1], s[i])
           /\ vga_write(con, s) = f[Len(s)]
<1> DEFINE n == Len(s)
           step == [p \in Consoles \X (1 .. n) |-> vga_putc(p[1], s[p[2]])]
<1>1. n \in Nat /\ \A i \in 1 .. n : s[i] \in Chars
  OBVIOUS
<1>2. step \in [Consoles \X (1 .. n) -> Consoles]
  BY <1>1, PutType
<1>3. \A c \in Consoles, i \in 1 .. n : step[<<c, i>>] = vga_putc(c, s[i])
  OBVIOUS
<1> HIDE DEF step
<1>4. PICK f \in [0 .. n -> Consoles] : Iterates(f, n, con, step)
  BY <1>1, <1>2, IterationExists
<1>5. \A i \in 0 .. n : i # 0 => i \in 1 .. n /\ i - 1 \in 0 .. n
  BY <1>1, SMT
<1>6. \A i \in 0 .. n : i # 0 => step[<<f[i - 1], i>>] = vga_putc(f[i - 1], s[i])
  BY <1>3, <1>5
<1>7. f = [i \in 0 .. n |-> IF i = 0 THEN con ELSE vga_putc(f[i - 1], s[i])]
  <2>1. [i \in 0 .. n |-> IF i = 0 THEN con ELSE step[<<f[i - 1], i>>]]
          = [i \in 0 .. n |-> IF i = 0 THEN con ELSE vga_putc(f[i - 1], s[i])]
    BY <1>6
  <2>2. QED BY <1>4, <2>1 DEF Iterates
<1>8. PICK g : IsWrite(g, con, s) /\ vga_write(con, s) = g[n]
  <2> DEFINE g == CHOOSE h : IsWrite(h, con, s)
  <2>1. IsWrite(f, con, s)
    BY <1>7 DEF IsWrite
  <2>2. IsWrite(g, con, s)
    BY <2>1
  <2>3. vga_write(con, s) = g[n]
    BY DEF vga_write, IsWrite
  <2> HIDE DEF g
  <2>4. QED BY <2>2, <2>3
<1>10. 0 \in 0 .. n /\ n \in 0 .. n /\ \A i \in 1 .. n : i \in 0 .. n /\ i # 0
  BY <1>1, SMT
<1>11. f[0] = con /\ \A i \in 1 .. n : f[i] = vga_putc(f[i - 1], s[i])
  BY <1>7, <1>10
<1>12. g[0] = con /\ \A i \in 1 .. n : g[i] = vga_putc(g[i - 1], s[i])
  BY <1>8, <1>10 DEF IsWrite
<1>13. InStep(f, g, n)
  BY <1>11, <1>12 DEF InStep
<1>14. vga_write(con, s) = f[n]
  <2> HIDE DEF n
  <2>1. QED BY <1>1, <1>8, <1>13, IterationsAgree
<1>15. QED BY <1>11, <1>14

LEMMA WriteType ==
  ASSUME NEW con \in Consoles, Synced(con), NEW s \in Seq(Chars)
  PROVE  vga_write(con, s) \in Consoles /\ Synced(vga_write(con, s))
<1>1. PICK f \in [0 .. Len(s) -> Consoles] :
           /\ f[0] = con /\ \A i \in 1 .. Len(s) : f[i] = vga_putc(f[i - 1], s[i])
           /\ vga_write(con, s) = f[Len(s)]
  BY WriteIsALoop
<1> DEFINE n == Len(s)
           T == {i \in 0 .. n : Synced(f[i])}
<1>2. n \in Nat /\ \A i \in 1 .. n : s[i] \in Chars
  OBVIOUS
<1>3. 0 \in T
  <2>1. 0 \in 0 .. n
    BY <1>2, SMT
  <2>2. QED BY <1>1, <2>1
<1>4. ASSUME NEW i \in 0 .. n - 1, i \in T PROVE i + 1 \in T
  <2>1. i + 1 \in 1 .. n /\ (i + 1) - 1 = i /\ i + 1 \in 0 .. n /\ i \in 0 .. n
    BY <1>2, SMT
  <2>2. f[i + 1] = vga_putc(f[i], s[i + 1])
    BY <1>1, <2>1
  <2>3. f[i] \in Consoles /\ Synced(f[i]) /\ s[i + 1] \in Chars
    BY <1>2, <1>4, <2>1
  <2>4. QED BY <2>1, <2>2, <2>3, PutType
<1>5. n \in T
  <2> HIDE DEF T
  <2>1. 0 .. n \subseteq T
    BY <1>2, <1>3, <1>4, InductionUpTo
  <2>2. QED BY <1>2, <2>1, SMT
<1>6. n \in 0 .. n
  BY <1>2, SMT
<1>7. QED BY <1>1, <1>5, <1>6

(* What echo_char writes for an erased character (stubs.c:29).                 *)
LEMMA WriteOfThree ==
  ASSUME NEW con \in Consoles, NEW a \in Chars, NEW b \in Chars, NEW c \in Chars
  PROVE  vga_write(con, <<a, b, c>>) = vga_putc(vga_putc(vga_putc(con, a), b), c)
<1> DEFINE s == <<a, b, c>>
<1>1. s \in Seq(Chars) /\ Len(s) = 3 /\ s[1] = a /\ s[2] = b /\ s[3] = c
  OBVIOUS
<1> HIDE DEF s
<1>2. PICK f \in [0 .. 3 -> Consoles] :
        /\ f[0] = con /\ \A i \in 1 .. 3 : f[i] = vga_putc(f[i - 1], s[i])
        /\ vga_write(con, s) = f[3]
  BY <1>1, WriteIsALoop
<1>3. f[1] = vga_putc(f[0], s[1]) /\ f[2] = vga_putc(f[1], s[2]) /\ f[3] = vga_putc(f[2], s[3])
  <2>1. 1 \in 1 .. 3 /\ 2 \in 1 .. 3 /\ 3 \in 1 .. 3 /\ 1 - 1 = 0 /\ 2 - 1 = 1 /\ 3 - 1 = 2
    BY SMT
  <2>2. QED BY <1>2, <2>1
<1>4. QED BY <1>1, <1>2, <1>3 DEF s

-----------------------------------------------------------------------------
(* What the echo of a terminal does to the screen.                            *)

ScreenSize == VGA_W * VGA_H

LEMMA SizeType == ScreenSize \in Nat \ {0} /\ Cells = 0 .. ScreenSize - 1
<1>1. VGA_W \in Nat /\ VGA_H \in Nat /\ VGA_W > 0 /\ VGA_H > 0
  BY SMT
<1>2. VGA_W * VGA_H > 0 /\ VGA_W * VGA_H \in Nat
  BY <1>1, SMT
<1>3. QED BY <1>2, SMT DEF ScreenSize, Cells

\* How far p lies behind s, when the screen is taken for a ring of cells.
Offset(p, s) == IF p >= s THEN p - s ELSE p - s + ScreenSize

LEMMA OffsetIsModulo ==
  ASSUME NEW p \in Cells, NEW s \in Cells
  PROVE  (p - s) % (VGA_W * VGA_H) = Offset(p, s)
<1>1. (p - s) % ScreenSize = Offset(p, s)
  BY SizeType, SMT DEF Offset
<1>2. QED BY <1>1 DEF ScreenSize

\* The cell behind p.
NextCell(p) == IF p + 1 = ScreenSize THEN 0 ELSE p + 1

(* A character is written where the cursor stands, and the cursor moves on.    *)
LEMMA EchoCharacter ==
  ASSUME NEW con \in Consoles, NEW ch \in Chars, ch \notin {CR, NL, BS}
  PROVE  LET a == vga_putc(con, ch)
         IN /\ a.mem = [con.mem EXCEPT ![At(con)] = vga_entry(ch)]
            /\ At(a) = NextCell(At(con))
            /\ con.col + 1 < VGA_W => a.row = con.row /\ a.col = con.col + 1
<1> DEFINE w == Written(con, ch)
<1>1. /\ w \in Consoles
      /\ con.col + 1 < VGA_W =>
           /\ con.col + 1 \in 0 .. VGA_W - 1
           /\ vga_putc(con, ch) = Moved(w, con.row, con.col + 1)
      /\ ~(con.col + 1 < VGA_W) => vga_putc(con, ch) = Moved(w, Below(con.row), 0)
  BY PutCharacter
<1>2. w.mem = [con.mem EXCEPT ![At(con)] = vga_entry(ch)]
  BY DEF Written, Consoles
<1> HIDE DEF w
<1>3. \A row, col : LET a == Moved(w, row, col)
                    IN a.mem = w.mem /\ a.row = row /\ a.col = col
  BY <1>1 DEF Moved, Consoles
<1>4. /\ VGA_W \in Int /\ VGA_H \in Int /\ con.row \in Int /\ con.col \in Int
      /\ con.row \in 0 .. VGA_H - 1 /\ con.col \in 0 .. VGA_W - 1
  BY SMT DEF Consoles
<1>5. CASE con.col + 1 < VGA_W
  <2>1. con.row * VGA_W + (con.col + 1) = At(con) + 1
    BY <1>4, SMT DEF At
  <2>2. con.row * VGA_W + (con.col + 1) \in Cells
    BY <1>1, <1>4, <1>5, CellOf
  <2>3. At(con) + 1 # ScreenSize
    BY <2>1, <2>2, SizeType, SMT
  <2>4. vga_putc(con, ch) = Moved(w, con.row, con.col + 1)
    BY <1>1, <1>5
  <2>5. QED BY <1>2, <1>3, <2>1, <2>3, <2>4 DEF At, NextCell
<1>6. CASE ~(con.col + 1 < VGA_W)
  <2>1. con.col + 1 = VGA_W
    BY <1>4, <1>6, SMT
  <2>2. At(con) + 1 = (con.row + 1) * VGA_W
    BY <1>4, <2>1, SMT DEF At
  <2>3. vga_putc(con, ch) = Moved(w, Below(con.row), 0)
    BY <1>1, <1>6
  <2>4. Below(con.row) * VGA_W + 0 = NextCell(At(con))
    <3>1. CASE con.row + 1 >= VGA_H
      <4>1. con.row + 1 = VGA_H /\ Below(con.row) = 0
        BY <1>4, <3>1, SMT DEF Below
      <4>2. At(con) + 1 = ScreenSize
        BY <1>4, <2>2, <4>1, SMT DEF ScreenSize
      <4>3. 0 * VGA_W + 0 = 0
        BY <1>4, SMT
      <4>4. QED BY <4>1, <4>2, <4>3 DEF NextCell
    <3>2. CASE ~(con.row + 1 >= VGA_H)
      <4>1. con.row + 1 \in 0 .. VGA_H - 1 /\ Below(con.row) = con.row + 1
        BY <1>4, <3>2, SMT DEF Below
      <4>2. (con.row + 1) * VGA_W + 0 \in Cells
        BY <4>1, Columns, CellOf
      <4>3. (con.row + 1) * VGA_W + 0 = At(con) + 1
        BY <1>4, <2>2, SMT
      <4>4. At(con) + 1 # ScreenSize
        BY <4>2, <4>3, SizeType, SMT
      <4>5. QED BY <4>1, <4>3, <4>4 DEF NextCell
    <3>3. QED BY <3>1, <3>2
  <2>5. QED BY <1>2, <1>3, <1>6, <2>3, <2>4 DEF At
<1>7. QED BY <1>5, <1>6

(* Backspace, blank, backspace: the character before the cursor is blanked; at  *)
(* the left edge, where the cursor cannot go back, the one under it.           *)
LEMMA EchoErased ==
  ASSUME NEW con \in Consoles
  PROVE  LET a == vga_write(con, <<BS, Space, BS>>)
         IN /\ con.col > 0 =>
                 /\ a.mem = [con.mem EXCEPT ![At(con) - 1] = vga_entry(Space)]
                 /\ At(a) = At(con) - 1 /\ a.row = con.row /\ a.col = con.col - 1
            /\ ~(con.col > 0) =>
                 /\ a.mem = [con.mem EXCEPT ![At(con)] = vga_entry(Space)]
                 /\ At(a) = At(con) /\ a.row = con.row /\ a.col = con.col
<1> DEFINE b == vga_putc(con, BS)
           c == vga_putc(b, Space)
           a == vga_putc(c, BS)
<1>1. BS \in Chars /\ Space \in Chars /\ Space \notin {CR, NL, BS}
  BY SMT DEF Chars, BS, Space, CR, NL
<1>2. vga_write(con, <<BS, Space, BS>>) = a
  BY <1>1, WriteOfThree
<1>3. b \in Consoles /\ c \in Consoles
  BY <1>1, PutType
<1>4. /\ VGA_W \in Int /\ con.row \in Int /\ con.col \in Int /\ VGA_W > 1
      /\ con.row \in 0 .. VGA_H - 1 /\ con.col \in 0 .. VGA_W - 1
  BY SMT DEF Consoles
<1>5. /\ b.mem = con.mem /\ b.row = con.row
      /\ b.col = IF con.col > 0 THEN con.col - 1 ELSE con.col
  <2>1. \A row, col : LET m == Moved(con, row, col)
                      IN m.mem = con.mem /\ m.row = row /\ m.col = col
    BY DEF Moved, Consoles
  <2>2. QED BY <2>1, PutBackspace
<1>6. b.col + 1 < VGA_W
  BY <1>4, <1>5, SMT
<1> HIDE DEF b
<1>7. /\ c.mem = [con.mem EXCEPT ![At(b)] = vga_entry(Space)]
      /\ c.row = con.row /\ c.col = b.col + 1
  BY <1>1, <1>3, <1>5, <1>6, EchoCharacter
<1>8. b.col \in Int /\ b.col >= 0
  BY <1>4, <1>5, SMT
<1> HIDE DEF c
<1>9. a.mem = c.mem /\ a.row = con.row /\ a.col = b.col
  <2>1. \A row, col : LET m == Moved(c, row, col)
                      IN m.mem = c.mem /\ m.row = row /\ m.col = col
    BY <1>3 DEF Moved, Consoles
  <2>2. c.col > 0 /\ c.col - 1 = b.col
    BY <1>7, <1>8, SMT
  <2>3. a = Moved(c, c.row, c.col - 1)
    BY <1>3, <2>2, PutBackspace
  <2>4. QED BY <1>7, <2>1, <2>2, <2>3
<1> HIDE DEF a
<1>10. CASE con.col > 0
  <2>1. con.row * VGA_W + (con.col - 1) = (con.row * VGA_W + con.col) - 1
    BY <1>4, SMT
  <2>2. At(b) = At(con) - 1 /\ At(a) = At(con) - 1
    BY <1>5, <1>9, <1>10, <2>1 DEF At
  <2>3. QED BY <1>2, <1>5, <1>7, <1>9, <1>10, <2>2
<1>11. CASE ~(con.col > 0)
  <2>1. At(b) = At(con) /\ At(a) = At(con)
    BY <1>5, <1>9, <1>11 DEF At
  <2>2. QED BY <1>2, <1>5, <1>7, <1>9, <1>11, <2>1
<1>12. QED BY <1>10, <1>11
=============================================================================

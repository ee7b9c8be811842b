------------------------------ MODULE VgaText -------------------------------
(* The text console (kernel/src/drivers/video_text.c): a cursor over a screen *)
(* of VGA_W by VGA_H cells that wraps, rows included, and never scrolls.  A   *)
(* console is a record: the cells, the driver's row and column, and where the *)
(* hardware cursor was last put.                                              *)
EXTENDS Integers, Sequences

CONSTANTS VGA_W, VGA_H

\* On a single column an erasing backspace would move on: it could not go back.
ASSUME ScreenAssumption == VGA_W \in Nat \ {0, 1} /\ VGA_H \in Nat \ {0}

BS == 8
NL == 10
CR == 13
Space == 32

Cells == 0 .. VGA_W * VGA_H - 1

\* A signed character below zero spreads its sign over the attribute byte.
vga_entry(ch) == IF ch < 0 THEN [ch |-> ch + 256, attr |-> 255] ELSE [ch |-> ch, attr |-> 7]

vga_update_cursor(con) == [con EXCEPT !.cursor = con.row * VGA_W + con.col]

NewLine(con) == [con EXCEPT !.col = 0,
                            !.row = IF con.row + 1 >= VGA_H THEN 0 ELSE con.row + 1]

\* The cursor never goes back over the left edge, and nothing is erased.
vga_backspace(con) ==
  IF con.col > 0 THEN vga_update_cursor([con EXCEPT !.col = @ - 1]) ELSE con

Show(con, ch) ==
  LET written == [con EXCEPT !.mem[con.row * VGA_W + con.col] = vga_entry(ch)]
  IN IF con.col + 1 >= VGA_W THEN NewLine(written) ELSE [written EXCEPT !.col = @ + 1]

vga_putc(con, ch) ==
  IF ch = CR THEN vga_update_cursor([con EXCEPT !.col = 0])
  ELSE IF ch = NL THEN vga_update_cursor(NewLine(con))
  ELSE IF ch = BS THEN vga_backspace(con)
  ELSE vga_update_cursor(Show(con, ch))

vga_clear(con) ==
  vga_update_cursor([con EXCEPT !.mem = [p \in Cells |-> vga_entry(Space)], !.row = 0, !.col = 0])

vga_write(con, s) ==
  LET after[i \in 0 .. Len(s)] == IF i = 0 THEN con ELSE vga_putc(after[i - 1], s[i])
  IN after[Len(s)]
=============================================================================

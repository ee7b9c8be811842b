------------------------------- MODULE Vga13 -------------------------------
(* VGA mode 13h (kernel/src/drivers/video_vga13.c): the framebuffer, the      *)
(* drawing calls that clip to it, the two 256-colour palettes and the         *)
(* functions that choose a palette index for a 32-bit colour.                 *)
(*                                                                            *)
(* A sum of two ints that does not fit is undefined: the build may compute    *)
(* the exact comparison or the wrapped sum, and the model takes either.       *)
EXTENDS Integers, FiniteSets

CONSTANTS W, H,      \* columns and rows of the screen (320 and 200)
          INT_MAX,   \* largest int
          COORDS,    \* coordinates and sizes the program passes
          COLOURS,   \* palette indexes it draws with
          WORDS,     \* 32-bit colours it draws with: four bytes, high first
          ENTRIES,   \* DAC entries it sets one by one
          RANGES     \* [start, rgb]: sequences of entries it sets

Byte == 0 .. 255
Pixels == 0 .. W * H - 1
Int32 == -(INT_MAX + 1) .. INT_MAX

ASSUME SizesAssumption == W \in Nat \ {0} /\ H \in Nat \ {0} /\ INT_MAX \in Nat
ASSUME RoomAssumption == W * H <= INT_MAX
ASSUME CallsAssumption == COORDS \subseteq Int32 /\ COLOURS \subseteq Byte
ASSUME WordsAssumption == \A c \in WORDS : \A k \in 1 .. 4 : c[k] \in Byte
\* Six bits are what a DAC entry holds.
ASSUME EntriesAssumption ==
  /\ \A e \in ENTRIES : e.index \in Byte /\ \A b \in 1 .. 3 : e.rgb[b] \in 0 .. 63
  /\ \A r \in RANGES :
       /\ r.start \in Byte /\ IsFiniteSet(DOMAIN r.rgb)
       /\ \A k \in 0 .. Cardinality(DOMAIN r.rgb) - 1, b \in 1 .. 3 : r.rgb[k][b] \in 0 .. 63

VARIABLES
  mode,      \* "text" or "13h"
  fb,        \* VGA13_FB: a palette index for each pixel, row by row
  dac,       \* the DAC: <<red, green, blue>> of each index, six bits each
  loaded,    \* (history) the palette built last, "other" when changed since
  picture,   \* (history) what the calls were to leave on the screen
  fits,      \* (history) the sums of the last drawing call fitted in an int
  stray      \* the last drawing call wrote outside the framebuffer

screen == <<fb, picture, fits, stray>>
palette == <<dac, loaded>>
vars == <<mode, screen, palette>>

-----------------------------------------------------------------------------
(* Clipping.                                                                  *)

Wrapped(n) == IF n > INT_MAX THEN n - 2 * (INT_MAX + 1)
              ELSE IF n < -(INT_MAX + 1) THEN n + 2 * (INT_MAX + 1) ELSE n
Sums(a, b) == {a + b, Wrapped(a + b)}

\* The length left of n places from x on, on an axis of the given size; the
\* places start at Start(x).  Nothing is drawn when it is not positive.
\* Mutant: the length keeps the part that lies before the edge.
Long_Clip(x, n, size) ==
  {IF s > size THEN size - (IF x < 0 THEN 0 ELSE x) ELSE n : s \in Sums(x, n)}
Start(x) == IF x < 0 THEN 0 ELSE x
Clip(x, n, size) ==
  UNION {{IF s > size THEN size - Start(x) ELSE m : s \in Sums(Start(x), m)} :
           m \in IF x < 0 THEN Sums(n, x) ELSE {n}}

\* The addresses of w columns from x on in h rows from y on.
Block(x, y, w, h) == {y * W + x + j * W + i : i \in 0 .. w - 1, j \in 0 .. h - 1}

Painted(f, S, c) == [p \in Pixels |-> IF p \in S THEN c ELSE f[p]]

\* The part of the wanted rectangle that is on the screen.
Visible(x, y, w, h) ==
  {q[2] * W + q[1] : q \in {q \in (0 .. W - 1) \X (0 .. H - 1) :
                              x <= q[1] /\ q[1] < x + w /\ y <= q[2] /\ q[2] < y + h}}

\* A call stores c at the addresses S, to show it at those wanted; its sums fit
\* in an int or not.  After an overflow nothing is claimed of the picture, after
\* a stray write nothing of the machine.
Store(S, wanted, fit, c) ==
  /\ mode = "13h" /\ ~stray
  /\ fb' = Painted(fb, S, c)
  /\ stray' = (\E p \in S : p \notin Pixels)
  /\ fits' = fit
  /\ picture' = IF fit THEN Painted(picture, wanted, c) ELSE fb'
  /\ UNCHANGED <<mode, palette>>

-----------------------------------------------------------------------------
(* Drawing.                                                                   *)

Fits(x, n) == x + n \in Int32

vga13_clear(c) == Store(Pixels, Pixels, TRUE, c)

vga13_putpixel(x, y, c) ==
  Store(IF x \in 0 .. W - 1 /\ y \in 0 .. H - 1 THEN {y * W + x} ELSE {},
        Visible(x, y, 1, 1), TRUE, c)

vga13_hline(x, y, w, c) == \E m \in Clip(x, w, W) :
  Store(IF y \in 0 .. H - 1 THEN Block(Start(x), y, m, 1) ELSE {},
        Visible(x, y, w, 1), Fits(x, w), c)

vga13_vline(x, y, h, c) == \E n \in Clip(y, h, H) :
  Store(IF x \in 0 .. W - 1 THEN Block(x, Start(y), 1, n) ELSE {},
        Visible(x, y, 1, h), Fits(y, h), c)

vga13_rect_fill(x, y, w, h, c) == \E m \in Clip(x, w, W), n \in Clip(y, h, H) :
  Store(Block(Start(x), Start(y), m, n), Visible(x, y, w, h), Fits(x, w) /\ Fits(y, h), c)

-----------------------------------------------------------------------------
(* The palettes.  The DAC counts its index up, modulo 256.                     *)

\* Mutant: the loop ends after count bytes, not count triples.
Short_Loaded(start, rgb, n) ==
  [i \in Byte |-> LET k == (i - start) % 256 IN
     IF k < n \div 3 THEN rgb[k] ELSE dac[i]]
Loaded(start, rgb, n) ==
  [i \in Byte |-> LET k == (i - start) % 256 IN
     IF k < n THEN rgb[k] ELSE dac[i]]

vga13_set_palette_range(start, rgb, n) ==
  dac' = Loaded(start, rgb, n) /\ UNCHANGED <<mode, screen>>

\* Mutant: 64 levels are taken for a highest level of 64.
Over_to_dac6(x) == (x * 64 + 127) \div 255
to_dac6(x) == (x * 63 + 127) \div 255
\* Level l of 0 .. top.
Shade(l, top) == to_dac6((l * 255) \div top)

\* Index 16 + 36r + 6g + b of the cube; 24 greys behind it, black before it.
CubePalette ==
  [i \in Byte |->
     LET k == i - 16
         level(l) == to_dac6(l * 51)
         grey == Shade(i - 232, 23)
     IN IF i < 16 THEN <<0, 0, 0>>
        ELSE IF i < 232 THEN <<level(k \div 36), level((k \div 6) % 6), level(k % 6)>>
        ELSE <<grey, grey, grey>>]

\* Index 32r + 4g + b.
EnhancedPalette == [i \in Byte |-> <<Shade(i \div 32, 7), Shade((i \div 4) % 8, 7), Shade(i % 4, 3)>>]

vga13_build_palette == loaded' = "cube" /\ vga13_set_palette_range(0, CubePalette, 256)
vga13_build_enhanced_palette ==
  loaded' = "enhanced" /\ vga13_set_palette_range(0, EnhancedPalette, 256)

vga13_set_palette(index, rgb) == vga13_set_palette_range(index, [k \in {0} |-> rgb], 1)

SetPalette ==
  /\ loaded' = "other"
  /\ \/ \E e \in ENTRIES : vga13_set_palette(e.index, e.rgb)
     \/ \E r \in RANGES : vga13_set_palette_range(r.start, r.rgb, Cardinality(DOMAIN r.rgb))

\* The level 0 .. top nearest to a byte.
Level(v, top) == (v * top + 127) \div 255

\* The bytes taken for red, green and blue: those 16, 8 and 0 bits up.
RC(c) == c[2]
GC(c) == c[3]
BC(c) == c[4]

\* Mutant: green and blue change places.
Swapped_rgb32_to_index(c) == 16 + Level(RC(c), 5) * 36 + Level(BC(c), 5) * 6 + Level(GC(c), 5)
rgb32_to_index(c) == 16 + Level(RC(c), 5) * 36 + Level(GC(c), 5) * 6 + Level(BC(c), 5)
rgb32_to_enhanced_index(c) == Level(RC(c), 7) * 32 + Level(GC(c), 7) * 4 + Level(BC(c), 3)

vga13_putpixel_rgb32(x, y, c) == vga13_putpixel(x, y, rgb32_to_index(c))
vga13_putpixel_enhanced_rgb32(x, y, c) == vga13_putpixel(x, y, rgb32_to_enhanced_index(c))

-----------------------------------------------------------------------------
\* What is in the video memory then is what the text mode left there.
vga_set_mode13 ==
  /\ mode = "text" /\ mode' = "13h"
  /\ UNCHANGED <<screen, palette>>

Init ==
  /\ mode = "text"
  /\ fb \in [Pixels -> COLOURS] /\ picture = fb /\ fits = TRUE /\ stray = FALSE
  /\ dac = [i \in Byte |-> <<0, 0, 0>>] /\ loaded = "other"

Draw ==
  \/ \E c \in COLOURS, x \in COORDS, y \in COORDS :
       \/ vga13_putpixel(x, y, c)
       \/ \E n \in COORDS : vga13_hline(x, y, n, c) \/ vga13_vline(x, y, n, c)
       \/ \E w \in COORDS, h \in COORDS : vga13_rect_fill(x, y, w, h, c)
  \/ \E c \in WORDS, x \in COORDS, y \in COORDS :
       vga13_putpixel_rgb32(x, y, c) \/ vga13_putpixel_enhanced_rgb32(x, y, c)
  \/ \E c \in COLOURS : vga13_clear(c)

Next == vga_set_mode13 \/ Draw \/ vga13_build_palette \/ vga13_build_enhanced_palette \/ SetPalette

Spec == Init /\ [][Next]_vars

-----------------------------------------------------------------------------
TypeOK ==
  /\ mode \in {"text", "13h"}
  /\ fb \in [Pixels -> Byte] /\ picture \in [Pixels -> Byte]
  /\ fits \in BOOLEAN /\ stray \in BOOLEAN
  /\ \A i \in Byte, b \in 1 .. 3 : dac[i][b] \in 0 .. 63
  /\ loaded \in {"other", "cube", "enhanced"}

(* As long as the sums it computes fit in an int, a drawing call changes       *)
(* exactly the pixels of its rectangle that are on the screen, and no memory  *)
(* beyond it, wherever the rectangle lies (video_vga13.c:66-105).             *)
ScreenIsPicture == fits => fb = picture /\ ~stray

\* Six bits shown as eight, no further from v than half the distance of two of
\* the levels 0 .. top, and what the two roundings add.
Near(d, v, top) ==
  LET e == (d * 255) \div 63 - v
      half == 255 \div (2 * top) + 2
  IN -half <= e /\ e <= half

\* With the palette loaded that its index is chosen for, colour c shows as rgb.
Shows(c, rgb) ==
  /\ loaded = "cube" =>
       \A k \in 1 .. 3 : Near(dac[rgb32_to_index(c)][k], rgb[k], 5)
  /\ loaded = "enhanced" =>
       \A k \in 1 .. 3 : Near(dac[rgb32_to_enhanced_index(c)][k], rgb[k],
                              IF k = 3 THEN 3 ELSE 7)

\* A colour for each value of each byte.
Sample(v) == <<255 - v, v, (5 * v) % 256, (7 * v) % 256>>

(* With the palette that vga13_build_palette or vga13_build_enhanced_palette   *)
(* loaded, the index its own rgb32 function chooses shows what RC, GC and BC   *)
(* take from the word, to within half a level: the order and the offsets in    *)
(* which one fills the table are those in which the other counts               *)
(* (video_vga13.c:10-12, 125-220).  Which bytes the caller meant is            *)
(* PaletteShowsTheDocumentedColour.                                            *)
PaletteShowsWhatIsTaken ==
  \A v \in Byte : LET c == Sample(v) IN Shows(c, <<RC(c), GC(c), BC(c)>>)

(* The word is 0xRRGGBBAA, as both functions' comments and the header have it  *)
(* (video_vga13.c:161, 208, video_vga13.h:100, 109): what is shown are its     *)
(* first three bytes.                                                          *)
PaletteShowsTheDocumentedColour ==
  \A v \in Byte : LET c == Sample(v) IN Shows(c, <<c[1], c[2], c[3]>>)
=============================================================================

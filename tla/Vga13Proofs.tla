---------------------------- MODULE Vga13Proofs ----------------------------
(* Clipping is exact, for every size of the screen, every width of int and     *)
(* every set of coordinates, as long as the sums fit in an int; the palettes   *)
(* show the colours they are asked for; indexes and DAC entries stay in range. *)
EXTENDS Vga13, FiniteSetTheorems, TLAPS

USE SizesAssumption

(* The screen is always what the calls were to leave on it, an overflowing call *)
(* aside, which leaves what it leaves; only such a call writes elsewhere.     *)
ScreenInv == fb = picture /\ fits \in BOOLEAN /\ (fits => ~stray)

-----------------------------------------------------------------------------
(* One axis.                                                                  *)

LEMMA SumOfFitting ==
  ASSUME NEW a \in Int, NEW b \in Int, a + b \in Int32
  PROVE  Sums(a, b) = {a + b}
<1>1. INT_MAX \in Int
  BY SMT
<1>2. Wrapped(a + b) = a + b
  BY <1>1, SMT DEF Wrapped, Int32
<1>3. QED BY <1>2 DEF Sums

LEMMA ClipLength ==
  ASSUME NEW x \in Int, NEW n \in Int, NEW size \in Nat, n \in Int32, Fits(x, n),
         NEW m \in Clip(x, n, size)
  PROVE  m = IF x + n > size THEN size - Start(x) ELSE IF x < 0 THEN x + n ELSE n
<1> DEFINE rest == IF x < 0 THEN x + n ELSE n
<1>1. (IF x < 0 THEN Sums(n, x) ELSE {n}) = {rest}
  <2>1. n + x = x + n
    BY SMT
  <2>2. n + x \in Int32
    BY <2>1 DEF Fits
  <2>3. Sums(n, x) = {n + x}
    BY <2>2, SumOfFitting
  <2>4. QED BY <2>1, <2>3
<1>2. rest \in Int /\ Start(x) \in Int /\ Start(x) + rest = x + n
  BY SMT DEF Start
<1>3. Sums(Start(x), rest) = {x + n}
  <2> HIDE DEF rest
  <2>1. Start(x) + rest \in Int32
    BY <1>2 DEF Fits
  <2>2. QED BY <1>2, <2>1, SumOfFitting
<1>4. Clip(x, n, size) = {IF x + n > size THEN size - Start(x) ELSE rest}
  <2>1. Clip(x, n, size) =
          UNION {{IF s > size THEN size - Start(x) ELSE k : s \in Sums(Start(x), k)} : k \in {rest}}
    BY <1>1, Zenon DEF Clip
  <2> HIDE DEF rest
  <2>2. UNION {{IF s > size THEN size - Start(x) ELSE k : s \in Sums(Start(x), k)} : k \in {rest}}
          = {IF s > size THEN size - Start(x) ELSE rest : s \in Sums(Start(x), rest)}
    OBVIOUS
  <2>3. QED BY <1>3, <2>1, <2>2
<1>5. QED BY <1>4

(* Place q of an axis is drawn exactly when it is wanted and on the screen.    *)
Wanted(q, x, n, size) == q \in 0 .. size - 1 /\ x <= q /\ q < x + n
Drawn(q, x, m) == \E i \in 0 .. m - 1 : q = x + i

LEMMA ClipIsExact ==
  ASSUME NEW x \in Int, NEW n \in Int, NEW size \in Nat, n \in Int32, Fits(x, n),
         NEW m \in Clip(x, n, size)
  PROVE  m \in Int /\ Start(x) \in Int /\
         \A q \in Int : Drawn(q, Start(x), m) <=> Wanted(q, x, n, size)
<1>1. m = IF x + n > size THEN size - Start(x) ELSE IF x < 0 THEN x + n ELSE n
  BY ClipLength
<1>2. m \in Int /\ Start(x) \in Int
  BY <1>1, SMT DEF Start
<1>3. ASSUME NEW q \in Int PROVE Drawn(q, Start(x), m) <=> Wanted(q, x, n, size)
  <2>1. Drawn(q, Start(x), m) <=> Start(x) <= q /\ q < Start(x) + m
    <3>1. Start(x) <= q /\ q < Start(x) + m => q - Start(x) \in 0 .. m - 1 /\ q = Start(x) + (q - Start(x))
      BY <1>2, SMT
    <3>2. QED BY <1>2, <3>1, SMT DEF Drawn
  <2>2. Start(x) <= q /\ q < Start(x) + m <=> Wanted(q, x, n, size)
    BY <1>1, SMT DEF Start, Wanted
  <2>3. QED BY <2>1, <2>2
<1>4. QED BY <1>2, <1>3

LEMMA OneIsExact ==
  ASSUME NEW size \in Nat, NEW x \in 0 .. size - 1
  PROVE  \A q \in Int : Drawn(q, x, 1) <=> Wanted(q, x, 1, size)
BY SMT DEF Drawn, Wanted

-----------------------------------------------------------------------------
(* Both axes: addresses.                                                      *)

LEMMA OnScreen ==
  ASSUME NEW a \in 0 .. W - 1, NEW b \in 0 .. H - 1
  PROVE  b * W + a \in Pixels
<1>1. W \in Int /\ H \in Int /\ a \in Int /\ b \in Int /\ 0 <= b /\ b <= H - 1 /\ 0 <= a /\ a < W
  BY SMT
<1>2. (H - 1 - b) * W >= 0
  BY <1>1, SMT
<1>3. (H - 1 - b) * W = W * H - W - b * W
  BY <1>1, SMT
<1>4. b * W >= 0 /\ b * W \in Int /\ W * H \in Int
  BY <1>1, SMT
<1>5. QED BY <1>1, <1>2, <1>3, <1>4, SMT DEF Pixels

LEMMA VisibleOnScreen ==
  ASSUME NEW x, NEW y, NEW w, NEW h
  PROVE  Visible(x, y, w, h) \subseteq Pixels
BY OnScreen DEF Visible

LEMMA BlockIsVisible ==
  ASSUME NEW x \in Int, NEW y \in Int, NEW w \in Int, NEW h \in Int,
         NEW x1 \in Int, NEW y1 \in Int, NEW m \in Int, NEW n \in Int,
         \A q \in Int : Drawn(q, x1, m) <=> Wanted(q, x, w, W),
         \A q \in Int : Drawn(q, y1, n) <=> Wanted(q, y, h, H)
  PROVE  Block(x1, y1, m, n) = Visible(x, y, w, h)
<1>1. ASSUME NEW p \in Block(x1, y1, m, n) PROVE p \in Visible(x, y, w, h)
  <2>1. PICK i \in 0 .. m - 1, j \in 0 .. n - 1 : p = y1 * W + x1 + j * W + i
    BY DEF Block
  <2>2. x1 + i \in Int /\ y1 + j \in Int
    BY <2>1, SMT
  <2>3. Wanted(x1 + i, x, w, W) /\ Wanted(y1 + j, y, h, H)
    BY <2>1, <2>2 DEF Drawn
  <2>4. p = (y1 + j) * W + (x1 + i)
    BY <2>1, SMT
  <2> DEFINE q == <<x1 + i, y1 + j>>
  <2>5. q[1] = x1 + i /\ q[2] = y1 + j
    OBVIOUS
  <2>6. q \in (0 .. W - 1) \X (0 .. H - 1)
    BY <2>3 DEF Wanted
  <2>7. x <= q[1] /\ q[1] < x + w /\ y <= q[2] /\ q[2] < y + h
    BY <2>3, <2>5 DEF Wanted
  <2>8. p = q[2] * W + q[1]
    BY <2>4, <2>5
  <2> HIDE DEF q
  <2>9. QED BY <2>6, <2>7, <2>8 DEF Visible
<1>2. ASSUME NEW p \in Visible(x, y, w, h) PROVE p \in Block(x1, y1, m, n)
  <2>1. PICK a \in 0 .. W - 1, b \in 0 .. H - 1 :
          p = b * W + a /\ x <= a /\ a < x + w /\ y <= b /\ b < y + h
    BY DEF Visible
  <2>2. a \in Int /\ b \in Int /\ Wanted(a, x, w, W) /\ Wanted(b, y, h, H)
    BY <2>1, SMT DEF Wanted
  <2>3. Drawn(a, x1, m) /\ Drawn(b, y1, n)
    BY <2>2
  <2>4. PICK i \in 0 .. m - 1, j \in 0 .. n - 1 : a = x1 + i /\ b = y1 + j
    BY <2>3 DEF Drawn
  <2>5. p = y1 * W + x1 + j * W + i
    BY <2>1, <2>4, SMT
  <2>6. QED BY <2>5 DEF Block
<1>3. QED BY <1>1, <1>2

LEMMA NothingVisible ==
  ASSUME NEW x \in Int, NEW y \in Int, NEW w \in Int, NEW h \in Int,
         \/ w = 1 /\ x \notin 0 .. W - 1
         \/ h = 1 /\ y \notin 0 .. H - 1
  PROVE  Visible(x, y, w, h) = {}
<1>1. SUFFICES ASSUME NEW a \in 0 .. W - 1, NEW b \in 0 .. H - 1,
                      x <= a, a < x + w, y <= b, b < y + h
               PROVE  FALSE
  BY DEF Visible
<1>2. QED BY <1>1, SMT

-----------------------------------------------------------------------------
(* The calls.                                                                 *)

LEMMA StoreKeeps ==
  ASSUME ScreenInv, NEW S, NEW wanted, NEW fit \in BOOLEAN, NEW c,
         fit => S = wanted /\ wanted \subseteq Pixels, Store(S, wanted, fit, c)
  PROVE  ScreenInv'
<1>1. CASE fit
  BY <1>1 DEF Store, ScreenInv
<1>2. CASE ~fit
  BY <1>2 DEF Store, ScreenInv
<1>3. QED BY <1>1, <1>2

LEMMA PutKeeps ==
  ASSUME ScreenInv, NEW x \in Int, NEW y \in Int, NEW c, vga13_putpixel(x, y, c)
  PROVE  ScreenInv'
<1> DEFINE S == IF x \in 0 .. W - 1 /\ y \in 0 .. H - 1 THEN {y * W + x} ELSE {}
<1>1. S = Visible(x, y, 1, 1)
  <2>1. CASE x \in 0 .. W - 1 /\ y \in 0 .. H - 1
    <3>1. Block(x, y, 1, 1) = {y * W + x}
      <4>1. 0 .. 1 - 1 = {0}
        BY SMT
      <4>2. y * W + x + 0 * W + 0 = y * W + x
        BY SMT
      <4>3. QED BY <4>1, <4>2 DEF Block
    <3>2. Block(x, y, 1, 1) = Visible(x, y, 1, 1)
      BY <2>1, OneIsExact, BlockIsVisible
    <3>3. QED BY <2>1, <3>1, <3>2
  <2>2. CASE ~(x \in 0 .. W - 1 /\ y \in 0 .. H - 1)
    BY <2>2, NothingVisible
  <2>3. QED BY <2>1, <2>2
<1>2. Store(S, Visible(x, y, 1, 1), TRUE, c)
  BY DEF vga13_putpixel
<1> HIDE DEF S
<1>3. QED BY <1>1, <1>2, VisibleOnScreen, StoreKeeps

LEMMA HlineKeeps ==
  ASSUME ScreenInv, NEW x \in Int32, NEW y \in Int32, NEW w \in Int32, NEW c,
         vga13_hline(x, y, w, c)
  PROVE  ScreenInv'
<1>1. x \in Int /\ y \in Int /\ w \in Int /\ W \in Nat /\ H \in Nat
  BY SMT DEF Int32
<1>2. PICK m \in Clip(x, w, W) :
        Store(IF y \in 0 .. H - 1 THEN Block(Start(x), y, m, 1) ELSE {},
              Visible(x, y, w, 1), Fits(x, w), c)
  BY DEF vga13_hline
<1> DEFINE S == IF y \in 0 .. H - 1 THEN Block(Start(x), y, m, 1) ELSE {}
<1>3. ASSUME Fits(x, w) PROVE S = Visible(x, y, w, 1)
  <2>1. m \in Int /\ Start(x) \in Int /\
        \A q \in Int : Drawn(q, Start(x), m) <=> Wanted(q, x, w, W)
    BY <1>1, <1>2, <1>3, ClipIsExact
  <2>2. CASE y \in 0 .. H - 1
    <3>1. \A q \in Int : Drawn(q, y, 1) <=> Wanted(q, y, 1, H)
      BY <1>1, <2>2, OneIsExact
    <3>2. Block(Start(x), y, m, 1) = Visible(x, y, w, 1)
      BY <1>1, <2>1, <3>1, BlockIsVisible
    <3>3. QED BY <2>2, <3>2
  <2>3. CASE y \notin 0 .. H - 1
    BY <1>1, <2>3, NothingVisible
  <2>4. QED BY <2>2, <2>3
<1>4. Fits(x, w) \in BOOLEAN
  BY DEF Fits
<1>5. Store(S, Visible(x, y, w, 1), Fits(x, w), c)
  BY <1>2
<1> HIDE DEF S
<1>6. QED BY <1>3, <1>4, <1>5, VisibleOnScreen, StoreKeeps

LEMMA VlineKeeps ==
  ASSUME ScreenInv, NEW x \in Int32, NEW y \in Int32, NEW h \in Int32, NEW c,
         vga13_vline(x, y, h, c)
  PROVE  ScreenInv'
<1>1. x \in Int /\ y \in Int /\ h \in Int /\ W \in Nat /\ H \in Nat
  BY SMT DEF Int32
<1>2. PICK n \in Clip(y, h, H) :
        Store(IF x \in 0 .. W - 1 THEN Block(x, Start(y), 1, n) ELSE {},
              Visible(x, y, 1, h), Fits(y, h), c)
  BY DEF vga13_vline
<1> DEFINE S == IF x \in 0 .. W - 1 THEN Block(x, Start(y), 1, n) ELSE {}
<1>3. ASSUME Fits(y, h) PROVE S = Visible(x, y, 1, h)
  <2>1. n \in Int /\ Start(y) \in Int /\
        \A q \in Int : Drawn(q, Start(y), n) <=> Wanted(q, y, h, H)
    BY <1>1, <1>2, <1>3, ClipIsExact
  <2>2. CASE x \in 0 .. W - 1
    <3>1. \A q \in Int : Drawn(q, x, 1) <=> Wanted(q, x, 1, W)
      BY <1>1, <2>2, OneIsExact
    <3>2. Block(x, Start(y), 1, n) = Visible(x, y, 1, h)
      BY <1>1, <2>1, <3>1, BlockIsVisible
    <3>3. QED BY <2>2, <3>2
  <2>3. CASE x \notin 0 .. W - 1
    BY <1>1, <2>3, NothingVisible
  <2>4. QED BY <2>2, <2>3
<1>4. Fits(y, h) \in BOOLEAN
  BY DEF Fits
<1>5. Store(S, Visible(x, y, 1, h), Fits(y, h), c)
  BY <1>2
<1> HIDE DEF S
<1>6. QED BY <1>3, <1>4, <1>5, VisibleOnScreen, StoreKeeps

LEMMA RectKeeps ==
  ASSUME ScreenInv, NEW x \in Int32, NEW y \in Int32, NEW w \in Int32, NEW h \in Int32,
         NEW c, vga13_rect_fill(x, y, w, h, c)
  PROVE  ScreenInv'
<1>1. x \in Int /\ y \in Int /\ w \in Int /\ h \in Int /\ W \in Nat /\ H \in Nat
  BY SMT DEF Int32
<1> DEFINE fit == Fits(x, w) /\ Fits(y, h)
<1>2. PICK m \in Clip(x, w, W), n \in Clip(y, h, H) :
        Store(Block(Start(x), Start(y), m, n), Visible(x, y, w, h), fit, c)
  BY DEF vga13_rect_fill
<1>3. ASSUME fit PROVE Block(Start(x), Start(y), m, n) = Visible(x, y, w, h)
  <2>1. m \in Int /\ Start(x) \in Int /\
        \A q \in Int : Drawn(q, Start(x), m) <=> Wanted(q, x, w, W)
    BY <1>1, <1>2, <1>3, ClipIsExact
  <2>2. n \in Int /\ Start(y) \in Int /\
        \A q \in Int : Drawn(q, Start(y), n) <=> Wanted(q, y, h, H)
    BY <1>1, <1>2, <1>3, ClipIsExact
  <2>3. QED BY <1>1, <2>1, <2>2, BlockIsVisible
<1>4. fit \in BOOLEAN
  BY DEF Fits
<1> HIDE DEF fit
<1>5. QED BY <1>2, <1>3, <1>4, VisibleOnScreen, StoreKeeps

-----------------------------------------------------------------------------
LEMMA CoordsAreInts == \A x \in COORDS : x \in Int /\ x \in Int32
BY CallsAssumption, SMT DEF Int32

LEMMA DrawKeeps ==
  ASSUME ScreenInv, Draw
  PROVE  ScreenInv'
<1>1. ASSUME NEW c, NEW x \in COORDS, NEW y \in COORDS, vga13_putpixel(x, y, c)
      PROVE  ScreenInv'
  BY <1>1, CoordsAreInts, PutKeeps
<1>2. ASSUME NEW c, NEW x \in COORDS, NEW y \in COORDS, NEW n \in COORDS,
             vga13_hline(x, y, n, c) \/ vga13_vline(x, y, n, c)
      PROVE  ScreenInv'
  BY <1>2, CoordsAreInts, HlineKeeps, VlineKeeps
<1>3. ASSUME NEW c, NEW x \in COORDS, NEW y \in COORDS, NEW w \in COORDS, NEW h \in COORDS,
             vga13_rect_fill(x, y, w, h, c)
      PROVE  ScreenInv'
  BY <1>3, CoordsAreInts, RectKeeps
<1>4. ASSUME NEW c, vga13_clear(c) PROVE ScreenInv'
  BY <1>4, StoreKeeps DEF vga13_clear
<1>5. QED BY <1>1, <1>2, <1>3, <1>4 DEF Draw, vga13_putpixel_rgb32, vga13_putpixel_enhanced_rgb32

(* For every screen, every int width and every argument: as long as the sums   *)
(* fit, what is on the screen is what the calls were to draw, and nothing      *)
(* beyond it is written (video_vga13.c:66-105).                               *)
THEOREM ClippingIsExact == Spec => []ScreenIsPicture
<1>1. Init => ScreenInv
  BY DEF Init, ScreenInv
<1>2. ScreenInv /\ [Next]_vars => ScreenInv'
  <2> SUFFICES ASSUME ScreenInv, [Next]_vars PROVE ScreenInv'
    OBVIOUS
  <2>1. CASE Draw
    BY <2>1, DrawKeeps
  <2>2. CASE vga_set_mode13
    BY <2>2 DEF vga_set_mode13, screen, ScreenInv
  <2>3. CASE vga13_build_palette \/ vga13_build_enhanced_palette \/ SetPalette
    BY <2>3 DEF vga13_build_palette, vga13_build_enhanced_palette, SetPalette,
                vga13_set_palette, vga13_set_palette_range, screen, ScreenInv
  <2>4. CASE UNCHANGED vars
    BY <2>4 DEF vars, screen, ScreenInv
  <2>5. QED BY <2>1, <2>2, <2>3, <2>4 DEF Next
<1>3. ScreenInv => ScreenIsPicture
  BY DEF ScreenInv, ScreenIsPicture
<1>4. QED BY <1>1, <1>2, <1>3, PTL DEF Spec

-----------------------------------------------------------------------------
(* The palettes.                                                              *)

(* What was built last is what the DAC holds.                                 *)
PaletteInv ==
  /\ loaded = "cube" => dac = CubePalette
  /\ loaded = "enhanced" => dac = EnhancedPalette

LEMMA LoadedAll ==
  ASSUME NEW rgb
  PROVE  Loaded(0, rgb, 256) = [i \in Byte |-> rgb[i]]
<1>1. \A i \in Byte : (i - 0) % 256 = i /\ i < 256
  BY SMT DEF Byte
<1>2. QED BY <1>1 DEF Loaded

LEMMA SixLevels ==
  ASSUME NEW v \in Byte
  PROVE  Level(v, 5) \in 0 .. 5 /\ Near(to_dac6(Level(v, 5) * 51), v, 5)
<1>1. Level(v, 5) \in 0 .. 5
  BY SMT DEF Level, Byte
<1> DEFINE l == Level(v, 5)
<1>2. 255 * l <= 5 * v + 127 /\ 5 * v + 127 < 255 * l + 255
  BY SMT DEF Level, Byte
<1> HIDE DEF l
<1>3. l \in {0, 1, 2, 3, 4, 5}
  BY <1>1, SMT DEF l
<1>4. Near(to_dac6(l * 51), v, 5)
  BY <1>2, <1>3, SMT DEF Near, to_dac6, Byte
<1>5. QED BY <1>1, <1>4 DEF l

LEMMA EightLevels ==
  ASSUME NEW v \in Byte
  PROVE  Level(v, 7) \in 0 .. 7 /\ Near(Shade(Level(v, 7), 7), v, 7)
<1>1. Level(v, 7) \in 0 .. 7
  BY SMT DEF Level, Byte
<1> DEFINE l == Level(v, 7)
<1>2. 255 * l <= 7 * v + 127 /\ 7 * v + 127 < 255 * l + 255
  BY SMT DEF Level, Byte
<1> HIDE DEF l
<1>3. l \in {0, 1, 2, 3, 4, 5, 6, 7}
  BY <1>1, SMT DEF l
<1>4. Near(Shade(l, 7), v, 7)
  BY <1>2, <1>3, SMT DEF Near, Shade, to_dac6, Byte
<1>5. QED BY <1>1, <1>4 DEF l

LEMMA FourLevels ==
  ASSUME NEW v \in Byte
  PROVE  Level(v, 3) \in 0 .. 3 /\ Near(Shade(Level(v, 3), 3), v, 3)
<1>1. Level(v, 3) \in 0 .. 3
  BY SMT DEF Level, Byte
<1> DEFINE l == Level(v, 3)
<1>2. 255 * l <= 3 * v + 127 /\ 3 * v + 127 < 255 * l + 255
  BY SMT DEF Level, Byte
<1> HIDE DEF l
<1>3. l \in {0, 1, 2, 3}
  BY <1>1, SMT DEF l
<1>4. Near(Shade(l, 3), v, 3)
  BY <1>2, <1>3, SMT DEF Near, Shade, to_dac6, Byte
<1>5. QED BY <1>1, <1>4 DEF l

(* The index functions count as the palettes are filled.                      *)
LEMMA CubeEntry ==
  ASSUME NEW r \in 0 .. 5, NEW g \in 0 .. 5, NEW b \in 0 .. 5
  PROVE  16 + r * 36 + g * 6 + b \in 16 .. 231 /\
         CubePalette[16 + r * 36 + g * 6 + b] =
           <<to_dac6(r * 51), to_dac6(g * 51), to_dac6(b * 51)>>
<1> DEFINE i == 16 + r * 36 + g * 6 + b
<1>1. i \in 16 .. 231 /\ i \in Byte /\ ~(i < 16) /\ i < 232
  BY SMT DEF Byte
<1>2. (i - 16) \div 36 = r /\ ((i - 16) \div 6) % 6 = g /\ (i - 16) % 6 = b
  <2>1. (i - 16) \div 36 = r
    BY SMT
  <2>2. (i - 16) \div 6 = r * 6 + g /\ (i - 16) % 6 = b
    BY SMT
  <2>3. (r * 6 + g) % 6 = g
    BY SMT
  <2>4. QED BY <2>1, <2>2, <2>3
<1> HIDE DEF i
<1>3. CubePalette[i] = <<to_dac6(((i - 16) \div 36) * 51), to_dac6((((i - 16) \div 6) % 6) * 51),
                         to_dac6(((i - 16) % 6) * 51)>>
  BY <1>1 DEF CubePalette
<1>4. QED BY <1>1, <1>2, <1>3 DEF i

LEMMA EnhancedEntry ==
  ASSUME NEW r \in 0 .. 7, NEW g \in 0 .. 7, NEW b \in 0 .. 3
  PROVE  r * 32 + g * 4 + b \in Byte /\
         EnhancedPalette[r * 32 + g * 4 + b] =
           <<Shade(r, 7), Shade(g, 7), Shade(b, 3)>>
<1> DEFINE i == r * 32 + g * 4 + b
<1>1. i \in Byte
  BY SMT DEF Byte
<1>2. i \div 32 = r /\ (i \div 4) % 8 = g /\ i % 4 = b
  <2>1. i \div 32 = r
    BY SMT
  <2>2. i \div 4 = r * 8 + g /\ i % 4 = b
    BY SMT
  <2>3. (r * 8 + g) % 8 = g
    BY SMT
  <2>4. QED BY <2>1, <2>2, <2>3
<1> HIDE DEF i
<1>3. EnhancedPalette[i] = <<Shade(i \div 32, 7), Shade((i \div 4) % 8, 7), Shade(i % 4, 3)>>
  BY <1>1 DEF EnhancedPalette
<1>4. QED BY <1>1, <1>2, <1>3 DEF i

(* After vga13_build_palette or vga13_build_enhanced_palette the screen shows  *)
(* the three components RC, GC and BC take from a word to within half a level  *)
(* (video_vga13.c:10-12, 125-220): the proof is for any three bytes, of which  *)
(* the property names a sample.  It says nothing of which bytes were meant.    *)
THEOREM PalettesShowComponents == Spec => []PaletteShowsWhatIsTaken
<1>1. Init => PaletteInv
  BY DEF Init, PaletteInv
<1>2. PaletteInv /\ [Next]_vars => PaletteInv'
  <2> SUFFICES ASSUME PaletteInv, [Next]_vars PROVE PaletteInv'
    OBVIOUS
  <2>1. CASE vga13_build_palette
    <3>1. CubePalette = [i \in Byte |-> CubePalette[i]]
      BY DEF CubePalette
    <3>2. dac' = CubePalette /\ loaded' = "cube"
      BY <2>1, <3>1, LoadedAll DEF vga13_build_palette, vga13_set_palette_range
    <3>3. QED BY <3>2 DEF PaletteInv
  <2>2. CASE vga13_build_enhanced_palette
    <3>1. EnhancedPalette = [i \in Byte |-> EnhancedPalette[i]]
      BY DEF EnhancedPalette
    <3>2. dac' = EnhancedPalette /\ loaded' = "enhanced"
      BY <2>2, <3>1, LoadedAll DEF vga13_build_enhanced_palette, vga13_set_palette_range
    <3>3. QED BY <3>2 DEF PaletteInv
  <2>3. CASE SetPalette
    BY <2>3 DEF SetPalette, PaletteInv
  <2>4. CASE Draw
    <3>1. UNCHANGED palette
      <4>1. \A S, wanted, fit, c : Store(S, wanted, fit, c) => UNCHANGED palette
        BY DEF Store
      <4>2. \A x, y, c : vga13_putpixel(x, y, c) => UNCHANGED palette
        BY <4>1 DEF vga13_putpixel
      <4>3. \A x, y, n, c : vga13_hline(x, y, n, c) => UNCHANGED palette
        BY <4>1 DEF vga13_hline
      <4>4. \A x, y, n, c : vga13_vline(x, y, n, c) => UNCHANGED palette
        BY <4>1 DEF vga13_vline
      <4>5. \A x, y, w, h, c : vga13_rect_fill(x, y, w, h, c) => UNCHANGED palette
        BY <4>1 DEF vga13_rect_fill
      <4>6. \A c : vga13_clear(c) => UNCHANGED palette
        BY <4>1 DEF vga13_clear
      <4>7. QED
        BY <2>4, <4>2, <4>3, <4>4, <4>5, <4>6
           DEF Draw, vga13_putpixel_rgb32, vga13_putpixel_enhanced_rgb32
    <3>2. QED BY <3>1 DEF palette, PaletteInv
  <2>5. CASE vga_set_mode13
    BY <2>5 DEF vga_set_mode13, palette, PaletteInv
  <2>6. CASE UNCHANGED vars
    BY <2>6 DEF vars, palette, PaletteInv
  <2>7. QED BY <2>1, <2>2, <2>3, <2>4, <2>5, <2>6 DEF Next
<1>3. PaletteInv => PaletteShowsWhatIsTaken
  <2> SUFFICES ASSUME PaletteInv, NEW v \in Byte, NEW c, c = Sample(v)
               PROVE  Shows(c, <<RC(c), GC(c), BC(c)>>)
    BY DEF PaletteShowsWhatIsTaken
  <2> DEFINE rgb == <<RC(c), GC(c), BC(c)>>
  <2>0. rgb[1] = RC(c) /\ rgb[2] = GC(c) /\ rgb[3] = BC(c)
    OBVIOUS
  <2> HIDE DEF rgb
  <2>1. RC(c) \in Byte /\ GC(c) \in Byte /\ BC(c) \in Byte
    <3>1. v \in Byte /\ (5 * v) % 256 \in Byte /\ (7 * v) % 256 \in Byte
      BY SMT DEF Byte
    <3>2. RC(c) = v /\ GC(c) = (5 * v) % 256 /\ BC(c) = (7 * v) % 256
      BY DEF Sample, RC, GC, BC
    <3>3. QED BY <3>1, <3>2
  <2>2. \A k \in 1 .. 3 : k = 1 \/ k = 2 \/ k = 3
    BY SMT
  <2>3. ASSUME loaded = "cube"
        PROVE  \A k \in 1 .. 3 : Near(dac[rgb32_to_index(c)][k], rgb[k], 5)
    <3>1. dac[rgb32_to_index(c)] =
            <<to_dac6(Level(RC(c), 5) * 51), to_dac6(Level(GC(c), 5) * 51), to_dac6(Level(BC(c), 5) * 51)>>
      <4>1. Level(RC(c), 5) \in 0 .. 5 /\ Level(GC(c), 5) \in 0 .. 5 /\ Level(BC(c), 5) \in 0 .. 5
        BY <2>1, SixLevels
      <4>2. dac = CubePalette
        BY <2>3 DEF PaletteInv
      <4>3. PICK r \in 0 .. 5, g \in 0 .. 5, b \in 0 .. 5 :
              r = Level(RC(c), 5) /\ g = Level(GC(c), 5) /\ b = Level(BC(c), 5)
        BY <4>1
      <4>4. rgb32_to_index(c) = 16 + r * 36 + g * 6 + b
        BY <4>3 DEF rgb32_to_index
      <4>5. dac[16 + r * 36 + g * 6 + b] =
              <<to_dac6(r * 51), to_dac6(g * 51), to_dac6(b * 51)>>
        BY <4>2, CubeEntry, ZenonT(30)
      <4>6. QED BY <4>3, <4>4, <4>5
    <3>2. QED BY <2>0, <2>1, <2>2, <3>1, SixLevels
  <2>4. ASSUME loaded = "enhanced"
        PROVE  \A k \in 1 .. 3 : Near(dac[rgb32_to_enhanced_index(c)][k], rgb[k],
                                      IF k = 3 THEN 3 ELSE 7)
    <3>1. dac[rgb32_to_enhanced_index(c)] =
            <<Shade(Level(RC(c), 7), 7), Shade(Level(GC(c), 7), 7),
              Shade(Level(BC(c), 3), 3)>>
      <4>1. Level(RC(c), 7) \in 0 .. 7 /\ Level(GC(c), 7) \in 0 .. 7 /\ Level(BC(c), 3) \in 0 .. 3
        BY <2>1, EightLevels, FourLevels
      <4>2. dac = EnhancedPalette
        BY <2>4 DEF PaletteInv
      <4>3. PICK r \in 0 .. 7, g \in 0 .. 7, b \in 0 .. 3 :
              r = Level(RC(c), 7) /\ g = Level(GC(c), 7) /\ b = Level(BC(c), 3)
        BY <4>1
      <4>4. rgb32_to_enhanced_index(c) = r * 32 + g * 4 + b
        BY <4>3 DEF rgb32_to_enhanced_index
      <4>5. dac[r * 32 + g * 4 + b] =
              <<Shade(r, 7), Shade(g, 7), Shade(b, 3)>>
        BY <4>2, EnhancedEntry
      <4>6. QED BY <4>3, <4>4, <4>5
    <3>2. QED BY <2>0, <2>1, <2>2, <3>1, EightLevels, FourLevels
  <2>5. QED BY <2>3, <2>4 DEF Shows, rgb
<1>4. QED BY <1>1, <1>2, <1>3, PTL DEF Spec

-----------------------------------------------------------------------------
(* Types.                                                                     *)

ScreenTypes == fb \in [Pixels -> Byte] /\ picture \in [Pixels -> Byte]
                 /\ fits \in BOOLEAN /\ stray \in BOOLEAN
SixBits(table) == \A i \in Byte, b \in 1 .. 3 : table[i][b] \in 0 .. 63

LEMMA StoreTypes ==
  ASSUME ScreenTypes, NEW S, NEW wanted, NEW fit \in BOOLEAN, NEW c \in Byte,
         Store(S, wanted, fit, c)
  PROVE  ScreenTypes' /\ mode' = mode /\ UNCHANGED palette
<1>1. \A T : \A f \in [Pixels -> Byte] : Painted(f, T, c) \in [Pixels -> Byte]
  BY DEF Painted
<1>2. fb' \in [Pixels -> Byte]
  BY <1>1 DEF Store, ScreenTypes
<1>3. picture' \in [Pixels -> Byte]
  <2>1. CASE fit
    BY <1>1, <2>1 DEF Store, ScreenTypes
  <2>2. CASE ~fit
    BY <1>2, <2>2 DEF Store
  <2>3. QED BY <2>1, <2>2
<1>4. fits' \in BOOLEAN /\ stray' \in BOOLEAN
  BY DEF Store
<1>5. QED BY <1>2, <1>3, <1>4 DEF Store, ScreenTypes

(* The index chosen for a colour is a byte: red, green and blue have room.     *)
LEMMA IndexesAreBytes ==
  ASSUME NEW c, \A k \in 1 .. 4 : c[k] \in Byte
  PROVE  rgb32_to_index(c) \in Byte /\ rgb32_to_enhanced_index(c) \in Byte
<1>1. RC(c) \in Byte /\ GC(c) \in Byte /\ BC(c) \in Byte
  BY SMT DEF RC, GC, BC
<1>2. rgb32_to_index(c) \in Byte
  <2>1. PICK r \in 0 .. 5, g \in 0 .. 5, b \in 0 .. 5 :
          r = Level(RC(c), 5) /\ g = Level(GC(c), 5) /\ b = Level(BC(c), 5)
    BY <1>1, SixLevels
  <2>2. 16 + r * 36 + g * 6 + b \in Byte
    BY SMT DEF Byte
  <2>3. QED BY <2>1, <2>2 DEF rgb32_to_index
<1>3. rgb32_to_enhanced_index(c) \in Byte
  <2>1. PICK r \in 0 .. 7, g \in 0 .. 7, b \in 0 .. 3 :
          r = Level(RC(c), 7) /\ g = Level(GC(c), 7) /\ b = Level(BC(c), 3)
    BY <1>1, EightLevels, FourLevels
  <2>2. QED BY <2>1, EnhancedEntry DEF rgb32_to_enhanced_index
<1>4. QED BY <1>2, <1>3

LEMMA DrawTypes ==
  ASSUME ScreenTypes, Draw
  PROVE  ScreenTypes' /\ mode' = mode /\ UNCHANGED palette
<1> DEFINE Goal == ScreenTypes' /\ mode' = mode /\ UNCHANGED palette
<1>1. ASSUME NEW c \in Byte, NEW x, NEW y, vga13_putpixel(x, y, c) PROVE Goal
  BY <1>1, StoreTypes DEF vga13_putpixel
<1>2. ASSUME NEW c \in Byte, NEW x, NEW y, NEW n, vga13_hline(x, y, n, c) PROVE Goal
  <2>1. Fits(x, n) \in BOOLEAN
    BY DEF Fits
  <2>2. QED BY <1>2, <2>1, StoreTypes DEF vga13_hline
<1>3. ASSUME NEW c \in Byte, NEW x, NEW y, NEW n, vga13_vline(x, y, n, c) PROVE Goal
  <2>1. Fits(y, n) \in BOOLEAN
    BY DEF Fits
  <2>2. QED BY <1>3, <2>1, StoreTypes DEF vga13_vline
<1>4. ASSUME NEW c \in Byte, NEW x, NEW y, NEW w, NEW h, vga13_rect_fill(x, y, w, h, c)
      PROVE  Goal
  <2>1. (Fits(x, w) /\ Fits(y, h)) \in BOOLEAN
    OBVIOUS
  <2>2. QED BY <1>4, <2>1, StoreTypes DEF vga13_rect_fill
<1>5. ASSUME NEW c \in Byte, vga13_clear(c) PROVE Goal
  BY <1>5, StoreTypes DEF vga13_clear
<1>6. \A c \in COLOURS : c \in Byte
  BY CallsAssumption
<1>7. \A c \in WORDS : rgb32_to_index(c) \in Byte /\ rgb32_to_enhanced_index(c) \in Byte
  BY WordsAssumption, IndexesAreBytes
<1> HIDE DEF Goal
<1>8. Goal
  BY <1>1, <1>2, <1>3, <1>4, <1>5, <1>6, <1>7
     DEF Draw, vga13_putpixel_rgb32, vga13_putpixel_enhanced_rgb32
<1>9. QED BY <1>8 DEF Goal

LEMMA LoadedTypes ==
  ASSUME SixBits(dac), NEW start \in Int, NEW n \in Int, NEW rgb,
         \A k \in 0 .. n - 1, b \in 1 .. 3 : rgb[k][b] \in 0 .. 63
  PROVE  SixBits(Loaded(start, rgb, n))
<1> SUFFICES ASSUME NEW i \in Byte, NEW b \in 1 .. 3
             PROVE  Loaded(start, rgb, n)[i][b] \in 0 .. 63
  BY DEF SixBits
<1> DEFINE k == (i - start) % 256
<1>1. k \in Int /\ 0 <= k
  BY SMT DEF Byte
<1>2. Loaded(start, rgb, n)[i] = IF k < n THEN rgb[k] ELSE dac[i]
  BY DEF Loaded
<1> HIDE DEF k
<1>3. CASE k < n
  <2>1. k \in 0 .. n - 1
    BY <1>1, <1>3, SMT
  <2>2. QED BY <1>2, <1>3, <2>1
<1>4. CASE ~(k < n)
  BY <1>2, <1>4 DEF SixBits
<1>5. QED BY <1>3, <1>4

LEMMA SetTypes ==
  ASSUME SixBits(dac), SetPalette
  PROVE  SixBits(dac')
<1>1. ASSUME NEW e \in ENTRIES, vga13_set_palette(e.index, e.rgb)
      PROVE  SixBits(dac')
  <2> DEFINE rgb == [k \in {0} |-> e.rgb]
  <2>1. \A k \in 0 .. 1 - 1, b \in 1 .. 3 : rgb[k][b] \in 0 .. 63
    <3>1. 0 .. 1 - 1 = {0}
      BY SMT
    <3>2. rgb[0] = e.rgb
      OBVIOUS
    <3>3. QED BY <3>1, <3>2, EntriesAssumption
  <2>2. e.index \in Int /\ 1 \in Int
    <3>1. e.index \in Byte
      BY EntriesAssumption
    <3>2. QED BY <3>1, SMT DEF Byte
  <2>3. dac' = Loaded(e.index, rgb, 1)
    BY <1>1 DEF vga13_set_palette, vga13_set_palette_range
  <2> HIDE DEF rgb
  <2>4. QED BY <2>1, <2>2, <2>3, LoadedTypes
<1>2. ASSUME NEW r \in RANGES,
             vga13_set_palette_range(r.start, r.rgb, Cardinality(DOMAIN r.rgb))
      PROVE  SixBits(dac')
  <2> DEFINE n == Cardinality(DOMAIN r.rgb)
  <2>1. n \in Int
    <3>1. n \in Nat
      BY EntriesAssumption, FS_CardinalityType
    <3>2. QED BY <3>1, SMT
  <2>2. r.start \in Int
    <3>1. r.start \in Byte
      BY EntriesAssumption
    <3>2. QED BY <3>1, SMT DEF Byte
  <2>3. \A k \in 0 .. n - 1, b \in 1 .. 3 : r.rgb[k][b] \in 0 .. 63
    BY EntriesAssumption
  <2>4. dac' = Loaded(r.start, r.rgb, n)
    BY <1>2 DEF vga13_set_palette_range
  <2> HIDE DEF n
  <2>5. QED BY <2>1, <2>2, <2>3, <2>4, LoadedTypes
<1>3. QED BY <1>1, <1>2 DEF SetPalette

LEMMA PaletteTypes == SixBits(CubePalette) /\ SixBits(EnhancedPalette)
<1>0. \A v \in Byte : to_dac6(v) \in 0 .. 63
  BY SMT DEF to_dac6, Byte
<1>1. \A x \in 0 .. 63, y \in 0 .. 63, z \in 0 .. 63, b \in 1 .. 3 : <<x, y, z>>[b] \in 0 .. 63
  <2>1. \A b \in 1 .. 3 : b = 1 \/ b = 2 \/ b = 3
    BY SMT
  <2>2. QED BY <2>1
<1>2. ASSUME NEW i \in Byte, NEW b \in 1 .. 3 PROVE CubePalette[i][b] \in 0 .. 63
  <2> DEFINE k == i - 16
             level(l) == to_dac6(l * 51)
             grey == Shade(i - 232, 23)
  <2>1. CASE i < 16
    <3>1. CubePalette[i] = <<0, 0, 0>> /\ 0 \in 0 .. 63
      BY <2>1, SMT DEF CubePalette
    <3>2. QED BY <1>1, <3>1
  <2>2. CASE ~(i < 16) /\ i < 232
    <3>1. k \div 36 \in 0 .. 5 /\ (k \div 6) % 6 \in 0 .. 5 /\ k % 6 \in 0 .. 5
      <4>1. k \in 0 .. 215
        BY <2>2, SMT DEF Byte
      <4> HIDE DEF k
      <4>2. QED BY <4>1, SMT
    <3>2. \A l \in 0 .. 5 : level(l) \in 0 .. 63
      <4>1. \A l \in 0 .. 5 : l * 51 \in Byte
        BY SMT DEF Byte
      <4>2. QED BY <1>0, <4>1
    <3>3. CubePalette[i] = <<level(k \div 36), level((k \div 6) % 6), level(k % 6)>>
      BY <2>2 DEF CubePalette
    <3> HIDE DEF k, level
    <3>4. QED BY <1>1, <3>1, <3>2, <3>3
  <2>3. CASE ~(i < 16) /\ ~(i < 232)
    <3>1. ((i - 232) * 255) \div 23 \in Byte
      BY <2>3, SMT DEF Byte
    <3>2. grey \in 0 .. 63
      BY <1>0, <3>1 DEF Shade
    <3>3. CubePalette[i] = <<grey, grey, grey>>
      BY <2>3 DEF CubePalette
    <3> HIDE DEF grey
    <3>4. QED BY <1>1, <3>2, <3>3
  <2>4. QED BY <2>1, <2>2, <2>3
<1>3. ASSUME NEW i \in Byte, NEW b \in 1 .. 3 PROVE EnhancedPalette[i][b] \in 0 .. 63
  <2>1. i \div 32 \in 0 .. 7 /\ (i \div 4) % 8 \in 0 .. 7 /\ i % 4 \in 0 .. 3
    BY SMT DEF Byte
  <2>2. \A l \in 0 .. 7 : Shade(l, 7) \in 0 .. 63
    <3>1. \A l \in 0 .. 7 : (l * 255) \div 7 \in Byte
      BY SMT DEF Byte
    <3>2. QED BY <1>0, <3>1 DEF Shade
  <2>3. \A l \in 0 .. 3 : Shade(l, 3) \in 0 .. 63
    <3>1. \A l \in 0 .. 3 : (l * 255) \div 3 \in Byte
      BY SMT DEF Byte
    <3>2. QED BY <1>0, <3>1 DEF Shade
  <2>4. EnhancedPalette[i] = <<Shade(i \div 32, 7), Shade((i \div 4) % 8, 7), Shade(i % 4, 3)>>
    BY DEF EnhancedPalette
  <2>5. QED BY <1>1, <2>1, <2>2, <2>3, <2>4
<1>4. QED BY <1>2, <1>3 DEF SixBits

LEMMA BuildTypes ==
  ASSUME NEW rgb, SixBits(rgb), vga13_set_palette_range(0, rgb, 256)
  PROVE  SixBits(dac')
BY LoadedAll DEF vga13_set_palette_range, SixBits

(* For every screen and all the calls, every palette index stored is a byte    *)
(* and every DAC component has six bits: the casts to uint8_t in the palettes  *)
(* and the index functions lose nothing (video_vga13.c:107-220).              *)
THEOREM TypesAreKept == Spec => []TypeOK
<1>1. Init => TypeOK
  <2> SUFFICES ASSUME Init PROVE TypeOK
    OBVIOUS
  <2>1. fb \in [Pixels -> Byte]
    BY CallsAssumption DEF Init
  <2>2. \A i \in Byte, b \in 1 .. 3 : dac[i][b] \in 0 .. 63
    <3>1. \A b \in 1 .. 3 : b = 1 \/ b = 2 \/ b = 3
      BY SMT
    <3>2. 0 \in 0 .. 63
      BY SMT
    <3>3. QED BY <3>1, <3>2 DEF Init
  <2>3. QED BY <2>1, <2>2 DEF Init, TypeOK
<1>2. TypeOK /\ [Next]_vars => TypeOK'
  <2> SUFFICES ASSUME TypeOK, [Next]_vars PROVE TypeOK'
    OBVIOUS
  <2>0. ScreenTypes /\ SixBits(dac)
    BY DEF TypeOK, ScreenTypes, SixBits
  <2>1. CASE Draw
    BY <2>0, <2>1, DrawTypes DEF TypeOK, ScreenTypes, palette
  <2>2. CASE vga_set_mode13
    BY <2>2 DEF vga_set_mode13, TypeOK, screen, palette
  <2>3. CASE vga13_build_palette
    <3>1. SixBits(dac')
      BY <2>3, PaletteTypes, BuildTypes DEF vga13_build_palette
    <3>2. QED
      BY <2>3, <3>1 DEF vga13_build_palette, vga13_set_palette_range, TypeOK, SixBits, screen
  <2>4. CASE vga13_build_enhanced_palette
    <3>1. SixBits(dac')
      BY <2>4, PaletteTypes, BuildTypes DEF vga13_build_enhanced_palette
    <3>2. QED
      BY <2>4, <3>1
         DEF vga13_build_enhanced_palette, vga13_set_palette_range, TypeOK, SixBits, screen
  <2>5. CASE SetPalette
    <3>1. SixBits(dac')
      BY <2>0, <2>5, SetTypes
    <3>2. loaded' = "other" /\ UNCHANGED <<mode, screen>>
      BY <2>5 DEF SetPalette, vga13_set_palette, vga13_set_palette_range
    <3>3. QED BY <3>1, <3>2 DEF TypeOK, SixBits, screen
  <2>6. CASE UNCHANGED vars
    BY <2>6 DEF vars, screen, palette, TypeOK
  <2>7. QED BY <2>1, <2>2, <2>3, <2>4, <2>5, <2>6 DEF Next
<1>3. QED BY <1>1, <1>2, PTL DEF Spec
=============================================================================

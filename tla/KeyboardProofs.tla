--------------------------- MODULE KeyboardProofs ---------------------------
(* The decoder follows the keys, for every length of the wire and of the       *)
(* buffer, any number of keys held and both layouts.  The bytes under way are *)
(* a path of the driver's flags: from what they are now to what the keyboard  *)
(* has told.                                                                  *)
EXTENDS Keyboard, SequenceTheorems, TLAPS

Kinds == {"plain", "ext", "hidden"}
Msg == [byte : 0 .. 255, means : Char \cup {Nul}, kind : Kinds]
St == {0, 1} \X {0, 1} \X {0, 1}          \* left shift, right shift, caps
Flags == <<s_left_shift, s_right_shift, s_caps>>

(* What a byte does to the flags, and the character it stores.                 *)
Step(x, b) ==
  IF b = 42 THEN <<1, x[2], x[3]>> ELSE IF b = 170 THEN <<0, x[2], x[3]>>
  ELSE IF b = 54 THEN <<x[1], 1, x[3]>> ELSE IF b = 182 THEN <<x[1], 0, x[3]>>
  ELSE IF b = 58 THEN <<x[1], x[2], 1 - x[3]>> ELSE x

Shifted(x) == x[1] = 1 \/ x[2] = 1
Cased(x, ch) ==
  IF x[3] = 1 /\ ~Shifted(x) /\ ch \in 97 .. 122 THEN ch - 32
  ELSE IF x[3] = 1 /\ Shifted(x) /\ ch \in 65 .. 90 THEN ch + 32
  ELSE ch
Stored(lay, x, b) ==
  IF b \in (0 .. 127) \ {42, 54, 58}
  THEN Cased(x, IF Shifted(x) THEN g_shift(lay, b) ELSE g_unshift(lay, b)) ELSE Nul

Sound(lay, x, m) == m.kind = "plain" => m.means = Stored(lay, x, m.byte)

(* The bytes w take the flags from x to y, each plain one storing what it means. *)
IsPath(lay, w, x, y, p) ==
  /\ p \in [0 .. Len(w) -> St] /\ p[0] = x /\ p[Len(w)] = y
  /\ \A i \in 1 .. Len(w) : p[i] = Step(p[i - 1], w[i].byte) /\ Sound(lay, p[i - 1], w[i])
Path(lay, w, x, y) == \E p : IsPath(lay, w, x, y, p)

-----------------------------------------------------------------------------
(* Paths.                                                                     *)

LEMMA StepType ==
  ASSUME NEW x \in St, NEW b
  PROVE  Step(x, b) \in St
<1>1. x[1] \in {0, 1} /\ x[2] \in {0, 1} /\ x[3] \in {0, 1} /\ 1 - x[3] \in {0, 1}
  BY SMT DEF St
<1>2. QED BY <1>1 DEF Step, St

LEMMA PathEmpty ==
  ASSUME NEW lay, NEW x \in St
  PROVE  Path(lay, <<>>, x, x)
<1> DEFINE p == [i \in 0 .. 0 |-> x]
<1>1. Len(<<>>) = 0 /\ 1 .. 0 = {} /\ 0 \in 0 .. 0
  BY SMT
<1>2. p \in [0 .. 0 -> St] /\ p[0] = x
  BY <1>1
<1> HIDE DEF p
<1>3. IsPath(lay, <<>>, x, x, p)
  BY <1>1, <1>2 DEF IsPath
<1>4. QED BY <1>3 DEF Path

LEMMA PathOfEmpty ==
  ASSUME NEW lay, NEW x, NEW y, Path(lay, <<>>, x, y)
  PROVE  x = y
<1>1. Len(<<>>) = 0
  OBVIOUS
<1>2. QED BY <1>1 DEF Path, IsPath

LEMMA PathOne ==
  ASSUME NEW lay, NEW x \in St, NEW m \in Msg, Sound(lay, x, m)
  PROVE  Path(lay, <<m>>, x, Step(x, m.byte))
<1> DEFINE p == [i \in 0 .. 1 |-> IF i = 0 THEN x ELSE Step(x, m.byte)]
<1>1. Len(<<m>>) = 1 /\ <<m>>[1] = m
  OBVIOUS
<1>2. 0 \in 0 .. 1 /\ 1 \in 0 .. 1 /\ 1 # 0 /\ 1 - 1 = 0 /\ \A i \in 1 .. 1 : i = 1
  BY SMT
<1>3. p \in [0 .. 1 -> St] /\ p[0] = x /\ p[1] = Step(x, m.byte)
  BY <1>2, StepType
<1> HIDE DEF p
<1>4. ASSUME NEW i \in 1 .. 1 PROVE p[i] = Step(p[i - 1], <<m>>[i].byte) /\ Sound(lay, p[i - 1], <<m>>[i])
  <2>1. i = 1 /\ i - 1 = 0
    BY <1>2
  <2>2. QED BY <1>1, <1>3, <2>1
<1>5. IsPath(lay, <<m>>, x, Step(x, m.byte), p)
  BY <1>1, <1>3, <1>4 DEF IsPath
<1>6. QED BY <1>5 DEF Path

LEMMA PathConcat ==
  ASSUME NEW lay, NEW u \in Seq(Msg), NEW w \in Seq(Msg), NEW x, NEW y, NEW z,
         Path(lay, u, x, y), Path(lay, w, y, z)
  PROVE  Path(lay, u \o w, x, z)
<1>1. PICK p : IsPath(lay, u, x, y, p)
  BY DEF Path
<1>2. PICK q : IsPath(lay, w, y, z, q)
  BY DEF Path
<1> DEFINE n == Len(u)  k == Len(w)  v == u \o w
           r == [i \in 0 .. n + k |-> IF i <= n THEN p[i] ELSE q[i - n]]
<1>3. /\ n \in Nat /\ k \in Nat /\ Len(v) = n + k
      /\ \A i \in 1 .. n + k : v[i] = IF i <= n THEN u[i] ELSE w[i - n]
  <2>1. n \in Nat /\ k \in Nat
    BY LenProperties
  <2>2. QED BY <2>1, ConcatProperties, SMT
<1>4. p \in [0 .. n -> St] /\ p[0] = x /\ p[n] = y /\
      \A i \in 1 .. n : p[i] = Step(p[i - 1], u[i].byte) /\ Sound(lay, p[i - 1], u[i])
  BY <1>1 DEF IsPath
<1>5. q \in [0 .. k -> St] /\ q[0] = y /\ q[k] = z /\
      \A i \in 1 .. k : q[i] = Step(q[i - 1], w[i].byte) /\ Sound(lay, q[i - 1], w[i])
  BY <1>2 DEF IsPath
<1> HIDE DEF n, k, v
<1>6. r \in [0 .. n + k -> St]
  <2>1. ASSUME NEW i \in 0 .. n + k PROVE (IF i <= n THEN p[i] ELSE q[i - n]) \in St
    <3>1. CASE i <= n
      <4>1. i \in 0 .. n
        BY <1>3, <3>1, SMT
      <4>2. QED BY <1>4, <3>1, <4>1
    <3>2. CASE ~(i <= n)
      <4>1. i - n \in 0 .. k
        BY <1>3, <3>2, SMT
      <4>2. QED BY <1>5, <3>2, <4>1
    <3>3. QED BY <3>1, <3>2
  <2>2. QED BY <2>1
<1>7. r[0] = x /\ r[n + k] = z
  <2>1. 0 \in 0 .. n + k /\ 0 <= n /\ n + k \in 0 .. n + k
    BY <1>3, SMT
  <2>2. r[0] = x
    BY <1>4, <2>1
  <2>3. CASE k = 0
    <3>1. n + k = n /\ n <= n
      BY <1>3, <2>3, SMT
    <3>2. QED BY <1>4, <1>5, <2>1, <2>2, <2>3, <3>1
  <2>4. CASE k # 0
    <3>1. ~(n + k <= n) /\ (n + k) - n = k
      BY <1>3, <2>4, SMT
    <3>2. QED BY <1>5, <2>1, <2>2, <3>1
  <2>5. QED BY <2>3, <2>4
<1>8. ASSUME NEW i \in 1 .. n + k
      PROVE  r[i] = Step(r[i - 1], v[i].byte) /\ Sound(lay, r[i - 1], v[i])
  <2>1. i \in 0 .. n + k /\ i - 1 \in 0 .. n + k
    BY <1>3, SMT
  <2>2. CASE i <= n
    <3>1. i \in 1 .. n /\ i - 1 <= n
      BY <1>3, <2>2, SMT
    <3>2. r[i] = p[i] /\ r[i - 1] = p[i - 1] /\ v[i] = u[i]
      BY <1>3, <2>1, <2>2, <3>1
    <3>3. QED BY <1>4, <3>1, <3>2
  <2>3. CASE ~(i <= n)
    <3>1. i - n \in 1 .. k /\ (i - n) - 1 = (i - 1) - n
      BY <1>3, <2>3, SMT
    <3>2. r[i] = q[i - n] /\ v[i] = w[i - n]
      BY <1>3, <2>1, <2>3
    <3>3. r[i - 1] = q[(i - n) - 1]
      <4>1. CASE i - 1 <= n
        <5>1. i - 1 = n /\ (i - n) - 1 = 0
          BY <1>3, <2>3, <4>1, SMT
        <5>2. QED BY <1>4, <1>5, <2>1, <4>1, <5>1
      <4>2. CASE ~(i - 1 <= n)
        BY <2>1, <3>1, <4>2
      <4>3. QED BY <4>1, <4>2
    <3>4. QED BY <1>5, <3>1, <3>2, <3>3
  <2>4. QED BY <2>2, <2>3
<1> HIDE DEF r
<1>9. IsPath(lay, v, x, z, r)
  BY <1>3, <1>6, <1>7, <1>8 DEF IsPath
<1>10. QED BY <1>9 DEF Path, v

LEMMA PathTail ==
  ASSUME NEW lay, NEW w \in Seq(Msg), w # <<>>, NEW x, NEW y, Path(lay, w, x, y)
  PROVE  /\ Path(lay, Tail(w), Step(x, Head(w).byte), y)
         /\ Sound(lay, x, Head(w)) /\ x \in St /\ Head(w) \in Msg /\ Tail(w) \in Seq(Msg)
<1>1. PICK p : IsPath(lay, w, x, y, p)
  BY DEF Path
<1> DEFINE n == Len(w)  t == Tail(w)
           q == [i \in 0 .. n - 1 |-> p[i + 1]]
<1>2. /\ n \in Nat /\ n > 0 /\ Len(t) = n - 1 /\ t \in Seq(Msg)
      /\ \A i \in 1 .. n - 1 : t[i] = w[i + 1]
      /\ Head(w) = w[1] /\ w[1] \in Msg
  <2>1. n \in Nat /\ n > 0
    BY LenProperties, EmptySeq, SMT
  <2>2. QED BY <2>1, HeadTailProperties, SMT
<1>3. p \in [0 .. n -> St] /\ p[0] = x /\ p[n] = y /\
      \A i \in 1 .. n : p[i] = Step(p[i - 1], w[i].byte) /\ Sound(lay, p[i - 1], w[i])
  BY <1>1 DEF IsPath
<1> HIDE DEF n, t
<1>4. x \in St /\ p[1] = Step(x, Head(w).byte) /\ Sound(lay, x, Head(w))
  <2>1. 1 \in 1 .. n /\ 1 - 1 = 0 /\ 0 \in 0 .. n
    BY <1>2, SMT
  <2>2. QED BY <1>2, <1>3, <2>1
<1>5. q \in [0 .. n - 1 -> St]
  <2>1. \A i \in 0 .. n - 1 : i + 1 \in 0 .. n
    BY <1>2, SMT
  <2>2. QED BY <1>3, <2>1
<1>6. q[0] = Step(x, Head(w).byte) /\ q[n - 1] = y
  <2>1. 0 \in 0 .. n - 1 /\ 0 + 1 = 1 /\ n - 1 \in 0 .. n - 1 /\ (n - 1) + 1 = n
    BY <1>2, SMT
  <2>2. QED BY <1>3, <1>4, <2>1
<1>7. ASSUME NEW i \in 1 .. n - 1
      PROVE  q[i] = Step(q[i - 1], t[i].byte) /\ Sound(lay, q[i - 1], t[i])
  <2>1. i \in 0 .. n - 1 /\ i - 1 \in 0 .. n - 1 /\ (i - 1) + 1 = (i + 1) - 1 /\ i + 1 \in 1 .. n
    BY <1>2, SMT
  <2>2. q[i] = p[i + 1] /\ q[i - 1] = p[(i + 1) - 1] /\ t[i] = w[i + 1]
    BY <1>2, <2>1
  <2>3. QED BY <1>3, <2>1, <2>2
<1> HIDE DEF q
<1>8. IsPath(lay, t, Step(x, Head(w).byte), y, q)
  BY <1>2, <1>5, <1>6, <1>7 DEF IsPath
<1>9. QED BY <1>2, <1>4, <1>8 DEF Path, t

-----------------------------------------------------------------------------
(* What the keyboard sends is a path.                                         *)

Moves(lay, w, x, y) == w \in Seq(Msg) /\ x \in St /\ y \in St /\ Path(lay, w, x, y)

LEMMA MovesNot ==
  ASSUME NEW lay, NEW x \in St
  PROVE  Moves(lay, <<>>, x, x)
BY PathEmpty, <<>> \in Seq(Msg) DEF Moves

LEMMA MovesOne ==
  ASSUME NEW lay, NEW x \in St, NEW m \in Msg, Sound(lay, x, m)
  PROVE  Moves(lay, <<m>>, x, Step(x, m.byte))
BY PathOne, StepType, <<m>> \in Seq(Msg) DEF Moves

LEMMA MovesTwice ==
  ASSUME NEW lay, NEW u, NEW w, NEW x, NEW y, NEW z, Moves(lay, u, x, y), Moves(lay, w, y, z)
  PROVE  Moves(lay, u \o w, x, z)
<1>1. u \o w \in Seq(Msg)
  BY ConcatProperties DEF Moves
<1>2. QED BY <1>1, PathConcat DEF Moves

LEMMA MovesExt ==
  ASSUME NEW lay, NEW x \in St, NEW b \in 0 .. 255
  PROVE  Moves(lay, Ext(b), x, Step(x, b))
<1> DEFINE m == [byte |-> E0, means |-> Nul, kind |-> "ext"]
           n == [byte |-> b, means |-> Nul, kind |-> "ext"]
<1>1. E0 \in 0 .. 255
  BY SMT DEF E0
<1>2. m \in Msg /\ n \in Msg /\ m.byte = E0 /\ n.byte = b
  BY <1>1 DEF Msg, Kinds
<1>3. Sound(lay, x, m) /\ Sound(lay, x, n)
  BY DEF Sound
<1>4. Step(x, E0) = x
  BY SMT DEF E0, Step
<1>5. Ext(b) = <<m>> \o <<n>>
  BY DEF Ext
<1> HIDE DEF m, n
<1>6. Moves(lay, <<m>>, x, x) /\ Moves(lay, <<n>>, x, Step(x, b))
  BY <1>2, <1>3, <1>4, MovesOne
<1>7. QED BY <1>5, <1>6, MovesTwice

\* The left shift becomes l and the right one r where they are in S.
Put(x, S, v) == <<IF "LShift" \in S THEN v ELSE x[1], IF "RShift" \in S THEN v ELSE x[2], x[3]>>

LEMMA MovesHide ==
  ASSUME NEW lay, NEW x \in St, NEW S
  PROVE  Moves(lay, Hide(S), x, Put(x, S, 0))
<1> DEFINE y == IF "LShift" \in S THEN Step(x, 170) ELSE x
<1>1. 170 \in 0 .. 255 /\ 182 \in 0 .. 255
  BY SMT
<1>2. y \in St
  BY StepType
<1>3. Moves(lay, IF "LShift" \in S THEN Ext(170) ELSE <<>>, x, y)
  BY <1>1, MovesExt, MovesNot
<1>4. Put(x, S, 0) = IF "RShift" \in S THEN Step(y, 182) ELSE y
  BY SMT DEF Put, Step, St
<1> HIDE DEF y
<1>5. Moves(lay, IF "RShift" \in S THEN Ext(182) ELSE <<>>, y, Put(x, S, 0))
  BY <1>1, <1>2, <1>4, MovesExt, MovesNot
<1>6. QED BY <1>3, <1>5, MovesTwice DEF Hide

LEMMA MovesShow ==
  ASSUME NEW lay, NEW x \in St, NEW S
  PROVE  Moves(lay, Show(S), x, Put(x, S, 1))
<1> DEFINE y == IF "LShift" \in S THEN Step(x, 42) ELSE x
<1>1. 42 \in 0 .. 255 /\ 54 \in 0 .. 255
  BY SMT
<1>2. y \in St
  BY StepType
<1>3. Moves(lay, IF "LShift" \in S THEN Ext(42) ELSE <<>>, x, y)
  BY <1>1, MovesExt, MovesNot
<1>4. Put(x, S, 1) = IF "RShift" \in S THEN Step(y, 54) ELSE y
  BY SMT DEF Put, Step, St
<1> HIDE DEF y
<1>5. Moves(lay, IF "RShift" \in S THEN Ext(54) ELSE <<>>, y, Put(x, S, 1))
  BY <1>1, <1>2, <1>4, MovesExt, MovesNot
<1>6. QED BY <1>3, <1>5, MovesTwice DEF Show

-----------------------------------------------------------------------------
(* What a byte stores.                                                        *)

LEMMA Tables ==
  ASSUME NEW lay, NEW code
  PROVE  /\ g_unshift(lay, code) = IF code = 30 THEN 97
              ELSE IF code = 39 THEN (IF lay = "US" THEN 59 ELSE -92)
              ELSE IF code = 77 THEN 45 ELSE Nul
         /\ g_shift(lay, code) = IF code = 30 THEN 65
              ELSE IF code = 39 THEN (IF lay = "US" THEN 58 ELSE -91)
              ELSE IF code = 77 THEN 45 ELSE Nul
<1>1. 30 # 39 /\ 30 # 77 /\ 39 # 77
  BY SMT
<1>2. CASE code = 30
  BY <1>1, <1>2 DEF g_unshift, g_shift
<1>3. CASE code = 39
  BY <1>1, <1>3 DEF g_unshift, g_shift
<1>4. CASE code = 77
  BY <1>1, <1>4 DEF g_unshift, g_shift
<1>5. CASE code # 30 /\ code # 39 /\ code # 77
  BY <1>5 DEF g_unshift, g_shift
<1>6. QED BY <1>2, <1>3, <1>4, <1>5

LEMMA StoredType ==
  ASSUME NEW lay, NEW x, NEW b
  PROVE  Stored(lay, x, b) \in Char \cup {Nul}
<1> DEFINE ch == IF Shifted(x) THEN g_shift(lay, b) ELSE g_unshift(lay, b)
<1>1. ch \in {97, 59, -92, 45, 0, 65, 58, -91}
  BY Tables, SMT DEF Nul
<1> HIDE DEF ch
<1>2. Cased(x, ch) \in Char \cup {Nul}
  BY <1>1, SMT DEF Cased, Char, Nul
<1>3. Nul \in Char \cup {Nul}
  OBVIOUS
<1>4. QED BY <1>2, <1>3 DEF Stored, ch

-----------------------------------------------------------------------------
(* The invariant.                                                             *)

\* What the keyboard has told, y, against the keys.
Told(h, hidden, caps, y) ==
  /\ y[3] = caps
  /\ "LShift" \notin hidden => (y[1] = 1 <=> "LShift" \in h)
  /\ "RShift" \notin hidden => (y[2] = 1 <=> "RShift" \in h)
  /\ "LShift" \in hidden /\ "LShift" \notin h => y[1] = 0
  /\ "RShift" \in hidden /\ "RShift" \notin h => y[2] = 0
  /\ "RightArrow" \notin h => hidden = {}

Inv == TypeOK /\ \E y : Moves(g_layout, wire, Flags, y) /\ Told(held, faked, capsOn, y)

LEMMA InitInv == Init => Inv
<1> SUFFICES ASSUME Init PROVE Inv
  OBVIOUS
<1> USE DEF Init
<1>1. Flags = <<0, 0, 0>> /\ Flags \in St
  BY DEF Flags, St
<1>2. Moves(g_layout, wire, Flags, Flags)
  BY <1>1, MovesNot
<1>3. Told(held, faked, capsOn, Flags)
  BY <1>1, SMT DEF Told
<1>4. TypeOK
  <2>1. kbd_buf \in Seq(Char) /\ Len(kbd_buf) = 0 /\ wire \in Seq(Msg)
    OBVIOUS
  <2>2. Len(kbd_buf) <= CAPACITY
    BY <2>1, BoundsAssumption, SMT
  <2>3. QED BY <2>1, <2>2 DEF TypeOK, driver, Msg, Kinds
<1>5. QED BY <1>2, <1>3, <1>4 DEF Inv

\* The keyboard's steps lengthen the path and leave the driver alone.
LEMMA SendsInv ==
  ASSUME Inv, NEW bytes, Sends(bytes), UNCHANGED <<g_layout, driver, kbd_buf>>,
         held' \subseteq Keys, faked' \subseteq Shifts, capsOn' \in {0, 1},
         newest' \in Keys \cup {"none"},
         \A y \in St : Told(held, faked, capsOn, y) =>
            \E z : Moves(g_layout, bytes, y, z) /\ Told(held', faked', capsOn', z)
  PROVE  Inv'
<1>1. PICK y : Moves(g_layout, wire, Flags, y) /\ Told(held, faked, capsOn, y)
  BY DEF Inv
<1>2. PICK z : Moves(g_layout, bytes, y, z) /\ Told(held', faked', capsOn', z)
  BY <1>1 DEF Moves
<1>3. wire' = wire \o bytes /\ g_layout' = g_layout /\ Flags' = Flags
  BY DEF Sends, Flags, driver
<1>4. Moves(g_layout', wire', Flags', z)
  BY <1>1, <1>2, <1>3, MovesTwice
<1>5. wire' \in Seq(Msg)
  BY <1>4 DEF Moves
<1>6. TypeOK'
  BY <1>5 DEF Inv, TypeOK, driver, Msg, Kinds
<1>7. QED BY <1>2, <1>4, <1>6 DEF Inv

-----------------------------------------------------------------------------
(* The keyboard's steps.                                                      *)

LEMMA Codes ==
  ASSUME NEW k \in Keys
  PROVE  /\ k \in {"LShift", "RShift", "CapsLock", "A", "RightOfL", "RightArrow"}
         /\ Code[k] = IF k = "LShift" THEN 42 ELSE IF k = "RShift" THEN 54
                      ELSE IF k = "CapsLock" THEN 58 ELSE IF k = "A" THEN 30
                      ELSE IF k = "RightOfL" THEN 39 ELSE 77
         /\ Code[k] \in 0 .. 255 /\ Code[k] + 128 \in 0 .. 255
<1>1. k \in {"LShift", "RShift", "CapsLock", "A", "RightOfL", "RightArrow"}
  BY DEF Keys, Code
<1>2. Code[k] = IF k = "LShift" THEN 42 ELSE IF k = "RShift" THEN 54
                      ELSE IF k = "CapsLock" THEN 58 ELSE IF k = "A" THEN 30
                      ELSE IF k = "RightOfL" THEN 39 ELSE 77
  BY <1>1 DEF Code
<1>3. QED BY <1>1, <1>2, SMT

\* A key struck means what the driver's flags, when they are the keys, store.
LEMMA MeansIsStored ==
  ASSUME NEW k \in Keys, k # "RightArrow", NEW y \in St, Inv,
         Told(held, {}, capsOn, y)
  PROVE  Means(k) = Stored(g_layout, y, Code[k])
<1>1. Shifted(y) <=> held \cap Shifts # {}
  BY DEF Told, Shifted, Shifts
<1>2. capsOn \in {0, 1} /\ y[3] = capsOn /\ g_layout \in {"US", "ES"}
  BY DEF Inv, TypeOK, Told, Layouts
<1>3. CASE k = "A"
  <2>1. Code[k] = 30 /\ k \in Typing /\ 30 \in (0 .. 127) \ {42, 54, 58}
    BY <1>3, Codes, SMT DEF Typing
  <2>2. g_shift(g_layout, 30) = 65 /\ g_unshift(g_layout, 30) = 97
    BY Tables
  <2>3. Cased(y, 65) = (IF y[3] = 1 /\ Shifted(y) THEN 97 ELSE 65) /\
        Cased(y, 97) = (IF y[3] = 1 /\ ~Shifted(y) THEN 65 ELSE 97)
    BY SMT DEF Cased
  <2>4. Stored(g_layout, y, Code[k]) =
          IF Shifted(y) THEN (IF capsOn = 1 THEN 97 ELSE 65) ELSE (IF capsOn = 1 THEN 65 ELSE 97)
    <3>1. CASE Shifted(y)
      BY <1>2, <2>1, <2>2, <2>3, <3>1 DEF Stored
    <3>2. CASE ~Shifted(y)
      BY <1>2, <2>1, <2>2, <2>3, <3>2 DEF Stored
    <3>3. QED BY <3>1, <3>2
  <2>5. Means(k) =
          IF held \cap Shifts # {} THEN (IF capsOn = 1 THEN 97 ELSE 65) ELSE (IF capsOn = 1 THEN 65 ELSE 97)
    <3>1. Means(k) = IF (held \cap Shifts # {}) # (capsOn = 1) THEN 65 ELSE 97
      BY <1>3, <2>1 DEF Means, Plain, Upper
    <3>2. CASE held \cap Shifts # {}
      <4>1. (held \cap Shifts # {}) = TRUE
        BY <3>2
      <4>2. CASE capsOn = 1
        BY <3>1, <4>1, <4>2
      <4>3. CASE capsOn # 1
        BY <3>1, <4>1, <4>3
      <4>4. QED BY <4>2, <4>3
    <3>3. CASE held \cap Shifts = {}
      <4>1. (held \cap Shifts # {}) = FALSE
        BY <3>3
      <4>2. CASE capsOn = 1
        BY <3>1, <4>1, <4>2
      <4>3. CASE capsOn # 1
        BY <3>1, <4>1, <4>3
      <4>4. QED BY <4>2, <4>3
    <3>4. QED BY <3>2, <3>3
  <2>6. QED
    <3>1. CASE Shifted(y)
      BY <1>1, <2>4, <2>5, <3>1
    <3>2. CASE ~Shifted(y)
      BY <1>1, <2>4, <2>5, <3>2
    <3>3. QED BY <3>1, <3>2
<1>4. CASE k = "RightOfL"
  <2>1. Code[k] = 39 /\ k \in Typing /\ k # "A" /\ 39 \in (0 .. 127) \ {42, 54, 58}
    BY <1>4, Codes, SMT DEF Typing
  <2>2. /\ g_shift(g_layout, 39) = IF g_layout = "US" THEN 58 ELSE -91
        /\ g_unshift(g_layout, 39) = IF g_layout = "US" THEN 59 ELSE -92
    <3>1. 39 # 30
      BY SMT
    <3>2. QED BY <3>1, Tables
  <2>3. Cased(y, 58) = 58 /\ Cased(y, 59) = 59 /\ Cased(y, -91) = -91 /\ Cased(y, -92) = -92
    BY SMT DEF Cased
  <2>4. Stored(g_layout, y, Code[k]) =
          IF Shifted(y) THEN Upper(g_layout, k) ELSE Plain(g_layout, k)
    BY <2>1, <2>2, <2>3 DEF Stored, Upper, Plain
  <2>5. QED BY <1>1, <2>1, <2>4 DEF Means
<1>5. CASE k \in {"LShift", "RShift", "CapsLock"}
  <2>1. Code[k] \in {42, 54, 58} /\ k \notin Typing
    BY <1>5, Codes DEF Typing
  <2>2. QED BY <2>1 DEF Stored, Means
<1>6. QED BY <1>3, <1>4, <1>5, Codes

LEMMA MeansType ==
  ASSUME NEW k
  PROVE  Means(k) \in Char \cup {Nul}
BY SMT DEF Means, Plain, Upper, Char, Nul

LEMMA MakeMoves ==
  ASSUME Inv, NEW k \in Keys, k # "RightArrow", NEW y \in St, Told(held, faked, capsOn, y)
  PROVE  LET m == [byte |-> Code[k], means |-> Means(k), kind |-> Kind]
         IN  Moves(g_layout, <<m>>, y, Step(y, Code[k]))
<1> DEFINE m == [byte |-> Code[k], means |-> Means(k), kind |-> Kind]
<1>1. m \in Msg /\ m.byte = Code[k] /\ m.means = Means(k) /\ m.kind = Kind
  BY Codes, MeansType DEF Msg, Kinds, Kind
<1>2. Sound(g_layout, y, m)
  BY <1>1, MeansIsStored DEF Sound, Kind
<1> HIDE DEF m
<1>3. Moves(g_layout, <<m>>, y, Step(y, Code[k]))
  BY <1>1, <1>2, MovesOne
<1>4. QED BY <1>3 DEF m

LEMMA BreakMoves ==
  ASSUME NEW k \in Keys, NEW y \in St
  PROVE  LET m == [byte |-> Code[k] + 128, means |-> Nul, kind |-> Kind]
         IN  Moves(g_layout, <<m>>, y, Step(y, Code[k] + 128))
<1> DEFINE m == [byte |-> Code[k] + 128, means |-> Nul, kind |-> Kind]
<1>1. m \in Msg /\ m.byte = Code[k] + 128 /\ m.means = Nul
  BY Codes DEF Msg, Kinds, Kind
<1>2. Code[k] + 128 \notin (0 .. 127) \ {42, 54, 58}
  BY Codes, SMT
<1>3. Sound(g_layout, y, m)
  BY <1>1, <1>2 DEF Sound, Stored
<1> HIDE DEF m
<1>4. Moves(g_layout, <<m>>, y, Step(y, Code[k] + 128))
  BY <1>1, <1>3, MovesOne
<1>5. QED BY <1>4 DEF m

\* A make code tells of its key, pressed just now or held already.
LEMMA MakeTells ==
  ASSUME NEW k \in Keys, k # "RightArrow", NEW y \in St, Told(held, faked, capsOn, y),
         capsOn \in {0, 1}
  PROVE  Told(held \cup {k}, faked, IF k = "CapsLock" THEN 1 - capsOn ELSE capsOn,
              Step(y, Code[k]))
<1>1. CASE k = "LShift"
  BY <1>1, Codes DEF Told, Step
<1>2. CASE k = "RShift"
  <2>1. 54 # 42 /\ 54 # 170
    BY SMT
  <2>2. Code[k] = 54 /\ Step(y, Code[k]) = <<y[1], 1, y[3]>>
    BY <1>2, <2>1, Codes DEF Step
  <2>3. QED BY <1>2, <2>2 DEF Told
<1>3. CASE k = "CapsLock"
  <2>1. 58 \notin {42, 54, 170, 182}
    BY SMT
  <2>2. Code[k] = 58 /\ Step(y, Code[k]) = <<y[1], y[2], 1 - y[3]>>
    BY <1>3, <2>1, Codes DEF Step
  <2>3. QED BY <1>3, <2>2 DEF Told
<1>4. CASE k \in {"A", "RightOfL"}
  <2>1. Code[k] \notin {42, 170, 54, 182, 58}
    BY <1>4, Codes, SMT
  <2>2. Step(y, Code[k]) = y
    BY <2>1 DEF Step
  <2>3. QED BY <1>4, <2>2 DEF Told
<1>5. QED BY <1>1, <1>2, <1>3, <1>4, Codes

LEMMA BreakTells ==
  ASSUME NEW k \in Keys, k # "RightArrow", NEW y \in St, Told(held, faked, capsOn, y)
  PROVE  Told(held \ {k}, faked, capsOn, Step(y, Code[k] + 128))
<1>1. CASE k = "LShift"
  <2>1. 42 + 128 = 170 /\ 170 # 42 /\ 0 # 1
    BY SMT
  <2>2. Code[k] + 128 = 170 /\ Step(y, 170) = <<0, y[2], y[3]>>
    BY <1>1, <2>1, Codes DEF Step
  <2>3. QED BY <1>1, <2>1, <2>2 DEF Told
<1>2. CASE k = "RShift"
  <2>1. 54 + 128 = 182 /\ 182 \notin {42, 170, 54} /\ 0 # 1
    BY SMT
  <2>2. Code[k] + 128 = 182 /\ Step(y, 182) = <<y[1], 0, y[3]>>
    BY <1>2, <2>1, Codes DEF Step
  <2>3. QED BY <1>2, <2>1, <2>2 DEF Told
<1>3. CASE k \in {"CapsLock", "A", "RightOfL"}
  <2>1. Code[k] + 128 \notin {42, 170, 54, 182, 58}
    BY <1>3, Codes, SMT
  <2>2. Step(y, Code[k] + 128) = y
    BY <2>1 DEF Step
  <2>3. QED BY <1>3, <2>2 DEF Told
<1>4. QED BY <1>1, <1>2, <1>3, Codes

\* The codes of the extended key itself tell nothing.
LEMMA OtherCodes ==
  ASSUME NEW y \in St, NEW lay
  PROVE  Moves(lay, Ext(77), y, y) /\ Moves(lay, Ext(205), y, y)
<1>1. 77 \in 0 .. 255 /\ 77 \notin {42, 170, 54, 182, 58}
  BY SMT
<1>2. 205 \in 0 .. 255 /\ 205 \notin {42, 170, 54, 182, 58}
  BY SMT
<1>3. Step(y, 77) = y /\ Step(y, 205) = y
  BY <1>1, <1>2 DEF Step
<1>4. Moves(lay, Ext(77), y, Step(y, 77)) /\ Moves(lay, Ext(205), y, Step(y, 205))
  BY <1>1, <1>2, MovesExt
<1>5. QED BY <1>3, <1>4

LEMMA PressInv ==
  ASSUME Inv, NEW k \in Keys, Press(k)
  PROVE  Inv'
<1>1. /\ held' = held \cup {k} /\ newest' = k
      /\ capsOn' = IF k = "CapsLock" THEN 1 - capsOn ELSE capsOn
      /\ UNCHANGED <<g_layout, driver, kbd_buf>>
  BY DEF Press
<1>2. held' \subseteq Keys /\ newest' \in Keys \cup {"none"} /\ capsOn \in {0, 1} /\ faked \subseteq Shifts
  BY <1>1 DEF Inv, TypeOK
<1>3. capsOn' \in {0, 1}
  BY <1>1, <1>2, SMT
<1>4. CASE k # "RightArrow"
  <2> DEFINE bytes == <<[byte |-> Code[k], means |-> Means(k), kind |-> Kind]>>
  <2>1. Sends(bytes) /\ faked' = faked
    BY <1>4 DEF Press, Make
  <2>2. ASSUME NEW y \in St, Told(held, faked, capsOn, y)
        PROVE  \E z : Moves(g_layout, bytes, y, z) /\ Told(held', faked', capsOn', z)
    BY <1>1, <1>2, <1>4, <2>1, <2>2, MakeMoves, MakeTells
  <2> HIDE DEF bytes
  <2>3. QED BY <1>1, <1>2, <1>3, <2>1, <2>2, SendsInv
<1>5. CASE k = "RightArrow"
  <2> DEFINE S == held \cap Shifts  bytes == Hide(S) \o Ext(Code[k])
  <2>1. Sends(bytes) /\ faked' = S /\ "RightArrow" \notin held /\ capsOn' = capsOn /\ Code[k] = 77
    BY <1>1, <1>5, Codes DEF Press
  <2>2. faked' \subseteq Shifts
    BY <2>1
  <2>3. ASSUME NEW y \in St, Told(held, faked, capsOn, y)
        PROVE  \E z : Moves(g_layout, bytes, y, z) /\ Told(held', faked', capsOn', z)
    <3>1. Moves(g_layout, Hide(S), y, Put(y, S, 0))
      BY MovesHide
    <3>2. 0 # 1
      BY SMT
    <3>3. Moves(g_layout, Ext(77), Put(y, S, 0), Put(y, S, 0))
      BY <3>1, OtherCodes DEF Moves
    <3>4. Moves(g_layout, bytes, y, Put(y, S, 0))
      BY <2>1, <3>1, <3>3, MovesTwice
    <3>5. Told(held', faked', capsOn', Put(y, S, 0))
      BY <1>1, <1>5, <2>1, <2>3, <3>2 DEF Told, Put, Shifts
    <3>6. QED BY <3>4, <3>5
  <2> HIDE DEF bytes
  <2>4. QED BY <1>1, <1>2, <1>3, <2>1, <2>2, <2>3, SendsInv
<1>6. QED BY <1>4, <1>5

LEMMA RepeatInv ==
  ASSUME Inv, Repeat
  PROVE  Inv'
<1>1. /\ newest \in held /\ newest \in Keys /\ held \cup {newest} = held
      /\ capsOn' = IF newest = "CapsLock" THEN 1 - capsOn ELSE capsOn
      /\ UNCHANGED <<g_layout, driver, kbd_buf>> /\ held' = held /\ faked' = faked /\ newest' = newest
  BY DEF Repeat, Inv, TypeOK
<1>2. held' \subseteq Keys /\ newest' \in Keys \cup {"none"} /\ capsOn \in {0, 1} /\ faked' \subseteq Shifts
  BY <1>1 DEF Inv, TypeOK
<1>3. capsOn' \in {0, 1}
  BY <1>1, <1>2, SMT
<1>4. CASE newest # "RightArrow"
  <2> DEFINE bytes == <<[byte |-> Code[newest], means |-> Means(newest), kind |-> Kind]>>
  <2>1. Sends(bytes)
    BY <1>4 DEF Repeat, Make
  <2>2. ASSUME NEW y \in St, Told(held, faked, capsOn, y)
        PROVE  \E z : Moves(g_layout, bytes, y, z) /\ Told(held', faked', capsOn', z)
    <3>1. Moves(g_layout, bytes, y, Step(y, Code[newest]))
      BY <1>1, <1>4, <2>2, MakeMoves
    <3>2. Told(held \cup {newest}, faked, capsOn', Step(y, Code[newest]))
      BY <1>1, <1>2, <1>4, <2>2, MakeTells
    <3>3. QED BY <1>1, <3>1, <3>2
  <2> HIDE DEF bytes
  <2>3. QED BY <1>1, <1>2, <1>3, <2>1, <2>2, SendsInv
<1>5. CASE newest = "RightArrow"
  <2>1. Sends(Ext(77)) /\ capsOn' = capsOn
    BY <1>1, <1>5, Codes DEF Repeat, Make
  <2>3. ASSUME NEW y \in St, Told(held, faked, capsOn, y)
        PROVE  \E z : Moves(g_layout, Ext(77), y, z) /\ Told(held', faked', capsOn', z)
    <3>1. Moves(g_layout, Ext(77), y, y)
      BY OtherCodes
    <3>2. QED BY <1>1, <2>1, <2>3, <3>1
  <2>4. QED BY <1>1, <1>2, <1>3, <2>1, <2>3, SendsInv
<1>6. QED BY <1>4, <1>5

LEMMA ReleaseInv ==
  ASSUME Inv, NEW k \in Keys, Release(k)
  PROVE  Inv'
<1>1. /\ k \in held /\ held' = held \ {k} /\ newest' \in {newest, "none"} /\ capsOn' = capsOn
      /\ UNCHANGED <<g_layout, driver, kbd_buf>>
  BY DEF Release
<1>2. held' \subseteq Keys /\ newest' \in Keys \cup {"none"} /\ capsOn' \in {0, 1} /\ faked \subseteq Shifts
  BY <1>1 DEF Inv, TypeOK
<1>3. CASE k # "RightArrow"
  <2> DEFINE bytes == <<[byte |-> Code[k] + 128, means |-> Nul, kind |-> Kind]>>
  <2>1. Sends(bytes) /\ faked' = faked
    BY <1>3 DEF Release
  <2>2. ASSUME NEW y \in St, Told(held, faked, capsOn, y)
        PROVE  \E z : Moves(g_layout, bytes, y, z) /\ Told(held', faked', capsOn', z)
    BY <1>1, <1>3, <2>1, <2>2, BreakMoves, BreakTells
  <2> HIDE DEF bytes
  <2>3. QED BY <1>1, <1>2, <2>1, <2>2, SendsInv
<1>4. CASE k = "RightArrow"
  <2> DEFINE S == faked \cap held  bytes == Ext(Code[k] + 128) \o Show(S)
  <2>1. Sends(bytes) /\ faked' = {} /\ Code[k] + 128 = 205
    <3>1. 77 + 128 = 205
      BY SMT
    <3>2. QED BY <1>4, <3>1, Codes DEF Release
  <2>2. faked' \subseteq Shifts
    BY <2>1
  <2>3. ASSUME NEW y \in St, Told(held, faked, capsOn, y)
        PROVE  \E z : Moves(g_layout, bytes, y, z) /\ Told(held', faked', capsOn', z)
    <3>1. 0 # 1
      BY SMT
    <3>2. Moves(g_layout, Ext(205), y, y)
      BY OtherCodes
    <3>3. Moves(g_layout, Show(S), y, Put(y, S, 1))
      BY MovesShow
    <3>4. Moves(g_layout, bytes, y, Put(y, S, 1))
      BY <2>1, <3>2, <3>3, MovesTwice
    <3>5. Told(held', faked', capsOn', Put(y, S, 1))
      BY <1>1, <1>4, <2>1, <2>3, <3>1 DEF Told, Put
    <3>6. QED BY <3>4, <3>5
  <2> HIDE DEF bytes
  <2>4. QED BY <1>1, <1>2, <2>1, <2>2, <2>3, SendsInv
<1>5. QED BY <1>3, <1>4

-----------------------------------------------------------------------------
(* The handler's steps: each moves the flags and the buffer as the byte at the *)
(* head of the wire says.                                                     *)

LEMMA FlagsType ==
  TypeOK => Flags \in St /\ seen_e0 \in {0, 1}
BY DEF TypeOK, driver, Flags, St

LEMMA DecodeIsStored ==
  ASSUME TypeOK
  PROVE  Decode = Cased(Flags, IF Shifted(Flags) THEN g_shift(g_layout, sc) ELSE g_unshift(g_layout, sc))
<1>1. Flags[1] = s_left_shift /\ Flags[2] = s_right_shift /\ Flags[3] = s_caps
  BY DEF Flags
<1>2. Shift <=> Shifted(Flags)
  BY <1>1 DEF Shift, Shifted
<1>3. QED BY <1>1, <1>2 DEF Decode, Capital, Cased

LEMMA Handled ==
  ASSUME TypeOK, kbd_isr, sc \in 0 .. 255
  PROVE  /\ wire # <<>> /\ wire' = Tail(wire) /\ UNCHANGED <<g_layout, keyboard>>
         /\ Flags' = Step(Flags, sc) /\ seen_e0' \in {0, 1}
         /\ LET ch == Stored(g_layout, Flags, sc)
            IN  kbd_buf' = IF ch # Nul /\ Len(kbd_buf) < CAPACITY THEN Append(kbd_buf, ch) ELSE kbd_buf
<1>1. /\ Flags = <<s_left_shift, s_right_shift, s_caps>>
      /\ Flags' = <<s_left_shift', s_right_shift', s_caps'>>
      /\ Flags[1] = s_left_shift /\ Flags[2] = s_right_shift /\ Flags[3] = s_caps
      /\ seen_e0 \in {0, 1}
  BY FlagsType DEF Flags
<1>2. CASE isr_prefix
  <2>1. sc = 224 /\ 224 \notin {42, 170, 54, 182, 58} /\ 224 \notin (0 .. 127) \ {42, 54, 58}
    BY <1>2, SMT DEF isr_prefix, Reads, E0
  <2>2. Step(Flags, sc) = Flags /\ Stored(g_layout, Flags, sc) = Nul
    BY <2>1 DEF Step, Stored
  <2>3. QED BY <1>1, <1>2, <2>2 DEF isr_prefix, Reads
<1>3. CASE isr_break
  <2>1. sc \in 128 .. 255 /\ sc \notin (0 .. 127) \ {42, 54, 58} /\ sc \notin {42, 54, 58}
        /\ (sc - 128 = 42 <=> sc = 170) /\ (sc - 128 = 54 <=> sc = 182) /\ 170 # 182
    BY <1>3, SMT DEF isr_break, Reads
  <2>2. Stored(g_layout, Flags, sc) = Nul
    BY <2>1 DEF Stored
  <2>3. Step(Flags, sc) = <<IF sc = 170 THEN 0 ELSE s_left_shift,
                            IF sc = 182 THEN 0 ELSE s_right_shift, s_caps>>
    BY <1>1, <2>1 DEF Step
  <2>4. Flags' = Step(Flags, sc)
    BY <1>1, <1>3, <2>1, <2>3 DEF isr_break, LetGo
  <2>5. QED BY <1>1, <1>3, <2>2, <2>4 DEF isr_break, Reads
<1>4. CASE isr_modifier
  <2>1. sc \in {42, 54, 58} /\ 42 # 54 /\ 42 # 58 /\ 54 # 58 /\ 170 \notin {42, 54, 58} /\ 182 \notin {42, 54, 58}
    BY <1>4, SMT DEF isr_modifier, Reads
  <2>2. Stored(g_layout, Flags, sc) = Nul
    BY <2>1 DEF Stored
  <2>3. Step(Flags, sc) = <<IF sc = 42 THEN 1 ELSE s_left_shift,
                            IF sc = 54 THEN 1 ELSE s_right_shift,
                            IF sc = 58 THEN 1 - s_caps ELSE s_caps>>
    BY <1>1, <2>1 DEF Step
  <2>4. Flags' = Step(Flags, sc)
    BY <1>1, <1>4, <2>3 DEF isr_modifier
  <2>5. QED BY <1>1, <1>4, <2>2, <2>4 DEF isr_modifier, Reads
<1>5. CASE isr_make
  <2>1. sc \in (0 .. 127) \ {42, 54, 58} /\ 170 \notin 0 .. 127 /\ 182 \notin 0 .. 127
    BY <1>5, SMT DEF isr_make, Reads
  <2>2. Stored(g_layout, Flags, sc) = Decode
    BY <2>1, DecodeIsStored DEF Stored
  <2>3. Step(Flags, sc) = Flags
    BY <1>1, <2>1 DEF Step
  <2>4. Flags' = Flags /\ seen_e0' = seen_e0
    BY <1>1, <1>5 DEF isr_make, driver
  <2>5. QED BY <1>1, <1>5, <2>2, <2>3, <2>4 DEF isr_make, Reads, kbd_put
<1>6. QED BY <1>2, <1>3, <1>4, <1>5 DEF kbd_isr

LEMMA Rings ==
  ASSUME TypeOK, NEW ch \in Char, Len(kbd_buf) < CAPACITY
  PROVE  Append(kbd_buf, ch) \in Seq(Char) /\ Len(Append(kbd_buf, ch)) <= CAPACITY
<1>1. Append(kbd_buf, ch) \in Seq(Char) /\ Len(Append(kbd_buf, ch)) = Len(kbd_buf) + 1
  BY AppendProperties DEF TypeOK
<1>2. Len(kbd_buf) \in Nat
  BY LenProperties DEF TypeOK
<1>3. QED BY <1>1, <1>2, BoundsAssumption, SMT

\* The head of the wire is sound with the flags as they are now.
LEMMA HeadIsSound ==
  ASSUME Inv, wire # <<>>
  PROVE  /\ sc \in 0 .. 255 /\ Sound(g_layout, Flags, Head(wire))
         /\ \E y : Moves(g_layout, Tail(wire), Step(Flags, sc), y) /\ Told(held, faked, capsOn, y)
<1>1. PICK y : Moves(g_layout, wire, Flags, y) /\ Told(held, faked, capsOn, y)
  BY DEF Inv
<1>2. /\ Path(g_layout, Tail(wire), Step(Flags, sc), y) /\ Sound(g_layout, Flags, Head(wire))
      /\ Head(wire) \in Msg /\ Tail(wire) \in Seq(Msg)
  BY <1>1, PathTail DEF Moves, sc
<1>3. Moves(g_layout, Tail(wire), Step(Flags, sc), y)
  BY <1>1, <1>2, StepType DEF Moves
<1>4. QED BY <1>1, <1>2, <1>3 DEF Msg, sc

LEMMA HandlerInv ==
  ASSUME Inv, kbd_isr
  PROVE  Inv'
<1>1. TypeOK /\ wire # <<>>
  BY DEF Inv, kbd_isr, isr_prefix, isr_break, isr_modifier, isr_make, Reads
<1>2. PICK y : Moves(g_layout, Tail(wire), Step(Flags, sc), y) /\ Told(held, faked, capsOn, y)
  BY <1>1, HeadIsSound
<1>3. sc \in 0 .. 255
  BY <1>1, HeadIsSound
<1> DEFINE ch == Stored(g_layout, Flags, sc)
<1>4. /\ wire' = Tail(wire) /\ g_layout' = g_layout
      /\ held' = held /\ capsOn' = capsOn /\ faked' = faked /\ newest' = newest
      /\ Flags' = Step(Flags, sc) /\ seen_e0' \in {0, 1}
      /\ kbd_buf' = IF ch # Nul /\ Len(kbd_buf) < CAPACITY THEN Append(kbd_buf, ch) ELSE kbd_buf
  BY <1>1, <1>3, Handled DEF keyboard
<1>5. Moves(g_layout', wire', Flags', y) /\ Told(held', faked', capsOn', y)
  BY <1>2, <1>4
<1>6. ch \in Char \cup {Nul}
  BY StoredType
<1> HIDE DEF ch
<1>7. kbd_buf' \in Seq(Char) /\ Len(kbd_buf') <= CAPACITY
  BY <1>1, <1>4, <1>6, Rings DEF TypeOK
<1>8. driver' \in {0, 1} \X {0, 1} \X {0, 1} \X {0, 1}
  <2>1. Flags' \in St
    BY <1>5 DEF Moves
  <2>2. s_left_shift' \in {0, 1} /\ s_right_shift' \in {0, 1} /\ s_caps' \in {0, 1}
    BY <2>1 DEF Flags, St
  <2>3. QED BY <1>4, <2>2 DEF driver
<1>9. wire' \in Seq(Msg)
  BY <1>5 DEF Moves
<1>10. TypeOK'
  BY <1>1, <1>4, <1>7, <1>8, <1>9 DEF TypeOK, Msg, Kinds
<1>11. QED BY <1>5, <1>10 DEF Inv

LEMMA TakeInv ==
  ASSUME Inv, kbd_getchar
  PROVE  Inv'
<1>1. /\ kbd_buf # <<>> /\ kbd_buf' = Tail(kbd_buf)
      /\ UNCHANGED <<g_layout, driver, keyboard, wire>> /\ Flags' = Flags
  BY DEF kbd_getchar, driver, Flags
<1>2. kbd_buf \in Seq(Char) /\ Len(kbd_buf) <= CAPACITY
  BY DEF Inv, TypeOK
<1>3. kbd_buf' \in Seq(Char) /\ Len(kbd_buf') = Len(kbd_buf) - 1 /\ Len(kbd_buf) \in Nat
  BY <1>1, <1>2, HeadTailProperties, LenProperties
<1>4. Len(kbd_buf') <= CAPACITY
  BY <1>2, <1>3, BoundsAssumption, SMT
<1>5. TypeOK'
  BY <1>1, <1>3, <1>4 DEF Inv, TypeOK, keyboard, driver
<1>6. QED BY <1>1, <1>5 DEF Inv, keyboard

LEMMA NextInv == Inv /\ [Next]_vars => Inv'
<1> SUFFICES ASSUME Inv, [Next]_vars PROVE Inv'
  OBVIOUS
<1>1. CASE UNCHANGED vars
  <2>1. UNCHANGED <<g_layout, driver, kbd_buf, keyboard, wire>> /\ Flags' = Flags
    BY <1>1 DEF vars, driver, Flags
  <2>2. TypeOK'
    BY <2>1 DEF Inv, TypeOK, keyboard, driver
  <2>3. QED BY <2>1, <2>2 DEF Inv, keyboard
<1>2. QED
  BY <1>1, PressInv, ReleaseInv, RepeatInv, HandlerInv, TakeInv DEF Next

LEMMA SpecInv == Spec => []Inv
BY InitInv, NextInv, PTL DEF Spec

\* Whatever the keyboard does, it sends bytes.
LEMMA KeyboardSends ==
  ASSUME Inv, (\E k \in Keys : Press(k) \/ Release(k)) \/ Repeat
  PROVE  \E bytes \in Seq(Msg) : Sends(bytes)
<1>1. PICK y : y \in St
  <2>1. <<0, 0, 0>> \in St
    BY DEF St
  <2>2. QED BY <2>1
<1>2. \A b \in 0 .. 255 : Ext(b) \in Seq(Msg)
  BY <1>1, MovesExt DEF Moves
<1>3. \A S : Hide(S) \in Seq(Msg) /\ Show(S) \in Seq(Msg)
  BY <1>1, MovesHide, MovesShow DEF Moves
<1>4. \A j \in Keys : /\ <<[byte |-> Code[j], means |-> Means(j), kind |-> Kind]>> \in Seq(Msg)
                      /\ <<[byte |-> Code[j] + 128, means |-> Nul, kind |-> Kind]>> \in Seq(Msg)
                      /\ Code[j] \in 0 .. 255 /\ Code[j] + 128 \in 0 .. 255
  BY Codes, MeansType DEF Msg, Kinds, Kind
<1>5. \A u, w \in Seq(Msg) : u \o w \in Seq(Msg)
  BY ConcatProperties
<1>6. ASSUME NEW k \in Keys, Press(k) PROVE \E bytes \in Seq(Msg) : Sends(bytes)
  BY <1>2, <1>3, <1>4, <1>5, <1>6 DEF Press, Make
<1>7. ASSUME NEW k \in Keys, Release(k) PROVE \E bytes \in Seq(Msg) : Sends(bytes)
  BY <1>2, <1>3, <1>4, <1>5, <1>7 DEF Release
<1>8. CASE Repeat
  <2>1. newest \in Keys
    BY <1>8 DEF Repeat, Inv, TypeOK
  <2>2. QED BY <1>2, <1>4, <1>8, <2>1 DEF Repeat, Make
<1>9. QED BY <1>6, <1>7, <1>8

-----------------------------------------------------------------------------
(* The theorems.                                                              *)

(* Every variable keeps its type and the buffer its capacity                  *)
(* (keyboard.c:6-13, 22-25), whatever is typed.                              *)
THEOREM TypesAreKept == Spec => []TypeOK
<1>1. Inv => TypeOK
  BY DEF Inv
<1>2. QED BY <1>1, SpecInv, PTL

(* Once the bytes under way are read, the driver's shifts and CapsLock are the *)
(* keyboard's (keyboard.c:138-147), for any number of keys and bytes.         *)
THEOREM FlagsAreTheKeys == Spec => []FlagsFollowKeys
<1>1. Inv => FlagsFollowKeys
  <2> SUFFICES ASSUME Inv, wire = <<>>, "RightArrow" \notin held
               PROVE  /\ (s_left_shift = 1)  <=> "LShift" \in held
                      /\ (s_right_shift = 1) <=> "RShift" \in held
                      /\ s_caps = capsOn
    BY DEF FlagsFollowKeys
  <2>1. PICK y : Moves(g_layout, wire, Flags, y) /\ Told(held, faked, capsOn, y)
    BY DEF Inv
  <2>2. Flags = y
    BY <2>1, PathOfEmpty DEF Moves
  <2>3. y[1] = s_left_shift /\ y[2] = s_right_shift /\ y[3] = s_caps
    BY <2>2 DEF Flags
  <2>4. QED BY <2>1, <2>3 DEF Told
<1>2. QED BY <1>1, SpecInv, PTL

(* A plain key's byte stores what its stroke meant when it was struck, however *)
(* many bytes and keys came between (keyboard.c:149-166, 22-25).              *)
THEOREM StrokesAreStored == Spec => StoresWhatWasStruck
<1> DEFINE Stores ==
      HandlerRan /\ Head(wire).kind = "plain" =>
        kbd_buf' = IF Head(wire).means = Nul \/ Len(kbd_buf) = CAPACITY
                   THEN kbd_buf ELSE Append(kbd_buf, Head(wire).means)
<1>1. Inv /\ [Next]_vars => [Stores]_vars
  <2> SUFFICES ASSUME Inv, Next, HandlerRan, Head(wire).kind = "plain"
               PROVE  kbd_buf' = IF Head(wire).means = Nul \/ Len(kbd_buf) = CAPACITY
                                 THEN kbd_buf ELSE Append(kbd_buf, Head(wire).means)
    OBVIOUS
  <2>1. wire # <<>> /\ wire' = Tail(wire) /\ wire \in Seq(Msg) /\ TypeOK
    BY DEF HandlerRan, Inv, Moves
  <2>2. Len(wire) \in Nat /\ Len(wire') = Len(wire) - 1
    BY <2>1, HeadTailProperties, LenProperties
  <2>3. kbd_isr
    <3>1. ~kbd_getchar
      <4>1. Len(wire) - 1 # Len(wire)
        BY <2>2, SMT
      <4>2. QED BY <2>2, <4>1 DEF kbd_getchar
    <3>2. \A bytes \in Seq(Msg) : ~Sends(bytes)
      <4> SUFFICES ASSUME NEW bytes \in Seq(Msg), Sends(bytes) PROVE FALSE
        OBVIOUS
      <4>1. Len(wire') = Len(wire) + Len(bytes) /\ Len(bytes) \in Nat
        BY <2>1, ConcatProperties, LenProperties DEF Sends
      <4>2. QED BY <2>2, <4>1, SMT
    <3>3. ~Repeat /\ ~(\E k \in Keys : Press(k) \/ Release(k))
      BY <3>2, KeyboardSends
    <3>4. QED BY <3>1, <3>3 DEF Next
  <2>4. Sound(g_layout, Flags, Head(wire)) /\ sc \in 0 .. 255
    BY <2>1, HeadIsSound
  <2>5. Head(wire).means = Stored(g_layout, Flags, sc)
    BY <2>4 DEF Sound, sc
  <2>6. Len(kbd_buf) \in Nat /\ Len(kbd_buf) <= CAPACITY
    BY <2>1, LenProperties DEF TypeOK
  <2>7. Len(kbd_buf) < CAPACITY <=> Len(kbd_buf) # CAPACITY
    BY <2>6, BoundsAssumption, SMT
  <2>8. QED BY <2>1, <2>3, <2>4, <2>5, <2>7, Handled
<1>2. QED BY <1>1, SpecInv, PTL DEF Spec, StoresWhatWasStruck
=============================================================================

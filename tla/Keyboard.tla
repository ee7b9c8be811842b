------------------------------ MODULE Keyboard ------------------------------
(* The keyboard driver's decoder, kbd_isr (kernel/src/drivers/keyboard.c), fed *)
(* by a PS/2 keyboard that speaks scan code set 1.  The bytes of a stroke     *)
(* wait on the wire while other keys go down and up, so a byte is decoded     *)
(* later than it was caused; the handler knows the keys only from the bytes.  *)
(*                                                                            *)
(* The handler runs with interrupts disabled: each byte is one step.  The     *)
(* circular buffer is the queue that KbdRing is shown to implement.  The      *)
(* keyboard itself is hardware, modelled from the set the tables decode.      *)
EXTENDS Integers, Sequences, FiniteSets

CONSTANTS CAPACITY,   \* characters the buffer holds (KBD_BUF_SIZE - 1)
          MAXWIRE,    \* bound: bytes under way
          MAXHELD     \* bound: keys held down together

ASSUME BoundsAssumption == CAPACITY \in Nat /\ MAXWIRE \in Nat /\ MAXHELD \in Nat

(* Keys and their make codes: two that type (Right of L is ";" on a US and     *)
(* n-tilde on a Spanish keyboard), the modifiers, and one key of the extended *)
(* block, whose codes follow an 0xE0 byte.                                    *)
Code == [LShift |-> 42, RShift |-> 54, CapsLock |-> 58, A |-> 30, RightOfL |-> 39,
         RightArrow |-> 77]
Keys   == DOMAIN Code
Shifts == {"LShift", "RShift"}
Typing == {"A", "RightOfL"}
E0     == 224

Layouts == {"US", "ES"}
Nul     == 0

\* The entries of sc_us_*, sc_es_*: char is signed, 0xA4 and 0xA5 are negative.
g_unshift(lay, code) ==
  CASE code = 30 -> 97
    [] code = 39 -> IF lay = "US" THEN 59 ELSE -92
    [] code = 77 -> 45
    [] OTHER   -> Nul
g_shift(lay, code) ==
  CASE code = 30 -> 65
    [] code = 39 -> IF lay = "US" THEN 58 ELSE -91
    [] code = 77 -> 45
    [] OTHER   -> Nul

Char == {97, 65, 59, 58, -92, -91, 45}

VARIABLES
  g_layout,                   \* selected before interrupts are enabled
  s_left_shift, s_right_shift, s_caps, seen_e0,   \* the driver's memory, 0 or 1
  kbd_buf,                    \* the characters stored and not yet taken
  held, capsOn,               \* keys down; CapsLock codes sent, modulo 2
  faked,                      \* shifts the keyboard hides for an extended key
  newest,                     \* the key that repeats: the last one pressed
  wire                        \* bytes sent and not yet read from port 0x60

driver   == <<s_left_shift, s_right_shift, s_caps, seen_e0>>
keyboard == <<held, capsOn, faked, newest>>
vars == <<g_layout, driver, kbd_buf, keyboard, wire>>

Init ==
  /\ g_layout \in Layouts
  /\ s_left_shift = 0 /\ s_right_shift = 0 /\ s_caps = 0 /\ seen_e0 = 0
  /\ kbd_buf = <<>>
  /\ held = {} /\ capsOn = 0 /\ faked = {} /\ newest = "none"
  /\ wire = <<>>

-----------------------------------------------------------------------------
(* The keyboard.  Every byte carries, for the properties, the character that   *)
(* its stroke means given the keys held at that moment, and its kind: part of  *)
(* an extended key, a plain one, or one struck while shifts were hidden.      *)

Plain(lay, k) == IF k = "A" THEN 97 ELSE IF lay = "US" THEN 59 ELSE -92
Upper(lay, k) == IF k = "A" THEN 65 ELSE IF lay = "US" THEN 58 ELSE -91

\* CapsLock exchanges the two characters of a letter's key.
Means(k) ==
  IF k \notin Typing THEN Nul
  ELSE IF (held \cap Shifts # {}) # (k = "A" /\ capsOn = 1)
       THEN Upper(g_layout, k) ELSE Plain(g_layout, k)

Kind == IF faked = {} THEN "plain" ELSE "hidden"

Ext(byte)   == <<[byte |-> E0, means |-> Nul, kind |-> "ext"],
                 [byte |-> byte, means |-> Nul, kind |-> "ext"]>>
Hide(S)     == (IF "LShift" \in S THEN Ext(170) ELSE <<>>)
               \o (IF "RShift" \in S THEN Ext(182) ELSE <<>>)
Show(S)     == (IF "LShift" \in S THEN Ext(42) ELSE <<>>)
               \o (IF "RShift" \in S THEN Ext(54) ELSE <<>>)

Sends(bytes) == Len(wire) + Len(bytes) <= MAXWIRE /\ wire' = wire \o bytes

Make(k) ==
  IF k = "RightArrow" THEN Sends(Ext(Code[k]))
  ELSE Sends(<<[byte |-> Code[k], means |-> Means(k), kind |-> Kind]>>)

Press(k) ==
  /\ k \notin held /\ Cardinality(held) < MAXHELD
  /\ held' = held \cup {k}
  /\ newest' = k
  /\ capsOn' = IF k = "CapsLock" THEN 1 - capsOn ELSE capsOn
  /\ IF k = "RightArrow"
     THEN Sends(Hide(held \cap Shifts) \o Ext(Code[k])) /\ faked' = held \cap Shifts
     ELSE Make(k) /\ UNCHANGED faked
  /\ UNCHANGED <<g_layout, driver, kbd_buf>>

\* Typematic repetition: the make code again, CapsLock's too.
Repeat ==
  /\ newest \in held
  /\ Make(newest)
  /\ capsOn' = IF newest = "CapsLock" THEN 1 - capsOn ELSE capsOn
  /\ UNCHANGED <<g_layout, driver, kbd_buf, held, faked, newest>>

Release(k) ==
  /\ k \in held
  /\ held' = held \ {k}
  /\ IF k = "RightArrow"
     THEN Sends(Ext(Code[k] + 128) \o Show(faked \cap held)) /\ faked' = {}
     ELSE /\ Sends(<<[byte |-> Code[k] + 128, means |-> Nul, kind |-> Kind]>>)
          /\ UNCHANGED faked
  /\ newest' = IF k = newest THEN "none" ELSE newest
  /\ UNCHANGED <<g_layout, driver, kbd_buf, capsOn>>

-----------------------------------------------------------------------------
(* The handler: one byte read from port 0x60.                                  *)

sc == Head(wire).byte
Reads(codes) == wire # <<>> /\ sc \in codes /\ wire' = Tail(wire)
                /\ UNCHANGED <<g_layout, keyboard>>

\* The prefix of the extended keys is noted, and never looked at again.
isr_prefix ==
  /\ Reads({E0})
  /\ seen_e0' = 1
  /\ UNCHANGED <<s_left_shift, s_right_shift, s_caps, kbd_buf>>

\* Mutant: any break code ends the right shift.
Both_LetGo(make) ==
  /\ s_left_shift'  = IF make = 42 THEN 0 ELSE s_left_shift
  /\ s_right_shift' = IF make \in {42, 54} THEN 0 ELSE s_right_shift
LetGo(make) ==
  /\ s_left_shift'  = IF make = 42 THEN 0 ELSE s_left_shift
  /\ s_right_shift' = IF make = 54 THEN 0 ELSE s_right_shift

isr_break ==
  /\ Reads(128 .. 255 \ {E0})
  /\ LetGo(sc - 128)
  /\ UNCHANGED <<s_caps, seen_e0, kbd_buf>>

isr_modifier ==
  /\ Reads({42, 54, 58})
  /\ s_left_shift'  = IF sc = 42 THEN 1 ELSE s_left_shift
  /\ s_right_shift' = IF sc = 54 THEN 1 ELSE s_right_shift
  /\ s_caps' = IF sc = 58 THEN 1 - s_caps ELSE s_caps
  /\ UNCHANGED <<seen_e0, kbd_buf>>

Shift == s_left_shift = 1 \/ s_right_shift = 1

\* Mutant: CapsLock capitalises, with Shift or without.
Sticky_Capital(ch) == IF s_caps = 1 /\ ~Shift /\ ch \in 97 .. 122 THEN ch - 32 ELSE ch
\* CapsLock swaps the case of the ASCII letters, and of no other character.
Capital(ch) ==
  IF s_caps = 1 /\ ~Shift /\ ch \in 97 .. 122 THEN ch - 32
  ELSE IF s_caps = 1 /\ Shift /\ ch \in 65 .. 90 THEN ch + 32
  ELSE ch

Decode == Capital(IF Shift THEN g_shift(g_layout, sc) ELSE g_unshift(g_layout, sc))

\* Mutant: a full buffer loses its oldest character.
Oldest_kbd_put(ch) == kbd_buf' = IF Len(kbd_buf) < CAPACITY THEN Append(kbd_buf, ch)
                                 ELSE Append(Tail(kbd_buf), ch)
\* Mutant: the full test is off by one.
Over_kbd_put(ch) == kbd_buf' = IF Len(kbd_buf) <= CAPACITY THEN Append(kbd_buf, ch) ELSE kbd_buf
kbd_put(ch) == kbd_buf' = IF Len(kbd_buf) < CAPACITY THEN Append(kbd_buf, ch) ELSE kbd_buf

isr_make ==
  /\ Reads(0 .. 127 \ {42, 54, 58})
  /\ IF Decode # Nul THEN kbd_put(Decode) ELSE UNCHANGED kbd_buf
  /\ UNCHANGED driver

kbd_isr == isr_prefix \/ isr_break \/ isr_modifier \/ isr_make

-----------------------------------------------------------------------------
(* The program takes a character.                                             *)
kbd_getchar ==
  /\ kbd_buf # <<>>
  /\ kbd_buf' = Tail(kbd_buf)
  /\ UNCHANGED <<g_layout, driver, keyboard, wire>>

Next ==
  \/ \E k \in Keys : Press(k) \/ Release(k)
  \/ Repeat
  \/ kbd_isr
  \/ kbd_getchar

Spec == Init /\ [][Next]_vars

-----------------------------------------------------------------------------
TypeOK ==
  /\ g_layout \in Layouts
  /\ driver \in {0, 1} \X {0, 1} \X {0, 1} \X {0, 1}
  /\ kbd_buf \in Seq(Char) /\ Len(kbd_buf) <= CAPACITY
  /\ held \subseteq Keys /\ faked \subseteq Shifts /\ capsOn \in {0, 1}
  /\ newest \in Keys \cup {"none"}
  /\ wire \in Seq([byte : 0 .. 255, means : Char \cup {Nul}, kind : {"plain", "ext", "hidden"}])

(* Once the bytes under way are read, the driver's flags are the keys: its      *)
(* shifts are those held, whatever was pressed, repeated, dropped by a full    *)
(* buffer or hidden around an extended key meanwhile (keyboard.c:138-147).     *)
FlagsFollowKeys ==
  wire = <<>> /\ "RightArrow" \notin held =>
    /\ (s_left_shift = 1)  <=> "LShift" \in held
    /\ (s_right_shift = 1) <=> "RShift" \in held
    /\ s_caps = capsOn

HandlerRan == wire # <<>> /\ wire' = Tail(wire)

(* A plain key's byte stores the character that the keys held when it was       *)
(* struck call for, however late the handler reads it, and nothing else; only  *)
(* a full buffer refuses it (keyboard.c:149-166 and 22-25).                   *)
StoresWhatWasStruck ==
  [][HandlerRan /\ Head(wire).kind = "plain" =>
       kbd_buf' = IF Head(wire).means = Nul \/ Len(kbd_buf) = CAPACITY
                  THEN kbd_buf ELSE Append(kbd_buf, Head(wire).means)]_vars

(* The codes of the extended keys are ignored, as the comment of keyboard.c:135 *)
(* says: they neither type nor move a modifier.                               *)
ExtendedKeysAreIgnored ==
  [][HandlerRan /\ Head(wire).kind = "ext" =>
       UNCHANGED <<s_left_shift, s_right_shift, s_caps, kbd_buf>>]_vars
=============================================================================

----------------------------- MODULE TtyProofs ------------------------------
(* The terminal, proved for every size of the line buffer, of the keyboard      *)
(* buffer and of the screen, every read size, every set of keys and whatever    *)
(* the program writes: the bounds of the line buffer, the types, what each line *)
(* discipline delivers, and what its echo leaves on the screen.                *)
EXTENDS Tty, VgaTextProofs

-----------------------------------------------------------------------------
(* The line buffer.                                                           *)

(* LineInBounds with what it needs to be inductive: the size a read asked for  *)
(* is a natural number.                                                       *)
LineInv == LineInBounds /\ count \in Nat

LEMMA LeastValue ==
  ASSUME NEW h \in Nat, NEW n \in Nat
  PROVE  Least(h, n) \in 0 .. h
BY SMT DEF Least

(* Handing over part of what is owed keeps the rest inside the buffer.         *)
LEMMA DeliverKeepsBounds ==
  ASSUME NEW l, NEW p \in Nat, NEW h \in Nat, NEW n \in Nat,
         p + h <= LINE - 1, Deliver(l, p, h, n)
  PROVE  /\ have' \in 0 .. LINE - 1 /\ pos' \in 0 .. LINE - 1
         /\ pos' + have' <= LINE - 1
<1>1. Least(h, n) \in 0 .. h
  BY LeastValue
<1>2. pos' = p + Least(h, n) /\ have' = h - Least(h, n)
  BY DEF Deliver
<1>3. QED BY <1>1, <1>2, LineAssumption, SMT

LEMMA InitLineInv == Init => LineInv
BY LineAssumption, SMT DEF Init, LineInv, LineInBounds

LEMMA CookedLineInv ==
  ASSUME LineInv, Cooked
  PROVE  LineInv'
<1> USE DEF LineInv, LineInBounds
<1>1. CASE CookedNothing
  BY <1>1 DEF CookedNothing, edit
<1>2. ASSUME NEW c \in KEYS \cup {NL}, CookedErase(c) PROVE LineInv'
  <2>1. /\ pc' = pc /\ count' = count /\ line' = line /\ have' = have /\ pos' = pos
        /\ len' = len \/ (len > 0 /\ len' = len - 1)
    BY <1>2 DEF CookedErase, CanErase
  <2>2. len' \in 0 .. LINE - 1
    BY <2>1, LineAssumption, SMT
  <2>3. QED BY <2>1, <2>2
<1>3. ASSUME NEW c \in KEYS \cup {NL}, CookedEnter(c) PROVE LineInv'
  <2> DEFINE full == len >= LINE - 1
             whole == IF full THEN line ELSE [line EXCEPT ![len] = NL]
             h == IF full THEN len ELSE len + 1
  <2>1. /\ line' = whole /\ Deliver(whole, 0, h, count) /\ len' = 0
        /\ pc' = "app" /\ count' = 0
    BY <1>3 DEF CookedEnter, Return
  <2>2. h \in Nat /\ 0 + h <= LINE - 1
    BY LineAssumption, SMT
  <2>3. whole \in [0 .. LINE - 1 -> KEYS \cup {0, NL}]
    OBVIOUS
  <2> HIDE DEF whole, h
  <2>4. /\ have' \in 0 .. LINE - 1 /\ pos' \in 0 .. LINE - 1
        /\ pos' + have' <= LINE - 1
    BY <2>1, <2>2, DeliverKeepsBounds
  <2>5. len' \in 0 .. LINE - 1
    BY <2>1, LineAssumption, SMT
  <2>6. QED BY <2>1, <2>3, <2>4, <2>5
<1>4. ASSUME NEW c \in KEYS \cup {NL}, CookedStore(c) PROVE LineInv'
  <2>1. /\ pc' = pc /\ count' = count /\ have' = have /\ pos' = pos
        /\ \/ line' = line /\ len' = len
           \/ len + 1 < LINE /\ len' = len + 1 /\ line' = [line EXCEPT ![len] = c]
    BY <1>4 DEF CookedStore, HasSpace
  <2>2. len' \in 0 .. LINE - 1
    BY <2>1, LineAssumption, SMT
  <2>3. line' \in [0 .. LINE - 1 -> KEYS \cup {0, NL}]
    BY <2>1
  <2>4. QED BY <2>1, <2>2, <2>3
<1>5. QED BY <1>1, <1>2, <1>3, <1>4 DEF Cooked

LEMMA RawLineInv ==
  ASSUME LineInv, Raw
  PROVE  LineInv'
<1> USE DEF LineInv, LineInBounds, edit
<1>1. CASE RawTake
  BY <1>1 DEF RawTake
<1>2. ASSUME RawReturn, UNCHANGED edit, pc = "raw" PROVE LineInv'
  <2>1. (pc' = pc /\ count' = count) \/ (pc' = "app" /\ count' = 0)
    BY <1>2 DEF RawReturn, Return
  <2>2. QED BY <1>2, <2>1
<1>3. CASE RawEnd
  BY <1>2, <1>3 DEF RawEnd
<1>4. CASE RawNegative
  BY <1>2, <1>4 DEF RawNegative
<1>5. QED BY <1>1, <1>3, <1>4 DEF Raw

BetweenReads ==
  \/ \E m \in {"raw", "cooked"} : stdin_set_mode(m)
  \/ \E on \in BOOLEAN : stdin_set_echo(on)
  \/ \E ops \in {"ps2", "null"} : stdin_set_backend(ops)
  \/ \E ops \in {"text", "null"} : console_set_backend(ops)
  \/ Clear \/ \E s \in OUTPUTS : _write(s)

LEMMA BetweenReadsIsBetween == BetweenReads => Between
BY DEF BetweenReads, stdin_set_mode, stdin_set_echo, stdin_set_backend, console_set_backend, Clear,
       _write, Shows, Call

LEMMA ProgramParts ==
  Program <=> BetweenReads \/ \E n \in COUNTS : ReadRaw(n) \/ ReadRest(n) \/ ReadLine(n)
BY DEF Program, BetweenReads

LEMMA ProgramLineInv ==
  ASSUME LineInv, Program
  PROVE  LineInv'
<1> USE DEF LineInv, LineInBounds, edit
<1>1. ASSUME Between PROVE LineInv'
  BY <1>1 DEF Between
<1>2. BetweenReads => Between
  BY BetweenReadsIsBetween
<1>3. ASSUME NEW n \in COUNTS, ReadRaw(n) PROVE LineInv'
  BY <1>3, CountsAssumption DEF ReadRaw
<1>4. ASSUME NEW n \in COUNTS, ReadRest(n) PROVE LineInv'
  <2>1. /\ Deliver(line, pos, have, n)
        /\ UNCHANGED <<pc, count, line, len>> /\ pc = "app" /\ n \in Nat
    BY <1>4, CountsAssumption DEF ReadRest
  <2>2. pos \in Nat /\ have \in Nat
    BY LineAssumption, SMT
  <2>3. /\ have' \in 0 .. LINE - 1 /\ pos' \in 0 .. LINE - 1
        /\ pos' + have' <= LINE - 1
    BY <2>1, <2>2, DeliverKeepsBounds
  <2>4. QED BY <2>1, <2>3
<1>5. ASSUME NEW n \in COUNTS, ReadLine(n) PROVE LineInv'
  BY <1>5, CountsAssumption, LineAssumption, SMT DEF ReadLine
<1>6. QED BY <1>1, <1>2, <1>3, <1>4, <1>5, ProgramParts

LEMMA NextLineInv == LineInv /\ [Next]_vars => LineInv'
<1> SUFFICES ASSUME LineInv, [Next]_vars PROVE LineInv'
  OBVIOUS
<1>1. ASSUME NEW c \in KEYS, KeyInterrupt(c) PROVE LineInv'
  BY <1>1 DEF KeyInterrupt, LineInv, LineInBounds, edit
<1>2. CASE TimerInterrupt
  BY <1>2 DEF TimerInterrupt, LineInv, LineInBounds, edit
<1>3. CASE Program
  BY <1>3, ProgramLineInv
<1>4. CASE Cooked
  BY <1>4, CookedLineInv
<1>5. CASE Raw
  BY <1>5, RawLineInv
<1>6. CASE Halt
  BY <1>6 DEF Halt, LineInv, LineInBounds, edit
<1>7. CASE UNCHANGED vars
  BY <1>7 DEF vars, LineInv, LineInBounds, edit
<1>8. QED
  BY <1>1, <1>2, <1>3, <1>4, <1>5, <1>6, <1>7 DEF Next

(* For every size of line, read and keyboard, _read stores and copies only      *)
(* inside its line buffer, and never starts a line while bytes are owed         *)
(* (stubs.c:129-174).                                                         *)
THEOREM LineStaysInBounds == Spec => []LineInBounds
<1>1. Spec => []LineInv
  BY InitLineInv, NextLineInv, PTL DEF Spec
<1>2. LineInv => LineInBounds
  BY DEF LineInv
<1>3. QED BY <1>1, <1>2, PTL

-----------------------------------------------------------------------------
(* The types.                                                                 *)

Buffers ==
  /\ queue \in Seq(KEYS) /\ Len(queue) <= CAPACITY
  /\ buf \in Seq(KEYS) /\ cookedIn \in Seq(KEYS) /\ rawIn \in Seq(KEYS)

Controls ==
  /\ events \in 0 .. MAXEVENTS
  /\ pc \in {"app", "raw", "cooked"} /\ cpu \in {"run", "halting", "hlt"}
  /\ g_tty_mode \in {"raw", "cooked"} /\ g_tty_echo \in BOOLEAN
  /\ g_in \in {"ps2", "null"} /\ g_ops \in {"text", "null"}
  /\ count \in COUNTS \cup {0}

\* The driver's cursor and the hardware's are one, and stay on the screen.
Screens == con \in Consoles /\ Synced(con) /\ start \in Consoles /\ Synced(start)

TypeInv == Buffers /\ Controls /\ Screens

LEMMA KeysAreChars == KEYS \subseteq Chars /\ KEYS \subseteq Int /\ NL \in Chars /\ {BS, Space} \subseteq Chars
<1>1. \A k \in KEYS : k \in Chars
  BY KeysAssumption DEF Chars
<1>2. \A k \in Chars : k \in Int
  BY SMT DEF Chars
<1>3. NL \in Chars /\ {BS, Space} \subseteq Chars
  BY SMT DEF Chars, NL, BS, Space
<1>4. QED BY <1>1, <1>2, <1>3

(* Writing to either output backend keeps the console's types.                 *)
LEMMA ConsoleKept ==
  ASSUME NEW c \in Consoles, Synced(c)
  PROVE  /\ console_clear(c) \in Consoles /\ Synced(console_clear(c))
         /\ \A ch \in Chars : console_putc(c, ch) \in Consoles /\ Synced(console_putc(c, ch))
         /\ \A s \in Seq(Chars) : console_write(c, s) \in Consoles /\ Synced(console_write(c, s))
<1>1. CASE g_ops = "text"
  BY <1>1, ClearType, PutType, WriteType DEF console_clear, console_putc, console_write
<1>2. CASE g_ops # "text"
  BY <1>2 DEF console_clear, console_putc, console_write
<1>3. QED BY <1>1, <1>2

LEMMA EchoKept ==
  ASSUME Screens, NEW c \in Chars, echo_char(c)
  PROVE  con' \in Consoles /\ Synced(con')
<1>1. <<BS, Space, BS>> \in Seq(Chars)
  BY KeysAreChars
<1>2. con' = con \/ con' = console_write(con, <<BS, Space, BS>>) \/ con' = console_putc(con, c)
  BY DEF echo_char
<1>3. con \in Consoles /\ Synced(con)
  BY DEF Screens
<1>4. console_write(con, <<BS, Space, BS>>) \in Consoles
      /\ Synced(console_write(con, <<BS, Space, BS>>))
  BY <1>1, <1>3, ConsoleKept
<1>5. console_putc(con, c) \in Consoles /\ Synced(console_putc(con, c))
  BY <1>3, ConsoleKept
<1>6. QED BY <1>2, <1>3, <1>4, <1>5

(* Taking the first character of what the input backend has.                   *)
LEMMA TakeOne ==
  ASSUME Buffers, Input # <<>>
  PROVE  /\ Input = queue /\ Head(Input) \in KEYS
         /\ Tail(queue) \in Seq(KEYS) /\ Len(Tail(queue)) <= CAPACITY
<1>1. Input = queue
  BY DEF Input
<1>2. QED BY <1>1, QueueAssumption, HeadTailProperties, LenProperties DEF Buffers

LEMMA InitTypeInv == Init => TypeInv
<1> SUFFICES ASSUME Init PROVE TypeInv
  OBVIOUS
<1>1. Buffers
  BY QueueAssumption DEF Init, Buffers
<1>2. Controls
  BY QueueAssumption, SMT DEF Init, Controls
<1>3. OldScreen \in Consoles /\ Synced(OldScreen)
  <2>1. 35 \in Chars /\ 0 * VGA_W + 0 = 0
    BY ScreenAssumption, SMT DEF Chars
  <2>2. vga_entry(35) \in Entries
    BY <2>1, EntryType
  <2>3. 0 \in Cells
    BY <2>1, Columns, CellOf
  <2>4. QED BY <2>1, <2>2, <2>3, Columns DEF OldScreen, Consoles, Synced, At
<1>4. Screens
  BY <1>3, ConsoleKept DEF Init, Screens
<1>5. QED BY <1>1, <1>2, <1>4 DEF TypeInv

LEMMA InterruptType ==
  ASSUME TypeInv, (\E c \in KEYS : KeyInterrupt(c)) \/ TimerInterrupt \/ Halt
  PROVE  TypeInv'
<1> USE DEF TypeInv
<1>1. ASSUME NEW c \in KEYS, KeyInterrupt(c) PROVE TypeInv'
  <2>1. Buffers'
    <3>1. queue' = queue \/ (Len(queue) < CAPACITY /\ queue' = Append(queue, c))
      BY <1>1 DEF KeyInterrupt, kbd_put
    <3>2. queue' \in Seq(KEYS) /\ Len(queue') <= CAPACITY
      <4>1. Len(queue) \in Nat
        BY LenProperties DEF Buffers
      <4>2. Len(Append(queue, c)) = Len(queue) + 1 /\ Append(queue, c) \in Seq(KEYS)
        BY AppendProperties DEF Buffers
      <4>3. Len(queue) < CAPACITY => Len(Append(queue, c)) <= CAPACITY
        BY <4>1, <4>2, QueueAssumption, SMT
      <4>4. QED BY <3>1, <4>2, <4>3 DEF Buffers
    <3>3. QED BY <1>1, <3>2 DEF KeyInterrupt, Buffers, ghosts
  <2>2. Controls'
    BY <1>1, QueueAssumption, SMT DEF KeyInterrupt, Controls, tty
  <2>3. Screens'
    BY <1>1 DEF KeyInterrupt, Screens, begun
  <2>4. QED BY <2>1, <2>2, <2>3
<1>2. CASE TimerInterrupt
  BY <1>2 DEF TimerInterrupt, Buffers, Controls, Screens, tty, ghosts, begun
<1>3. CASE Halt
  BY <1>3 DEF Halt, Buffers, Controls, Screens, tty, ghosts, begun
<1>4. QED BY <1>1, <1>2, <1>3

LEMMA ProgramType ==
  ASSUME TypeInv, Program
  PROVE  TypeInv'
<1> USE DEF TypeInv
<1>1. ASSUME Between PROVE Buffers'
  BY <1>1 DEF Between, Buffers, ghosts
<1>2. ASSUME NEW m \in {"raw", "cooked"}, stdin_set_mode(m) PROVE TypeInv'
  BY <1>1, <1>2 DEF stdin_set_mode, Between, Controls, Screens
<1>3. ASSUME NEW on \in BOOLEAN, stdin_set_echo(on) PROVE TypeInv'
  BY <1>1, <1>3 DEF stdin_set_echo, Between, Controls, Screens
<1>4. ASSUME Call PROVE events' \in 0 .. MAXEVENTS /\ UNCHANGED <<pc, cpu, g_tty_mode, g_tty_echo, count>>
  BY <1>4, QueueAssumption, SMT DEF Call, Between, Controls
<1>5. ASSUME NEW ops \in {"ps2", "null"}, stdin_set_backend(ops) PROVE TypeInv'
  BY <1>1, <1>4, <1>5 DEF stdin_set_backend, Call, Controls, Screens
<1>6. ASSUME NEW ops \in {"text", "null"}, console_set_backend(ops) PROVE TypeInv'
  BY <1>1, <1>4, <1>6 DEF console_set_backend, Call, Controls, Screens
<1>7. ASSUME NEW c \in Consoles, Synced(c), Shows(c) PROVE TypeInv'
  BY <1>1, <1>4, <1>7 DEF Shows, Call, Controls, Screens
<1>8. CASE Clear
  BY <1>7, <1>8, ConsoleKept DEF Clear, Screens
<1>9. ASSUME NEW s \in OUTPUTS, _write(s) PROVE TypeInv'
  <2>1. s \in Seq(Chars)
    BY OutputsAssumption DEF Chars
  <2>2. QED BY <1>7, <1>9, <2>1, ConsoleKept DEF _write, Screens
<1>10. ASSUME NEW n \in COUNTS, ReadRaw(n) PROVE TypeInv'
  <2>1. Buffers'
    <3>1. queue' = queue /\ buf' = <<>> /\ rawIn' = <<>> /\ (cookedIn' = <<>> \/ cookedIn' = cookedIn)
      BY <1>10 DEF ReadRaw
    <3>2. <<>> \in Seq(KEYS)
      BY EmptySeq
    <3>3. QED BY <3>1, <3>2, Zenon DEF Buffers
  <2>2. Controls' /\ Screens'
    BY <1>10 DEF ReadRaw, Controls, Screens, tty, begun
  <2>3. QED BY <2>1, <2>2
<1>11. ASSUME NEW n \in COUNTS, ReadRest(n) PROVE TypeInv'
  BY <1>11 DEF ReadRest, Buffers, Controls, Screens, tty, begun
<1>12. ASSUME NEW n \in COUNTS, ReadLine(n) PROVE TypeInv'
  BY <1>12 DEF ReadLine, Buffers, Controls, Screens, tty, begun
<1>13. QED
  BY <1>2, <1>3, <1>5, <1>6, <1>8, <1>9, <1>10, <1>11, <1>12 DEF Program

LEMMA CookedType ==
  ASSUME TypeInv, Cooked
  PROVE  TypeInv'
<1> USE DEF TypeInv
<1>1. CASE CookedNothing
  <2>1. Buffers'
    <3>1. CASE Input = <<>>
      BY <1>1, <3>1 DEF CookedNothing, Buffers
    <3>2. CASE Input # <<>>
      BY <1>1, <3>2, TakeOne DEF CookedNothing, Buffers
    <3>3. QED BY <3>1, <3>2
  <2>2. Controls' /\ Screens'
    BY <1>1 DEF CookedNothing, Controls, Screens, tty, begun
  <2>3. QED BY <2>1, <2>2
<1>2. ASSUME NEW c \in KEYS \cup {NL}, CookedTurn(c)
      PROVE  /\ Buffers' /\ c \in Chars
             /\ UNCHANGED <<events, cpu, g_tty_mode, g_tty_echo, g_in, g_ops>>
  <2>1. c \in Chars
    BY KeysAreChars
  <2>2. queue' = Tail(queue) /\ cookedIn' = Append(cookedIn, Head(Input)) /\ Input # <<>>
        /\ UNCHANGED <<buf, rawIn>>
    BY <1>2 DEF CookedTurn
  <2>3. Buffers'
    BY <2>2, TakeOne DEF Buffers
  <2>4. QED BY <1>2, <2>1, <2>3 DEF CookedTurn, tty
<1>3. BS \in Chars
  BY KeysAreChars
<1>4. ASSUME NEW c \in KEYS \cup {NL}, CookedErase(c) PROVE TypeInv'
  <2>1. CookedTurn(c) /\ UNCHANGED <<pc, count, start>> /\ (con' = con \/ echo_char(BS))
    BY <1>4 DEF CookedErase, begun
  <2>2. Screens'
    BY <1>3, <2>1, EchoKept DEF Screens
  <2>3. Controls'
    BY <1>2, <2>1 DEF Controls
  <2>4. QED BY <1>2, <2>1, <2>2, <2>3
<1>5. ASSUME NEW c \in KEYS \cup {NL}, CookedEnter(c) PROVE TypeInv'
  <2>1. CookedTurn(c) /\ pc' = "app" /\ count' = 0 /\ start' = con' /\ echo_char(NL)
    BY <1>5 DEF CookedEnter, Return
  <2>2. Screens'
    BY <2>1, EchoKept, KeysAreChars DEF Screens
  <2>3. Controls'
    BY <1>2, <2>1 DEF Controls
  <2>4. QED BY <1>2, <2>1, <2>2, <2>3
<1>6. ASSUME NEW c \in KEYS \cup {NL}, CookedStore(c) PROVE TypeInv'
  <2>1. CookedTurn(c) /\ UNCHANGED <<pc, count, start>> /\ (con' = con \/ echo_char(c))
    BY <1>6 DEF CookedStore
  <2>2. Screens'
    BY <1>2, <2>1, EchoKept DEF Screens
  <2>3. Controls'
    BY <1>2, <2>1 DEF Controls
  <2>4. QED BY <1>2, <2>1, <2>2, <2>3
<1>7. QED BY <1>1, <1>4, <1>5, <1>6 DEF Cooked

LEMMA RawType ==
  ASSUME TypeInv, Raw
  PROVE  TypeInv'
<1> USE DEF TypeInv
<1>1. CASE RawTake
  BY <1>1, TakeOne DEF RawTake, Buffers, Controls, Screens, tty, begun
<1>2. ASSUME RawReturn, tty' = tty, events' = events PROVE Controls' /\ Screens'
  <2>1. CASE buf = <<>>
    BY <1>2, <2>1 DEF RawReturn, Controls, Screens, tty, begun
  <2>2. CASE buf # <<>>
    <3>1. PICK more \in BEYOND :
               con' = IF g_tty_echo THEN console_write(con, buf \o more) ELSE con
      BY <1>2, <2>2 DEF RawReturn
    <3>2. buf \in Seq(Chars) /\ more \in Seq(Chars)
      <4>1. buf \in Seq(Chars)
        BY KeysAreChars, SeqMonotonic DEF Buffers
      <4>2. QED BY <4>1, OutputsAssumption DEF Chars
    <3>3. buf \o more \in Seq(Chars)
      BY <3>2, ConcatProperties
    <3>4. con' \in Consoles /\ Synced(con')
      BY <3>1, <3>3, ConsoleKept DEF Screens
    <3>5. pc' = "app" /\ count' = 0 /\ start' = con' /\ cpu' = cpu
      BY <1>2, <2>2 DEF RawReturn, Return
    <3>6. QED BY <1>2, <3>4, <3>5 DEF Controls, Screens, tty
  <2>3. QED BY <2>1, <2>2
<1>3. CASE RawEnd
  BY <1>2, <1>3 DEF RawEnd, Buffers
<1>4. CASE RawNegative
  BY <1>2, <1>4, TakeOne DEF RawNegative, Buffers
<1>5. QED BY <1>1, <1>3, <1>4 DEF Raw

LEMMA NextTypeInv == TypeInv /\ [Next]_vars => TypeInv'
<1> SUFFICES ASSUME TypeInv, [Next]_vars PROVE TypeInv'
  OBVIOUS
<1>1. CASE UNCHANGED vars
  BY <1>1 DEF vars, TypeInv, Buffers, Controls, Screens, tty, ghosts, begun
<1>2. QED BY <1>1, InterruptType, ProgramType, CookedType, RawType DEF Next

LEMMA TypeInvHolds == Spec => []TypeInv
BY InitTypeInv, NextTypeInv, PTL DEF Spec

(* Whatever is typed, read and written, the buffers keep their sizes and the    *)
(* console's cursor stays on the screen (video_text.c:36-82).                  *)
THEOREM TypesAreKept == Spec => []TypeOK
<1>1. TypeInv => TypeOK
  BY DEF TypeInv, Buffers, Controls, Screens, TypeOK, Consoles
<1>2. QED BY <1>1, TypeInvHolds, PTL

-----------------------------------------------------------------------------
(* What a raw read delivers.                                                  *)

PlainStep(f, s, i) == IF s[i] >= 0 THEN Append(f[i - 1], s[i]) ELSE f[i - 1]
IsPlain(f, s) == f = [i \in 0 .. Len(s) |-> IF i = 0 THEN <<>> ELSE PlainStep(f, s, i)]

(* Plain is a loop over the sequence.                                         *)
LEMMA PlainIsALoop ==
  ASSUME NEW s \in Seq(Int)
  PROVE  \E f \in [0 .. Len(s) -> Seq(Int)] :
           /\ f[0] = <<>> /\ \A i \in 1 .. Len(s) : f[i] = PlainStep(f, s, i)
           /\ Plain(s) = f[Len(s)]
<1> DEFINE n == Len(s)
           step == [p \in Seq(Int) \X (1 .. n) |->
                      IF s[p[2]] >= 0 THEN Append(p[1], s[p[2]]) ELSE p[1]]
<1>1. n \in Nat /\ (\A i \in 1 .. n : s[i] \in Int) /\ <<>> \in Seq(Int)
  BY EmptySeq
<1>2. step \in [Seq(Int) \X (1 .. n) -> Seq(Int)]
  BY <1>1, AppendProperties
<1>3. \A d \in Seq(Int), i \in 1 .. n : step[<<d, i>>] = IF s[i] >= 0 THEN Append(d, s[i]) ELSE d
  OBVIOUS
<1> HIDE DEF step
<1>4. PICK f \in [0 .. n -> Seq(Int)] : Iterates(f, n, <<>>, step)
  BY <1>1, <1>2, IterationExists
<1>5. \A i \in 0 .. n : i # 0 => i \in 1 .. n /\ i - 1 \in 0 .. n
  BY <1>1, SMT
<1>6. \A i \in 0 .. n : i # 0 => step[<<f[i - 1], i>>] = PlainStep(f, s, i)
  BY <1>3, <1>5 DEF PlainStep
<1>7. IsPlain(f, s)
  <2>1. [i \in 0 .. n |-> IF i = 0 THEN <<>> ELSE step[<<f[i - 1], i>>]]
          = [i \in 0 .. n |-> IF i = 0 THEN <<>> ELSE PlainStep(f, s, i)]
    BY <1>6
  <2>2. QED BY <1>4, <2>1 DEF Iterates, IsPlain
<1>8. PICK g : IsPlain(g, s) /\ Plain(s) = g[n]
  <2> DEFINE g == CHOOSE h : IsPlain(h, s)
  <2>1. IsPlain(g, s)
    BY <1>7
  <2>2. Plain(s) = g[n]
    BY DEF Plain, IsPlain, PlainStep
  <2> HIDE DEF g
  <2>3. QED BY <2>1, <2>2
<1>9. 0 \in 0 .. n /\ n \in 0 .. n /\ \A i \in 1 .. n : i \in 0 .. n /\ i # 0
  BY <1>1, SMT
<1>10. \A h : IsPlain(h, s) => h[0] = <<>> /\ \A i \in 1 .. n : h[i] = PlainStep(h, s, i)
  BY <1>9 DEF IsPlain
<1>11. InStep(f, g, n)
  BY <1>7, <1>8, <1>10 DEF PlainStep, InStep
<1>12. f[n] = g[n]
  <2> HIDE DEF n
  <2>1. QED BY <1>1, <1>11, IterationsAgree
<1>13. QED BY <1>7, <1>8, <1>10, <1>12

LEMMA PlainAppend ==
  ASSUME NEW s \in Seq(Int), NEW e \in Int
  PROVE  /\ Plain(Append(s, e)) = IF e >= 0 THEN Append(Plain(s), e) ELSE Plain(s)
         /\ Plain(s) \in Seq(Int) /\ Plain(<<>>) = <<>>
<1> DEFINE t == Append(s, e)
<1>1. PICK n \in Nat : n = Len(s)
  OBVIOUS
<1>2. t \in Seq(Int) /\ Len(t) = n + 1 /\ t[n + 1] = e /\ \A i \in 1 .. n : t[i] = s[i]
  BY <1>1, AppendProperties
<1> HIDE DEF t
<1>3. PICK f \in [0 .. n -> Seq(Int)] :
        /\ f[0] = <<>> /\ \A i \in 1 .. n : f[i] = PlainStep(f, s, i)
        /\ Plain(s) = f[n]
  BY <1>1, PlainIsALoop
<1>4. PICK g \in [0 .. n + 1 -> Seq(Int)] :
        /\ g[0] = <<>> /\ \A i \in 1 .. n + 1 : g[i] = PlainStep(g, t, i)
        /\ Plain(t) = g[n + 1]
  BY <1>2, PlainIsALoop
<1>5. n \in 0 .. n /\ n + 1 \in 1 .. n + 1 /\ (n + 1) - 1 = n /\ \A i \in 1 .. n : i \in 1 .. n + 1
  BY SMT
<1>6. InStep(f, g, n)
  BY <1>2, <1>3, <1>4, <1>5 DEF PlainStep, InStep
<1>7. f[n] = g[n]
  BY <1>6, IterationsAgree
<1>8. Plain(t) = IF e >= 0 THEN Append(Plain(s), e) ELSE Plain(s)
  <2>1. g[n + 1] = PlainStep(g, t, n + 1)
    BY <1>4, <1>5
  <2>2. QED BY <1>2, <1>3, <1>4, <1>5, <1>7, <2>1 DEF PlainStep
<1>9. Plain(<<>>) = <<>>
  <2>1. <<>> \in Seq(Int) /\ Len(<<>>) = 0
    BY EmptySeq
  <2>2. QED BY <2>1, PlainIsALoop
<1>10. Plain(s) \in Seq(Int)
  BY <1>3, <1>5
<1>11. QED BY <1>8, <1>9, <1>10 DEF t

\* With what it needs to be inductive: outside of a raw read nothing is collected.
RawInv ==
  /\ rawOut \in Seq(KEYS)
  /\ RawDeliveredOnce
  /\ pc # "raw" => buf = <<>>

LEMMA RawFrame ==
  ASSUME RawInv, UNCHANGED <<rawIn, rawOut, buf>>,
         UNCHANGED <<pc, count>> \/ (pc # "raw" /\ count' \in Nat)
  PROVE  RawInv'
<1>1. CASE UNCHANGED <<pc, count>>
  BY <1>1 DEF RawInv, RawDeliveredOnce
<1>2. CASE pc # "raw" /\ count' \in Nat
  <2>1. buf' = <<>> /\ Len(<<>>) = 0
    BY <1>2 DEF RawInv
  <2>2. Len(buf') <= count'
    BY <1>2, <2>1, SMT
  <2>3. QED BY <2>1, <2>2 DEF RawInv, RawDeliveredOnce
<1>3. QED BY <1>1, <1>2

LEMMA EmptyRawInv ==
  ASSUME rawIn' = <<>>, rawOut' = <<>>, buf' = <<>>, count' \in Nat
  PROVE  RawInv'
<1>1. <<>> \in Seq(KEYS) /\ Len(<<>>) = 0
  BY EmptySeq
<1>2. <<>> \o <<>> = <<>>
  BY <1>1, ConcatEmptySeq
<1>3. Plain(<<>>) = <<>>
  <2>1. <<>> \in Seq(Int) /\ 0 \in Int
    BY EmptySeq
  <2>2. QED BY <2>1, PlainAppend
<1>4. Len(buf') <= count'
  BY <1>1, SMT
<1>5. QED BY <1>1, <1>2, <1>3, <1>4 DEF RawInv, RawDeliveredOnce

\* The characters taken from the buffer, as numbers.
LEMMA KeySequences ==
  ASSUME NEW s \in Seq(KEYS)
  PROVE  s \in Seq(Int)
BY KeysAreChars, SeqMonotonic

LEMMA RawReturnInv ==
  ASSUME TypeInv, RawInv, RawReturn, buf' = <<>>, pc = "raw",
         Plain(rawIn') = Plain(rawIn), count \in Nat
  PROVE  RawInv'
<1>1. rawOut \in Seq(KEYS) /\ buf \in Seq(KEYS) /\ Len(<<>>) = 0
  BY DEF TypeInv, Buffers, RawInv
<1>2. rawOut' = rawOut \o buf
  <2>1. rawOut \o <<>> = rawOut
    BY <1>1, ConcatEmptySeq
  <2>2. QED BY <2>1 DEF RawReturn
<1>3. rawOut' \in Seq(KEYS) /\ rawOut' \o <<>> = rawOut'
  BY <1>1, <1>2, ConcatProperties, ConcatEmptySeq
<1>4. count' \in Nat
  BY DEF RawReturn, Return
<1>5. Len(buf') <= count'
  BY <1>1, <1>4, SMT
<1>6. QED BY <1>2, <1>3, <1>5 DEF RawInv, RawDeliveredOnce

LEMMA NextRawInv == TypeInv /\ RawInv /\ [Next]_vars => RawInv'
<1> SUFFICES ASSUME TypeInv, RawInv, [Next]_vars PROVE RawInv'
  OBVIOUS
<1>1. count \in Nat
  BY CountsAssumption DEF TypeInv, Controls
<1>2. ASSUME NEW c \in KEYS, KeyInterrupt(c) PROVE RawInv'
  BY <1>2, RawFrame DEF KeyInterrupt, ghosts
<1>3. CASE TimerInterrupt
  BY <1>3, RawFrame DEF TimerInterrupt, ghosts
<1>4. CASE Program
  <2>1. ASSUME Between PROVE RawInv'
    BY <2>1, RawFrame DEF Between, ghosts
  <2>2. BetweenReads => Between
    BY BetweenReadsIsBetween
  <2>3. ASSUME NEW n \in COUNTS, ReadRaw(n) PROVE RawInv'
    BY <2>3, CountsAssumption, EmptyRawInv DEF ReadRaw
  <2>4. ASSUME NEW n \in COUNTS, ReadRest(n) PROVE RawInv'
    BY <2>4, RawFrame DEF ReadRest
  <2>5. ASSUME NEW n \in COUNTS, ReadLine(n) PROVE RawInv'
    <3>1. buf' = <<>>
      BY <2>5 DEF ReadLine, RawInv
    <3>2. QED BY <2>5, <3>1, CountsAssumption, EmptyRawInv DEF ReadLine
  <2>6. QED BY <1>4, <2>1, <2>2, <2>3, <2>4, <2>5, ProgramParts
<1>5. CASE Cooked
  <2>1. CASE CookedNothing
    BY <2>1, RawFrame DEF CookedNothing
  <2>2. ASSUME NEW c \in KEYS \cup {NL}, CookedTurn(c), count' = count \/ count' = 0
        PROVE  RawInv'
    BY <1>1, <2>2, RawFrame DEF CookedTurn
  <2>3. QED
    BY <1>5, <2>1, <2>2 DEF Cooked, CookedErase, CookedEnter, CookedStore, Return
<1>6. CASE RawTake
  <2>1. Head(Input) \in KEYS /\ Head(Input) >= 0 /\ Head(Input) \in Int
    BY <1>6, TakeOne, KeysAreChars DEF RawTake, TypeInv
  <2> DEFINE h == Head(Input)
  <2>2. /\ buf' = Append(buf, h) /\ rawIn' = Append(rawIn, h) /\ rawOut' = rawOut
        /\ pc' = pc /\ pc = "raw" /\ count' = count /\ Len(buf) < count
    BY <1>6 DEF RawTake, Wanting
  <2> HIDE DEF h
  <2>3. rawIn \in Seq(Int) /\ buf \in Seq(KEYS) /\ rawOut \in Seq(KEYS) /\ h \in KEYS
    BY <2>1, KeySequences DEF TypeInv, Buffers, RawInv, h
  <2>4. Plain(Append(rawIn, h)) = Append(Plain(rawIn), h)
    BY <2>1, <2>3, PlainAppend DEF h
  <2>5. rawOut \o Append(buf, h) = Append(rawOut \o buf, h)
    <3>1. <<h>> \in Seq(KEYS) /\ Append(buf, h) = buf \o <<h>> /\ rawOut \o buf \in Seq(KEYS)
      BY <2>3, AppendIsConcat, ConcatProperties
    <3>2. Append(rawOut \o buf, h) = (rawOut \o buf) \o <<h>>
      BY <2>3, <3>1, AppendIsConcat
    <3>3. (rawOut \o buf) \o <<h>> = rawOut \o (buf \o <<h>>)
      BY <2>3, <3>1, ConcatAssociative
    <3>4. QED BY <3>1, <3>2, <3>3
  <2>6. Len(Append(buf, h)) <= count
    <3>1. Len(Append(buf, h)) = Len(buf) + 1 /\ Len(buf) \in Nat
      BY <2>3, AppendProperties, LenProperties
    <3>2. QED BY <1>1, <2>2, <3>1, SMT
  <2>7. QED BY <2>2, <2>3, <2>4, <2>5, <2>6 DEF RawInv, RawDeliveredOnce
<1>7. CASE RawEnd
  <2>1. /\ RawReturn /\ buf' = <<>> /\ pc = "raw" /\ rawIn' = rawIn
    BY <1>7 DEF RawEnd
  <2>2. QED BY <1>1, <2>1, RawReturnInv
<1>8. CASE RawNegative
  <2>1. Head(Input) \in Int /\ ~(Head(Input) >= 0) /\ rawIn \in Seq(Int)
    <3>1. Head(Input) \in KEYS /\ Head(Input) \in Int
      BY <1>8, TakeOne, KeysAreChars DEF RawNegative, TypeInv
    <3>2. Head(Input) < 0
      BY <1>8 DEF RawNegative
    <3>3. ~(Head(Input) >= 0)
      BY <3>1, <3>2, SMT
    <3>4. QED BY <3>1, <3>3, KeySequences DEF TypeInv, Buffers
  <2>2. Plain(rawIn') = Plain(rawIn)
    BY <1>8, <2>1, PlainAppend DEF RawNegative
  <2>3. RawReturn /\ buf' = <<>> /\ pc = "raw"
    BY <1>8 DEF RawNegative
  <2>4. QED BY <1>1, <2>2, <2>3, RawReturnInv
<1>9. CASE Halt
  BY <1>9, RawFrame DEF Halt, ghosts
<1>10. CASE UNCHANGED vars
  BY <1>10, RawFrame DEF vars, ghosts
<1>11. QED
  BY <1>2, <1>3, <1>4, <1>5, <1>6, <1>7, <1>8, <1>9, <1>10 DEF Next, Raw

LEMMA InitRawInv == Init => RawInv
<1> SUFFICES ASSUME Init PROVE RawInv
  OBVIOUS
<1>1. rawIn = <<>> /\ rawOut = <<>> /\ buf = <<>> /\ count = 0
  BY DEF Init
<1>2. <<>> \in Seq(KEYS) /\ <<>> \in Seq(Int) /\ Len(<<>>) = 0 /\ 0 \in Int
  BY EmptySeq
<1>3. <<>> \o <<>> = <<>> /\ Plain(<<>>) = <<>>
  BY <1>2, ConcatEmptySeq, PlainAppend
<1>4. QED BY <1>1, <1>2, <1>3, SMT DEF RawInv, RawDeliveredOnce

(* However the keyboard interrupts it, a raw read returns what it took from the *)
(* buffer, in order and less the negative characters, and never more than it    *)
(* was asked for (stubs.c:117-125, keyboard.c:178-186).                        *)
THEOREM RawReadsDeliver == Spec => []RawDeliveredOnce
<1>1. Spec => []RawInv
  BY InitRawInv, NextRawInv, TypeInvHolds, PTL DEF Spec
<1>2. RawInv => RawDeliveredOnce
  BY DEF RawInv
<1>3. QED BY <1>1, <1>2, PTL

-----------------------------------------------------------------------------
(* What a cooked read delivers.                                               *)

Lines == [done : Seq(Int), open : Seq(Int)]
NoLines == [done |-> <<>>, open |-> <<>>]

LEMMA DisciplineType ==
  ASSUME NEW st \in Lines, NEW k \in Int
  PROVE  Discipline(st, k) \in Lines
<1>1. st.open \in Seq(Int) /\ st.done \in Seq(Int) /\ Len(st.open) \in Nat
  BY LenProperties DEF Lines
<1>2. CASE k < 0
  BY <1>2 DEF Discipline
<1>3. CASE ~(k < 0) /\ k \in {BS, DEL}
  <2>1. SubSeq(st.open, 1, Len(st.open) - 1) \in Seq(Int)
    <3>1. \A i \in 1 .. Len(st.open) - 1 : i \in 1 .. Len(st.open)
      BY <1>1, SMT
    <3>2. \A i \in 1 .. Len(st.open) - 1 : st.open[i] \in Int
      BY <1>1, <3>1, ElementOfSeq
    <3>3. 1 \in Int /\ Len(st.open) - 1 \in Int
      BY <1>1, SMT
    <3>4. QED BY <3>2, <3>3, SubSeqProperties
  <2>2. Discipline(st, k) = [st EXCEPT !.open = SubSeq(@, 1, Len(@) - 1)]
    BY <1>3 DEF Discipline
  <2>3. QED BY <2>1, <2>2 DEF Lines
<1>4. CASE ~(k < 0) /\ k \notin {BS, DEL} /\ k \in {CR, NL}
  <2> DEFINE e == IF Len(st.open) < LINE - 1 THEN <<NL>> ELSE <<>>
  <2>1. e \in Seq(Int)
    <3>1. <<NL>> \in Seq(Int) /\ <<>> \in Seq(Int)
      BY EmptySeq DEF NL
    <3>2. QED BY <3>1
  <2>2. Discipline(st, k) = [done |-> st.done \o st.open \o e, open |-> <<>>]
    BY <1>4 DEF Discipline
  <2> HIDE DEF e
  <2>3. st.done \o st.open \o e \in Seq(Int) /\ <<>> \in Seq(Int)
    BY <1>1, <2>1, ConcatProperties, EmptySeq
  <2>4. QED BY <2>2, <2>3 DEF Lines
<1>5. CASE ~(k < 0) /\ k \notin {BS, DEL} /\ k \notin {CR, NL}
  <2>1. Discipline(st, k) = [st EXCEPT !.open = IF Len(@) < LINE - 1 THEN Append(@, k) ELSE @]
    BY <1>5 DEF Discipline
  <2>2. Append(st.open, k) \in Seq(Int)
    BY <1>1, AppendProperties
  <2>3. (IF Len(st.open) < LINE - 1 THEN Append(st.open, k) ELSE st.open) \in Seq(Int)
    BY <1>1, <2>2
  <2>4. QED BY <2>1, <2>3 DEF Lines
<1>6. QED BY <1>2, <1>3, <1>4, <1>5

IsDisciplined(f, s) ==
  f = [i \in 0 .. Len(s) |->
         IF i = 0 THEN [done |-> <<>>, open |-> <<>>] ELSE Discipline(f[i - 1], s[i])]

(* Disciplined is a loop over the sequence.                                   *)
LEMMA DisciplinedIsALoop ==
  ASSUME NEW s \in Seq(Int)
  PROVE  \E f \in [0 .. Len(s) -> Lines] :
           /\ f[0] = NoLines /\ \A i \in 1 .. Len(s) : f[i] = Discipline(f[i - 1], s[i])
           /\ Disciplined(s) = f[Len(s)]
<1> DEFINE n == Len(s)
           step == [p \in Lines \X (1 .. n) |-> Discipline(p[1], s[p[2]])]
<1>1. n \in Nat /\ (\A i \in 1 .. n : s[i] \in Int) /\ NoLines \in Lines
  <2>1. n \in Nat /\ (\A i \in 1 .. n : s[i] \in Int) /\ <<>> \in Seq(Int)
    BY EmptySeq
  <2>2. QED BY <2>1 DEF Lines, NoLines
<1>2. step \in [Lines \X (1 .. n) -> Lines]
  BY <1>1, DisciplineType
<1>3. \A d \in Lines, i \in 1 .. n : step[<<d, i>>] = Discipline(d, s[i])
  OBVIOUS
<1> HIDE DEF step
<1>4. PICK f \in [0 .. n -> Lines] : Iterates(f, n, NoLines, step)
  BY <1>1, <1>2, IterationExists
<1>5. \A i \in 0 .. n : i # 0 => i \in 1 .. n /\ i - 1 \in 0 .. n
  BY <1>1, SMT
<1>6. \A i \in 0 .. n : i # 0 => step[<<f[i - 1], i>>] = Discipline(f[i - 1], s[i])
  BY <1>3, <1>5
<1>7. IsDisciplined(f, s)
  <2>1. [i \in 0 .. n |-> IF i = 0 THEN NoLines ELSE step[<<f[i - 1], i>>]]
          = [i \in 0 .. n |-> IF i = 0 THEN NoLines ELSE Discipline(f[i - 1], s[i])]
    BY <1>6
  <2>2. QED BY <1>4, <2>1 DEF Iterates, IsDisciplined, NoLines
<1>8. PICK g : IsDisciplined(g, s) /\ Disciplined(s) = g[n]
  <2> DEFINE g == CHOOSE h : IsDisciplined(h, s)
  <2>1. IsDisciplined(g, s)
    BY <1>7
  <2>2. Disciplined(s) = g[n]
    BY DEF Disciplined, IsDisciplined
  <2> HIDE DEF g
  <2>3. QED BY <2>1, <2>2
<1>9. 0 \in 0 .. n /\ n \in 0 .. n /\ \A i \in 1 .. n : i \in 0 .. n /\ i # 0
  BY <1>1, SMT
<1>10. \A h : IsDisciplined(h, s) =>
          h[0] = NoLines /\ \A i \in 1 .. n : h[i] = Discipline(h[i - 1], s[i])
  BY <1>9 DEF IsDisciplined, NoLines
<1>11. InStep(f, g, n)
  BY <1>7, <1>8, <1>10 DEF InStep
<1>12. f[n] = g[n]
  <2> HIDE DEF n
  <2>1. QED BY <1>1, <1>11, IterationsAgree
<1>13. QED BY <1>7, <1>8, <1>10, <1>12

LEMMA DisciplinedAppend ==
  ASSUME NEW s \in Seq(Int), NEW e \in Int
  PROVE  /\ Disciplined(Append(s, e)) = Discipline(Disciplined(s), e)
         /\ Disciplined(s) \in Lines /\ Disciplined(<<>>) = NoLines
<1> DEFINE t == Append(s, e)
<1>1. PICK n \in Nat : n = Len(s)
  OBVIOUS
<1>2. t \in Seq(Int) /\ Len(t) = n + 1 /\ t[n + 1] = e /\ \A i \in 1 .. n : t[i] = s[i]
  BY <1>1, AppendProperties
<1> HIDE DEF t
<1>3. PICK f \in [0 .. n -> Lines] :
        /\ f[0] = NoLines /\ \A i \in 1 .. n : f[i] = Discipline(f[i - 1], s[i])
        /\ Disciplined(s) = f[n]
  BY <1>1, DisciplinedIsALoop
<1>4. PICK g \in [0 .. n + 1 -> Lines] :
        /\ g[0] = NoLines /\ \A i \in 1 .. n + 1 : g[i] = Discipline(g[i - 1], t[i])
        /\ Disciplined(t) = g[n + 1]
  BY <1>2, DisciplinedIsALoop
<1>5. n \in 0 .. n /\ n + 1 \in 1 .. n + 1 /\ (n + 1) - 1 = n /\ \A i \in 1 .. n : i \in 1 .. n + 1
  BY SMT
<1>6. InStep(f, g, n)
  BY <1>2, <1>3, <1>4, <1>5 DEF InStep
<1>7. f[n] = g[n]
  BY <1>6, IterationsAgree
<1>8. Disciplined(t) = Discipline(Disciplined(s), e)
  <2>1. g[n + 1] = Discipline(g[n], t[n + 1])
    BY <1>4, <1>5
  <2>2. QED BY <1>2, <1>3, <1>4, <1>7, <2>1
<1>9. Disciplined(<<>>) = NoLines
  <2>1. <<>> \in Seq(Int) /\ Len(<<>>) = 0
    BY EmptySeq
  <2>2. QED BY <2>1, DisciplinedIsALoop
<1>10. Disciplined(s) \in Lines
  BY <1>3, <1>5
<1>11. QED BY <1>8, <1>9, <1>10 DEF t

LEMMA Concatenations == \A s, t, u \in Seq(Int) : (s \o t) \o u = s \o (t \o u)
BY ConcatAssociative, SMTT(30)

Storage == [0 .. LINE - 1 -> Int]

LEMMA OwedType ==
  ASSUME NEW l \in Storage, NEW p \in Nat, NEW h \in Nat, p + h <= LINE
  PROVE  /\ Owed(l, p, h) \in Seq(Int) /\ Len(Owed(l, p, h)) = h
         /\ \A i \in 1 .. h : Owed(l, p, h)[i] = l[p + i - 1]
<1>1. \A i \in 1 .. h : p + i - 1 \in 0 .. LINE - 1
  BY LineAssumption, SMT
<1>2. \A i \in 1 .. h : l[p + i - 1] \in Int
  BY <1>1 DEF Storage
<1>3. Owed(l, p, h) \in [1 .. h -> Int]
  BY <1>2 DEF Owed
<1>4. QED BY <1>3 DEF Owed

LEMMA NothingOwed == \A l, p : Owed(l, p, 0) = <<>>
<1> SUFFICES ASSUME NEW l, NEW p PROVE Owed(l, p, 0) = <<>>
  OBVIOUS
<1>1. 1 .. 0 = {}
  BY SMT
<1>2. Owed(l, p, 0) = [i \in {} |-> l[p + i - 1]]
  BY <1>1 DEF Owed
<1>3. Owed(l, p, 0) \in [1 .. 0 -> {}]
  BY <1>1, <1>2
<1>4. Owed(l, p, 0) \in Seq({})
  BY <1>3
<1>5. Len(Owed(l, p, 0)) = 0
  BY <1>3, <1>4
<1>6. QED BY <1>4, <1>5, EmptySeq

(* What is delivered and what stays owed make up what was owed.                *)
LEMMA OwedSplits ==
  ASSUME NEW l \in Storage, NEW p \in Nat, NEW h \in Nat, p + h <= LINE, NEW m \in 0 .. h
  PROVE  Owed(l, p, m) \o Owed(l, p + m, h - m) = Owed(l, p, h)
<1> DEFINE a == Owed(l, p, m)
           b == Owed(l, p + m, h - m)
           c == Owed(l, p, h)
<1>1. m \in Nat /\ h - m \in Nat /\ p + m \in Nat /\ p + m <= LINE /\ (p + m) + (h - m) <= LINE
  BY LineAssumption, SMT
<1>2. /\ a \in Seq(Int) /\ Len(a) = m /\ \A i \in 1 .. m : a[i] = l[p + i - 1]
      /\ b \in Seq(Int) /\ Len(b) = h - m /\ \A i \in 1 .. h - m : b[i] = l[(p + m) + i - 1]
      /\ c \in Seq(Int) /\ Len(c) = h /\ \A i \in 1 .. h : c[i] = l[p + i - 1]
  BY <1>1, OwedType
<1> HIDE DEF a, b, c
<1>3. /\ a \o b \in Seq(Int) /\ Len(a \o b) = Len(a) + Len(b)
      /\ \A i \in 1 .. Len(a) + Len(b) : (a \o b)[i] = IF i <= Len(a) THEN a[i] ELSE b[i - Len(a)]
  BY <1>2, ConcatProperties, ZenonT(30)
<1>4. Len(a) + Len(b) = h
  BY <1>2, SMT
<1>5. ASSUME NEW i \in 1 .. h PROVE (a \o b)[i] = c[i]
  <2>1. CASE i <= m
    <3>1. i \in 1 .. m
      BY <2>1, SMT
    <3>2. QED BY <1>2, <1>3, <1>4, <2>1, <3>1
  <2>2. CASE ~(i <= m)
    <3>1. i - m \in 1 .. h - m /\ (p + m) + (i - m) - 1 = p + i - 1
      BY <2>2, SMT
    <3>2. (a \o b)[i] = b[i - m]
      <4>1. i \in 1 .. Len(a) + Len(b) /\ ~(i <= Len(a)) /\ i - Len(a) = i - m
        BY <1>2, <1>4, <2>2
      <4>2. QED BY <1>3, <4>1
    <3>3. QED BY <1>2, <3>1, <3>2
  <2>3. QED BY <2>1, <2>2
<1>6. a \o b = c
  BY <1>2, <1>3, <1>4, <1>5, SeqEqual
<1>7. QED BY <1>6 DEF a, b, c

LEMMA OwedGrows ==
  ASSUME NEW l \in Storage, NEW h \in 0 .. LINE - 1, NEW c \in Int
  PROVE  Owed([l EXCEPT ![h] = c], 0, h + 1) = Append(Owed(l, 0, h), c)
<1> DEFINE k == [l EXCEPT ![h] = c]
           a == Owed(k, 0, h + 1)
           b == Owed(l, 0, h)
<1>1. k \in Storage /\ k[h] = c /\ \A j \in 0 .. LINE - 1 : j # h => k[j] = l[j]
  BY DEF Storage
<1>2. h \in Nat /\ h + 1 \in Nat /\ 0 + (h + 1) <= LINE /\ 0 + h <= LINE /\ 0 \in Nat
  BY LineAssumption, SMT
<1> HIDE DEF k
<1>3. /\ a \in Seq(Int) /\ Len(a) = h + 1 /\ \A i \in 1 .. h + 1 : a[i] = k[0 + i - 1]
      /\ b \in Seq(Int) /\ Len(b) = h /\ \A i \in 1 .. h : b[i] = l[0 + i - 1]
  BY <1>1, <1>2, OwedType
<1> HIDE DEF a, b
<1>4. /\ Append(b, c) \in Seq(Int) /\ Len(Append(b, c)) = h + 1
      /\ (\A i \in 1 .. h : Append(b, c)[i] = b[i]) /\ Append(b, c)[h + 1] = c
  BY <1>3, AppendProperties
<1>5. ASSUME NEW i \in 1 .. h + 1 PROVE a[i] = Append(b, c)[i]
  <2>1. CASE i = h + 1
    <3>1. 0 + i - 1 = h
      BY <2>1, SMT
    <3>2. QED BY <1>1, <1>3, <1>4, <2>1, <3>1
  <2>2. CASE i # h + 1
    <3>1. i \in 1 .. h /\ 0 + i - 1 # h /\ 0 + i - 1 \in 0 .. LINE - 1
      BY <2>2, LineAssumption, SMT
    <3>2. QED BY <1>1, <1>3, <1>4, <3>1
  <2>3. QED BY <2>1, <2>2
<1>6. a = Append(b, c)
  BY <1>3, <1>4, <1>5, SeqEqual
<1>7. QED BY <1>6 DEF a, b, k

LEMMA OwedShrinks ==
  ASSUME NEW l \in Storage, NEW h \in 0 .. LINE - 1
  PROVE  Owed(l, 0, IF h > 0 THEN h - 1 ELSE h) = SubSeq(Owed(l, 0, h), 1, h - 1)
<1>1. h \in Nat /\ 0 + h <= LINE /\ 0 \in Nat
  BY LineAssumption, SMT
<1> DEFINE b == Owed(l, 0, h)
<1>2. b \in Seq(Int) /\ Len(b) = h /\ \A i \in 1 .. h : b[i] = l[0 + i - 1]
  BY <1>1, OwedType
<1>3. CASE h > 0
  <2> DEFINE a == Owed(l, 0, h - 1)
             d == SubSeq(b, 1, h - 1)
  <2>1. h - 1 \in Nat /\ 0 + (h - 1) <= LINE
    <3>1. LINE \in Nat
      BY LineAssumption
    <3>2. QED BY <1>1, <1>3, <3>1, SMT
  <2>2. a \in Seq(Int) /\ Len(a) = h - 1 /\ \A i \in 1 .. h - 1 : a[i] = l[0 + i - 1]
    BY <1>1, <2>1, OwedType
  <2> HIDE DEF a, b
  <2>3. /\ d \in Seq(Int) /\ Len(d) = h - 1
        /\ \A i \in 1 .. h - 1 : d[i] = b[i]
    BY <1>2, <1>3, <2>1, SMT
  <2>4. \A i \in 1 .. h - 1 : i \in 1 .. h
    BY <1>1, SMT
  <2> HIDE DEF d
  <2>5. a = d
    BY <1>2, <2>2, <2>3, <2>4, SeqEqual
  <2>6. QED BY <1>3, <2>5 DEF a, b, d
<1>4. CASE ~(h > 0)
  <2>1. h = 0 /\ 1 \in Int /\ h - 1 \in Int /\ h - 1 < 1
    BY <1>1, <1>4, SMT
  <2> HIDE DEF b
  <2>2. SubSeq(b, 1, h - 1) = <<>>
    BY <2>1, SubSeqEmpty
  <2>3. QED BY <1>4, <2>1, <2>2, NothingOwed DEF b
<1>5. QED BY <1>3, <1>4

\* With the types of the two sequences.
LinesInv == cookedOut \in Seq(Int) /\ LinesDeliveredOnce

LEMMA StorageIsTyped == LineInBounds => line \in Storage
<1>1. KEYS \cup {0, NL} \subseteq Int
  BY KeysAreChars DEF NL
<1>2. QED BY <1>1 DEF LineInBounds, Storage

LEMMA LinesFrame ==
  ASSUME LinesInv, UNCHANGED <<cookedIn, cookedOut, edit>>, pc' = pc \/ pc' # "cooked"
  PROVE  LinesInv'
BY DEF LinesInv, LinesDeliveredOnce, edit

LEMMA EmptyLinesInv ==
  ASSUME cookedIn' = <<>>, cookedOut' = <<>>, have' = 0, pc' = "cooked" => len' = 0
  PROVE  LinesInv'
<1>1. <<>> \in Seq(Int) /\ 0 \in Int
  BY EmptySeq
<1>2. <<>> \o <<>> = <<>> /\ Disciplined(<<>>) = NoLines
  BY <1>1, ConcatEmptySeq, DisciplinedAppend
<1>3. Owed(line', pos', 0) = <<>> /\ Owed(line', 0, 0) = <<>>
  BY NothingOwed
<1>4. QED BY <1>1, <1>2, <1>3 DEF LinesInv, LinesDeliveredOnce, NoLines

(* Handing over n of the h bytes owed changes nothing about the whole.         *)
LEMMA DeliverKeepsTheWhole ==
  ASSUME cookedOut \in Seq(Int), NEW l \in Storage, NEW p \in Nat, NEW h \in Nat, p + h <= LINE,
         NEW n \in Nat, Deliver(l, p, h, n)
  PROVE  /\ cookedOut' \in Seq(Int)
         /\ cookedOut' \o Owed(l, pos', have') = cookedOut \o Owed(l, p, h)
<1> DEFINE m == Least(h, n)
           a == Owed(l, p, m)
           b == Owed(l, p + m, h - m)
<1>1. m \in 0 .. h
  BY LeastValue
<1>2. cookedOut' = cookedOut \o a /\ pos' = p + m /\ have' = h - m
  BY DEF Deliver
<1> HIDE DEF m
<1>3. m \in Nat /\ h - m \in Nat /\ p + m \in Nat /\ p + m <= LINE /\ (p + m) + (h - m) <= LINE
  BY <1>1, LineAssumption, SMT
<1>4. a \in Seq(Int) /\ b \in Seq(Int)
  BY <1>3, OwedType
<1>5. a \o b = Owed(l, p, h)
  BY <1>1, OwedSplits
<1> HIDE DEF a
<1>6. cookedOut \o a \in Seq(Int)
  BY <1>4, ConcatProperties
<1>7. (cookedOut \o a) \o b = cookedOut \o (a \o b)
  <2> HIDE DEF b
  <2>1. QED BY <1>4, Concatenations
<1>8. QED BY <1>2, <1>5, <1>6, <1>7

LEMMA CookedLinesInv ==
  ASSUME TypeInv, LineInv, LinesInv, Cooked
  PROVE  LinesInv'
<1> DEFINE k == Head(Input)
           st == Disciplined(cookedIn)
<1>1. /\ line \in Storage /\ len \in 0 .. LINE - 1 /\ pos \in Nat /\ count \in Nat
      /\ cookedIn \in Seq(Int) /\ cookedOut \in Seq(Int) /\ pc = "cooked" /\ have = 0
  <2>1. pc = "cooked"
    BY DEF Cooked, CookedNothing, CookedErase, CookedEnter, CookedStore, CookedTurn
  <2>2. line \in Storage
    BY StorageIsTyped DEF LineInv
  <2>3. len \in 0 .. LINE - 1 /\ count \in Nat /\ have = 0
    BY <2>1 DEF LineInv, LineInBounds
  <2>4. pos \in Nat
    BY LineAssumption, SMT DEF LineInv, LineInBounds
  <2>5. QED BY <2>1, <2>2, <2>3, <2>4, KeySequences DEF TypeInv, Buffers, LinesInv
<1>2. st \in Lines
  <2>1. 0 \in Int
    OBVIOUS
  <2>2. QED BY <1>1, <2>1, DisciplinedAppend
<1>3. Owed(line, 0, len) = st.open /\ Len(st.open) = len /\ cookedOut = st.done
  <2>1. Owed(line, pos, have) = <<>>
    BY <1>1, NothingOwed
  <2>2. cookedOut \o <<>> = cookedOut
    BY <1>1, ConcatEmptySeq
  <2>3. len \in Nat /\ 0 \in Nat /\ 0 + len <= LINE
    BY <1>1, LineAssumption, SMT
  <2>4. Len(Owed(line, 0, len)) = len
    BY <1>1, <2>3, OwedType
  <2>5. QED BY <1>1, <2>1, <2>2, <2>4 DEF LinesInv, LinesDeliveredOnce
<1>4. ASSUME Input # <<>> PROVE k \in Int /\ Disciplined(Append(cookedIn, k)) = Discipline(st, k)
  <2>1. k \in Int
    BY <1>4, TakeOne, KeysAreChars DEF TypeInv
  <2>2. QED BY <1>1, <2>1, DisciplinedAppend
<1>5. ASSUME NEW l, NEW c \in Seq(Int)
      PROVE  c \o Owed(l, pos, 0) = c
  <2>1. Owed(l, pos, 0) = <<>>
    BY NothingOwed
  <2>2. QED BY <1>5, <2>1, ConcatEmptySeq
<1>6. BS < NL /\ BS # CR /\ NL # BS /\ NL # DEL /\ CR # DEL /\ CR # BS
  BY SMT DEF BS, NL, CR, DEL
<1> HIDE DEF k, st
<1>7. CASE CookedNothing
  <2>1. /\ UNCHANGED <<pc, line, len, have, pos, cookedOut>>
        /\ cookedIn' = cookedIn \/ (Input # <<>> /\ k < 0 /\ cookedIn' = Append(cookedIn, k))
    BY <1>7 DEF CookedNothing, edit, k
  <2>2. Disciplined(cookedIn') = st
    <3>1. CASE cookedIn' = cookedIn
      BY <3>1 DEF st
    <3>2. CASE Input # <<>> /\ k < 0 /\ cookedIn' = Append(cookedIn, k)
      BY <1>4, <3>2 DEF Discipline
    <3>3. QED BY <2>1, <3>1, <3>2
  <2>3. QED BY <2>1, <2>2 DEF LinesInv, LinesDeliveredOnce, st
<1>8. ASSUME NEW c \in KEYS \cup {NL}, CookedTurn(c)
      PROVE  /\ cookedIn' = Append(cookedIn, k) /\ Input # <<>> /\ ~(k < 0) /\ k \in Int
             /\ c = (IF k = CR THEN NL ELSE k)
             /\ Disciplined(cookedIn') = Discipline(st, k)
  <2>1. cookedIn' = Append(cookedIn, k) /\ Input # <<>> /\ k >= 0 /\ c = (IF k = CR THEN NL ELSE k)
    BY <1>8 DEF CookedTurn, k
  <2>2. k \in Int
    BY <1>4, <2>1
  <2>3. ~(k < 0)
    BY <2>1, <2>2, SMT
  <2>4. QED BY <1>4, <2>1, <2>2, <2>3
<1>9. ASSUME NEW c \in KEYS \cup {NL}, CookedErase(c) PROVE LinesInv'
  <2>1. /\ UNCHANGED <<pc, line, have, pos, cookedOut>> /\ c \in {BS, DEL}
        /\ len' = IF len > 0 THEN len - 1 ELSE len
    BY <1>9 DEF CookedErase, CanErase
  <2>2. k \in {BS, DEL} /\ ~(k < 0) /\ Disciplined(cookedIn') = Discipline(st, k)
    BY <1>6, <1>8, <1>9, <2>1 DEF CookedErase
  <2>3. Discipline(st, k) = [st EXCEPT !.open = SubSeq(@, 1, Len(@) - 1)]
    BY <2>2 DEF Discipline
  <2>4. Discipline(st, k).done = st.done /\ Discipline(st, k).open = SubSeq(st.open, 1, len - 1)
    <3> DEFINE shorter == SubSeq(st.open, 1, Len(st.open) - 1)
    <3>1. Discipline(st, k) = [st EXCEPT !.open = shorter]
      BY <2>3
    <3>2. shorter = SubSeq(st.open, 1, len - 1)
      BY <1>3
    <3> HIDE DEF shorter
    <3>3. QED BY <1>2, <3>1, <3>2 DEF Lines
  <2>5. Owed(line, 0, len') = SubSeq(st.open, 1, len - 1)
    BY <1>1, <1>3, <2>1, OwedShrinks
  <2>6. cookedOut' \o Owed(line', pos', have') = st.done
    BY <1>1, <1>3, <1>5, <2>1
  <2>7. QED BY <1>1, <2>1, <2>2, <2>4, <2>5, <2>6 DEF LinesInv, LinesDeliveredOnce
<1>10. ASSUME NEW c \in KEYS \cup {NL}, CookedStore(c) PROVE LinesInv'
  <2>1. /\ UNCHANGED <<pc, have, pos, cookedOut>> /\ c \notin {BS, DEL, NL}
        /\ IF len + 1 < LINE THEN line' = [line EXCEPT ![len] = c] /\ len' = len + 1
                             ELSE UNCHANGED <<line, len>>
    BY <1>10 DEF CookedStore, HasSpace
  <2>2. k = c /\ k \notin {BS, DEL} /\ k \notin {CR, NL} /\ ~(k < 0) /\ k \in Int
        /\ Disciplined(cookedIn') = Discipline(st, k)
    BY <1>6, <1>8, <1>10, <2>1 DEF CookedStore
  <2> DEFINE longer == IF Len(st.open) < LINE - 1 THEN Append(st.open, k) ELSE st.open
  <2>3. Discipline(st, k).done = st.done /\ Discipline(st, k).open = longer
    <3>1. Discipline(st, k) = [st EXCEPT !.open = longer]
      BY <2>2 DEF Discipline
    <3> HIDE DEF longer
    <3>2. QED BY <1>2, <3>1 DEF Lines
  <2>4. len + 1 < LINE <=> Len(st.open) < LINE - 1
    BY <1>1, <1>3, LineAssumption, SMT
  <2>5. Owed(line', 0, len') = longer
    <3>1. CASE len + 1 < LINE
      BY <1>1, <1>3, <2>1, <2>2, <2>4, <3>1, OwedGrows
    <3>2. CASE ~(len + 1 < LINE)
      BY <1>3, <2>1, <2>4, <3>2
    <3>3. QED BY <3>1, <3>2
  <2>6. cookedOut' \o Owed(line', pos', have') = st.done
    BY <1>1, <1>3, <1>5, <2>1
  <2> HIDE DEF longer
  <2>7. QED BY <1>1, <2>1, <2>2, <2>3, <2>5, <2>6 DEF LinesInv, LinesDeliveredOnce
<1>11. ASSUME NEW c \in KEYS \cup {NL}, CookedEnter(c) PROVE LinesInv'
  <2> DEFINE full == len >= LINE - 1
             whole == IF full THEN line ELSE [line EXCEPT ![len] = NL]
             h == IF full THEN len ELSE len + 1
             e == IF Len(st.open) < LINE - 1 THEN <<NL>> ELSE <<>>
  <2>1. /\ line' = whole /\ Deliver(whole, 0, h, count) /\ pc' = "app" /\ c = NL
    BY <1>11 DEF CookedEnter, Return
  <2>2. k \in {CR, NL} /\ k \notin {BS, DEL} /\ ~(k < 0)
        /\ Disciplined(cookedIn') = Discipline(st, k)
    BY <1>6, <1>8, <1>11, <2>1 DEF CookedEnter
  <2>3. Discipline(st, k).done = st.done \o st.open \o e
    BY <2>2 DEF Discipline
  <2>4. full <=> ~(Len(st.open) < LINE - 1)
    BY <1>1, <1>3, LineAssumption, SMT
  <2>5. NL \in Int /\ len \in Nat /\ h \in Nat /\ 0 + h <= LINE /\ 0 \in Nat
    BY <1>1, LineAssumption, SMT DEF NL
  <2>6. whole \in Storage
    BY <1>1, <2>5 DEF Storage
  <2>7. Owed(whole, 0, h) = st.open \o e
    <3>1. CASE full
      BY <1>2, <1>3, <2>4, <3>1, ConcatEmptySeq DEF Lines
    <3>2. CASE ~full
      <4>1. Owed(whole, 0, h) = Append(st.open, NL)
        BY <1>1, <1>3, <2>5, <3>2, OwedGrows
      <4>2. Append(st.open, NL) = st.open \o <<NL>>
        BY <1>2, <2>5, AppendIsConcat DEF Lines
      <4>3. QED BY <2>4, <3>2, <4>1, <4>2
    <3>3. QED BY <3>1, <3>2
  <2>8. e \in Seq(Int)
    BY <2>5, EmptySeq
  <2> HIDE DEF whole, h, e, full
  <2>9. /\ cookedOut' \in Seq(Int)
        /\ cookedOut' \o Owed(whole, pos', have') = cookedOut \o Owed(whole, 0, h)
    BY <1>1, <2>1, <2>5, <2>6, DeliverKeepsTheWhole
  <2>10. cookedOut \o (st.open \o e) = cookedOut \o st.open \o e
    <3>1. cookedOut \in Seq(Int) /\ st.open \in Seq(Int) /\ e \in Seq(Int)
      BY <1>1, <1>2, <2>8 DEF Lines
    <3>2. (cookedOut \o st.open) \o e = cookedOut \o (st.open \o e)
      BY <3>1, Concatenations, Zenon
    <3>3. QED BY <3>2
  <2>11. QED BY <1>3, <2>1, <2>2, <2>3, <2>7, <2>9, <2>10 DEF LinesInv, LinesDeliveredOnce
<1>12. QED BY <1>7, <1>9, <1>10, <1>11 DEF Cooked

LEMMA NextLinesInv == TypeInv /\ LineInv /\ LinesInv /\ [Next]_vars => LinesInv'
<1> SUFFICES ASSUME TypeInv, LineInv, LinesInv, [Next]_vars PROVE LinesInv'
  OBVIOUS
<1>1. ASSUME NEW c \in KEYS, KeyInterrupt(c) PROVE LinesInv'
  BY <1>1, LinesFrame DEF KeyInterrupt, ghosts
<1>2. CASE TimerInterrupt
  BY <1>2, LinesFrame DEF TimerInterrupt, ghosts
<1>3. CASE Program
  <2>1. ASSUME Between PROVE LinesInv'
    BY <2>1, LinesFrame DEF Between, ghosts
  <2>2. BetweenReads => Between
    BY BetweenReadsIsBetween
  <2>3. ASSUME NEW n \in COUNTS, ReadRaw(n) PROVE LinesInv'
    <3>1. CASE have = 0
      BY <2>3, <3>1, EmptyLinesInv DEF ReadRaw, edit
    <3>2. CASE have # 0
      BY <2>3, <3>2, LinesFrame DEF ReadRaw
    <3>3. QED BY <3>1, <3>2
  <2>4. ASSUME NEW n \in COUNTS, ReadRest(n) PROVE LinesInv'
    <3>1. /\ Deliver(line, pos, have, n) /\ n \in Nat
          /\ UNCHANGED <<pc, line, cookedIn>> /\ pc = "app"
      BY <2>4, CountsAssumption DEF ReadRest
    <3>2. pos \in Nat /\ have \in Nat /\ pos + have <= LINE
      BY LineAssumption, SMT DEF LineInv, LineInBounds
    <3>3. line \in Storage
      BY StorageIsTyped DEF LineInv
    <3>4. /\ cookedOut' \in Seq(Int)
          /\ cookedOut' \o Owed(line, pos', have') = cookedOut \o Owed(line, pos, have)
      BY <3>1, <3>2, <3>3, DeliverKeepsTheWhole DEF LinesInv
    <3>5. QED BY <3>1, <3>4 DEF LinesInv, LinesDeliveredOnce
  <2>5. ASSUME NEW n \in COUNTS, ReadLine(n) PROVE LinesInv'
    BY <2>5, EmptyLinesInv DEF ReadLine
  <2>6. QED BY <1>3, <2>1, <2>2, <2>3, <2>4, <2>5, ProgramParts
<1>4. CASE Cooked
  BY <1>4, CookedLinesInv
<1>5. CASE RawTake
  BY <1>5, LinesFrame DEF RawTake
<1>6. CASE RawEnd
  BY <1>6, LinesFrame DEF RawEnd, RawReturn, Return
<1>7. CASE RawNegative
  BY <1>7, LinesFrame DEF RawNegative, RawReturn, Return
<1>8. CASE Halt
  BY <1>8, LinesFrame DEF Halt, ghosts
<1>9. CASE UNCHANGED vars
  BY <1>9, LinesFrame DEF vars, ghosts
<1>10. QED
  BY <1>1, <1>2, <1>3, <1>4, <1>5, <1>6, <1>7, <1>8, <1>9 DEF Next, Raw

LEMMA InitLinesInv == Init => LinesInv
<1> SUFFICES ASSUME Init PROVE LinesInv
  OBVIOUS
<1>1. cookedIn = <<>> /\ cookedOut = <<>> /\ have = 0 /\ pc = "app"
  BY DEF Init
<1>2. <<>> \in Seq(Int) /\ 0 \in Int
  BY EmptySeq
<1>3. <<>> \o <<>> = <<>> /\ Disciplined(<<>>) = NoLines
  BY <1>2, ConcatEmptySeq, DisciplinedAppend
<1>4. Owed(line, pos, 0) = <<>>
  BY NothingOwed
<1>5. QED BY <1>1, <1>2, <1>3, <1>4 DEF LinesInv, LinesDeliveredOnce, NoLines

(* However the program cuts its reads and changes modes and backends between    *)
(* them, every byte of every completed line is delivered once and in order      *)
(* (stubs.c:133-170): what was delivered and what is still owed make up the     *)
(* edited input.                                                              *)
THEOREM LinesAreDelivered == Spec => []LinesDeliveredOnce
<1>1. Spec => []LineInv
  BY InitLineInv, NextLineInv, PTL DEF Spec
<1>2. Spec => []LinesInv
  BY <1>1, InitLinesInv, NextLinesInv, TypeInvHolds, PTL DEF Spec
<1>3. LinesInv => LinesDeliveredOnce
  BY DEF LinesInv
<1>4. QED BY <1>2, <1>3, PTL

-----------------------------------------------------------------------------
(* What the echo leaves on the screen.                                        *)

Shown == g_tty_echo /\ g_ops = "text"

\* A line that never reached the right edge lies where it began.
LineOnScreen ==
  /\ con.row = start.row /\ con.col = start.col + len
  /\ \A i \in 0 .. len - 1 : con.mem[At(start) + i] = vga_entry(line[i])
  /\ \A i \in len .. peak - 1 : con.mem[At(start) + i] = vga_entry(Space)
  /\ \A p \in Cells : p < At(start) \/ p >= At(start) + peak => con.mem[p] = start.mem[p]

\* Any line: the cursor is between its length and the number of characters it
\* was given away from its beginning, until these go round the screen.
CursorDrift ==
  /\ typed < ScreenSize => /\ len <= Offset(At(con), At(start))
                           /\ Offset(At(con), At(start)) <= typed
  /\ \A p \in Cells : Offset(p, At(start)) > typed => con.mem[p] = start.mem[p]

ScreenInv ==
  /\ peak \in Nat /\ typed \in Nat
  /\ pc # "cooked" => start = con /\ peak = 0 /\ typed = 0
  /\ pc = "cooked" => len <= peak /\ peak <= typed
  /\ pc = "cooked" /\ ~Shown => con = start
  /\ pc = "cooked" /\ Shown => CursorDrift /\ (start.col + peak < VGA_W => LineOnScreen)

LEMMA ConsolePlaces ==
  /\ VGA_W \in Int
  /\ \A c \in Consoles : c.row \in Int /\ c.col \in Int /\ 0 <= c.col
<1>1. VGA_W \in Int /\ VGA_H \in Int
  BY ScreenAssumption, SMT
<1>2. ASSUME NEW c \in Consoles PROVE c.row \in Int /\ c.col \in Int /\ 0 <= c.col
  <2>1. c.row \in 0 .. VGA_H - 1 /\ c.col \in 0 .. VGA_W - 1
    BY DEF Consoles
  <2>2. QED BY <1>1, <2>1, SMT
<1>3. QED BY <1>1, <1>2

LEMMA ScreenFrame ==
  ASSUME ScreenInv, UNCHANGED <<len, line, con, start, peak, typed>>,
         UNCHANGED <<g_tty_echo, g_ops, pc>> \/ (pc # "cooked" /\ pc' # "cooked")
  PROVE  ScreenInv'
<1>1. CASE UNCHANGED <<g_tty_echo, g_ops, pc>>
  BY <1>1 DEF ScreenInv, Shown, CursorDrift, LineOnScreen
<1>2. CASE pc # "cooked" /\ pc' # "cooked"
  BY <1>2 DEF ScreenInv
<1>3. QED BY <1>1, <1>2

\* Where no line is on the screen, or one begins.
LEMMA ScreenFresh ==
  ASSUME TypeInv', start' = con', peak' = 0, typed' = 0, pc' = "cooked" => len' = 0
  PROVE  ScreenInv'
<1>1. At(con') \in Cells /\ con'.col \in Int
  BY AtIsACell DEF TypeInv, Screens, Consoles
<1>2. ASSUME pc' = "cooked" PROVE (CursorDrift /\ LineOnScreen)'
  <2>1. Offset(At(con'), At(con')) = 0
    BY <1>1, SizeType, SMT DEF Offset
  <2>2. CursorDrift'
    BY <1>2, <2>1, SMT DEF CursorDrift
  <2>3. con'.col + 0 = con'.col /\ 0 .. 0 - 1 = {} /\ 0 .. -1 = {}
    BY <1>1, SMT
  <2>4. LineOnScreen'
    BY <1>2, <2>3 DEF LineOnScreen
  <2>5. QED BY <2>2, <2>4
<1>3. QED BY <1>2, SMT DEF ScreenInv

(* A character echoed: one cell written, the cursor on the next.               *)
LEMMA StoreOnScreen ==
  ASSUME TypeInv, LineInv, ScreenInv, pc = "cooked", pc' = "cooked", Shown, Shown',
         NEW c \in Chars, c \notin {CR, NL, BS}, con' = vga_putc(con, c),
         len + 1 < LINE, line' = [line EXCEPT ![len] = c], len' = len + 1,
         peak' = (IF len' > peak THEN len' ELSE peak), typed' = typed + 1, start' = start
  PROVE  ScreenInv'
<1> DEFINE S == At(start)
           A == At(con)
<1>1. /\ S \in Cells /\ A \in Cells /\ con \in Consoles /\ start \in Consoles
      /\ len \in Nat /\ peak \in Nat /\ typed \in Nat /\ len <= peak /\ peak <= typed
      /\ CursorDrift /\ (start.col + peak < VGA_W => LineOnScreen)
  <2>1. len \in Nat
    BY LineAssumption, SMT DEF LineInv, LineInBounds
  <2>2. QED BY <2>1, AtIsACell DEF TypeInv, Screens, ScreenInv
<1>2. /\ con'.mem = [con.mem EXCEPT ![A] = vga_entry(c)]
      /\ At(con') = NextCell(A)
      /\ con.col + 1 < VGA_W => con'.row = con.row /\ con'.col = con.col + 1
  BY <1>1, EchoCharacter
<1>3. con'.mem[A] = vga_entry(c) /\ \A p \in Cells : p # A => con'.mem[p] = con.mem[p]
  BY <1>1, <1>2 DEF Consoles
<1>4. ScreenSize \in Nat \ {0} /\ Cells = 0 .. ScreenSize - 1
  BY SizeType
<1> HIDE DEF S, A
<1>5. CursorDrift'
  <2>1. ASSUME typed' < ScreenSize
        PROVE  len' <= Offset(At(con'), S) /\ Offset(At(con'), S) <= typed'
    <3>1. typed + 1 < ScreenSize /\ typed < ScreenSize
      BY <1>1, <1>4, <2>1, SMT
    <3>2. len <= Offset(A, S) /\ Offset(A, S) <= typed
      BY <1>1, <3>1 DEF CursorDrift, S, A
    <3>3. Offset(NextCell(A), S) = Offset(A, S) + 1
      BY <1>1, <1>4, <3>1, <3>2, SMT DEF Offset, NextCell
    <3>4. Offset(A, S) \in Int
      BY <1>1, <1>4, SMT DEF Offset
    <3> HIDE DEF Offset
    <3>5. QED BY <1>1, <1>2, <3>2, <3>3, <3>4, SMT
  <2>2. ASSUME NEW p \in Cells, Offset(p, S) > typed' PROVE con'.mem[p] = start.mem[p]
    <3>1. Offset(p, S) < ScreenSize /\ Offset(p, S) \in Int /\ Offset(A, S) \in Int
      BY <1>1, <1>4, SMT DEF Offset
    <3>2. typed < ScreenSize /\ Offset(p, S) > typed
      BY <1>1, <1>4, <2>2, <3>1, SMT
    <3>3. Offset(A, S) <= typed
      BY <1>1, <3>2 DEF CursorDrift, S, A
    <3>4. ~(Offset(p, S) <= typed)
      BY <1>1, <3>1, <3>2, SMT
    <3>5. p # A
      BY <3>3, <3>4
    <3>6. con.mem[p] = start.mem[p]
      BY <1>1, <3>2 DEF CursorDrift, S
    <3>7. QED BY <1>3, <3>5, <3>6
  <2>3. QED BY <2>1, <2>2 DEF CursorDrift, S
<1>6. ASSUME start.col + peak' < VGA_W PROVE LineOnScreen'
  <2>1. /\ start.col \in Int /\ start.row \in Int /\ con.col \in Int /\ VGA_W \in Int
        /\ S \in Int
    <3>1. S \in Int
      BY <1>1, <1>4, SMT
    <3>2. QED BY <1>1, <3>1, ConsolePlaces
  <2>2. peak' \in Int /\ peak <= peak' /\ len + 1 <= peak' /\ (peak' = peak \/ peak' = len + 1)
    BY <1>1, SMT
  <2>3. start.col + peak < VGA_W /\ start.col + len + 1 < VGA_W
    BY <1>1, <1>6, <2>1, <2>2, SMT
  <2>4. LineOnScreen
    BY <1>1, <2>3
  <2>5. con.col = start.col + len /\ con.row = start.row
    BY <2>4 DEF LineOnScreen
  <2>6. con'.row = start.row /\ con'.col = start.col + len'
    <3>1. con.col + 1 < VGA_W /\ con.col + 1 = start.col + (len + 1)
      BY <1>1, <2>1, <2>3, <2>5, SMT
    <3>2. QED BY <1>2, <2>5, <3>1
  <2>7. A = S + len
    <3>1. start.row * VGA_W \in Int
      BY <2>1, SMT
    <3>2. start.row * VGA_W + (start.col + len) = (start.row * VGA_W + start.col) + len
      BY <1>1, <2>1, <3>1, SMT
    <3>3. QED BY <2>5, <3>2 DEF A, S, At
  <2>8. /\ line'[len] = c /\ \A i \in 0 .. len - 1 : line'[i] = line[i] /\ S + i # A
    <3>1. len \in 0 .. LINE - 1 /\ \A i \in 0 .. len - 1 : i \in 0 .. LINE - 1 /\ i # len /\ S + i # S + len
      BY <1>1, <2>1, LineAssumption, SMT DEF LineInv, LineInBounds
    <3>2. QED BY <2>7, <3>1 DEF LineInv, LineInBounds
  <2>9. \A i \in 0 .. len - 1 : S + i \in Cells /\ con.mem[S + i] = vga_entry(line[i])
    <3>1. \A i \in 0 .. len - 1 : S + i \in Cells
      BY <1>1, <1>4, <2>1, <2>7, SMT
    <3>2. QED BY <2>4, <3>1 DEF LineOnScreen, S
  <2>10. \A i \in 0 .. len' - 1 : con'.mem[S + i] = vga_entry(line'[i])
    <3>1. ASSUME NEW i \in 0 .. len' - 1 PROVE con'.mem[S + i] = vga_entry(line'[i])
      <4>1. i = len \/ i \in 0 .. len - 1
        BY <1>1, SMT
      <4>2. QED BY <1>3, <2>7, <2>8, <2>9, <4>1
    <3>2. QED BY <3>1
  <2>11. ASSUME NEW i \in len' .. peak' - 1 PROVE con'.mem[S + i] = vga_entry(Space)
    <3>1. peak' = peak /\ i \in len .. peak - 1 /\ i # len
      BY <1>1, <2>2, SMT
    <3>2. con.mem[S + i] = vga_entry(Space)
      BY <2>4, <3>1 DEF LineOnScreen, S
    <3>3. S + i # A /\ S + i \in Cells
      <4>1. S + i # A
        BY <1>1, <2>1, <2>7, <3>1, SMT
      <4>2. start.col + i \in 0 .. VGA_W - 1
        BY <1>1, <2>1, <2>3, <3>1, SMT DEF Consoles
      <4>3. start.row * VGA_W + (start.col + i) \in Cells
        BY <1>1, <4>2, CellOf DEF Consoles
      <4>4. start.row * VGA_W + (start.col + i) = (start.row * VGA_W + start.col) + i
        <5>1. start.row * VGA_W \in Int
          BY <2>1, SMT
        <5>2. QED BY <2>1, <3>1, <5>1, SMT
      <4>5. QED BY <4>1, <4>3, <4>4 DEF S, At
    <3>4. QED BY <1>3, <3>2, <3>3
  <2>12. ASSUME NEW p \in Cells, p < S \/ p >= S + peak' PROVE con'.mem[p] = start.mem[p]
    <3>1. (p < S \/ p >= S + peak) /\ p # A
      BY <1>1, <1>4, <2>1, <2>2, <2>7, <2>12, SMT
    <3>2. con.mem[p] = start.mem[p]
      BY <2>4, <3>1 DEF LineOnScreen, S
    <3>3. QED BY <1>3, <3>1, <3>2
  <2>13. QED BY <2>6, <2>10, <2>11, <2>12 DEF LineOnScreen, S
<1>7. peak' \in Nat /\ typed' \in Nat /\ len' <= peak' /\ peak' <= typed'
  BY <1>1, SMT
<1>8. QED BY <1>5, <1>6, <1>7 DEF ScreenInv

(* A character erased: one cell blanked, and the cursor one back or where it    *)
(* was.                                                                       *)
LEMMA EraseOnScreen ==
  ASSUME TypeInv, LineInv, ScreenInv, pc = "cooked", pc' = "cooked", Shown, Shown',
         con' = vga_write(con, <<BS, Space, BS>>),
         len > 0, len' = len - 1, UNCHANGED <<line, peak, typed, start>>
  PROVE  ScreenInv'
<1> DEFINE S == At(start)
           A == At(con)
<1>1. /\ S \in Cells /\ A \in Cells /\ con \in Consoles /\ start \in Consoles
      /\ len \in Nat /\ peak \in Nat /\ typed \in Nat /\ len <= peak /\ peak <= typed
      /\ CursorDrift /\ (start.col + peak < VGA_W => LineOnScreen)
  <2>1. len \in Nat
    BY LineAssumption, SMT DEF LineInv, LineInBounds
  <2>2. QED BY <2>1, AtIsACell DEF TypeInv, Screens, ScreenInv
<1>2. /\ con.col > 0 =>
           /\ con'.mem = [con.mem EXCEPT ![A - 1] = vga_entry(Space)]
           /\ At(con') = A - 1 /\ con'.row = con.row /\ con'.col = con.col - 1
      /\ ~(con.col > 0) =>
           /\ con'.mem = [con.mem EXCEPT ![A] = vga_entry(Space)]
           /\ At(con') = A /\ con'.row = con.row /\ con'.col = con.col
  BY <1>1, EchoErased
<1> DEFINE B == At(con')
<1>3. /\ (B = A \/ (B = A - 1 /\ con.col > 0)) /\ B \in Cells
      /\ con.col > 0 => B = A - 1 /\ con'.row = con.row /\ con'.col = con.col - 1
      /\ con'.mem = [con.mem EXCEPT ![B] = vga_entry(Space)]
  <2>1. con' \in Consoles
    <3>1. BS \in Chars /\ Space \in Chars
      BY KeysAreChars
    <3>2. <<BS, Space, BS>> \in Seq(Chars) /\ Synced(con)
      BY <3>1 DEF TypeInv, Screens
    <3>3. QED BY <1>1, <3>2, WriteType
  <2>2. B \in Cells
    BY <2>1, AtIsACell
  <2>3. QED BY <1>2, <2>2
<1>3a. B \in Cells
  BY <1>3
<1>4. con'.mem[B] = vga_entry(Space) /\ \A p \in Cells : p # B => con'.mem[p] = con.mem[p]
  BY <1>1, <1>3 DEF Consoles
<1>5. ScreenSize \in Nat \ {0} /\ Cells = 0 .. ScreenSize - 1
  BY SizeType
<1> HIDE DEF S, A, B
<1>6. ASSUME typed < ScreenSize
      PROVE  len' <= Offset(B, S) /\ Offset(B, S) <= typed
  <2>1. len <= Offset(A, S) /\ Offset(A, S) <= typed
    BY <1>1, <1>6 DEF CursorDrift, S, A
  <2>2. Offset(A, S) \in Int /\ (B = A \/ Offset(B, S) = Offset(A, S) - 1)
    BY <1>1, <1>3, <1>3a, <1>5, <2>1, SMT DEF Offset
  <2> HIDE DEF Offset
  <2>3. QED BY <1>1, <2>1, <2>2, SMT
<1>7. CursorDrift'
  <2>1. ASSUME NEW p \in Cells, Offset(p, S) > typed PROVE con'.mem[p] = start.mem[p]
    <3>1. Offset(p, S) < ScreenSize /\ Offset(p, S) \in Int /\ Offset(B, S) \in Int
      BY <1>1, <1>3a, <1>5, SMT DEF Offset
    <3>2. typed < ScreenSize
      BY <1>1, <1>5, <2>1, <3>1, SMT
    <3>3. Offset(B, S) <= typed
      BY <1>6, <3>2
    <3>4. ~(Offset(p, S) <= typed)
      BY <1>1, <2>1, <3>1, SMT
    <3>5. p # B
      BY <3>3, <3>4
    <3>6. con.mem[p] = start.mem[p]
      BY <1>1, <2>1 DEF CursorDrift, S
    <3>7. QED BY <1>4, <3>5, <3>6
  <2>2. QED BY <1>6, <2>1 DEF CursorDrift, S, B
<1>8. ASSUME start.col + peak < VGA_W PROVE LineOnScreen'
  <2>1. /\ start.col \in Int /\ start.row \in Int /\ con.col \in Int /\ VGA_W \in Int
        /\ S \in Int /\ 0 <= start.col
    <3>1. S \in Int
      BY <1>1, <1>5, SMT
    <3>2. QED BY <1>1, <3>1, ConsolePlaces
  <2>2. LineOnScreen
    BY <1>1, <1>8
  <2>3. con.col = start.col + len /\ con.row = start.row
    BY <2>2 DEF LineOnScreen
  <2>4. con.col > 0 /\ con.col - 1 = start.col + (len - 1)
    BY <1>1, <2>1, <2>3, SMT
  <2>5. con'.row = start.row /\ con'.col = start.col + len'
    BY <1>3, <2>3, <2>4
  <2>6. B = S + (len - 1)
    <3>1. start.row * VGA_W \in Int
      BY <2>1, SMT
    <3>2. (start.row * VGA_W + (start.col + len)) - 1 = (start.row * VGA_W + start.col) + (len - 1)
      BY <1>1, <2>1, <3>1, SMT
    <3>3. QED BY <1>3, <2>3, <2>4, <3>2 DEF A, S, At
  <2>7. \A i \in 0 .. peak - 1 : S + i \in Cells
    <3>1. ASSUME NEW i \in 0 .. peak - 1 PROVE S + i \in Cells
      <4>1. start.col + i \in 0 .. VGA_W - 1
        BY <1>1, <1>8, <2>1, SMT
      <4>2. start.row * VGA_W + (start.col + i) \in Cells
        BY <1>1, <4>1, CellOf DEF Consoles
      <4>3. start.row * VGA_W + (start.col + i) = (start.row * VGA_W + start.col) + i
        <5>1. start.row * VGA_W \in Int
          BY <2>1, SMT
        <5>2. QED BY <2>1, <5>1, SMT
      <4>4. QED BY <4>2, <4>3 DEF S, At
    <3>2. QED BY <3>1
  <2>8. \A i \in 0 .. len' - 1 : con'.mem[S + i] = vga_entry(line'[i])
    <3>1. ASSUME NEW i \in 0 .. len' - 1 PROVE con'.mem[S + i] = vga_entry(line'[i])
      <4>1. i \in 0 .. len - 1 /\ i \in 0 .. peak - 1 /\ S + i # B
        BY <1>1, <2>1, <2>6, SMT
      <4>2. QED BY <1>4, <2>2, <2>7, <4>1 DEF LineOnScreen, S
    <3>2. QED BY <3>1
  <2>9. ASSUME NEW i \in len' .. peak - 1 PROVE con'.mem[S + i] = vga_entry(Space)
    <3>1. i = len - 1 \/ (i \in len .. peak - 1 /\ i \in 0 .. peak - 1 /\ S + i # B)
      BY <1>1, <2>1, <2>6, SMT
    <3>2. CASE i = len - 1
      BY <1>4, <2>6, <3>2
    <3>3. CASE i \in len .. peak - 1 /\ i \in 0 .. peak - 1 /\ S + i # B
      BY <1>4, <2>2, <2>7, <3>3 DEF LineOnScreen, S
    <3>4. QED BY <3>1, <3>2, <3>3
  <2>10. ASSUME NEW p \in Cells, p < S \/ p >= S + peak PROVE con'.mem[p] = start.mem[p]
    <3>1. p # B
      BY <1>1, <1>5, <2>1, <2>6, <2>10, SMT
    <3>2. con.mem[p] = start.mem[p]
      BY <2>2, <2>10 DEF LineOnScreen, S
    <3>3. QED BY <1>4, <3>1, <3>2
  <2>11. QED BY <2>5, <2>8, <2>9, <2>10 DEF LineOnScreen, S
<1>9. len' <= peak
  BY <1>1, SMT
<1>10. QED BY <1>1, <1>7, <1>8, <1>9 DEF ScreenInv

LEMMA CookedScreenInv ==
  ASSUME TypeInv, TypeInv', LineInv, ScreenInv, Cooked
  PROVE  ScreenInv'
<1>1. CASE CookedNothing
  BY <1>1, ScreenFrame DEF CookedNothing, edit, tty, begun
<1>2. ASSUME NEW c \in KEYS \cup {NL}, CookedTurn(c)
      PROVE  /\ pc = "cooked" /\ UNCHANGED <<g_tty_echo, g_ops>> /\ c # CR /\ c \in Chars
             /\ Shown' = Shown
  <2>1. c # CR
    <3>1. NL # CR
      BY SMT DEF NL, CR
    <3>2. QED BY <1>2, <3>1 DEF CookedTurn
  <2>2. c \in Chars
    BY KeysAreChars
  <2>3. UNCHANGED <<g_tty_echo, g_ops>>
    BY <1>2 DEF CookedTurn, tty
  <2>4. QED BY <1>2, <2>1, <2>2, <2>3 DEF CookedTurn, Shown
<1>3. BS # NL
  BY SMT DEF BS, NL
<1>4. ASSUME NEW c \in KEYS \cup {NL}, CookedErase(c) PROVE ScreenInv'
  <2>1. /\ CookedTurn(c) /\ UNCHANGED <<pc, line, start, peak, typed>>
        /\ IF len > 0 THEN len' = len - 1 /\ echo_char(BS) ELSE UNCHANGED <<len, con>>
    BY <1>4 DEF CookedErase, CanErase, begun
  <2>2. CASE ~(len > 0)
    BY <1>2, <2>1, <2>2, ScreenFrame
  <2>3. CASE len > 0 /\ Shown
    <3>1. con' = vga_write(con, <<BS, Space, BS>>)
      BY <2>1, <2>3 DEF echo_char, console_write, Shown
    <3>2. QED BY <1>2, <2>1, <2>3, <3>1, EraseOnScreen
  <2>4. CASE len > 0 /\ ~Shown
    <3>1. con' = con /\ len' = len - 1
      BY <2>1, <2>4 DEF echo_char, console_write, Shown
    <3>2. len \in Nat
      BY LineAssumption, SMT DEF LineInv, LineInBounds
    <3>3. peak \in Nat /\ typed \in Nat /\ len <= peak /\ peak <= typed /\ con = start /\ pc = "cooked"
      BY <1>2, <2>1, <2>4 DEF ScreenInv
    <3>4. len' <= peak
      BY <3>1, <3>2, <3>3, SMT
    <3>5. QED BY <1>2, <2>1, <2>4, <3>1, <3>3, <3>4 DEF ScreenInv
  <2>5. QED BY <2>2, <2>3, <2>4
<1>5. ASSUME NEW c \in KEYS \cup {NL}, CookedEnter(c) PROVE ScreenInv'
  BY <1>5, ScreenFresh DEF CookedEnter, Return
<1>6. ASSUME NEW c \in KEYS \cup {NL}, CookedStore(c) PROVE ScreenInv'
  <2>1. /\ CookedTurn(c) /\ UNCHANGED <<pc, start>> /\ c \notin {BS, DEL, NL}
        /\ IF len + 1 < LINE
           THEN /\ line' = [line EXCEPT ![len] = c] /\ len' = len + 1 /\ echo_char(c)
                /\ peak' = (IF len' > peak THEN len' ELSE peak) /\ typed' = typed + 1
           ELSE UNCHANGED <<line, len, con, peak, typed>>
    BY <1>6 DEF CookedStore, HasSpace
  <2>2. CASE ~(len + 1 < LINE)
    BY <1>2, <2>1, <2>2, ScreenFrame
  <2>3. CASE len + 1 < LINE /\ Shown
    <3>1. con' = vga_putc(con, c)
      BY <2>1, <2>3 DEF echo_char, console_putc, Shown
    <3>2. c \notin {CR, NL, BS} /\ pc = "cooked" /\ pc' = "cooked" /\ c \in Chars /\ Shown'
      BY <1>2, <2>1, <2>3
    <3>3. QED BY <2>1, <2>3, <3>1, <3>2, StoreOnScreen
  <2>4. CASE len + 1 < LINE /\ ~Shown
    <3>1. con' = con
      BY <2>1, <2>4 DEF echo_char, console_putc, Shown
    <3>2. len \in Nat
      BY LineAssumption, SMT DEF LineInv, LineInBounds
    <3>3. peak \in Nat /\ typed \in Nat /\ len <= peak /\ peak <= typed /\ con = start /\ pc = "cooked"
      BY <1>2, <2>1, <2>4 DEF ScreenInv
    <3>4. peak' \in Nat /\ typed' \in Nat /\ len' <= peak' /\ peak' <= typed'
      BY <2>1, <2>4, <3>2, <3>3, SMT
    <3>5. QED BY <1>2, <2>1, <2>4, <3>1, <3>3, <3>4 DEF ScreenInv
  <2>5. QED BY <2>2, <2>3, <2>4
<1>7. QED BY <1>1, <1>4, <1>5, <1>6 DEF Cooked

LEMMA NextScreenInv == TypeInv /\ TypeInv' /\ LineInv /\ ScreenInv /\ [Next]_vars => ScreenInv'
<1> SUFFICES ASSUME TypeInv, TypeInv', LineInv, ScreenInv, [Next]_vars PROVE ScreenInv'
  OBVIOUS
<1>1. ASSUME NEW c \in KEYS, KeyInterrupt(c) PROVE ScreenInv'
  BY <1>1, ScreenFrame DEF KeyInterrupt, tty, edit, begun
<1>2. CASE TimerInterrupt
  BY <1>2, ScreenFrame DEF TimerInterrupt, tty, edit, begun
<1>3. CASE Program
  <2>1. pc = "app" => start = con /\ peak = 0 /\ typed = 0
    BY DEF ScreenInv
  <2>2. ASSUME BetweenReads PROVE ScreenInv'
    <3>1. Between /\ (start' = con' \/ UNCHANGED <<start, con>>)
      BY <2>2, BetweenReadsIsBetween DEF BetweenReads, stdin_set_mode, stdin_set_echo,
         stdin_set_backend, console_set_backend, Clear, _write, Shows
    <3>2. start' = con' /\ peak' = 0 /\ typed' = 0 /\ pc' = "app"
      BY <2>1, <3>1 DEF Between
    <3>3. QED BY <3>2, ScreenFresh
  <2>3. ASSUME NEW n \in COUNTS, ReadRaw(n) \/ ReadRest(n) \/ ReadLine(n) PROVE ScreenInv'
    <3>1. start' = con' /\ peak' = 0 /\ typed' = 0 /\ (pc' = "cooked" => len' = 0)
      BY <2>1, <2>3 DEF ReadRaw, ReadRest, ReadLine, begun
    <3>2. QED BY <3>1, ScreenFresh
  <2>4. QED BY <1>3, <2>2, <2>3, ProgramParts
<1>4. CASE Cooked
  BY <1>4, CookedScreenInv
<1>5. CASE RawTake
  BY <1>5, ScreenFrame DEF RawTake, tty, edit, begun
<1>6. ASSUME RawReturn, UNCHANGED <<tty, edit>>, pc = "raw" PROVE ScreenInv'
  <2>1. CASE buf = <<>>
    BY <1>6, <2>1, ScreenFrame DEF RawReturn, tty, edit, begun
  <2>2. CASE buf # <<>>
    BY <1>6, <2>2, ScreenFresh DEF RawReturn, Return
  <2>3. QED BY <2>1, <2>2
<1>7. CASE RawEnd
  BY <1>6, <1>7 DEF RawEnd
<1>8. CASE RawNegative
  BY <1>6, <1>8 DEF RawNegative
<1>9. CASE Halt
  BY <1>9, ScreenFrame DEF Halt, tty, edit, begun
<1>10. CASE UNCHANGED vars
  BY <1>10, ScreenFrame DEF vars, tty, edit, begun
<1>11. QED
  BY <1>1, <1>2, <1>3, <1>4, <1>5, <1>7, <1>8, <1>9, <1>10 DEF Next, Raw

LEMMA ScreenInvHolds == Spec => [](TypeInv /\ LineInv /\ ScreenInv)
<1>1. Spec => []LineInv
  BY InitLineInv, NextLineInv, PTL DEF Spec
<1>2. Init => ScreenInv
  BY SMT DEF Init, ScreenInv
<1>3. QED BY <1>1, <1>2, NextScreenInv, TypeInvHolds, PTL DEF Spec

(* With echo, and as long as the line never reached the right edge, it stands on *)
(* the screen where it began, the cursor behind it, its erased characters       *)
(* blank (stubs.c:27-31 and 152-175, video_text.c:57-82).                      *)
THEOREM EchoIsOnTheScreen == Spec => []EchoShowsTheLine
<1>1. ASSUME TypeInv, LineInv, ScreenInv PROVE EchoShowsTheLine
  <2> SUFFICES ASSUME pc = "cooked", Shown, start.col + peak < VGA_W
               PROVE  /\ con.cursor = start.cursor + len
                      /\ \A i \in 0 .. len - 1 : con.mem[start.cursor + i] = vga_entry(line[i])
                      /\ \A i \in len .. peak - 1 : con.mem[start.cursor + i] = vga_entry(Space)
    BY DEF EchoShowsTheLine, Shown
  <2>1. LineOnScreen
    BY <1>1 DEF ScreenInv
  <2>2. start.cursor = At(start) /\ con.cursor = At(con)
    BY <1>1 DEF TypeInv, Screens, Synced
  <2>3. At(con) = At(start) + len
    <3>1. start.row \in Int /\ start.col \in Int /\ VGA_W \in Int /\ len \in Int
      BY <1>1, ConsolePlaces DEF TypeInv, Screens, LineInv, LineInBounds
    <3>2. start.row * VGA_W \in Int
      BY <3>1, SMT
    <3>3. start.row * VGA_W + (start.col + len) = (start.row * VGA_W + start.col) + len
      BY <3>1, <3>2, SMT
    <3>4. QED BY <2>1, <3>3 DEF LineOnScreen, At
  <2>4. QED BY <2>1, <2>2, <2>3 DEF LineOnScreen
<1>2. QED BY <1>1, ScreenInvHolds, PTL

(* Editing changes nothing outside of the line's longest extent, and where the   *)
(* line reached the right edge nothing further from its beginning than the      *)
(* characters it was given (stubs.c:151-175, video_text.c:57-82).              *)
THEOREM EditingStaysNearTheLine == Spec => []EditingKeepsTheScreen
<1>1. ASSUME TypeInv, LineInv, ScreenInv PROVE EditingKeepsTheScreen
  <2> DEFINE d(p) == (p - start.cursor) % (VGA_W * VGA_H)
  <2> SUFFICES ASSUME pc = "cooked", NEW p \in Cells,
                      d(p) > typed \/ (start.col + peak < VGA_W /\ d(p) >= peak)
               PROVE  con.mem[p] = start.mem[p]
    BY DEF EditingKeepsTheScreen
  <2>1. CASE ~Shown
    BY <1>1, <2>1 DEF ScreenInv
  <2>2. CASE Shown
    <3>1. At(start) \in Cells /\ start.cursor = At(start)
      BY <1>1, AtIsACell DEF TypeInv, Screens, Synced
    <3>2. d(p) = Offset(p, At(start))
      BY <3>1, OffsetIsModulo
    <3>3. CASE Offset(p, At(start)) > typed
      BY <1>1, <2>2, <3>3 DEF ScreenInv, CursorDrift
    <3>4. CASE start.col + peak < VGA_W /\ Offset(p, At(start)) >= peak
      <4>1. LineOnScreen /\ peak \in Nat
        BY <1>1, <2>2, <3>4 DEF ScreenInv
      <4>2. p < At(start) \/ p >= At(start) + peak
        BY <3>1, <3>4, <4>1, SizeType, SMT DEF Offset
      <4>3. QED BY <4>1, <4>2 DEF LineOnScreen
    <3> HIDE DEF d
    <3>5. QED BY <3>2, <3>3, <3>4
  <2>3. QED BY <2>1, <2>2
<1>2. QED BY <1>1, ScreenInvHolds, PTL
=============================================================================

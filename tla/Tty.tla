-------------------------------- MODULE Tty ---------------------------------
(* read(0, ...): the terminal of the kernel (_read, kernel/src/kernel/stubs.c) *)
(* over the keyboard buffer (kbd_getchar and kbd_read, drivers/keyboard.c),    *)
(* through the stdin backend (kernel/stdin.c), with its echo on the console    *)
(* (kernel/console.c, drivers/video_text.c); and what the program does between *)
(* its reads: write(1, ...), clear the screen, change modes and backends.      *)
(*                                                                            *)
(* The keyboard interrupt may come between any two steps; the buffer is the   *)
(* queue that KbdRing is shown to implement.  A halt with a character waiting *)
(* is possible: the look at the buffer and the hlt are two steps.             *)
EXTENDS VgaText
LOCAL INSTANCE SequencesExt

CONSTANTS LINE,      \* sizeof(line), 256
          CAPACITY,  \* characters the keyboard buffer holds
          KEYS,      \* the characters the keyboard stores (char is signed)
          COUNTS,    \* the sizes the program reads with
          BEYOND,    \* what may lie in memory behind the bytes of a raw read
          OUTPUTS,   \* what the program writes to the console
          MAXEVENTS  \* bound: characters typed, and calls made between the reads

ASSUME LineAssumption == LINE \in Nat \ {0, 1}
ASSUME KeysAssumption == KEYS \subseteq -128 .. 127 \ {0, -1}
ASSUME CountsAssumption == COUNTS \subseteq Nat
ASSUME OutputsAssumption == OUTPUTS \subseteq Seq(-128 .. 127) /\ BEYOND \subseteq Seq(-128 .. 127)
ASSUME QueueAssumption == CAPACITY \in Nat /\ MAXEVENTS \in Nat

DEL == 127

VARIABLES
  queue,                 \* the keyboard buffer
  events,                \* characters typed and calls made so far
  pc,                    \* "app", or inside _read: "raw", "cooked"
  cpu,                   \* "run", "halting" (about to execute hlt) or "hlt"
  g_tty_mode, g_tty_echo,
  g_in, g_ops,           \* the backends: "ps2" or "null", "text" or "null"
  count,                 \* the size asked for
  line, len, have, pos,  \* the line buffer, its edited length, what is owed and from where
  buf,                   \* the bytes a raw read has collected
  con,                   \* the console
  cookedIn, cookedOut,   \* ghosts: what each discipline took from the
  rawIn, rawOut,         \*   buffer, and what it returned
  start, peak, typed     \* ghosts: the console when the line began, its longest length,
                         \*   and how many characters it was given

tty    == <<g_tty_mode, g_tty_echo, g_in, g_ops>>
edit   == <<line, len, have, pos>>
ghosts == <<cookedIn, cookedOut, rawIn, rawOut>>
begun  == <<start, peak, typed>>
vars   == <<queue, events, pc, cpu, tty, count, edit, buf, con, ghosts, begun>>

Least(m, n) == IF m < n THEN m ELSE n

\* The output backend, and its null counterpart.
console_clear(c)    == IF g_ops = "text" THEN vga_clear(c) ELSE c
console_putc(c, ch) == IF g_ops = "text" THEN vga_putc(c, ch) ELSE c
console_write(c, s) == IF g_ops = "text" THEN vga_write(c, s) ELSE c

\* What the input backend has to give: the null one never has anything.
Input == IF g_in = "ps2" THEN queue ELSE <<>>

OldScreen == [mem |-> [p \in Cells |-> vga_entry(35)], row |-> 0, col |-> 0, cursor |-> 0]

Init ==
  /\ queue = <<>> /\ events = 0
  /\ pc = "app" /\ cpu = "run"
  /\ g_tty_mode = "cooked" /\ g_tty_echo = TRUE
  /\ g_in = "ps2" /\ g_ops = "text"
  /\ count = 0
  /\ line = [i \in 0 .. LINE - 1 |-> 0] /\ len = 0 /\ have = 0 /\ pos = 0
  /\ buf = <<>>
  /\ con = console_clear(OldScreen)
  /\ cookedIn = <<>> /\ cookedOut = <<>> /\ rawIn = <<>> /\ rawOut = <<>>
  /\ start = con /\ peak = 0 /\ typed = 0

-----------------------------------------------------------------------------
(* Interrupts: both end a halt.                                               *)

\* Mutant: the buffer takes one character too many.
Over_kbd_put(c) == queue' = IF Len(queue) <= CAPACITY THEN Append(queue, c) ELSE queue
kbd_put(c) == queue' = IF Len(queue) < CAPACITY THEN Append(queue, c) ELSE queue

KeyInterrupt(c) ==
  /\ events < MAXEVENTS
  /\ events' = events + 1
  /\ kbd_put(c)
  /\ cpu' = IF cpu = "hlt" THEN "run" ELSE cpu
  /\ UNCHANGED <<pc, tty, count, edit, buf, con, ghosts, begun>>

TimerInterrupt ==
  /\ cpu = "hlt"
  /\ cpu' = "run"
  /\ UNCHANGED <<queue, events, pc, tty, count, edit, buf, con, ghosts, begun>>

-----------------------------------------------------------------------------
(* The program between two reads.                                             *)

Between == pc = "app" /\ UNCHANGED <<queue, pc, cpu, count, edit, buf, ghosts, peak, typed>>

stdin_set_mode(m) ==
  /\ Between
  /\ g_tty_mode' = m
  /\ UNCHANGED <<events, g_tty_echo, g_in, g_ops, con, start>>

stdin_set_echo(on) ==
  /\ Between
  /\ g_tty_echo' = on
  /\ UNCHANGED <<events, g_tty_mode, g_in, g_ops, con, start>>

Call == Between /\ events < MAXEVENTS /\ events' = events + 1
        /\ UNCHANGED <<g_tty_mode, g_tty_echo>>

\* The shutdown of the old backend does nothing, the init of the new one
\* unmasks an interrupt that is not masked.
stdin_set_backend(ops)   == Call /\ g_in' = ops /\ UNCHANGED <<g_ops, con, start>>
console_set_backend(ops) == Call /\ g_ops' = ops /\ UNCHANGED <<g_in, con, start>>

\* write(1, s), and console_clear.
Shows(c) == Call /\ con' = c /\ start' = c /\ UNCHANGED <<g_in, g_ops>>
_write(s) == Shows(console_write(con, s))
Clear == Shows(console_clear(con))

ReadRaw(n) ==
  /\ pc = "app" /\ g_tty_mode = "raw"
  /\ pc' = "raw" /\ count' = n /\ buf' = <<>>
  /\ rawIn' = <<>> /\ rawOut' = <<>>
  /\ IF have = 0 THEN cookedIn' = <<>> /\ cookedOut' = <<>> ELSE UNCHANGED <<cookedIn, cookedOut>>
  /\ UNCHANGED <<queue, events, cpu, tty, edit, con, begun>>

\* The bytes of the line buffer that are owed to the program.
Owed(l, p, h) == [i \in 1 .. h |-> l[p + i - 1]]

\* The locals of _read end with it, and so does the line on the screen.
Return ==
  /\ pc' = "app" /\ count' = 0
  /\ start' = con' /\ peak' = 0 /\ typed' = 0

\* Mutant: the reading position is not moved.
Stuck_Deliver(l, p, h, n) ==
  /\ cookedOut' = cookedOut \o Owed(l, p, Least(h, n))
  /\ pos'  = p
  /\ have' = h - Least(h, n)
\* Hand over what fits; the rest waits in the line buffer.
Deliver(l, p, h, n) ==
  /\ cookedOut' = cookedOut \o Owed(l, p, Least(h, n))
  /\ pos'  = p + Least(h, n)
  /\ have' = h - Least(h, n)

\* A line that is not used up is delivered before anything else is read.
ReadRest(n) ==
  /\ pc = "app" /\ g_tty_mode = "cooked" /\ have > 0
  /\ Deliver(line, pos, have, n)
  /\ UNCHANGED <<queue, events, pc, cpu, tty, count, line, len, buf, con, cookedIn, rawIn,
                 rawOut, begun>>

ReadLine(n) ==
  /\ pc = "app" /\ g_tty_mode = "cooked" /\ have = 0
  /\ pc' = "cooked" /\ count' = n /\ len' = 0
  /\ cookedIn' = <<>> /\ cookedOut' = <<>> /\ rawIn' = <<>> /\ rawOut' = <<>>
  /\ UNCHANGED <<queue, events, cpu, tty, line, have, pos, buf, con, begun>>

-----------------------------------------------------------------------------
(* Cooked: one turn of the loop per character.                                *)

\* Mutant: backspace moves the cursor and leaves the character on the screen.
Bare_echo_char(c) == con' = IF g_tty_echo THEN console_putc(con, c) ELSE con
echo_char(c) ==
  con' = IF ~g_tty_echo THEN con
         ELSE IF c = BS THEN console_write(con, <<BS, Space, BS>>)
         ELSE console_putc(con, c)

\* stdin_getchar answers a negative number, for want of a character or because
\* the character is negative; either way the processor is halted.
CookedNothing ==
  /\ pc = "cooked" /\ cpu = "run"
  /\ Input # <<>> => Head(Input) < 0
  /\ queue' = IF Input = <<>> THEN queue ELSE Tail(queue)
  /\ cookedIn' = IF Input = <<>> THEN cookedIn ELSE Append(cookedIn, Head(Input))
  /\ cpu' = "halting"
  /\ UNCHANGED <<events, pc, tty, count, edit, buf, con, cookedOut, rawIn, rawOut, begun>>

\* A turn with character c, carriage return taken for a line feed.
CookedTurn(c) ==
  /\ pc = "cooked" /\ cpu = "run"
  /\ Input # <<>> /\ Head(Input) >= 0
  /\ c = (IF Head(Input) = CR THEN NL ELSE Head(Input))
  /\ queue' = Tail(queue)
  /\ cookedIn' = Append(cookedIn, Head(Input))
  /\ UNCHANGED <<events, cpu, tty, buf, rawIn, rawOut>>

\* Mutant: backspace does not stop at the beginning of the line.
Unstopped_CanErase == TRUE
CanErase == len > 0

CookedErase(c) ==
  /\ CookedTurn(c) /\ c \in {BS, DEL}
  /\ IF CanErase THEN len' = len - 1 /\ echo_char(BS) ELSE UNCHANGED <<len, con>>
  /\ UNCHANGED <<pc, count, line, have, pos, cookedOut, begun>>

CookedEnter(c) ==
  /\ CookedTurn(c) /\ c = NL
  /\ echo_char(NL)
  /\ LET full == len >= LINE - 1
         whole == IF full THEN line ELSE [line EXCEPT ![len] = NL]
     IN line' = whole /\ Deliver(whole, 0, IF full THEN len ELSE len + 1, count)
  /\ len' = 0
  /\ Return

\* Mutant: the test keeps no room for the line feed.
Tight_HasSpace == len < LINE
HasSpace == len + 1 < LINE

CookedStore(c) ==
  /\ CookedTurn(c) /\ c \notin {BS, DEL, NL}
  /\ IF HasSpace
     THEN /\ line' = [line EXCEPT ![len] = c]
          /\ len' = len + 1
          /\ echo_char(c)
          /\ peak' = IF len' > peak THEN len' ELSE peak
          /\ typed' = typed + 1
     ELSE UNCHANGED <<line, len, con, peak, typed>>
  /\ UNCHANGED <<pc, count, have, pos, cookedOut, start>>

Cooked == CookedNothing \/ \E c \in KEYS \cup {NL} : CookedErase(c) \/ CookedEnter(c) \/ CookedStore(c)

-----------------------------------------------------------------------------
(* Raw: kbd_read collects characters until there are enough or kbd_get answers *)
(* a negative number; with none collected the processor is halted.            *)

\* Mutant: one character more than the program asked for.
Greedy_Wanting == Len(buf) <= count
Wanting == Len(buf) < count

\* Mutant: a read that has something waits until it has everything.
Patient_Enough == ~Wanting \/ (Input = <<>> /\ buf = <<>>)
Enough == ~Wanting \/ Input = <<>>

RawTake ==
  /\ pc = "raw" /\ cpu = "run" /\ Wanting
  /\ Input # <<>> /\ Head(Input) >= 0
  /\ buf' = Append(buf, Head(Input))
  /\ queue' = Tail(queue)
  /\ rawIn' = Append(rawIn, Head(Input))
  /\ UNCHANGED <<events, pc, cpu, tty, count, edit, con, cookedIn, cookedOut, rawOut, begun>>

\* echo_str measures with strlen a buffer that no byte of _read terminates.
RawReturn ==
  IF buf = <<>>
  THEN cpu' = "halting" /\ UNCHANGED <<pc, count, con, rawOut, begun>>
  ELSE /\ rawOut' = rawOut \o buf
       /\ \E more \in BEYOND : con' = IF g_tty_echo THEN console_write(con, buf \o more) ELSE con
       /\ Return
       /\ UNCHANGED cpu

RawEnd ==
  /\ pc = "raw" /\ cpu = "run"
  /\ Enough
  /\ RawReturn
  /\ buf' = <<>>
  /\ UNCHANGED <<queue, events, tty, edit, cookedIn, cookedOut, rawIn>>

\* The negative character ends the loop like an empty buffer, and is gone.
RawNegative ==
  /\ pc = "raw" /\ cpu = "run" /\ Wanting
  /\ Input # <<>> /\ Head(Input) < 0
  /\ queue' = Tail(queue)
  /\ rawIn' = Append(rawIn, Head(Input))
  /\ RawReturn
  /\ buf' = <<>>
  /\ UNCHANGED <<events, tty, edit, cookedIn, cookedOut>>

Raw == RawTake \/ RawEnd \/ RawNegative

Halt ==
  /\ cpu = "halting"
  /\ cpu' = "hlt"
  /\ UNCHANGED <<queue, events, pc, tty, count, edit, buf, con, ghosts, begun>>

-----------------------------------------------------------------------------
Program ==
  \/ \E m \in {"raw", "cooked"} : stdin_set_mode(m)
  \/ \E on \in BOOLEAN : stdin_set_echo(on)
  \/ \E ops \in {"ps2", "null"} : stdin_set_backend(ops)
  \/ \E ops \in {"text", "null"} : console_set_backend(ops)
  \/ Clear \/ \E s \in OUTPUTS : _write(s)
  \/ \E n \in COUNTS : ReadRaw(n) \/ ReadRest(n) \/ ReadLine(n)

Next == (\E c \in KEYS : KeyInterrupt(c)) \/ TimerInterrupt \/ Program \/ Cooked \/ Raw \/ Halt

Spec == Init /\ [][Next]_vars

\* _read keeps running, and the timer ticks; nobody has to press a key.
FairSpec == Spec /\ WF_vars(Cooked \/ Raw \/ Halt) /\ WF_vars(TimerInterrupt)

-----------------------------------------------------------------------------
TypeOK ==
  /\ queue \in Seq(KEYS) /\ Len(queue) <= CAPACITY
  /\ events \in 0 .. MAXEVENTS
  /\ pc \in {"app", "raw", "cooked"} /\ cpu \in {"run", "halting", "hlt"}
  /\ g_tty_mode \in {"raw", "cooked"} /\ g_tty_echo \in BOOLEAN
  /\ g_in \in {"ps2", "null"} /\ g_ops \in {"text", "null"}
  /\ count \in COUNTS \cup {0}
  /\ buf \in Seq(KEYS)
  /\ con.row \in 0 .. VGA_H - 1 /\ con.col \in 0 .. VGA_W - 1 /\ con.cursor \in Cells

(* _read stays inside its line buffer (stubs.c:129-174): the place it stores     *)
(* the next character at exists, the bytes it owes lie inside, and it starts a  *)
(* new line only when nothing is owed.                                        *)
LineInBounds ==
  /\ line \in [0 .. LINE - 1 -> KEYS \cup {0, NL}]
  /\ len \in 0 .. LINE - 1
  /\ have \in 0 .. LINE - 1 /\ pos \in 0 .. LINE - 1 /\ pos + have <= LINE - 1
  /\ pc = "cooked" => have = 0

(* What a line discipline makes of the characters it is given: erased ones     *)
(* vanish, a line is complete at its line feed, and a character that does not  *)
(* fit is dropped, the line feed of a full line too.                          *)
Discipline(state, k) ==
  IF k < 0 THEN state
  ELSE IF k \in {BS, DEL} THEN [state EXCEPT !.open = SubSeq(@, 1, Len(@) - 1)]
  ELSE IF k \in {CR, NL}
    THEN [done |-> state.done \o state.open
                     \o (IF Len(state.open) < LINE - 1 THEN <<NL>> ELSE <<>>),
          open |-> <<>>]
  ELSE [state EXCEPT !.open = IF Len(@) < LINE - 1 THEN Append(@, k) ELSE @]

Disciplined(s) ==
  LET after[i \in 0 .. Len(s)] ==
        IF i = 0 THEN [done |-> <<>>, open |-> <<>>] ELSE Discipline(after[i - 1], s[i])
  IN after[Len(s)]

(* Every byte of every completed line is delivered once and in order, however  *)
(* the program cuts its reads, changes modes and backends between them or lets  *)
(* the line wait (stubs.c:133-170): what was delivered and what is owed of the  *)
(* line make up its edited input.                                             *)
LinesDeliveredOnce ==
  /\ cookedOut \o Owed(line, pos, have) = Disciplined(cookedIn).done
  /\ pc = "cooked" => Owed(line, 0, len) = Disciplined(cookedIn).open

\* s without its negative characters.
Plain(s) ==
  LET upto[i \in 0 .. Len(s)] ==
        IF i = 0 THEN <<>> ELSE IF s[i] >= 0 THEN Append(upto[i - 1], s[i]) ELSE upto[i - 1]
  IN upto[Len(s)]

(* A raw read returns what it took from the buffer, in order, less the negative *)
(* characters kbd_read stops at, and never more than it was asked for          *)
(* (stubs.c:117-125, keyboard.c:178-186).                                      *)
RawDeliveredOnce ==
  /\ rawOut \o buf = Plain(rawIn)
  /\ Len(buf) <= count

(* The screen shows the line being edited (stubs.c:27-31 and 152-175,          *)
(* video_text.c:57-82): with echo, and as long as the line never reached the    *)
(* right edge, its characters stand where it began, the cursor behind them,     *)
(* and an erased character leaves a blank.                                    *)
EchoShowsTheLine ==
  pc = "cooked" /\ g_tty_echo /\ g_ops = "text" /\ start.col + peak < VGA_W =>
    /\ con.cursor = start.cursor + len
    /\ \A i \in 0 .. len - 1 : con.mem[start.cursor + i] = vga_entry(line[i])
    /\ \A i \in len .. peak - 1 : con.mem[start.cursor + i] = vga_entry(Space)

(* Editing keeps to the line (stubs.c:151-175, video_text.c:57-82).  While it    *)
(* has not reached the right edge nothing outside its longest extent changes:  *)
(* no prompt and no earlier output is erased.  Backspace cannot follow a line   *)
(* back over the edge, so that the cursor of a longer one drifts away from it;  *)
(* but never further than one place for each character it was given.           *)
EditingKeepsTheScreen ==
  pc = "cooked" =>
    \A p \in Cells :
      LET d == (p - start.cursor) % (VGA_W * VGA_H)
      IN d > typed \/ (start.col + peak < VGA_W /\ d >= peak) => con.mem[p] = start.mem[p]

(* A read returns once what it waits for is in the buffer, without the help of  *)
(* another key: a halt that a character preceded ends with the next tick       *)
(* (stubs.c:120-123 and 144-146).  Not so a raw read of size 0, which waits for *)
(* stdin_read to answer more than 0 and never returns, nor any read from the    *)
(* null backend (stdin.c:6-7), whatever is typed.                              *)
ReadReturns ==
  \/ pc = "cooked" /\ \E i \in DOMAIN Input : Input[i] \in {CR, NL}
  \/ pc = "raw" /\ count > 0 /\ \E i \in DOMAIN Input : Input[i] >= 0
  ~> pc = "app"

(* keyboard.h:26 promises a character that is not negative, or -1 when the      *)
(* buffer is empty: so _read halts for want of input only when there is none.  *)
HaltsOnlyWhenEmpty == [][cpu' = "halting" /\ cpu = "run" => Input = <<>>]_vars

(* A line returned whole ends in its line feed: "incluye '\n' como hace un TTY" *)
(* (stubs.c:161), for which the last place is kept (stubs.c:173).             *)
LinesEndInLineFeed ==
  pc = "app" /\ have = 0 /\ cookedOut # <<>> => Last(cookedOut) = NL
=============================================================================

# DoomNoKern in TLA+

DoomNoKern is a 32-bit kernel that boots from Limine, runs one C program on
newlib and gives it a keyboard, a text screen, a timer and a FAT volume in
memory. One processor, no threads: what runs concurrently is the program and
the two interrupt handlers, and what goes wrong goes wrong at the edges of
that concurrency, in the drivers' state machines and in the boundary cases of
the system calls. This directory models those parts in TLA+, checks them with
TLC and proves the most important results with TLAPS.

All paths below are relative to `kernel/` in the repository.

## Inventory

| Component | Source | State | Operations | Interacts with |
|---|---|---|---|---|
| Boot | `src/arch/mb1_start.S`, `src/kernel/kernel.c` | none of its own | set-up in a fixed order, then `main` | everything |
| Interrupts | `src/arch/idt.c`, `irq_stubs.S`, PIC | IDT, idtr, PIC mask, IF | `idt_set_gate`, `lidt`, `pic_remap_mask_all`, `pic_unmask`, stubs | handlers |
| Timer | `src/drivers/pit.c` | `pit_ticks` | `pit_init`, `pit_isr` | ends every `hlt` |
| Keyboard decoder | `src/drivers/keyboard.c` | shift and caps flags, layout tables | `kbd_isr`, `kbd_set_layout` | 8042, buffer |
| Keyboard buffer | `src/drivers/keyboard.c` | `kbd_buf`, `kbd_head`, `kbd_tail` | `kbd_put` (handler), `kbd_get` (program) | decoder, terminal |
| Stdin, console | `src/kernel/stdin.c`, `console.c` | the installed backends | dispatch | terminal, drivers |
| Terminal | `src/kernel/stubs.c`, `_read(0)` | mode, echo, `line`, `have`, `pos` | raw and cooked reads | buffer, console |
| Text console | `src/drivers/video_text.c` | row, column, screen, cursor | `vga_putc`, `vga_write`, `vga_clear` | terminal, `_write` |
| Files | `src/kernel/stubs.c`, fd >= 3 | `g_fd`, `g_mounted` | `open` ... `mkdir` | FatFs (external) |
| Process stubs | `src/kernel/stubs.c` | `heap_end` | `_sbrk`, `_exit` ... | newlib |
| Faults | `src/arch/faults.S`, `src/kernel/faults.c` | stack, registers | stubs, `fault_handler`, `mf_handler` | halts for good |
| VGA 13h | `src/drivers/video_vga13.c` | palettes, frame buffer | drawing, palettes, quantisation | the program |
| cpio | `src/drivers/cpio.c` | none | `cpio_find` | nothing calls it |

What makes it hard, and what each part has to guarantee:

* **Keyboard buffer.** Two unsynchronised writers of two indexes; the program
  is interrupted between any two accesses, and `kbd_buf` is not volatile. It
  must be a queue: nothing lost, repeated or reordered unless it is full.
* **Interrupts.** The order of gates, `lidt`, unmasking and `sti`; an EOI on
  every path; handlers that do not nest; an edge-triggered IRQ1 that is never
  raised again if a byte is left behind; a `hlt` executed after the wake-up it
  waits for; a byte that waits in the 8042 since before the PIC was programmed.
* **Entry stubs.** Every register, the flags and the stack as they were when the
  program goes on; the error code a fault handler is given.
* **Decoder.** Bytes are decoded later than their keys were struck and are all
  the driver knows: its flags must follow the keys through overlapping strokes,
  repetitions and extended codes.
* **Terminal.** Static state across calls (a line delivered in pieces), the
  last place of the line buffer, `char` being signed, the echo against the
  screen's edge, and returning at all.
* **Files.** Slots that must be neither leaked nor reused early when an
  operation fails, cached sizes in appends, files removed while open.
* **Mode 13h.** Clipping with two corrections per axis in `int`, which may
  overflow; a palette and a quantiser that have to count in the same order.

`PROJECT.json` lists each of these hazards at its line with the properties
aimed at it.

## Modules

```
LossyQueue   <--refined by--  KbdRing  <-- MCKbdRing, KbdRingProofs
                                 |  (the queue that Keyboard and Tty use)
Interrupts  <-- MCInterrupts, InterruptsProofs
   |  (one handler at a time)
Stubs  <-- MCStubs, StubsProofs
Keyboard    <-- MCKeyboard, KeyboardProofs
VgaText  <--extended by--  Tty  <-- MCTty, TtyProofs
   ^-- VgaTextProofs  <--extended by--  TtyProofs
PosixFiles  <--refined by--  FdTable  <-- MCFdTable, FdTableProofs
Volume  <--extended by--  FdTable
Vga13  <-- MCVga13, Vga13Proofs
```

The parts are cut where one guarantees something the next relies on:
`Interrupts` shows (and proves) that handlers do not nest and finds the layout
complete, which is why `KbdRing`, `Keyboard` and `Tty` may take a handler as
one step; `KbdRing` shows (and proves) that the buffer is a bounded queue,
which is why `Keyboard` and `Tty` use one; `Stubs` shows (and proves) that a
handler leaves no trace in the program it interrupts, which is why the others
may leave the registers out; `VgaText` gives `Tty` the console.

### LossyQueue and KbdRing

`LossyQueue` is what the keyboard buffer promises: `Put` while there is room,
`Refuse` when there is none, `Take` the oldest, `TakeNone` only when empty.

`KbdRing` is `keyboard.c:19-32`. `kbd_put` is one step (interrupt gate). In
`kbd_get` each access to a shared location is a step: `ReadHead`, the comparison
(`ReturnEmpty` or `Fetch`), `Advance`. Because `kbd_buf` is not volatile while
the indexes are, a compiler may store `kbd_tail` before it reads the slot:
`AdvanceFirst` and `LateFetch` are that order. The refinement maps `Content`
(the slots from `kbd_tail` to `kbd_head`) to the queue and `Answer` to the
consumer's last answer: the answer is fixed when it is decided, which for
"empty" is the comparison and for a late fetch is the move of `kbd_tail`. The
ghost `lost` is a parity, enough to see every drop as a step.

### Interrupts

`kernel_main`'s calls as the sequence `Boot`, one action per step; the processor
(`flagIF`, `cpu`, `frames`: the handlers entered and not left), the PIC (`base`,
`imr`, `irr`, `isr`), the timer (`pit`), the 8042 (`obf`) with the bytes the
keyboard has to send (`wire`), the buffer's fill (`stored`) and a program that
polls it and halts, as `_read` does (`prog`). `Accept` is the processor and the
PIC; `pit_isr` and `kbd_isr` are the handlers up to the EOI, `EndOfInterrupt`
the command, `iret` the end of the stub. An interrupt without a gate shuts the
processor down. The bodies of the handlers are abstracted to what the
properties need: a byte may or may not be worth a character. `console_init_all`
appears as the `kbd_init` its PS/2 backend performs; `console_clear` touches
none of this state.

External, modelled from how the code programs it: 8259A, 8254, 8042, the
processor. The machine is handed over with any mask, any requests pending and,
or not, a byte in the 8042 that nobody has read; the keyboard may also send one
before ICW1 makes the PIC forget its edge. `stale` marks such a byte. One
assumption is left and stated at its action: a timer period is longer than a
handler (`rested`). `DecodedWithOneLayout` is about the one call of
`kbd_set_layout` the kernel makes, before `sti`; a program that calls it later has
no such order.

### Stubs

The entry stubs of `irq_stubs.S` and `faults.S`, one action per group of
instructions: `Capture` (the error code into `eax`), `SAVE_REGS`,
`PushArguments`, `CallHandler`, `RESTORE_REGS`, `iret`; the processor's entry
is external (`Enter`). `eax` is kept in halves because the stubs load the
selector through `ax`; `ecx` and `edx` are one value, the registers a C function
keeps another. What lies on the stack is a sequence of words, the flags with
`CS` and `EIP` being one. `Return` is a C handler that returns, with other values
in the registers it may use; `fault_handler` and `mf_handler` halt for good, so
the paths behind their calls are never taken. The error codes are those of
protection faults: the program's own, and those of gates that are missing. #XF,
which `mb1_start.S:82` enables, sets bit 0 of its code; a software interrupt
(`int $0`, `int3`) does not. #DE would be a double fault, which has no gate either.

### Keyboard

`kbd_isr`, one action per kind of byte: `isr_prefix`, `isr_break`,
`isr_modifier`, `isr_make`. The keyboard is external: `Press`, `Repeat` (the
typematic repetition, CapsLock's included) and `Release` put the bytes of scan
code set 1 on `wire`, with the hidden shifts a keyboard sends around an extended
key. Every byte carries what its stroke meant when it was struck, so that late
decoding can be compared with it. Six keys stand for the board: two that type
(a letter, and the key that is `;` or n-tilde), both shifts, CapsLock and an
extended one. The tables are cut to the three codes these keys can produce.

### VgaText and Tty

`VgaText` is `video_text.c` as operators on a console record: cells, row,
column, hardware cursor. Rows wrap, nothing scrolls, backspace stops at the
left edge, and a negative `char` spreads into the attribute byte.

`Tty` is `_read(0)`: the mode and echo settings, the backends in force (`g_in`,
`g_ops`, the null ones included), the static `line`, `have`, `pos` and the local
`len`. Cooked mode takes a turn of the loop per step (`CookedErase`,
`CookedEnter`, `CookedStore`, `CookedNothing`), raw mode a character per step
(`RawTake`) and its ends (`RawEnd`, `RawNegative`). The look at the buffer and
the `hlt` are two steps, so a key may come between them. `echo_str` is given by
what `strlen` may find behind the bytes read (`BEYOND`). Between two reads the
program sets modes, changes backends, writes to the console and clears it; reads
may have size 0. Ghosts record what each mode took and returned, the console at the
beginning of the line (`start`), the line's longest extent (`peak`) and the
number of characters it was given (`typed`). `MAXEVENTS` bounds characters typed
and calls made together.

`EditingKeepsTheScreen` is about two distances from the line's beginning. Until
the line reaches the right edge nothing outside of its longest extent changes.
Then nothing is promised but `typed`: `vga_backspace` does not go back over the
left edge (`video_text.c:57-64`), while `_read` shortens the line all the same
(`stubs.c:154`), so that a line that is wrapped, erased and typed again moves on
by a row each time. With the extent in place of `typed` the property is false,
which takes seven characters to see and came out in the proof.

### Vga13

`video_vga13.c` at the level of its calls: the framebuffer as a function on
pixel numbers, the DAC as a function on indexes, one action per call. `Clip` is
the clipping of one axis, a set of outcomes: a sum that does not fit in an `int`
is undefined, and a build computes the exact comparison or the wrapped sum.
`Block` is the addresses the loops store to; an address outside the framebuffer
sets `stray`, and nothing is claimed of the machine after it. The history
variable `picture` is what the calls were to draw: the visible part of each
shape, defined by coordinates and not by clipping (`Visible`). `Loaded` is the
DAC that counts its index up by itself; both palettes are given by their tables,
both quantisers by their arithmetic. A colour is a word of four bytes; `RC`, `GC`
and `BC` are the macros that take three of them. `PaletteShowsWhatIsTaken` is about
these three and no more: which bytes a caller means is the question of
`PaletteShowsTheDocumentedColour`, and the answer is others.

`vga_set_mode13` is one step: its register values are constants.

### Volume, FdTable and PosixFiles

`FdTable` is the file half of `stubs.c` (39-113, 182-306): the table `g_fd`, one
action per system call, `errno`, and what a call returned (`ret`, for `fstat`
the size it reports; `got`, what a read read). A call is one step: there is one
thread and no handler touches files. `BadDescriptor` is the test every call
begins with, but for `fstat`, which looks at its `st` first (`EFAULT`); `fd_alloc`
and `fd_get` are the sets of slots the two functions find. The ghost `held` is the set of descriptors the program has been given and
has not closed.

`Volume` is FatFs, external: names with a cluster chain and the size their
directory entry records, and FIL objects with mode, position, cached size, and
the modified and aborted flags. Each operation is a set of outcomes, so that a
hard error may end any call with none, part or all of it done: an `f_open` that
has created or emptied the file, an `f_write` after any of its clusters, an
`f_unlink` that has removed the entry. A write that succeeds sets the modified
flag, by which `f_close` records the size; one that a hard error ends does not,
and leaves the FIL aborted with a size that nothing may ever record.
Simplifications: `f_rename` has no state between its two entries; a chain that no
`f_close` recorded is found again by the next open, so no cluster leaks;
directories have no contents; contents move in whole clusters, so that FatFs's
sector buffer is left out. `f_mount` with option 0 only registers the work area
and cannot fail here.

`PosixFiles` is the promise: names stand for sequences, a descriptor is a
position, a write is there at once. It is weaker where the disk fails, and says
how (`disk`: the call ended that way). A read, write or seek may have been done in
part, a call on names altogether. What a write had appended by then is in the file,
but `unsure`: closing the descriptor loses it, and answers 0 all the same. A close
that the disk ends may lose any part of the file's end. The refinement maps a name
to its chain cut at the largest size anybody holds for it, a slot to its FIL's
position, and what is unsure to the part of the FIL's size that has neither a
directory entry nor a modified flag to record it.

The program is the environment: it uses any descriptor, closed ones included,
and any flags, but it does what `include/fatfs/ffconf.h:288` asks of it and
leaves open objects alone (`MayOpen`, `Idle`). `Shared` lifts that for second
opens of a file whose first cluster is recorded.

## Runs

| Run | Bounds | Shows |
|---|---|---|
| `kbd_ring` | 4 slots, 2 characters | `ImplementsLossyQueue`, `ReadSlotSafe`, and the invariant of the proofs |
| `interrupts` | 2 characters, counter modulo 3, 2 bytes, any state at boot | six invariants, `InputIsTaken`, `TicksKeepCounting` |
| `keyboard` | buffer of 1, 4 bytes, 3 keys held | `FlagsFollowKeys`, `StoresWhatWasStruck` |
| `tty` | line of 3, buffer of 2, 4 keys and calls, screen 3 by 2 | bounds, delivery, echo, `ReadReturns` |
| `files` | 2 slots, 2 names, 2 clusters, hard errors | table, refused calls, appends, `ImplementsPosixFiles` |
| `vga13` | screen 3 by 2, `int` of 4 bits, 5 coordinates, all 256 levels | `ScreenIsPicture`, `PaletteShowsWhatIsTaken` |
| `keyboard_extended` | as `keyboard` | violated: extended codes are decoded |
| `tty_linefeed` | as `tty` | violated: a full line loses its line feed |
| `tty_negative` | as `tty` | violated: a negative character halts the processor |
| `files_append` | as `files`, shared opens, no hard errors | violated: a stale end is appended to |
| `vga13_rgba` | as `vga13` | violated: the documented 0xRRGGBBAA shows another colour |
| `fault_error_code` | 3 half words, 5 error codes | violated: the selector takes the error code's place |

Why the bounds are enough:

* `kbd_ring`: four slots hold three characters, so the buffer fills, empties and
  wraps while `kbd_get` stands at each of its steps; two characters tell a
  wrong, a repeated and a reordered answer apart. The proofs cover every size.
* `interrupts`: two pending bytes are one in the 8042 and one behind it; a
  buffer of two can be empty, partly and completely full; the counter wraps.
  All six invariants are proved for every value.
* `keyboard`: four bytes hold an extended key under a shift, or the codes of
  two overlapping strokes with their releases; three keys are a letter under
  both shifts. A buffer of one is full half of the time. All three properties
  are proved for every size.
* `tty`: a line of three holds two characters, so four characters reach the
  full line, the dropped character, the lost line feed, an erasure at both
  ends, and a line delivered in two pieces; a row of three and two rows reach
  the right edge and the wrap to the first row. The keys are a letter,
  n-tilde (negative), Enter and Backspace. What the program writes is four cells
  with a negative one among them, longer than a row, so that a line begins at
  any column; sizes 0 to 2 are a read of nothing, of part and of all of a line.
  All six invariants are proved for every value.
* `files`: two slots fill, so the third open is refused; a stale descriptor may
  name a slot that is free or taken again. Two clusters are an appended file
  and a full volume, where writes and seeks fall short; two names are a rename
  onto another. `Junk` is what the image and unwritten clusters hold, so that
  one written value is told from the old contents; a write of two clusters that is
  to lengthen a file of one, and that the disk ends, is among the cases. `VIEW`
  leaves out `errno`, `ret` and `got`, which no action reads; the properties look
  at them in the next state only. Names are symmetric. `FLAGS` holds each mode of
  `f_open` once, and appending with an existing and with a created file; appending
  to one just emptied is left out.
  All five properties are proved for every size, the last two while a file
  that is written is open once.

* `vga13`: the coordinates are one on each side of the screen, two on it, and
  the two ends of `int`, as positions and as sizes, so that shapes begin and end
  in every position to the screen and their sums overflow both ways. Two colours
  tell a painted pixel from another; one colour word has an index in both
  palettes that is drawn with. The palette property looks at all 256 values of
  each component. Clipping and palettes are proved for every value.
* `fault_error_code`: the half words are zero, the selector and another; the
  codes name the null selector, another one and three missing gates.

`CHECK_DEADLOCK` is on but for two models. `Vga13`: a call that overflows may
overwrite memory, and the model stops there. `Stubs`: `fault_handler`
and `mf_handler` halt for good.

### Fairness

* `Interrupts`: weak fairness of `Accept`, `Handler`, `TimerEdge` and `KeyByte`
  (hardware answers, a handler runs to its end), strong fairness of the boot and
  the program: they are interrupted again and again but interrupts come
  milliseconds apart and handlers take microseconds. No key stroke is promised.
* `Tty`: weak fairness of `_read`'s own steps and of the timer. Nobody has to
  press a key: `ReadReturns` is about input that is already in the buffer. It
  leaves out two reads that the code never ends: a raw read of size 0, whose loop
  waits for a positive answer to a request for nothing (`stubs.c:120`), and any
  read from the null backend.

### What the violations say

* **Extended keys are not ignored** (`keyboard.c:135-138`). `seen_e0` is set and
  never read: the right arrow types `-`, and the fake shift codes around an
  extended key clear a shift that is held.
* **A full line has no line feed** (`stubs.c:161-162, 173`). The test before a
  character reserves the last place, the test before the line feed does not use
  it.
* **Negative characters look like an empty buffer** (`keyboard.c:31`,
  `keyboard.h:26`, `stubs.c:145-146`). With the Spanish layout, which
  `kernel_main` selects, n-tilde is lost in both modes and halts the processor
  until the next tick.

* **Appends go to a remembered end** (`stubs.c:107`, against newlib's
  `_default_fcntl.h:12`, "writes guaranteed at the end"). Each FIL caches the
  size; nothing keeps a file from being opened twice.
* **0xRRGGBBAA shows another colour** (`video_vga13.c:10-12`, against
  `video_vga13.c:161, 208` and `video_vga13.h:100, 109`). The macros take bits 16,
  8 and 0, which are red, green and blue of an ARGB word, as the parameters at
  `video_vga13.h:91, 111, 113` are named; of the documented word they are green,
  blue and alpha.

* **Fault handlers are given another error code** (`faults.S:74-76`, against the
  comment of line 32). `SAVE_REGS` loads the data selector through `ax` between
  the load of the code and its push: every #GP and #PF is reported with 0x10 in
  its low half.

Further disagreements that no run is about:

* `kbd_init` only unmasks IRQ1, which is unmasked already; `stdin.c:38` says it
  enables the hardware. A byte left in the 8042 from before ICW1 is therefore
  never requested, and keeps the keyboard from sending another. `Interrupts` has
  that state; `WaitingByteIsRequested` does not forbid it but names it as its
  exception.
* `O_TRUNC` without `O_CREAT` is not looked at (`stubs.c:249-257`, against newlib's
  `_default_fcntl.h:19`, "open with truncation"): the open succeeds and the old
  contents stay. `Mode` in `FdTable` is that code.
* A raw read of size 0 never returns (above).
* `echo_str` measures bytes that are not terminated (`stubs.c:124`, against
  "eco seguro", line 26).
* `mf_handler`'s structure has 22 bytes and a 16-bit layout where a 32-bit
  `fnstenv` stores 28 (`faults.c:24-31`).
* The greys of `video_vga13.c:161` ("cubo/grises") are in the palette, but
  `rgb32_to_index` never chooses an index of theirs.
* Erasing a wrapped line does not give its place on the screen back: the test
  `len > 0` of `stubs.c:154` is all that keeps an erasure to the line
  (`stubs.c:151`, "no borra antes del inicio"), and the console's backspace stops
  at another place, the left edge (above, at `Tty`).
* The keypad codes of the layout tables sit three entries late
  (`keyboard.c:44-45`).
* The stack's reserve is commented as 64 KiB and is 256 (`linker32.ld:40`).

## Proofs

TLAPS checks 8 proof modules; the constants are arbitrary, within the
assumptions named in the modules. Every safety property and every action
property that a passing run checks is proved.

* `KbdRingProofs` (from `RingAssumption`: at least one slot, and
  `CharAssumption`: -1 is not a character). The state is too fine for the
  safety property to be inductive: between the comparison and the advance the
  handler may move `kbd_head`. `RingInv` adds what survives it: once a character
  was seen there is one, the fetched one is still the oldest, and a slot left
  behind is the one before `kbd_tail`. From it follow `ReadSlotIsSafe` (the free
  slot is the one being read) and `RingRefinesQueue`, which treats the content
  as a function on `1 .. CountOf(...)` and shows what a store appends and an
  advance removes, with the wrap of both indexes by cases.
* `InterruptsProofs`. `IntrInv` has two halves. `BootInv` ties the position in
  `Boot` to what has been set up by then. `HandlerInv` says interrupts are only
  on after `sti`; at most one frame exists, with interrupts off and its own
  request alone in service until its EOI; and a byte in the 8042 is requested
  or about to be read. Neither half is inductive alone: a handler is entered
  safely because of what the boot has done, and the boot is undisturbed because
  no handler can be entered before `sti`. The five theorems about the checked
  safety invariants follow from it; `TypesAreKept` has an invariant of its own,
  which adds the ranges of the boot's variables.
* `StubsProofs` (no assumption): `InterruptsAreInvisible`. The invariant says,
  place by place, what lies on the stack: the frame of the program's registers
  as they were (`before`) under the flags, with nothing above it when
  `RESTORE_REGS` begins. The fault stubs never get there: their handlers halt.
* `KeyboardProofs` (from `BoundsAssumption`): `TypesAreKept`,
  `FlagsAreTheKeys`, `StrokesAreStored`. The driver's flags alone say nothing
  about the keys while bytes are under way. The invariant is that the wire is a
  path: a sequence of flags, from the driver's to what the keyboard has told, in
  which each byte makes its step and each plain one means what it will store
  (`Path`, `Moves`). The keyboard's actions lengthen the path at its end, the
  handler removes its first step, and `Told` says that the end of the path is
  the keys, but for shifts hidden around an extended key.
* `Vga13Proofs` (from `SizesAssumption`, `CallsAssumption` and, for the types,
  `WordsAssumption` and `EntriesAssumption`: four bytes make a colour and six
  bits a DAC component): `ClippingIsExact`,
  from one lemma per axis (`ClipIsExact`: with sums that fit, a place is drawn
  exactly when it is wanted and on the axis) and one that puts two axes together;
  `PalettesShowComponents`, from the entry each index has in each table and the
  error of the two roundings, level by level. `TypesAreKept` shows that the casts
  to `uint8_t` in the palettes and the index functions lose nothing.
* `VgaTextProofs` (from `ScreenAssumption`: at least two columns, for on a
  screen of one column the echo of an erasure, `\b \b`, moves on a row; and at
  least one row): what `vga_putc` does, key by key (`PutCharacter`,
  `PutBackspace`, `PutNewLine`), that the two cursors stay together on the
  screen (`PutType`), and that `vga_write` is `vga_putc` for each character in
  turn (`WriteIsALoop`). `vga_write` is a recursive function over a sequence of
  any length, and the library's theorems about those take operators as
  parameters. The module therefore states induction for sets of naturals up to a
  bound (`InductionUpTo`, from the well-foundedness of inclusion between finite
  sets) and what follows for loops: that one exists for every function that steps
  (`IterationExists`), and that two which begin and step alike end alike
  (`IterationsAgree`).
* `TtyProofs` (from the assumptions on the line, the keys, the sizes, the output
  and the queue): every invariant of the run. Each has its own strengthening.
  * `LineStaysInBounds` and `TypesAreKept` (`LineInv`, `TypeInv`): the buffers'
    sizes, the console's cells, and the two cursors being one.
  * `RawReadsDeliver` (`RawInv`: nothing is collected outside of a raw read),
    with `Plain` of a longer sequence by `IterationsAgree`.
  * `LinesAreDelivered` (`LinesInv`), the same for `Disciplined`: what one more
    character does to the edited input is what the loop of `_read` does to `line`
    and `len`. Handing over a piece cuts what is owed in two.
  * `EchoIsOnTheScreen` and `EditingStaysNearTheLine` (`ScreenInv`). Cells are
    measured by their distance from the line's beginning, modulo the screen.
    `LineOnScreen` says where the line stands until it reaches the edge, for the
    echo to be right the next time; `CursorDrift` that the cursor is at least
    `len` and at most `typed` away, until that goes round the screen.
* `FdTableProofs` (from the assumptions that names are finite, and that clusters,
  slots, counts and offsets are numbers). Four layers, each resting on those
  before it:
  * `NoSlotIsLeaked`. The invariant `TableInv` adds what an open or close needs
    to know of the other slots: the table stays a function on `Slots`, `used` is
    Boolean, and a slot that is not in use is blank. Three lemmas say what taking,
    keeping and freeing a slot does; each call is one of them, or leaves the
    table alone, whatever FatFs answers.
  * `TypesAreKept`. `FilesInv` says the volume is sound, the clusters in use
    no more than there are, and that no FIL is ahead of the clusters of its file
    (`GoodFil`). The work is counting clusters over a finite set of names when
    one chain grows (`f_write` and `f_lseek` on a nearly full volume).
  * `RefusalsChangeNothing`, by call and by outcome.
  * For `~Shared`, the program that heeds `ffconf.h:288`: `CachesAgree`,
    `AppendsStayAtTheEnd` and `FilesWithoutCaches`. The invariant `Caches` says
    that a FIL's cached size is the directory entry's, or ahead of it with the
    modified flag set or the FIL aborted, and that a file somebody may write is
    open once. Then the
    content of a name, the longest that anybody holds, is that of whichever FIL
    is looked at (`HeldOpen`), so that what a call does to its FIL is what the
    abstract call does to the file. A seek to the end that fails aborts the FIL,
    and the write behind it fails too, which is why the unchecked result at line
    107 does no harm. `FilesWithoutCaches` includes what `PosixFiles` leaves open
    where the disk fails: an aborted write's tail may be lost at the close. Without `~Shared` the appends are wrong, as the run
    `files_append` shows.

Only model-checked: the liveness properties `InputIsTaken`, `TicksKeepCounting`
and `ReadReturns` (fairness and ENABLED are outside the prover), and the
six violations. `InterruptIsInvisible` is only proved; no run is about it.

## Plan

1. *Done:* buffer, interrupts with the state a boot loader leaves, entry stubs,
   decoder, terminal with its backends and the console, files, mode 13h; proofs
   about each of them.
2. *Done:* proofs of every safety and action property of the passing runs.
3. *Composition:* decoder and terminal over one buffer, from key stroke to line;
   that the terminal's buffer is the queue `KbdRing` implements.
4. *Files, further:* removal of open objects.
5. *Proofs:* that `Tty`'s lines implement an abstract terminal, stated over both
   modes; the steps of `Stubs` against an abstract interrupt.
6. `cpio_find` and `_sbrk`, if they earn it.

## Not modelled

* Submodules with empty directories (FatFs, newlib, doomgeneric, Limine) and
  prebuilt libraries; the headers of newlib and FatFs, which are theirs.
* The disk image, an array of 108,000 lines of data (`fat12_img.h`): what FatFs
  reads from it is `Volume`'s initial state. Scripts and makefiles.
* Tables of constants: the registers of `vga_set_mode13`, the layout tables but
  for the entries of the keys modelled.
* The GDT, `.bss` and FPU set-up of `mb1_start.S`, straight-line code; what the
  fault handlers print and the x87 environment.
* `cpio_find`, which nothing in the kernel calls; `_sbrk`, which moves a pointer
  without a test; `_exit`, `_kill` and `_getpid`, constants.

## Running

```
tlc -config MCKbdRing.cfg MCKbdRing.tla        # and MCInterrupts, MCKeyboard, MCTty, MCFdTable, MCVga13
tlc -config MCTtyLineFeed.cfg MCTty.tla        # a violation
tlapm KbdRingProofs.tla                        # and the other *Proofs modules
```

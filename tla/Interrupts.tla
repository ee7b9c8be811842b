----------------------------- MODULE Interrupts -----------------------------
(* How the kernel comes up and how IRQ0 (timer) and IRQ1 (keyboard) reach it: *)
(* kernel_main's boot order (kernel/src/kernel/kernel.c), the IDT and the PIC *)
(* (arch/idt.c), the two handlers and their entry stub (drivers/pit.c,        *)
(* drivers/keyboard.c, arch/irq_stubs.S), and the program that polls the      *)
(* keyboard buffer and halts when there is nothing in it (_read, stubs.c).    *)
(*                                                                            *)
(* The processor's interrupt acceptance, the 8259A, the 8254 and the 8042 are *)
(* hardware: they are modelled from the way the code programs them.           *)
EXTENDS Naturals, Sequences, FiniteSets

CONSTANTS RING,     \* characters the keyboard buffer holds (255)
          TICKS,    \* modulus of pit_ticks (2^32)
          MAXWIRE   \* bound: bytes the keyboard may have ready to send

ASSUME BoundsAssumption == {RING, TICKS, MAXWIRE} \subseteq Nat \ {0}

Irqs == {0, 1}
Vectors == 0 .. 47                          \* the part of the IDT in use
Lines == 0 .. 7                             \* inputs of the master PIC

VARIABLES
  step,       \* position in Boot
  idt,        \* the gates: "none", "interrupt" (IF is cleared) or "trap"
  idtr,       \* has lidt been executed?
  flagIF,     \* the processor accepts maskable interrupts
  cpu,        \* "run", "hlt", or "shutdown" after an interrupt with no gate
  frames,     \* handlers entered and not left, innermost last
  prog,       \* the polling program: "check", "halt" (about to), "took"
  base,       \* vector of the PIC's input 0
  imr, irr, isr,  \* the PIC's masked, pending and in-service inputs
  pit,        \* the timer: "off", "bios" or "100Hz"
  rested,     \* the processor has run program code since the last tick
  wire, obf,  \* bytes the keyboard has to send; one byte is in the 8042
  stale,      \* (history) that byte came before the PIC was programmed
  g_layout, g_unshift, g_shift,  \* the layout's name and its two tables
  stored,     \* characters in the keyboard buffer
  pit_ticks

pic  == <<base, imr, irr, isr>>
kbc  == <<wire, obf, stale>>
tabs == <<g_layout, g_unshift, g_shift>>
vars == <<step, idt, idtr, flagIF, cpu, frames, prog, pic, pit, rested, kbc, tabs,
          stored, pit_ticks>>

\* Mutant: interrupts are enabled before the layout is selected.
EarlySti_Boot == <<"remap", "gates", "lidt", "unmask0", "unmask1", "kbd_init", "sti",
          "layout", "unshift", "shift", "pit_init", "main">>
\* Mutant: the IDT is loaded after the interrupts are enabled.
LateLidt_Boot == <<"remap", "gates", "unmask0", "unmask1", "kbd_init",
          "layout", "unshift", "shift", "sti", "lidt", "pit_init", "main">>

\* What the boot code does, in order, after the cli of _mb1_start.
Boot == <<"remap", "gates", "lidt", "unmask0", "unmask1", "kbd_init",
          "layout", "unshift", "shift", "sti", "pit_init", "main">>

InProgram == frames = <<>> /\ cpu = "run"
At(s)     == InProgram /\ Boot[step] = s
Running   == At("main")
MinOf(S)  == CHOOSE x \in S : \A y \in S : x <= y

Init ==
  /\ step = 1 /\ cpu = "run" /\ frames = <<>> /\ prog = "check"
  /\ flagIF = FALSE /\ idt = [v \in Vectors |-> "none"] /\ idtr = FALSE
  /\ base = 8 /\ imr \in SUBSET Irqs /\ irr \in SUBSET Irqs /\ isr = {}
  /\ pit \in {"off", "bios"} /\ rested = TRUE
  /\ wire = 0 /\ obf \in BOOLEAN /\ stale = obf
  /\ g_layout = "US" /\ g_unshift = "US" /\ g_shift = "US"
  /\ stored = 0 /\ pit_ticks = 0

-----------------------------------------------------------------------------
(* Booting: interrupts_init, console_init_all, kbd_set_layout, sti, pit_init.  *)

BootStep(s) == At(s) /\ step' = step + 1 /\ rested' = TRUE
               /\ UNCHANGED <<cpu, frames, prog, kbc, stored, pit_ticks>>

\* ICW1 forgets pending and in-service requests; then every input is masked.
pic_remap_mask_all ==
  /\ BootStep("remap")
  /\ base' = 32 /\ irr' = {} /\ isr' = {} /\ imr' = Lines
  /\ UNCHANGED <<idt, idtr, flagIF, pit, tabs>>

\* Mutant: an interrupt gate becomes a trap gate (0x8F for 0x8E).
Trap_Gate == "trap"
Gate == "interrupt"

\* The table is zeroed, then the faults and the two IRQs get interrupt gates.
SetGates ==
  /\ BootStep("gates")
  /\ idt' = [v \in Vectors |-> IF v \in {6, 7, 13, 14, 16, 32, 33} THEN Gate ELSE "none"]
  /\ UNCHANGED <<idtr, flagIF, pic, pit, tabs>>

lidt ==
  /\ BootStep("lidt")
  /\ idtr' = TRUE
  /\ UNCHANGED <<idt, flagIF, pic, pit, tabs>>

\* Mutant: the bit is set instead of cleared, the input stays masked.
Kept_Unmask(irq) == imr' = imr \cup {irq}
\* The read-modify-write of the mask; nothing else writes it meanwhile.
Unmask(irq) == imr' = imr \ {irq}

pic_unmask(irq) ==
  /\ IF irq = 0 THEN BootStep("unmask0") ELSE BootStep("unmask1")
  /\ Unmask(irq)
  /\ UNCHANGED <<idt, idtr, flagIF, base, irr, isr, pit, tabs>>

kbd_init ==
  /\ BootStep("kbd_init")
  /\ imr' = imr \ {1}
  /\ UNCHANGED <<idt, idtr, flagIF, base, irr, isr, pit, tabs>>

\* kbd_set_layout(KBD_LAYOUT_ES): three stores.
kbd_set_layout ==
  /\ \/ BootStep("layout")  /\ g_layout'  = "ES" /\ UNCHANGED <<g_unshift, g_shift>>
     \/ BootStep("unshift") /\ g_unshift' = "ES" /\ UNCHANGED <<g_layout, g_shift>>
     \/ BootStep("shift")   /\ g_shift'   = "ES" /\ UNCHANGED <<g_layout, g_unshift>>
  /\ UNCHANGED <<idt, idtr, flagIF, pic, pit>>

enable_interrupts ==
  /\ BootStep("sti")
  /\ flagIF' = TRUE
  /\ UNCHANGED <<idt, idtr, pic, pit, tabs>>

pit_init ==
  /\ BootStep("pit_init")
  /\ pit' = "100Hz"
  /\ UNCHANGED <<idt, idtr, flagIF, pic, tabs>>

Booting ==
  \/ pic_remap_mask_all \/ SetGates \/ lidt \/ (\E irq \in Irqs : pic_unmask(irq))
  \/ kbd_init \/ kbd_set_layout \/ enable_interrupts \/ pit_init

-----------------------------------------------------------------------------
(* The program: read the buffer; when it is empty, halt until an interrupt.   *)

ProgStep == Running /\ rested' = TRUE
            /\ UNCHANGED <<step, idt, idtr, flagIF, frames, pic, pit, kbc, tabs, pit_ticks>>

Poll ==
  /\ ProgStep /\ prog \in {"check", "took"}
  /\ IF stored > 0 THEN stored' = stored - 1 /\ prog' = "took"
                   ELSE prog' = "halt" /\ UNCHANGED stored
  /\ UNCHANGED cpu

\* A character stored since Poll is not seen: only an interrupt ends the halt.
Halt ==
  /\ ProgStep /\ prog = "halt"
  /\ cpu' = "hlt"
  /\ prog' = "check"
  /\ UNCHANGED stored

Program == Poll \/ Halt

-----------------------------------------------------------------------------
(* The processor accepts the pending request of highest priority.             *)

Requests == {i \in irr \ imr : \A j \in isr : i < j}

Accept ==
  /\ flagIF /\ cpu # "shutdown" /\ Requests # {}
  /\ LET irq  == MinOf(Requests)
         gate == IF idtr THEN idt[base + irq] ELSE "none"
     IN /\ irr' = irr \ {irq}
        /\ isr' = isr \cup {irq}
        /\ frames' = Append(frames, [irq |-> irq, at |-> "enter", saved |-> flagIF])
        /\ flagIF' = (gate = "trap")
        /\ cpu' = IF gate = "none" THEN "shutdown" ELSE "run"
  /\ UNCHANGED <<step, idt, idtr, prog, base, imr, pit, rested, kbc, tabs, stored, pit_ticks>>

-----------------------------------------------------------------------------
(* The handlers: entry stub, body, end of interrupt, iret.                    *)

Top == frames[Len(frames)]
In(irq, at) == cpu = "run" /\ frames # <<>> /\ Top.irq = irq /\ Top.at = at
Goto(at) == frames' = [frames EXCEPT ![Len(frames)] =
                         [irq |-> Top.irq, at |-> at, saved |-> Top.saved]]
HandlerStep == UNCHANGED <<step, idt, idtr, cpu, prog, base, imr, pit, rested, wire, tabs>>

pit_isr ==
  /\ In(0, "enter")
  /\ pit_ticks' = (pit_ticks + 1) % TICKS
  /\ Goto("eoi")
  /\ HandlerStep /\ UNCHANGED <<flagIF, irr, isr, obf, stale, stored>>

\* Mutant: while the buffer is full the byte is left in the 8042.
BackPressure_ReadByte == obf' = (obf /\ stored = RING)
ReadByte == obf' = FALSE

\* Mutant: the full test is off by one.
OneTooMany_HasRoom == stored <= RING
HasRoom == stored < RING

\* kbd_isr up to its eoi label: a byte may or may not be worth a character,
\* and kbd_put drops the character when the buffer is full.
kbd_isr ==
  /\ In(1, "enter")
  /\ ReadByte
  /\ stale' = (stale /\ obf')
  /\ stored' \in IF obf /\ HasRoom THEN {stored, stored + 1} ELSE {stored}
  /\ Goto("eoi")
  /\ HandlerStep /\ UNCHANGED <<flagIF, irr, isr, pit_ticks>>

\* Mutant: the handler returns without the end-of-interrupt command.
Missing_Acknowledge == isr' = isr
\* The non-specific end of interrupt retires the highest-priority request.
Acknowledge == isr' = isr \ {MinOf(isr)}

EndOfInterrupt ==
  /\ \E irq \in Irqs : In(irq, "eoi")
  /\ Acknowledge
  /\ Goto("iret")
  /\ HandlerStep /\ UNCHANGED <<flagIF, irr, obf, stale, stored, pit_ticks>>

iret ==
  /\ \E irq \in Irqs : In(irq, "iret")
  /\ flagIF' = Top.saved
  /\ frames' = SubSeq(frames, 1, Len(frames) - 1)
  /\ HandlerStep /\ UNCHANGED <<irr, isr, obf, stale, stored, pit_ticks>>

Handler == pit_isr \/ kbd_isr \/ EndOfInterrupt \/ iret

-----------------------------------------------------------------------------
(* The devices.                                                               *)

\* The timer's output rises; an edge that finds its request pending is merged.
\* A period is far longer than any handler: the processor has run program code,
\* or has nothing left to do but wait, since the last one.
TimerEdge ==
  /\ pit # "off"
  /\ rested \/ (cpu = "hlt" /\ Requests = {})
  /\ irr' = irr \cup {0}
  /\ rested' = FALSE
  /\ UNCHANGED <<step, idt, idtr, flagIF, cpu, frames, prog, base, imr, isr, pit, kbc,
                 tabs, stored, pit_ticks>>

KeyStroke ==
  /\ wire < MAXWIRE
  /\ wire' = wire + 1
  /\ UNCHANGED <<step, idt, idtr, flagIF, cpu, frames, prog, pic, pit, rested, obf, stale,
                 tabs, stored, pit_ticks>>

\* The 8042 takes the next byte when its output buffer is free, and raises
\* IRQ1: an edge, since the line was low.  ICW1 makes the PIC forget the edge of
\* a byte that is there before, and nothing reads it: kbd_init only unmasks.
KeyByte ==
  /\ wire > 0 /\ ~obf
  /\ wire' = wire - 1
  /\ obf' = TRUE
  /\ stale' = (step = 1)
  /\ irr' = irr \cup {1}
  /\ UNCHANGED <<step, idt, idtr, flagIF, cpu, frames, prog, base, imr, isr, pit, rested,
                 tabs, stored, pit_ticks>>

Next == Booting \/ Program \/ Accept \/ Handler \/ TimerEdge \/ KeyStroke \/ KeyByte

(* Handlers run to their end, a pending request is accepted, the timer ticks   *)
(* and the 8042 delivers.  Program code runs between interrupts: they come     *)
(* milliseconds apart and their handlers take microseconds.                   *)
Fairness ==
  /\ SF_vars(Booting \/ Program)
  /\ WF_vars(Accept) /\ WF_vars(Handler)
  /\ WF_vars(TimerEdge) /\ WF_vars(KeyByte)

Spec == Init /\ [][Next]_vars
FairSpec == Spec /\ Fairness

-----------------------------------------------------------------------------
TypeOK ==
  /\ step \in 1 .. Len(Boot)
  /\ idt \in [Vectors -> {"none", "interrupt", "trap"}]
  /\ idtr \in BOOLEAN /\ flagIF \in BOOLEAN
  /\ {obf, stale, rested} \subseteq BOOLEAN
  /\ cpu \in {"run", "hlt", "shutdown"}
  /\ frames \in Seq([irq : Irqs, at : {"enter", "eoi", "iret"}, saved : BOOLEAN])
  /\ prog \in {"check", "halt", "took"}
  /\ base \in {8, 32} /\ {imr, irr, isr} \subseteq SUBSET Lines
  /\ pit \in {"off", "bios", "100Hz"}
  /\ wire \in 0 .. MAXWIRE /\ stored \in 0 .. RING /\ pit_ticks \in 0 .. TICKS - 1
  /\ {g_layout, g_unshift, g_shift} \subseteq {"US", "ES"}

(* From the sti of kernel_main on, every request the PIC can pass to the       *)
(* processor has a gate in the IDT that lidt loaded (idt.c:46-70): no          *)
(* interrupt, early or late, finds nothing there.                             *)
EveryInterruptHasAGate == cpu # "shutdown"

(* A request is in service exactly while its handler has not yet sent its EOI  *)
(* (pit.c:38, keyboard.c:171): in particular the program never runs with one   *)
(* left in service, which would block that input and all below it for good.   *)
InServiceUntilEoi ==
  /\ isr = {frames[k].irq : k \in {j \in DOMAIN frames : frames[j].at # "iret"}}
  /\ InProgram => isr = {}

(* Handlers do not nest: the gates are interrupt gates (idt.c:55-63), so       *)
(* kbd_put and pit_ticks++ run without interruption by a second handler.      *)
HandlersDoNotNest == Len(frames) <= 1

WillBeRead ==
  \/ 1 \in irr
  \/ \E k \in DOMAIN frames : frames[k] = [irq |-> 1, at |-> "enter", saved |-> TRUE]

(* A byte waiting in the 8042 has its edge latched in the PIC, or the handler   *)
(* that will read it has been entered: otherwise IRQ1 would stay high and never *)
(* request again, and the keyboard would be dead (keyboard.c:131-136).  The one *)
(* exception is a byte that came before pic_remap_mask_all: it strands, and     *)
(* the keyboard is dead, for kbd_init does not read it (keyboard.c:125-129).   *)
WaitingByteIsRequested == obf => stale \/ WillBeRead

(* No scancode is decoded with one layout's plain table and another's shift    *)
(* table: the stores of kernel_main's kbd_set_layout (keyboard.c:104-117) are  *)
(* over before the first keyboard interrupt (kernel.c:18-19).  A program that  *)
(* calls it later, as nothing in the kernel does, has no such order.          *)
DecodedWithOneLayout ==
  (\E k \in DOMAIN frames : frames[k].irq = 1) => g_unshift = g_layout /\ g_shift = g_layout

(* A character in the buffer reaches the program, even if it came between the   *)
(* look at the buffer and the hlt (stubs.c:145-146): the timer ends the halt.  *)
InputIsTaken == stored > 0 ~> prog = "took"

(* pit_ticks never stops, so a wait for a later tick ends (pit.c:33-39), once   *)
(* pit_init has run.                                                          *)
TicksKeepCounting == \A t \in 0 .. TICKS - 1 : pit_ticks = t ~> pit_ticks # t
=============================================================================

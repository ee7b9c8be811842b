-------------------------- MODULE InterruptsProofs --------------------------
(* The kernel's interrupt discipline, proved for every size of the keyboard   *)
(* buffer, every modulus of the tick counter and any number of bytes under    *)
(* way.                                                                       *)
EXTENDS Interrupts, SequenceTheorems, TLAPS

Frame(i, a) == [irq |-> i, at |-> a, saved |-> TRUE]
Places == {"enter", "eoi", "iret"}

(* How far the boot has come, and what it has set up by then.                  *)
BootInv ==
  /\ step \in 1 .. 12
  /\ \A v \in Vectors : idt[v] # "trap"
  /\ step = 1 /\ obf => stale
  /\ step > 1 => base = 32
  /\ step > 2 => idt[32] = "interrupt" /\ idt[33] = "interrupt"
  /\ step > 3 => idtr
  /\ step > 7 => g_layout = "ES"
  /\ step > 8 => g_unshift = "ES"
  /\ step > 9 => g_shift = "ES"

(* Interrupts are accepted only after the boot's sti; at most one handler runs, *)
(* with interrupts off; its request is in service up to its EOI and no other    *)
(* is; a byte in the 8042 is still to be read by it or by the next, unless it   *)
(* came before the PIC was programmed.                                        *)
HandlerInv ==
  /\ flagIF \in BOOLEAN
  /\ flagIF => step > 10
  /\ irr \subseteq Irqs
  /\ cpu # "shutdown"
  /\ \/ frames = <<>> /\ isr = {}
     \/ \E i \in Irqs, a \in Places :
          /\ frames = <<Frame(i, a)>>
          /\ isr = IF a = "iret" THEN {} ELSE {i}
          /\ ~flagIF /\ step > 10
  /\ obf => stale \/ 1 \in irr \/ frames = <<Frame(1, "enter")>>

IntrInv == BootInv /\ HandlerInv

-----------------------------------------------------------------------------
(* The order of Boot, and sequences of one frame.                             *)

LEMMA BootOrder ==
  ASSUME step \in 1 .. 12
  PROVE  /\ Boot[step] = "remap"    => step = 1
         /\ Boot[step] = "gates"    => step = 2
         /\ Boot[step] = "lidt"     => step = 3
         /\ Boot[step] = "unmask0"  => step = 4
         /\ Boot[step] = "unmask1"  => step = 5
         /\ Boot[step] = "kbd_init" => step = 6
         /\ Boot[step] = "layout"   => step = 7
         /\ Boot[step] = "unshift"  => step = 8
         /\ Boot[step] = "shift"    => step = 9
         /\ Boot[step] = "sti"      => step = 10
         /\ Boot[step] = "pit_init" => step = 11
         /\ Boot[step] = "main"     => step = 12
<1>1. step \in {1, 2, 3, 4, 5, 6, 7, 8, 9, 10, 11, 12}
  BY SMT
<1>2. QED BY <1>1 DEF Boot

LEMMA OneFrame ==
  ASSUME NEW i \in Irqs, NEW a \in Places, NEW b \in Places
  PROVE  /\ Len(<<Frame(i, a)>>) = 1
         /\ <<Frame(i, a)>>[1] = Frame(i, a)
         /\ [<<Frame(i, a)>> EXCEPT ![1] = Frame(i, b)] = <<Frame(i, b)>>
         /\ SubSeq(<<Frame(i, a)>>, 1, 1 - 1) = <<>>
         /\ Append(<<>>, Frame(i, a)) = <<Frame(i, a)>>
<1>1. Len(<<Frame(i, a)>>) = 1 /\ <<Frame(i, a)>>[1] = Frame(i, a)
  OBVIOUS
<1>2. [<<Frame(i, a)>> EXCEPT ![1] = Frame(i, b)] = <<Frame(i, b)>>
  OBVIOUS
<1>3. SubSeq(<<Frame(i, a)>>, 1, 1 - 1) = <<>>
  BY SubSeqEmpty
<1>4. Append(<<>>, Frame(i, a)) = <<Frame(i, a)>>
  OBVIOUS
<1>5. QED BY <1>1, <1>2, <1>3, <1>4

LEMMA MinOfOne == ASSUME NEW i \in Irqs PROVE MinOf({i}) = i
BY DEF MinOf, Irqs

LEMMA MinOfSome ==
  ASSUME NEW S \in SUBSET Irqs, S # {}
  PROVE  MinOf(S) \in S
<1>1. \E x \in S : \A y \in S : x <= y
  <2>1. CASE 0 \in S
    BY <2>1, SMT DEF Irqs
  <2>2. CASE 0 \notin S
    <3>1. S = {1}
      BY <2>2 DEF Irqs
    <3>2. QED BY <3>1, SMT
  <2>3. QED BY <2>1, <2>2
<1>2. QED BY <1>1 DEF MinOf

-----------------------------------------------------------------------------
LEMMA InitIntrInv == Init => IntrInv
<1> SUFFICES ASSUME Init PROVE BootInv /\ HandlerInv
  BY DEF IntrInv
<1>1. \A v \in Vectors : idt[v] # "trap"
  BY DEF Init
<1>2. step = 1 /\ stale = obf
  BY DEF Init
<1>3. BootInv
  BY <1>1, <1>2, SMT DEF BootInv
<1>4. HandlerInv
  BY DEF Init, HandlerInv
<1>5. QED BY <1>3, <1>4

LEMMA BootingKeeps ==
  ASSUME IntrInv, Booting
  PROVE  IntrInv'
<1> USE DEF IntrInv, BootInv
<1>1. CASE pic_remap_mask_all
  BY <1>1, BootOrder, SMT DEF pic_remap_mask_all, BootStep, At, InProgram, tabs, kbc, HandlerInv, Irqs
<1>2. CASE SetGates
  <2>1. step = 2 /\ step' = 3 /\ base' = base /\ obf' = obf /\ stale' = stale
    BY <1>2, BootOrder DEF SetGates, BootStep, At, InProgram, pic, kbc
  <2>2. \A v \in Vectors : idt'[v] \in {"interrupt", "none"}
    BY <1>2 DEF SetGates, Gate
  <2>3. idt'[32] = "interrupt" /\ idt'[33] = "interrupt"
    <3>1. 32 \in Vectors /\ 33 \in Vectors
      BY SMT DEF Vectors
    <3>2. QED BY <1>2, <3>1 DEF SetGates, Gate
  <2>4. BootInv'
    BY <2>1, <2>2, <2>3 DEF BootInv
  <2>5. HandlerInv'
    BY <1>2, <2>1 DEF SetGates, BootStep, At, InProgram, pic, HandlerInv
  <2>6. QED BY <2>4, <2>5
<1>3. CASE lidt
  BY <1>3, BootOrder, SMT DEF lidt, BootStep, At, InProgram, tabs, kbc, pic, HandlerInv
<1>4. ASSUME NEW irq \in Irqs, pic_unmask(irq) PROVE IntrInv'
  BY <1>4, BootOrder, SMT DEF pic_unmask, BootStep, At, InProgram, tabs, kbc, HandlerInv
<1>5. CASE kbd_init
  BY <1>5, BootOrder, SMT DEF kbd_init, BootStep, At, InProgram, tabs, kbc, HandlerInv
<1>6. CASE kbd_set_layout
  BY <1>6, BootOrder, SMT DEF kbd_set_layout, BootStep, At, InProgram, pic, kbc, HandlerInv
<1>7. CASE enable_interrupts
  BY <1>7, BootOrder, SMT DEF enable_interrupts, BootStep, At, InProgram, tabs, pic, kbc, HandlerInv
<1>8. CASE pit_init
  BY <1>8, BootOrder, SMT DEF pit_init, BootStep, At, InProgram, tabs, pic, kbc, HandlerInv
<1>9. QED BY <1>1, <1>2, <1>3, <1>4, <1>5, <1>6, <1>7, <1>8 DEF Booting

LEMMA ProgramKeeps ==
  ASSUME IntrInv, Program
  PROVE  IntrInv'
<1> USE DEF IntrInv, BootInv, HandlerInv, ProgStep, Running, At, InProgram, pic, tabs, kbc
<1>1. CASE Poll
  BY <1>1 DEF Poll
<1>2. CASE Halt
  BY <1>2 DEF Halt
<1>3. QED BY <1>1, <1>2 DEF Program

LEMMA AcceptKeeps ==
  ASSUME IntrInv, Accept
  PROVE  IntrInv'
<1> DEFINE irq == MinOf(Requests)
           gate == IF idtr THEN idt[base + irq] ELSE "none"
<1>1. flagIF = TRUE /\ step > 10 /\ frames = <<>> /\ isr = {}
  BY DEF Accept, IntrInv, HandlerInv
<1>2. irq \in Irqs /\ irq \in irr
  <2>1. Requests \in SUBSET Irqs /\ Requests # {} /\ Requests \subseteq irr
    BY DEF Accept, Requests, IntrInv, HandlerInv
  <2>2. QED BY <2>1, MinOfSome
<1>3. gate = "interrupt"
  BY <1>1, <1>2, SMT DEF IntrInv, BootInv, Irqs
<1> HIDE DEF irq, gate
<1>4. /\ irr' = irr \ {irq} /\ isr' = {irq}
      /\ frames' = Append(<<>>, [irq |-> irq, at |-> "enter", saved |-> flagIF])
      /\ flagIF' = (gate = "trap")
      /\ cpu' = IF gate = "none" THEN "shutdown" ELSE "run"
  BY <1>1 DEF Accept, irq, gate
<1>5. frames' = <<Frame(irq, "enter")>>
  BY <1>1, <1>2, <1>4, OneFrame DEF Frame, Places
<1>6. flagIF' = FALSE /\ cpu' = "run"
  BY <1>3, <1>4
<1>7. BootInv'
  BY DEF IntrInv, BootInv, Accept, kbc, tabs
<1>8. HandlerInv'
  <2>1. obf' => stale' \/ 1 \in irr' \/ frames' = <<Frame(1, "enter")>>
    <3>1. obf' = obf /\ stale' = stale /\ (obf => stale \/ 1 \in irr)
      BY <1>1 DEF Accept, kbc, IntrInv, HandlerInv
    <3>2. QED BY <3>1, <1>4, <1>5
  <2>2. irr' \subseteq Irqs
    BY <1>4 DEF IntrInv, HandlerInv
  <2>3. step' = step
    BY DEF Accept
  <2>4. QED BY <1>1, <1>2, <1>4, <1>5, <1>6, <2>1, <2>2, <2>3 DEF HandlerInv, Places
<1>9. QED BY <1>7, <1>8 DEF IntrInv

LEMMA HandlerKeeps ==
  ASSUME IntrInv, Handler
  PROVE  IntrInv'
<1>1. BootInv'
  BY DEF Handler, pit_isr, kbd_isr, EndOfInterrupt, iret, HandlerStep, ReadByte, IntrInv, BootInv, tabs
<1>2. frames # <<>>
  BY DEF Handler, pit_isr, kbd_isr, EndOfInterrupt, iret, In
<1>3. PICK i \in Irqs, a \in Places :
        /\ frames = <<Frame(i, a)>>
        /\ isr = IF a = "iret" THEN {} ELSE {i}
        /\ ~flagIF /\ step > 10
  BY <1>2 DEF IntrInv, HandlerInv
<1>4. Top = Frame(i, a) /\ Len(frames) = 1
  BY <1>3, OneFrame DEF Top
<1> DEFINE Moved(b) == [frames EXCEPT ![Len(frames)] = [irq |-> Top.irq, at |-> b, saved |-> Top.saved]]
<1>11. \A b \in Places : Moved(b) = <<Frame(i, b)>>
  <2>1. Top.irq = i /\ Top.saved = TRUE
    BY <1>4 DEF Frame
  <2>2. \A b \in Places : Moved(b) = [<<Frame(i, a)>> EXCEPT ![1] = Frame(i, b)]
    BY <1>3, <1>4, <2>1 DEF Frame
  <2>3. \A b \in Places : [<<Frame(i, a)>> EXCEPT ![1] = Frame(i, b)] = <<Frame(i, b)>>
    BY OneFrame
  <2>4. QED BY <2>2, <2>3, Zenon
<1> HIDE DEF Moved
<1>5. \A j, b : In(j, b) => i = j /\ a = b
  BY <1>4 DEF In, Frame
<1>6. /\ cpu' = cpu /\ step' = step /\ irr' = irr
      /\ cpu # "shutdown" /\ irr \subseteq Irqs /\ flagIF = FALSE
  BY <1>3 DEF Handler, pit_isr, kbd_isr, EndOfInterrupt, iret, HandlerStep, IntrInv, HandlerInv
<1>7. CASE pit_isr \/ kbd_isr
  <2>1. a = "enter" /\ isr' = isr /\ flagIF' = flagIF
    BY <1>5, <1>7 DEF pit_isr, kbd_isr
  <2>2. frames' = <<Frame(i, "eoi")>>
    BY <1>7, <1>11 DEF pit_isr, kbd_isr, Goto, Places, Moved
  <2>3. obf' => stale' \/ 1 \in irr
    <3>1. CASE pit_isr
      <4>1. i = 0 /\ obf' = obf /\ stale' = stale
        BY <1>5, <3>1 DEF pit_isr
      <4>2. frames # <<Frame(1, "enter")>>
        BY <1>3, <4>1, OneFrame DEF Frame, Places, Irqs
      <4>3. QED BY <4>1, <4>2 DEF IntrInv, HandlerInv
    <3>2. CASE kbd_isr
      BY <3>2 DEF kbd_isr, ReadByte
    <3>3. QED BY <1>7, <3>1, <3>2
  <2>4. isr' = IF "eoi" = "iret" THEN {} ELSE {i}
    BY <1>3, <2>1
  <2>5. QED BY <1>1, <1>3, <1>6, <2>1, <2>2, <2>3, <2>4 DEF IntrInv, HandlerInv, Places
<1>8. CASE EndOfInterrupt
  <2>1. a = "eoi" /\ flagIF' = flagIF /\ obf' = obf /\ stale' = stale
    BY <1>5, <1>8 DEF EndOfInterrupt
  <2>2. frames' = <<Frame(i, "iret")>>
    BY <1>8, <1>11 DEF EndOfInterrupt, Goto, Places, Moved
  <2>3. isr' = {}
    BY <1>3, <1>8, <2>1, MinOfOne DEF EndOfInterrupt, Acknowledge
  <2>4. obf => stale \/ 1 \in irr
    <3>1. frames # <<Frame(1, "enter")>>
      BY <1>3, <2>1, OneFrame DEF Frame, Places
    <3>2. QED BY <3>1 DEF IntrInv, HandlerInv
  <2>5. QED BY <1>1, <1>3, <1>6, <2>1, <2>2, <2>3, <2>4 DEF IntrInv, HandlerInv, Places
<1>9. CASE iret
  <2>1. a = "iret" /\ isr' = isr /\ obf' = obf /\ stale' = stale
    BY <1>5, <1>9 DEF iret
  <2>2. frames' = <<>>
    BY <1>3, <1>4, <1>9, OneFrame DEF iret
  <2>3. flagIF' = TRUE
    BY <1>4, <1>9 DEF iret, Frame
  <2>4. obf => stale \/ 1 \in irr
    <3>1. frames # <<Frame(1, "enter")>>
      BY <1>3, <2>1, OneFrame DEF Frame, Places
    <3>2. QED BY <3>1 DEF IntrInv, HandlerInv
  <2>5. QED BY <1>1, <1>3, <1>6, <2>1, <2>2, <2>3, <2>4 DEF IntrInv, HandlerInv
<1>10. QED BY <1>7, <1>8, <1>9 DEF Handler

LEMMA NextIntrInv == IntrInv /\ [Next]_vars => IntrInv'
<1> SUFFICES ASSUME IntrInv, [Next]_vars PROVE IntrInv'
  OBVIOUS
<1>1. CASE Booting
  BY <1>1, BootingKeeps
<1>2. CASE Program
  BY <1>2, ProgramKeeps
<1>3. CASE Accept
  BY <1>3, AcceptKeeps
<1>4. CASE Handler
  BY <1>4, HandlerKeeps
<1>5. CASE TimerEdge
  BY <1>5 DEF TimerEdge, IntrInv, BootInv, HandlerInv, Irqs, kbc, tabs
<1>6. CASE KeyStroke
  BY <1>6 DEF KeyStroke, IntrInv, BootInv, HandlerInv, pic, tabs
<1>7. CASE KeyByte
  BY <1>7 DEF KeyByte, IntrInv, BootInv, HandlerInv, Irqs, tabs
<1>8. CASE UNCHANGED vars
  BY <1>8 DEF vars, IntrInv, BootInv, HandlerInv, pic, kbc, tabs
<1>9. QED
  BY <1>1, <1>2, <1>3, <1>4, <1>5, <1>6, <1>7, <1>8 DEF Next

-----------------------------------------------------------------------------
THEOREM IntrInvariant == Spec => []IntrInv
BY InitIntrInv, NextIntrInv, PTL DEF Spec

(* The frames of a state with at most one handler, one by one.                *)
LEMMA FrameCases ==
  ASSUME HandlerInv
  PROVE  \/ frames = <<>> /\ isr = {} /\ DOMAIN frames = {}
         \/ \E i \in Irqs, a \in Places :
              /\ frames = <<Frame(i, a)>> /\ DOMAIN frames = {1} /\ Len(frames) = 1
              /\ frames[1] = Frame(i, a)
              /\ isr = IF a = "iret" THEN {} ELSE {i}
              /\ step > 10
<1>1. CASE frames = <<>> /\ isr = {}
  BY <1>1
<1>2. ASSUME NEW i \in Irqs, NEW a \in Places, frames = <<Frame(i, a)>>,
             isr = IF a = "iret" THEN {} ELSE {i}, step > 10
      PROVE  DOMAIN frames = {1} /\ Len(frames) = 1 /\ frames[1] = Frame(i, a)
  BY <1>2, OneFrame
<1>3. QED BY <1>1, <1>2 DEF HandlerInv

(* No accepted interrupt finds an empty gate (idt.c:46-70).                    *)
THEOREM NoMissingGate == Spec => []EveryInterruptHasAGate
<1>1. IntrInv => EveryInterruptHasAGate
  BY DEF IntrInv, HandlerInv, EveryInterruptHasAGate
<1>2. QED BY <1>1, IntrInvariant, PTL

(* At most one handler is entered at a time (idt.c:55-63).                     *)
THEOREM NoNesting == Spec => []HandlersDoNotNest
<1>1. IntrInv => HandlersDoNotNest
  <2>1. SUFFICES ASSUME IntrInv PROVE Len(frames) <= 1
    BY DEF HandlersDoNotNest
  <2>2. CASE frames = <<>>
    BY <2>2, SMT
  <2>3. CASE Len(frames) = 1
    BY <2>3, SMT
  <2>4. QED BY <2>1, <2>2, <2>3, FrameCases DEF IntrInv
<1>2. QED BY <1>1, IntrInvariant, PTL

(* In service until the EOI, and nothing in service while the program runs     *)
(* (pit.c:38, keyboard.c:171).                                                *)
THEOREM EoiEndsService == Spec => []InServiceUntilEoi
<1>1. IntrInv => InServiceUntilEoi
  <2>1. SUFFICES ASSUME IntrInv PROVE InServiceUntilEoi
    OBVIOUS
  <2> DEFINE S == {frames[k].irq : k \in {j \in DOMAIN frames : frames[j].at # "iret"}}
  <2>2. CASE frames = <<>> /\ isr = {} /\ DOMAIN frames = {}
    <3>1. S = {}
      BY <2>2
    <3>2. QED BY <2>2, <3>1 DEF InServiceUntilEoi
  <2>3. ASSUME NEW i \in Irqs, NEW a \in Places, frames = <<Frame(i, a)>>,
               DOMAIN frames = {1}, frames[1] = Frame(i, a), Len(frames) = 1,
               isr = IF a = "iret" THEN {} ELSE {i}
        PROVE  InServiceUntilEoi
    <3>1. frames[1].at = a /\ frames[1].irq = i
      BY <2>3 DEF Frame
    <3>2. {j \in DOMAIN frames : frames[j].at # "iret"} = IF a = "iret" THEN {} ELSE {1}
      BY <2>3, <3>1
    <3>3. S = IF a = "iret" THEN {} ELSE {i}
      BY <3>1, <3>2
    <3>4. frames # <<>>
      BY <2>3
    <3>5. QED BY <2>3, <3>3, <3>4 DEF InServiceUntilEoi, InProgram
  <2>4. QED BY <2>1, <2>2, <2>3, FrameCases DEF IntrInv
<1>2. QED BY <1>1, IntrInvariant, PTL

(* A byte in the 8042 will be read (keyboard.c:131-136).                       *)
THEOREM ByteIsRequested == Spec => []WaitingByteIsRequested
<1>1. IntrInv => WaitingByteIsRequested
  <2>1. SUFFICES ASSUME IntrInv, obf, ~stale, 1 \notin irr PROVE WaitingByteIsRequested
    BY DEF WaitingByteIsRequested, WillBeRead
  <2>2. frames = <<Frame(1, "enter")>>
    BY <2>1 DEF IntrInv, HandlerInv
  <2>3. DOMAIN frames = {1} /\ frames[1] = Frame(1, "enter")
    BY <2>2
  <2>4. QED BY <2>3 DEF WaitingByteIsRequested, WillBeRead, Frame
<1>2. QED BY <1>1, IntrInvariant, PTL

(* Keyboard interrupts find the layout complete (kernel.c:18-19).              *)
THEOREM OneLayout == Spec => []DecodedWithOneLayout
<1>1. IntrInv => DecodedWithOneLayout
  <2>1. SUFFICES ASSUME IntrInv, NEW k \in DOMAIN frames
                 PROVE  g_unshift = g_layout /\ g_shift = g_layout
    BY DEF DecodedWithOneLayout
  <2>2. step > 10
    BY <2>1, FrameCases DEF IntrInv
  <2>3. step > 7 /\ step > 8 /\ step > 9
    BY <2>1, <2>2, SMT DEF IntrInv, BootInv
  <2>4. QED BY <2>1, <2>3 DEF IntrInv, BootInv
<1>2. QED BY <1>1, IntrInvariant, PTL

-----------------------------------------------------------------------------
(* Types.                                                                     *)

(* All of TypeOK but the frames, which IntrInv describes.                     *)
TypeInv ==
  /\ step \in 1 .. 12
  /\ idt \in [Vectors -> {"none", "interrupt", "trap"}]
  /\ idtr \in BOOLEAN /\ flagIF \in BOOLEAN
  /\ {obf, stale, rested} \subseteq BOOLEAN
  /\ cpu \in {"run", "hlt", "shutdown"}
  /\ prog \in {"check", "halt", "took"}
  /\ base \in {8, 32} /\ imr \subseteq Lines /\ isr \subseteq Lines
  /\ pit \in {"off", "bios", "100Hz"}
  /\ wire \in 0 .. MAXWIRE /\ stored \in 0 .. RING /\ pit_ticks \in 0 .. TICKS - 1
  /\ {g_layout, g_unshift, g_shift} \subseteq {"US", "ES"}

LEMMA BootTypes ==
  ASSUME TypeInv, IntrInv, Booting
  PROVE  TypeInv'
<1> USE DEF TypeInv, BootStep, At, InProgram, pic, tabs, kbc
<1>1. Boot[step] # "main" => step + 1 \in 1 .. 12
  <2>1. SUFFICES ASSUME step = 12 PROVE Boot[step] = "main"
    BY SMT
  <2>2. QED BY <2>1 DEF Boot
<1>2. CASE pic_remap_mask_all
  BY <1>1, <1>2 DEF pic_remap_mask_all
<1>3. CASE SetGates
  BY <1>1, <1>3 DEF SetGates, Gate
<1>4. CASE lidt
  BY <1>1, <1>4 DEF lidt
<1>5. ASSUME NEW irq \in Irqs, pic_unmask(irq) PROVE TypeInv'
  BY <1>1, <1>5 DEF pic_unmask, Unmask
<1>6. CASE kbd_init
  BY <1>1, <1>6 DEF kbd_init
<1>7. CASE kbd_set_layout
  BY <1>1, <1>7 DEF kbd_set_layout
<1>8. CASE enable_interrupts
  BY <1>1, <1>8 DEF enable_interrupts
<1>9. CASE pit_init
  BY <1>1, <1>9 DEF pit_init
<1>10. QED BY <1>2, <1>3, <1>4, <1>5, <1>6, <1>7, <1>8, <1>9 DEF Booting

LEMMA NextTypeInv ==
  ASSUME TypeInv, IntrInv, IntrInv', [Next]_vars
  PROVE  TypeInv'
<1> USE DEF TypeInv, pic, tabs, kbc
<1>1. CASE Booting
  BY <1>1, BootTypes
<1>2. CASE Poll
  BY <1>2, BoundsAssumption, SMT DEF Poll, ProgStep
<1>3. CASE Halt
  BY <1>3 DEF Halt, ProgStep
<1>4. CASE Accept
  <2>1. isr' \subseteq Lines
    <3>1. isr' \subseteq Irqs
      BY DEF IntrInv, HandlerInv
    <3>2. Irqs \subseteq Lines
      BY SMT DEF Irqs, Lines
    <3>3. QED BY <3>1, <3>2
  <2>2. flagIF' \in BOOLEAN /\ cpu' \in {"run", "hlt", "shutdown"}
    BY <1>4 DEF Accept
  <2>3. QED BY <1>4, <2>1, <2>2 DEF Accept
<1>5. CASE pit_isr
  <2>1. pit_ticks' \in 0 .. TICKS - 1
    BY <1>5, BoundsAssumption, SMT DEF pit_isr
  <2>2. QED BY <1>5, <2>1 DEF pit_isr, HandlerStep
<1>6. CASE kbd_isr
  <2>1. stored' \in 0 .. RING
    BY <1>6, BoundsAssumption, SMT DEF kbd_isr, HasRoom
  <2>2. obf' \in BOOLEAN /\ stale' \in BOOLEAN
    BY <1>6 DEF kbd_isr, ReadByte
  <2>3. QED BY <1>6, <2>1, <2>2 DEF kbd_isr, HandlerStep
<1>7. CASE EndOfInterrupt
  BY <1>7 DEF EndOfInterrupt, Acknowledge, HandlerStep
<1>8. CASE iret
  <2>1. flagIF' \in BOOLEAN
    BY DEF IntrInv, HandlerInv
  <2>2. QED BY <1>8, <2>1 DEF iret, HandlerStep
<1>9. CASE TimerEdge
  BY <1>9 DEF TimerEdge
<1>10. CASE KeyStroke
  BY <1>10, BoundsAssumption, SMT DEF KeyStroke
<1>11. CASE KeyByte
  <2>1. wire' \in 0 .. MAXWIRE
    BY <1>11, BoundsAssumption, SMT DEF KeyByte
  <2>2. QED BY <1>11, <2>1 DEF KeyByte
<1>12. CASE UNCHANGED vars
  BY <1>12 DEF vars
<1>13. QED
  BY <1>1, <1>2, <1>3, <1>4, <1>5, <1>6, <1>7, <1>8, <1>9, <1>10, <1>11, <1>12
     DEF Next, Program, Handler

(* Every variable keeps its type: in particular the buffer holds at most RING  *)
(* characters, whatever the order of bytes and reads.                         *)
THEOREM TypesAreKept == Spec => []TypeOK
<1>1. Init => TypeInv
  <2>1. SUFFICES ASSUME Init PROVE TypeInv
    OBVIOUS
  <2>2. 1 \in 1 .. 12 /\ 0 \in 0 .. MAXWIRE /\ 0 \in 0 .. RING /\ 0 \in 0 .. TICKS - 1
    BY BoundsAssumption, SMT
  <2>3. Irqs \subseteq Lines
    BY SMT DEF Irqs, Lines
  <2>4. QED BY <2>1, <2>2, <2>3 DEF Init, TypeInv
<1>2. TypeInv /\ IntrInv /\ IntrInv' /\ [Next]_vars => TypeInv'
  BY NextTypeInv
<1>3. TypeInv /\ IntrInv => TypeOK
  <2>1. SUFFICES ASSUME TypeInv, IntrInv PROVE TypeOK
    OBVIOUS
  <2>2. frames \in Seq([irq : Irqs, at : {"enter", "eoi", "iret"}, saved : BOOLEAN])
    <3>1. CASE frames = <<>>
      BY <3>1
    <3>2. ASSUME NEW i \in Irqs, NEW a \in Places, frames = <<Frame(i, a)>>
          PROVE  frames \in Seq([irq : Irqs, at : {"enter", "eoi", "iret"}, saved : BOOLEAN])
      BY <3>2 DEF Frame, Places
    <3>3. QED BY <2>1, <3>1, <3>2 DEF IntrInv, HandlerInv
  <2>3. irr \subseteq Lines
    <3>1. Irqs \subseteq Lines
      BY SMT DEF Irqs, Lines
    <3>2. QED BY <2>1, <3>1 DEF IntrInv, HandlerInv
  <2>4. Len(Boot) = 12
    BY DEF Boot
  <2>5. QED BY <2>1, <2>2, <2>3, <2>4 DEF TypeInv, TypeOK
<1>4. QED BY <1>1, <1>2, <1>3, IntrInvariant, PTL DEF Spec
=============================================================================

------------------------------- MODULE Stubs -------------------------------
(* From an interrupt or a fault to its C handler and back: the entry stubs of *)
(* kernel/src/arch/irq_stubs.S and faults.S at the level of registers and     *)
(* stack, and the handlers of kernel/faults.c, which stop the machine.        *)
(*                                                                            *)
(* Interrupt gates keep a second interrupt out of a stub and nothing in a     *)
(* stub faults, so one entry is followed at a time.  The stack is what lies    *)
(* above the program's own.                                                   *)
EXTENDS Naturals, Sequences

CONSTANTS Half,       \* half words a register may hold
          KERNEL_DS,  \* the data selector (0x10)
          Selectors   \* error codes of general protection faults of the program

Irq == {32, 33}
NoError == {6, 7}          \* #UD, #NM
WithError == {13, 14}      \* #GP, #PF
Float == {16}              \* #MF
NoGate == {19}             \* #XF, an exception without a gate
NoGateInt == {0, 3}        \* software interrupts without a gate: int $0, int3

Word == [hi : Half, lo : Half]
Zero == [hi |-> 0, lo |-> 0]
Number(n) == [hi |-> 0, lo |-> n]

VARIABLES
  at,       \* "program", or the place in the stub
  vec,      \* the vector whose stub runs
  eax,      \* in halves: the stubs load a selector into the low one
  scratch,  \* ecx and edx, which C functions may change
  kept,     \* the other general registers, which they keep
  ds, es, fs, gs,
  flagDF, flagIF,
  stack,    \* what lies on the stack, the top last
  err,      \* (history) the error code the processor pushed, or zero
  got,      \* the arguments the C handler received
  before    \* (history) the machine as the program left it

segs    == <<ds, es, fs, gs>>
general == <<eax, scratch, kept>>
flags   == <<flagDF, flagIF>>
machine == <<general, segs, flags, stack>>
vars    == <<at, vec, machine, err, got, before>>

Push(s, w) == Append(s, w)
Top(s) == s[Len(s)]
Pop(s) == SubSeq(s, 1, Len(s) - 1)

Init ==
  /\ at = "program" /\ vec = 0
  /\ eax = Zero /\ scratch = 0 /\ kept = 0
  /\ ds = KERNEL_DS /\ es = KERNEL_DS /\ fs = KERNEL_DS /\ gs = KERNEL_DS
  /\ flagDF = FALSE /\ flagIF = TRUE
  /\ stack = <<>> /\ err = Zero /\ got = <<>>
  /\ before = machine

\* The program computes; it never loads a segment register.
Program ==
  /\ at = "program"
  /\ eax' \in Word /\ scratch' \in Half /\ kept' \in Half
  /\ flagDF' \in BOOLEAN /\ flagIF' \in BOOLEAN
  /\ UNCHANGED <<at, vec, segs, stack, err, got>>
  /\ before' = machine'

\* The processor pushes the flags (with CS and EIP), for some vectors an error
\* code, and clears IF.
Enter(v, frame, code) ==
  /\ at = "program"
  /\ vec' = v /\ err' = code /\ stack' = frame
  /\ flagIF' = FALSE
  /\ at' = IF v \in WithError THEN "capture" ELSE "save"
  /\ UNCHANGED <<general, segs, flagDF, got, before>>

Interrupt == flagIF /\ \E v \in Irq : Enter(v, Push(stack, flags), Zero)
Fault == \E v \in NoError \cup Float : Enter(v, Push(stack, flags), Zero)
\* Paging is off: no #PF comes, and its stub is the same macro.
FaultWithCode(c) == Enter(13, Push(Push(stack, flags), Number(c)), Number(c))
\* What finds no gate becomes a general protection fault that names the gate;
\* bit 0 is set when what was delivered was no software interrupt.  (#DE would
\* be a double fault, which has no gate either.)
GatelessCodes == {8 * v + 3 : v \in NoGate} \cup {8 * v + 2 : v \in NoGateInt}

Raise == Interrupt \/ Fault \/ \E c \in Selectors \cup GatelessCodes : FaultWithCode(c)

-----------------------------------------------------------------------------
(* The stubs.                                                                 *)

Continue(from, to) == at = from /\ at' = to /\ UNCHANGED <<vec, err, before>>

\* mov (%esp), %eax
Capture ==
  /\ Continue("capture", "save")
  /\ eax' = Top(stack)
  /\ UNCHANGED <<scratch, kept, segs, flags, stack, got>>

\* pusha; push ds, es, fs, gs; load ds and es through ax; cld
SAVE_REGS ==
  /\ Continue("save", IF vec \in NoError \cup WithError THEN "arguments" ELSE "call")
  /\ stack' = Push(Push(Push(Push(Push(stack, general), ds), es), fs), gs)
  /\ eax' = [hi |-> eax.hi, lo |-> KERNEL_DS]
  /\ ds' = KERNEL_DS /\ es' = KERNEL_DS
  /\ flagDF' = FALSE
  /\ UNCHANGED <<scratch, kept, fs, gs, flagIF, got>>

PushArguments ==
  /\ Continue("arguments", "call")
  /\ stack' = Push(Push(stack, IF vec \in WithError THEN eax ELSE Zero), Number(vec))
  /\ UNCHANGED <<general, segs, flags, got>>

\* The C function finds its arguments above the return address.
CallHandler ==
  /\ Continue("call", "handler")
  /\ got' = IF vec \in NoError \cup WithError
            THEN <<Top(stack), Top(Pop(stack))>> ELSE <<>>
  /\ UNCHANGED machine

\* pit_isr and kbd_isr return; fault_handler and mf_handler halt for good.
Return ==
  /\ vec \in Irq
  /\ Continue("handler", "restore")
  /\ eax' \in Word /\ scratch' \in Half
  /\ UNCHANGED <<kept, segs, flags, stack, got>>

\* pop gs, fs, es, ds; popa
RESTORE_REGS ==
  /\ Continue("restore", "iret")
  /\ gs' = Top(stack)
  /\ fs' = Top(Pop(stack))
  /\ es' = Top(Pop(Pop(stack)))
  /\ ds' = Top(Pop(Pop(Pop(stack))))
  /\ LET saved == Top(Pop(Pop(Pop(Pop(stack)))))
     IN eax' = saved[1] /\ scratch' = saved[2] /\ kept' = saved[3]
  /\ stack' = Pop(Pop(Pop(Pop(Pop(stack)))))
  /\ UNCHANGED <<flags, got>>

iret ==
  /\ Continue("iret", "program")
  /\ flagDF' = Top(stack)[1] /\ flagIF' = Top(stack)[2]
  /\ stack' = Pop(stack)
  /\ UNCHANGED <<general, segs, got>>

Next == \/ Program \/ Raise \/ Capture \/ SAVE_REGS \/ PushArguments \/ CallHandler
        \/ Return \/ RESTORE_REGS \/ iret

Spec == Init /\ [][Next]_vars

-----------------------------------------------------------------------------
(* "Reads err, which is on top of the stack at the entry, and passes it to C"  *)
(* (faults.S:32, "lee err (está en top of stack al entrar), lo pasa a C").    *)
HandlerGetsTheErrorCode ==
  at = "handler" /\ vec \in WithError => got = <<Number(vec), err>>

(* An interrupt is invisible to the program: back in it, every register, the   *)
(* flags and the stack are as it left them, whatever the C function did to    *)
(* the registers it may change (irq_stubs.S:8-25).                            *)
InterruptIsInvisible == at = "program" => machine = before
=============================================================================

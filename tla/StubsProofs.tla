---------------------------- MODULE StubsProofs ----------------------------
(* The entry stubs give the program back its machine, for every set of half    *)
(* words and every data selector.                                             *)
EXTENDS Stubs, SequenceTheorems, TLAPS

(* What SAVE_REGS pushes, RESTORE_REGS finds.                                 *)
Saved(f, g, d1, d2, d3, d4) == Push(Push(Push(Push(Push(f, g), d1), d2), d3), d4)

(* What an interrupted program left, and where it is at each place of a stub:  *)
(* in the registers until SAVE_REGS, on the stack until RESTORE_REGS.         *)
Kept(e, c, k, d1, d2, d3, d4, f1, f2) ==
  /\ before = <<<<e, c, k>>, <<d1, d2, d3, d4>>, <<f1, f2>>, <<>>>>
  /\ at = "program" => machine = before
  /\ at \in {"save", "iret"} /\ vec \in Irq =>
       /\ eax = e /\ scratch = c /\ kept = k
       /\ ds = d1 /\ es = d2 /\ fs = d3 /\ gs = d4
       /\ stack = Push(<<>>, <<f1, f2>>)
  /\ at \in {"call", "handler", "restore"} /\ vec \in Irq =>
       stack = Saved(Push(<<>>, <<f1, f2>>), <<e, c, k>>, d1, d2, d3, d4)

StubsInv ==
  /\ at \in {"restore", "iret"} => vec \in Irq
  /\ at \in {"capture", "arguments"} => vec \notin Irq
  /\ \E e, c, k, d1, d2, d3, d4, f1, f2 : Kept(e, c, k, d1, d2, d3, d4, f1, f2)

-----------------------------------------------------------------------------
LEMMA PopUndoesPush ==
  ASSUME NEW S, NEW s \in Seq(S), NEW w \in S
  PROVE  Push(s, w) \in Seq(S) /\ Top(Push(s, w)) = w /\ Pop(Push(s, w)) = s
<1> DEFINE t == Append(s, w)
<1>1. /\ t \in Seq(S) /\ Len(t) = Len(s) + 1
      /\ \A i \in 1 .. Len(s) : t[i] = s[i]
      /\ t[Len(s) + 1] = w
  BY AppendProperties
<1>2. Len(s) \in Nat /\ Len(t) - 1 = Len(s)
  BY <1>1, SMT
<1> HIDE DEF t
<1>3. SubSeq(t, 1, Len(s)) = s
  <2>1. \A i \in 1 .. Len(s) : i \in 1 .. Len(t)
    BY <1>1, <1>2, SMT
  <2>2. SubSeq(t, 1, Len(s)) \in Seq(S) /\ Len(SubSeq(t, 1, Len(s))) = Len(s) /\
        \A i \in 1 .. Len(s) : SubSeq(t, 1, Len(s))[i] = t[i]
    BY <1>1, <1>2, SMT
  <2>3. QED BY <1>1, <2>2, SeqEqual
<1>4. QED BY <1>1, <1>2, <1>3 DEF t, Push, Pop, Top

LEMMA RestoreUndoesSave ==
  ASSUME NEW f, NEW g, NEW d1, NEW d2, NEW d3, NEW d4
  PROVE  LET s == Saved(Push(<<>>, f), g, d1, d2, d3, d4)
         IN /\ Top(s) = d4 /\ Top(Pop(s)) = d3 /\ Top(Pop(Pop(s))) = d2
            /\ Top(Pop(Pop(Pop(s)))) = d1 /\ Top(Pop(Pop(Pop(Pop(s))))) = g
            /\ Pop(Pop(Pop(Pop(Pop(s))))) = Push(<<>>, f)
            /\ Top(Push(<<>>, f)) = f /\ Pop(Push(<<>>, f)) = <<>>
<1> DEFINE S == {f, g, d1, d2, d3, d4}
           s0 == Push(<<>>, f)
           s1 == Push(s0, g)
           s2 == Push(s1, d1)
           s3 == Push(s2, d2)
           s4 == Push(s3, d3)
           s5 == Push(s4, d4)
<1>1. <<>> \in Seq(S) /\ {f, g, d1, d2, d3, d4} \subseteq S
  OBVIOUS
<1> HIDE DEF S
<1>2. s0 \in Seq(S) /\ Top(s0) = f /\ Pop(s0) = <<>>
  BY <1>1, PopUndoesPush
<1> HIDE DEF s0
<1>3. s1 \in Seq(S) /\ Top(s1) = g /\ Pop(s1) = s0
  BY <1>1, <1>2, PopUndoesPush
<1> HIDE DEF s1
<1>4. s2 \in Seq(S) /\ Top(s2) = d1 /\ Pop(s2) = s1
  BY <1>1, <1>3, PopUndoesPush
<1> HIDE DEF s2
<1>5. s3 \in Seq(S) /\ Top(s3) = d2 /\ Pop(s3) = s2
  BY <1>1, <1>4, PopUndoesPush
<1> HIDE DEF s3
<1>6. s4 \in Seq(S) /\ Top(s4) = d3 /\ Pop(s4) = s3
  BY <1>1, <1>5, PopUndoesPush
<1> HIDE DEF s4
<1>7. s5 \in Seq(S) /\ Top(s5) = d4 /\ Pop(s5) = s4
  BY <1>1, <1>6, PopUndoesPush
<1> HIDE DEF s5
<1>8. s5 = Saved(Push(<<>>, f), g, d1, d2, d3, d4) /\ s0 = Push(<<>>, f)
  BY DEF s0, s1, s2, s3, s4, s5, Saved
<1>9. QED BY <1>2, <1>3, <1>4, <1>5, <1>6, <1>7, <1>8

LEMMA InitStubsInv == Init => StubsInv
<1> SUFFICES ASSUME Init PROVE StubsInv
  OBVIOUS
<1>1. Kept(eax, scratch, kept, ds, es, fs, gs, flagDF, flagIF)
  BY DEF Init, Kept, machine, general, segs, flags
<1>2. QED BY <1>1, Zenon DEF Init, StubsInv

LEMMA ProgramKeeps == ASSUME StubsInv, Program PROVE StubsInv'
<1>1. stack = <<>>
  <2>1. PICK e, c, k, d1, d2, d3, d4, f1, f2 : Kept(e, c, k, d1, d2, d3, d4, f1, f2)
    BY DEF StubsInv
  <2>2. QED BY <2>1 DEF Kept, Program, machine
<1>2. Kept(eax, scratch, kept, ds, es, fs, gs, flagDF, flagIF)'
  BY <1>1 DEF Program, Kept, machine, general, segs, flags
<1>3. QED BY <1>2, Zenon DEF Program, StubsInv

LEMMA RaiseKeeps == ASSUME StubsInv, Raise PROVE StubsInv'
<1>1. PICK e, c, k, d1, d2, d3, d4, f1, f2 : Kept(e, c, k, d1, d2, d3, d4, f1, f2)
  BY DEF StubsInv
<1>2. PICK v, frame, code : Enter(v, frame, code) /\ (v \in Irq => frame = Push(stack, flags))
  <2>1. CASE Interrupt
    BY <2>1 DEF Interrupt
  <2>2. CASE Fault
    BY <2>2 DEF Fault
  <2>3. ASSUME NEW n, FaultWithCode(n) PROVE Enter(13, Push(Push(stack, flags), Number(n)), Number(n)) /\ 13 \notin Irq
    BY <2>3, SMT DEF FaultWithCode, Irq
  <2>4. QED BY <2>1, <2>2, <2>3 DEF Raise
<1>3. machine = before
  BY <1>1, <1>2 DEF Kept, Enter
<1>4. /\ eax = e /\ scratch = c /\ kept = k /\ ds = d1 /\ es = d2 /\ fs = d3 /\ gs = d4
      /\ flags = <<f1, f2>> /\ stack = <<>>
  BY <1>1, <1>3 DEF Kept, machine, general, segs, flags
<1>5. v \in Irq => stack' = Push(<<>>, <<f1, f2>>)
  BY <1>2, <1>4 DEF Enter
<1>6. at' \in {"capture", "save"} /\ (at' = "capture" => v \notin Irq) /\ vec' = v
  BY <1>2, SMT DEF Enter, Irq, WithError
<1>7. UNCHANGED <<eax, scratch, kept, ds, es, fs, gs, before>>
  BY <1>2 DEF Enter, general, segs
<1>8. Kept(e, c, k, d1, d2, d3, d4, f1, f2)'
  BY <1>1, <1>4, <1>5, <1>6, <1>7 DEF Kept
<1>9. QED BY <1>6, <1>8, Zenon DEF StubsInv

LEMMA StubKeeps ==
  ASSUME StubsInv,
         Capture \/ SAVE_REGS \/ PushArguments \/ CallHandler \/ Return \/ RESTORE_REGS \/ iret
  PROVE  StubsInv'
<1>1. PICK e, c, k, d1, d2, d3, d4, f1, f2 : Kept(e, c, k, d1, d2, d3, d4, f1, f2)
  BY DEF StubsInv
<1>2. UNCHANGED <<vec, before>>
  BY DEF Capture, SAVE_REGS, PushArguments, CallHandler, Return, RESTORE_REGS, iret, Continue
<1>3. CASE Capture
  <2>1. vec \notin Irq /\ at' = "save"
    BY <1>3 DEF Capture, Continue, StubsInv
  <2>2. Kept(e, c, k, d1, d2, d3, d4, f1, f2)'
    BY <1>1, <1>2, <2>1 DEF Kept
  <2>3. QED BY <1>2, <2>1, <2>2, Zenon DEF StubsInv
<1>4. CASE SAVE_REGS
  <2>1. /\ at = "save" /\ at' \in {"arguments", "call"}
        /\ at' = "arguments" => vec \notin Irq
    BY <1>4, SMT DEF SAVE_REGS, Continue, Irq, NoError, WithError
  <2>2. vec \in Irq => stack' = Saved(Push(<<>>, <<f1, f2>>), <<e, c, k>>, d1, d2, d3, d4)
    <3>1. SUFFICES ASSUME vec \in Irq PROVE stack' = Saved(Push(<<>>, <<f1, f2>>), <<e, c, k>>, d1, d2, d3, d4)
      OBVIOUS
    <3>2. /\ general = <<e, c, k>> /\ ds = d1 /\ es = d2 /\ fs = d3 /\ gs = d4
          /\ stack = Push(<<>>, <<f1, f2>>)
      BY <1>1, <2>1, <3>1 DEF Kept, general
    <3>3. QED BY <1>4, <3>2, Zenon DEF SAVE_REGS, Saved
  <2>3. Kept(e, c, k, d1, d2, d3, d4, f1, f2)'
    BY <1>1, <1>2, <2>1, <2>2 DEF Kept
  <2>4. QED BY <1>2, <2>1, <2>3, Zenon DEF StubsInv
<1>5. CASE PushArguments
  <2>1. vec \notin Irq /\ at' = "call"
    BY <1>5 DEF PushArguments, Continue, StubsInv
  <2>2. Kept(e, c, k, d1, d2, d3, d4, f1, f2)'
    BY <1>1, <1>2, <2>1 DEF Kept
  <2>3. QED BY <1>2, <2>1, <2>2, Zenon DEF StubsInv
<1>6. CASE CallHandler \/ Return
  <2>1. /\ at \in {"call", "handler"} /\ at' \in {"handler", "restore"} /\ stack' = stack
        /\ at' = "restore" => vec \in Irq
    BY <1>6 DEF CallHandler, Return, Continue, machine
  <2>2. Kept(e, c, k, d1, d2, d3, d4, f1, f2)'
    BY <1>1, <1>2, <2>1 DEF Kept
  <2>3. QED BY <1>2, <2>1, <2>2, Zenon DEF StubsInv
<1>7. CASE RESTORE_REGS
  <2>1. at = "restore" /\ at' = "iret" /\ vec \in Irq
    BY <1>7 DEF RESTORE_REGS, Continue, StubsInv
  <2>2. stack = Saved(Push(<<>>, <<f1, f2>>), <<e, c, k>>, d1, d2, d3, d4)
    BY <1>1, <2>1 DEF Kept
  <2>3. /\ Top(stack) = d4 /\ Top(Pop(stack)) = d3 /\ Top(Pop(Pop(stack))) = d2
        /\ Top(Pop(Pop(Pop(stack)))) = d1 /\ Top(Pop(Pop(Pop(Pop(stack))))) = <<e, c, k>>
        /\ Pop(Pop(Pop(Pop(Pop(stack))))) = Push(<<>>, <<f1, f2>>)
    BY <2>2, RestoreUndoesSave
  <2>4. /\ gs' = d4 /\ fs' = d3 /\ es' = d2 /\ ds' = d1
        /\ eax' = e /\ scratch' = c /\ kept' = k
        /\ stack' = Push(<<>>, <<f1, f2>>)
    BY <1>7, <2>3 DEF RESTORE_REGS
  <2>5. Kept(e, c, k, d1, d2, d3, d4, f1, f2)'
    BY <1>1, <1>2, <2>1, <2>4 DEF Kept
  <2>6. QED BY <1>2, <2>1, <2>5, Zenon DEF StubsInv
<1>8. CASE iret
  <2>1. at = "iret" /\ at' = "program" /\ vec \in Irq
    BY <1>8 DEF iret, Continue, StubsInv
  <2>2. /\ eax = e /\ scratch = c /\ kept = k
        /\ ds = d1 /\ es = d2 /\ fs = d3 /\ gs = d4
        /\ stack = Push(<<>>, <<f1, f2>>)
    BY <1>1, <2>1 DEF Kept
  <2>3. Top(stack) = <<f1, f2>> /\ Pop(stack) = <<>>
    BY <2>2, RestoreUndoesSave
  <2>4. flagDF' = f1 /\ flagIF' = f2 /\ stack' = <<>>
    BY <1>8, <2>3 DEF iret
  <2>5. machine' = before'
    BY <1>1, <1>2, <1>8, <2>2, <2>4 DEF iret, Kept, machine, general, segs, flags
  <2>6. Kept(e, c, k, d1, d2, d3, d4, f1, f2)'
    BY <1>1, <1>2, <2>1, <2>5 DEF Kept
  <2>7. QED BY <1>2, <2>1, <2>6, Zenon DEF StubsInv
<1>9. QED BY <1>3, <1>4, <1>5, <1>6, <1>7, <1>8

(* An interrupt is invisible to the program it interrupts: its registers,      *)
(* flags and stack are given back as they were (irq_stubs.S:8-25).            *)
THEOREM InterruptsAreInvisible == Spec => []InterruptIsInvisible
<1>1. StubsInv /\ [Next]_vars => StubsInv'
  <2> SUFFICES ASSUME StubsInv, [Next]_vars PROVE StubsInv'
    OBVIOUS
  <2>1. CASE Program
    BY <2>1, ProgramKeeps
  <2>2. CASE Raise
    BY <2>2, RaiseKeeps
  <2>3. CASE Capture \/ SAVE_REGS \/ PushArguments \/ CallHandler \/ Return \/ RESTORE_REGS \/ iret
    BY <2>3, StubKeeps
  <2>4. CASE UNCHANGED vars
    <3>1. PICK e, c, k, d1, d2, d3, d4, f1, f2 : Kept(e, c, k, d1, d2, d3, d4, f1, f2)
      BY DEF StubsInv
    <3>2. Kept(e, c, k, d1, d2, d3, d4, f1, f2)'
      BY <2>4, <3>1 DEF vars, machine, general, segs, flags, Kept
    <3>3. UNCHANGED <<at, vec>>
      BY <2>4 DEF vars
    <3>4. QED BY <3>2, <3>3, Zenon DEF StubsInv
  <2>5. QED BY <2>1, <2>2, <2>3, <2>4 DEF Next
<1>2. StubsInv => InterruptIsInvisible
  BY DEF StubsInv, Kept, InterruptIsInvisible
<1>3. QED BY InitStubsInv, <1>1, <1>2, PTL DEF Spec
=============================================================================

--------------------------- MODULE KbdRingProofs ----------------------------
(* The keyboard buffer's invariants and its refinement of LossyQueue, proved  *)
(* for every KBD_BUF_SIZE and every set of characters.                        *)
EXTENDS KbdRing, SequenceTheorems, TLAPS

-----------------------------------------------------------------------------
(* Arithmetic of the indexes.                                                 *)

LEMMA NextSlotValue ==
  ASSUME NEW i \in Slots
  PROVE  /\ NextSlot(i) = IF i = KBD_BUF_SIZE - 1 THEN 0 ELSE i + 1
         /\ NextSlot(i) \in Slots
<1>1. CASE i = KBD_BUF_SIZE - 1
  BY <1>1, RingAssumption, SMT DEF NextSlot, Slots
<1>2. CASE i # KBD_BUF_SIZE - 1
  BY <1>2, RingAssumption, SMT DEF NextSlot, Slots
<1>3. QED BY <1>1, <1>2

-----------------------------------------------------------------------------
(* Types.                                                                     *)

LEMMA InitTypeOK == Init => TypeOK
BY RingAssumption, SMT DEF Init, TypeOK, Slots

LEMMA NextTypeOK == TypeOK /\ [Next]_rvars => TypeOK'
<1> SUFFICES ASSUME TypeOK, [Next]_rvars PROVE TypeOK'
  OBVIOUS
<1> USE DEF TypeOK
<1>1. ASSUME NEW ch \in Char, kbd_put(ch) PROVE TypeOK'
  <2>1. NextSlot(kbd_head) \in Slots
    BY NextSlotValue
  <2>2. CASE Store(ch)
    BY <1>1, <2>1, <2>2 DEF kbd_put, Store
  <2>3. CASE Drop
    BY <1>1, <2>3 DEF kbd_put, Drop
  <2>4. QED BY <1>1, <2>2, <2>3 DEF kbd_put
<1>2. CASE ReadHead
  BY <1>2 DEF ReadHead
<1>3. CASE ReturnEmpty
  BY <1>3 DEF ReturnEmpty
<1>4. CASE Fetch
  BY <1>4 DEF Fetch
<1>5. CASE Advance
  <2>1. NextSlot(kbd_tail) \in Slots
    BY NextSlotValue
  <2>2. QED BY <1>5, <2>1 DEF Advance
<1>6. CASE AdvanceFirst
  <2>1. NextSlot(kbd_tail) \in Slots
    BY NextSlotValue
  <2>2. QED BY <1>6, <2>1 DEF AdvanceFirst
<1>7. CASE LateFetch
  BY <1>7 DEF LateFetch
<1>8. CASE UNCHANGED rvars
  BY <1>8 DEF rvars
<1>9. QED
  BY <1>1, <1>2, <1>3, <1>4, <1>5, <1>6, <1>7, <1>8 DEF Next, kbd_get

(* The types of keyboard.c:19-20 hold in every state: the handler and the main *)
(* program never index outside kbd_buf.                                       *)
THEOREM TypeCorrect == Spec => []TypeOK
BY InitTypeOK, NextTypeOK, PTL DEF Spec

-----------------------------------------------------------------------------
(* The inductive invariant.                                                   *)

LEMMA InitRingInv == Init => RingInv
BY InitTypeOK DEF Init, RingInv

LEMMA NextRingInv == RingInv /\ [Next]_rvars => RingInv'
<1> SUFFICES ASSUME RingInv, [Next]_rvars PROVE RingInv'
  OBVIOUS
<1>0. TypeOK /\ TypeOK'
  BY NextTypeOK DEF RingInv
<1> USE <1>0
<1>1. ASSUME NEW ch \in Char, kbd_put(ch) PROVE RingInv'
  <2>1. CASE Store(ch)
    <3>1. kbd_head' # kbd_tail'
      BY <1>1, <2>1 DEF kbd_put, Store, HasRoom
    <3>2. pc = "advance" => kbd_buf'[kbd_tail'] = c'
      BY <1>1, <2>1 DEF kbd_put, Store, TypeOK, RingInv
    <3>3. QED BY <1>1, <3>1, <3>2 DEF kbd_put, RingInv
  <2>2. CASE Drop
    BY <1>1, <2>2 DEF kbd_put, Drop, RingInv
  <2>3. QED BY <1>1, <2>1, <2>2 DEF kbd_put
<1>2. CASE ReadHead
  BY <1>2 DEF ReadHead, RingInv
<1>3. CASE ReturnEmpty
  BY <1>3 DEF ReturnEmpty, RingInv
<1>4. CASE Fetch
  BY <1>4 DEF Fetch, RingInv
<1>5. CASE Advance
  BY <1>5 DEF Advance, RingInv
<1>6. CASE AdvanceFirst
  BY <1>6 DEF AdvanceFirst, RingInv
<1>7. CASE LateFetch
  BY <1>7 DEF LateFetch, RingInv
<1>8. CASE UNCHANGED rvars
  BY <1>8 DEF rvars, RingInv, NextSlot
<1>9. QED
  BY <1>1, <1>2, <1>3, <1>4, <1>5, <1>6, <1>7, <1>8 DEF Next, kbd_get

THEOREM RingInvariant == Spec => []RingInv
BY InitRingInv, NextRingInv, PTL DEF Spec

(* The slot kbd_get has still to read is never the one kbd_put writes          *)
(* (keyboard.c:24 and 29-30), for every size of the buffer.                   *)
THEOREM ReadSlotIsSafe == Spec => []ReadSlotSafe
<1>1. RingInv => ReadSlotSafe
  <2> SUFFICES ASSUME RingInv PROVE ReadSlotSafe
    OBVIOUS
  <2>1. pc = "late" => ~(HasRoom /\ kbd_head = slot)
    BY DEF RingInv, HasRoom
  <2>2. QED BY <2>1 DEF RingInv, ReadSlotSafe
<1>2. QED BY RingInvariant, <1>1, PTL

-----------------------------------------------------------------------------
(* The contents of a buffer as a sequence.                                    *)

Cells == Char \cup {Nul}
Bufs == [Slots -> Cells]

LEMMA CountRange ==
  ASSUME NEW h \in Slots, NEW t \in Slots
  PROVE  /\ CountOf(h, t) \in 0 .. KBD_BUF_SIZE - 1
         /\ CountOf(h, t) = 0 <=> h = t
         /\ CountOf(h, t) = KBD_BUF_SIZE - 1 <=> NextSlot(h) = t
<1>1. NextSlot(h) = IF h = KBD_BUF_SIZE - 1 THEN 0 ELSE h + 1
  BY NextSlotValue
<1>2. QED BY <1>1, RingAssumption, SMT DEF Slots, CountOf

LEMMA CountSteps ==
  ASSUME NEW h \in Slots, NEW t \in Slots
  PROVE  /\ NextSlot(h) # t => CountOf(NextSlot(h), t) = CountOf(h, t) + 1
         /\ h # t => CountOf(h, NextSlot(t)) = CountOf(h, t) - 1
<1>1. NextSlot(h) = IF h = KBD_BUF_SIZE - 1 THEN 0 ELSE h + 1
  BY NextSlotValue
<1>2. NextSlot(t) = IF t = KBD_BUF_SIZE - 1 THEN 0 ELSE t + 1
  BY NextSlotValue
<1>3. QED BY <1>1, <1>2, RingAssumption, SMT DEF Slots, CountOf

(* Where the characters are: the slots in use are those behind kbd_head, the   *)
(* newest one just behind it, and taking one shifts the others by a place.    *)
LEMMA SlotOfSteps ==
  ASSUME NEW h \in Slots, NEW t \in Slots
  PROVE  /\ \A i \in 1 .. CountOf(h, t) : SlotOf(t, i) \in Slots \ {h}
         /\ SlotOf(t, CountOf(h, t) + 1) = h
         /\ SlotOf(t, 1) = t
         /\ h # t => \A i \in 1 .. CountOf(h, t) - 1 :
                        SlotOf(NextSlot(t), i) = SlotOf(t, i + 1)
<1>1. NextSlot(t) = IF t = KBD_BUF_SIZE - 1 THEN 0 ELSE t + 1
  BY NextSlotValue
<1>2. \A i \in 1 .. CountOf(h, t) : SlotOf(t, i) \in Slots \ {h}
  BY RingAssumption, SMT DEF Slots, CountOf, SlotOf
<1>3. SlotOf(t, CountOf(h, t) + 1) = h /\ SlotOf(t, 1) = t
  BY RingAssumption, SMT DEF Slots, CountOf, SlotOf
<1>4. h # t => \A i \in 1 .. CountOf(h, t) - 1 : SlotOf(NextSlot(t), i) = SlotOf(t, i + 1)
  BY <1>1, RingAssumption, SMT DEF Slots, CountOf, SlotOf
<1>5. QED BY <1>2, <1>3, <1>4

LEMMA ContentType ==
  ASSUME NEW b \in Bufs, NEW h \in Slots, NEW t \in Slots
  PROVE  /\ ContentOf(b, h, t) \in Seq(Cells)
         /\ Len(ContentOf(b, h, t)) = CountOf(h, t)
         /\ \A i \in 1 .. CountOf(h, t) : ContentOf(b, h, t)[i] = b[SlotOf(t, i)]
         /\ ContentOf(b, h, t) = <<>> <=> h = t
<1>1. CountOf(h, t) \in Nat
  BY CountRange, RingAssumption, SMT
<1>2. ContentOf(b, h, t) \in [1 .. CountOf(h, t) -> Cells]
  BY SlotOfSteps DEF ContentOf, Bufs
<1>3. ContentOf(b, h, t) \in Seq(Cells) /\ Len(ContentOf(b, h, t)) = CountOf(h, t)
  BY <1>1, <1>2, LenProperties, SMT
<1>4. \A i \in 1 .. CountOf(h, t) : ContentOf(b, h, t)[i] = b[SlotOf(t, i)]
  BY DEF ContentOf
<1>5. ContentOf(b, h, t) = <<>> <=> h = t
  BY <1>3, CountRange, EmptySeq, SMT
<1>6. QED BY <1>3, <1>4, <1>5

(* Writing the slot at kbd_head and moving kbd_head appends to the contents.   *)
LEMMA StoreAppends ==
  ASSUME NEW b \in Bufs, NEW h \in Slots, NEW t \in Slots, NEW e \in Cells,
         NextSlot(h) # t
  PROVE  ContentOf([b EXCEPT ![h] = e], NextSlot(h), t) = Append(ContentOf(b, h, t), e)
<1> DEFINE b2 == [b EXCEPT ![h] = e]
           s == ContentOf(b, h, t)
           u == ContentOf(b2, NextSlot(h), t)
           n == CountOf(h, t)
<1>1. b2 \in Bufs /\ NextSlot(h) \in Slots
  BY NextSlotValue DEF Bufs
<1>2. n \in Nat /\ CountOf(NextSlot(h), t) = n + 1
  BY CountRange, CountSteps, RingAssumption, SMT
<1>3. /\ s \in Seq(Cells) /\ Len(s) = n
      /\ \A i \in 1 .. n : s[i] = b[SlotOf(t, i)]
  BY ContentType
<1>4. /\ u \in Seq(Cells) /\ Len(u) = n + 1
      /\ \A i \in 1 .. n + 1 : u[i] = b2[SlotOf(t, i)]
  <2> HIDE DEF b2, n
  <2>1. /\ u \in Seq(Cells) /\ Len(u) = CountOf(NextSlot(h), t)
        /\ \A i \in 1 .. CountOf(NextSlot(h), t) : u[i] = b2[SlotOf(t, i)]
    BY <1>1, ContentType
  <2>2. QED BY <1>2, <2>1
<1>5. \A i \in 1 .. n : b2[SlotOf(t, i)] = b[SlotOf(t, i)]
  BY SlotOfSteps DEF Bufs
<1>6. b2[SlotOf(t, n + 1)] = e
  BY SlotOfSteps DEF Bufs
<1>7. /\ Append(s, e) \in Seq(Cells) /\ Len(Append(s, e)) = n + 1
      /\ \A i \in 1 .. n : Append(s, e)[i] = s[i]
      /\ Append(s, e)[n + 1] = e
  BY <1>3, AppendProperties
<1> HIDE DEF b2, s, u, n
<1>8. \A i \in 1 .. n + 1 : u[i] = Append(s, e)[i]
  BY <1>2, <1>3, <1>4, <1>5, <1>6, <1>7, SMT
<1>9. u = Append(s, e)
  BY <1>4, <1>7, <1>8, SeqEqual
<1>10. QED BY <1>9 DEF b2, s, u

(* Moving kbd_tail removes the oldest character, the one in kbd_tail's slot.   *)
LEMMA AdvanceTakes ==
  ASSUME NEW b \in Bufs, NEW h \in Slots, NEW t \in Slots, h # t
  PROVE  /\ ContentOf(b, h, t) # <<>>
         /\ Head(ContentOf(b, h, t)) = b[t]
         /\ ContentOf(b, h, NextSlot(t)) = Tail(ContentOf(b, h, t))
<1> DEFINE s == ContentOf(b, h, t)
           u == ContentOf(b, h, NextSlot(t))
           n == CountOf(h, t)
<1>1. NextSlot(t) \in Slots
  BY NextSlotValue
<1>2. n \in Nat \ {0} /\ CountOf(h, NextSlot(t)) = n - 1
  BY CountRange, CountSteps, RingAssumption, SMT
<1>3. /\ s \in Seq(Cells) /\ Len(s) = n /\ s # <<>>
      /\ \A i \in 1 .. n : s[i] = b[SlotOf(t, i)]
  BY ContentType
<1>4. /\ u \in Seq(Cells) /\ Len(u) = n - 1
      /\ \A i \in 1 .. n - 1 : u[i] = b[SlotOf(NextSlot(t), i)]
  BY <1>1, <1>2, ContentType
<1>5. \A i \in 1 .. n - 1 : SlotOf(NextSlot(t), i) = SlotOf(t, i + 1)
  BY SlotOfSteps
<1>6. s[1] = b[t]
  BY <1>2, <1>3, SlotOfSteps, SMT
<1>7. /\ Tail(s) \in Seq(Cells) /\ Len(Tail(s)) = n - 1
      /\ \A i \in 1 .. n - 1 : Tail(s)[i] = s[i + 1]
  BY <1>2, <1>3, HeadTailProperties
<1> HIDE DEF s, u, n
<1>8. \A i \in 1 .. n - 1 : u[i] = Tail(s)[i]
  BY <1>2, <1>3, <1>4, <1>5, <1>7, SMT
<1>9. u = Tail(s)
  BY <1>4, <1>7, <1>8, SeqEqual
<1>10. Head(s) = s[1]
  OBVIOUS
<1>11. QED BY <1>3, <1>6, <1>9, <1>10 DEF s, u

-----------------------------------------------------------------------------
(* Every step of the buffer is a step of the queue, or leaves it alone.       *)

LEMMA InitRefines == Init => Queue!Init
<1> SUFFICES ASSUME Init PROVE Queue!Init
  OBVIOUS
<1>1. TypeOK
  BY InitTypeOK
<1>2. Content = <<>>
  BY <1>1, ContentType DEF Init, Content, TypeOK, Bufs, Cells
<1>3. Answer = Empty /\ lost = 0
  BY DEF Init, Answer
<1>4. QED BY <1>2, <1>3 DEF Queue!Init

LEMMA PutRefines ==
  ASSUME RingInv, NEW ch \in Char, kbd_put(ch)
  PROVE  Queue!Put(ch) \/ Queue!Refuse
<1>1. /\ kbd_buf \in Bufs /\ kbd_head \in Slots /\ kbd_tail \in Slots
      /\ ch \in Cells
  BY DEF RingInv, TypeOK, Bufs, Cells
<1>2. /\ Content \in Seq(Cells) /\ Len(Content) = CountOf(kbd_head, kbd_tail)
  BY <1>1, ContentType DEF Content
<1>3. CASE Store(ch)
  <2>1. Content' = Append(Content, ch)
    BY <1>1, <1>3, StoreAppends DEF Store, HasRoom, kbd_put, Content
  <2>2. Len(Content) < KBD_BUF_SIZE - 1
    BY <1>1, <1>2, <1>3, CountRange, RingAssumption, SMT DEF Store, HasRoom
  <2>3. Answer' = Answer
    <3>1. pc' = pc /\ head' = head /\ kbd_tail' = kbd_tail /\ slot' = slot /\ ret' = ret
      BY DEF kbd_put
    <3>2. pc = "late" => kbd_buf'[slot] = kbd_buf[slot]
      <4>1. pc = "late" => kbd_head # slot
        BY <1>3 DEF RingInv, Store, HasRoom
      <4>2. QED BY <1>3, <4>1 DEF Store, RingInv, TypeOK
    <3>3. QED BY <3>1, <3>2 DEF Answer
  <2>4. QED BY <1>3, <2>1, <2>2, <2>3 DEF Queue!Put, Store
<1>4. CASE Drop
  <2>1. Content' = Content /\ Answer' = Answer
    BY <1>4 DEF Drop, kbd_put, Content, Answer
  <2>2. Len(Content) = KBD_BUF_SIZE - 1
    BY <1>1, <1>2, <1>4, CountRange DEF Drop, HasRoom
  <2>3. QED BY <1>4, <2>1, <2>2 DEF Queue!Refuse, Drop
<1>5. QED BY <1>3, <1>4 DEF kbd_put

LEMMA ReadHeadRefines ==
  ASSUME RingInv, ReadHead
  PROVE  Queue!TakeNone \/ UNCHANGED Queue!qvars
<1>1. kbd_buf \in Bufs /\ kbd_head \in Slots /\ kbd_tail \in Slots
  BY DEF RingInv, TypeOK, Bufs, Cells
<1>2. Content' = Content /\ lost' = lost /\ pc = "idle" /\ pc' = "compare"
  BY DEF ReadHead, Content
<1>3. CASE kbd_head = kbd_tail
  <2>1. Content = <<>>
    BY <1>1, <1>3, ContentType DEF Content
  <2>2. Answer' = Empty
    BY <1>3 DEF ReadHead, Answer
  <2>3. QED BY <1>2, <2>1, <2>2 DEF Queue!TakeNone
<1>4. CASE kbd_head # kbd_tail
  <2>1. Answer' = Answer
    BY <1>4 DEF ReadHead, Answer
  <2>2. QED BY <1>2, <2>1 DEF Queue!qvars
<1>5. QED BY <1>3, <1>4

(* The step that moves kbd_tail, wherever the compiler put the slot's read, is  *)
(* the one that takes the character.                                          *)
LEMMA AdvanceRefines ==
  ASSUME RingInv, Advance \/ AdvanceFirst
  PROVE  Queue!Take
<1>1. kbd_buf \in Bufs /\ kbd_head \in Slots /\ kbd_tail \in Slots
  BY DEF RingInv, TypeOK, Bufs, Cells
<1>2. kbd_head # kbd_tail
  BY DEF RingInv, Advance, AdvanceFirst
<1>3. /\ Content # <<>> /\ Head(Content) = kbd_buf[kbd_tail]
      /\ Content' = Tail(Content)
  BY <1>1, <1>2, AdvanceTakes DEF Content, Advance, AdvanceFirst
<1>4. Answer' = kbd_buf[kbd_tail]
  <2>1. CASE Advance
    BY <2>1 DEF Advance, Answer, RingInv
  <2>2. CASE AdvanceFirst
    BY <2>2 DEF AdvanceFirst, Answer
  <2>3. QED BY <2>1, <2>2
<1>5. QED BY <1>3, <1>4 DEF Queue!Take, Advance, AdvanceFirst

LEMMA NextRefines ==
  ASSUME RingInv, [Next]_rvars
  PROVE  [Queue!Next]_(Queue!qvars)
<1>1. ASSUME NEW ch \in Char, kbd_put(ch) PROVE Queue!Next
  BY <1>1, PutRefines DEF Queue!Next
<1>2. CASE ReadHead
  BY <1>2, ReadHeadRefines DEF Queue!Next
<1>3. CASE ReturnEmpty
  BY <1>3 DEF ReturnEmpty, Content, Answer, Queue!qvars
<1>4. CASE Fetch
  BY <1>4 DEF Fetch, Content, Answer, Queue!qvars
<1>5. CASE Advance \/ AdvanceFirst
  BY <1>5, AdvanceRefines DEF Queue!Next
<1>6. CASE LateFetch
  BY <1>6 DEF LateFetch, Content, Answer, Queue!qvars
<1>7. CASE UNCHANGED rvars
  BY <1>7 DEF rvars, Content, Answer, Queue!qvars
<1>8. QED BY <1>1, <1>2, <1>3, <1>4, <1>5, <1>6, <1>7 DEF Next, kbd_get

(* However the handler and kbd_get interleave (keyboard.c:22-32), the buffer   *)
(* is a bounded queue of KBD_BUF_SIZE - 1 characters.                         *)
THEOREM RingRefinesQueue == Spec => ImplementsLossyQueue
<1>1. Init => Queue!Init
  BY InitRefines
<1>2. RingInv /\ [Next]_rvars => [Queue!Next]_(Queue!qvars)
  BY NextRefines
<1>3. Spec => []RingInv
  BY RingInvariant
<1>4. QED BY <1>1, <1>2, <1>3, PTL DEF Spec, Queue!Spec, ImplementsLossyQueue
=============================================================================

------------------------------ MODULE KbdRing -------------------------------
(* The keyboard's circular buffer (kernel/src/drivers/keyboard.c): kbd_put    *)
(* runs inside the IRQ1 handler, kbd_get in the main program, and nothing     *)
(* but the two indexes coordinates them.                                      *)
(*                                                                            *)
(* The handler is entered through an interrupt gate, so kbd_put is one step.  *)
(* An interrupt can come between any two memory accesses of kbd_get, so every *)
(* access of it to a shared location is a step.  The indexes are volatile and *)
(* kbd_buf is not: a compiler may read the slot after it has stored the new   *)
(* kbd_tail, and both orders are modelled.                                    *)
EXTENDS Naturals, Sequences

CONSTANTS KBD_BUF_SIZE,  \* slots of the buffer (256 in keyboard.h)
          Char,          \* the characters the handler stores
          Empty,         \* kbd_get's -1
          Nul            \* what a slot holds before it is first written

ASSUME RingAssumption == KBD_BUF_SIZE \in Nat \ {0}
ASSUME CharAssumption == Empty \notin Char

VARIABLES kbd_buf,   \* the slots
          kbd_head,  \* next slot to write, written by the handler only
          kbd_tail,  \* next slot to read, written by the main program only
          pc,        \* where kbd_get is
          head,      \* the value of kbd_head that kbd_get compared
          slot,      \* the slot kbd_get left behind before reading it
          c,         \* kbd_get's local character
          ret,       \* what the last kbd_get returned
          lost       \* ghost: parity of the number of characters dropped

rvars == <<kbd_buf, kbd_head, kbd_tail, pc, head, slot, c, ret, lost>>

Slots == 0 .. KBD_BUF_SIZE - 1

\* Mutant: the index never wraps.
Unwrapped_NextSlot(i) == i + 1
NextSlot(i) == (i + 1) % KBD_BUF_SIZE

Init ==
  /\ kbd_buf = [i \in Slots |-> Nul]
  /\ kbd_head = 0 /\ kbd_tail = 0
  /\ pc = "idle"
  /\ head = 0 /\ slot = 0 /\ c = Nul
  /\ ret = Empty
  /\ lost = 0

-----------------------------------------------------------------------------
(* The interrupt handler.                                                     *)

\* Mutant: kbd_put overwrites the oldest character instead of dropping the new.
Overwrite_HasRoom == TRUE
\* Mutant: the full test keeps two slots free.
TwoFree_HasRoom == NextSlot(NextSlot(kbd_head)) # kbd_tail
HasRoom == NextSlot(kbd_head) # kbd_tail

Store(ch) ==
  /\ HasRoom
  /\ kbd_buf' = [kbd_buf EXCEPT ![kbd_head] = ch]
  /\ kbd_head' = NextSlot(kbd_head)
  /\ UNCHANGED lost

Drop ==
  /\ ~HasRoom
  /\ lost' = 1 - lost
  /\ UNCHANGED <<kbd_buf, kbd_head>>

kbd_put(ch) ==
  /\ Store(ch) \/ Drop
  /\ UNCHANGED <<kbd_tail, pc, head, slot, c, ret>>

-----------------------------------------------------------------------------
(* The main program's kbd_get, one shared access at a time.                   *)

ReadHead ==
  /\ pc = "idle"
  /\ head' = kbd_head
  /\ pc' = "compare"
  /\ UNCHANGED <<kbd_buf, kbd_head, kbd_tail, slot, c, ret, lost>>

ReturnEmpty ==
  /\ pc = "compare" /\ head = kbd_tail
  /\ ret' = Empty
  /\ pc' = "idle"
  /\ UNCHANGED <<kbd_buf, kbd_head, kbd_tail, head, slot, c, lost>>

Fetch ==
  /\ pc = "compare" /\ head # kbd_tail
  /\ c' = kbd_buf[kbd_tail]
  /\ pc' = "advance"
  /\ UNCHANGED <<kbd_buf, kbd_head, kbd_tail, head, slot, ret, lost>>

Advance ==
  /\ pc = "advance"
  /\ kbd_tail' = NextSlot(kbd_tail)
  /\ ret' = c
  /\ pc' = "idle"
  /\ UNCHANGED <<kbd_buf, kbd_head, head, slot, c, lost>>

\* The other order a compiler may choose: the index first, the slot late.
AdvanceFirst ==
  /\ pc = "compare" /\ head # kbd_tail
  /\ slot' = kbd_tail
  /\ kbd_tail' = NextSlot(kbd_tail)
  /\ pc' = "late"
  /\ UNCHANGED <<kbd_buf, kbd_head, head, c, ret, lost>>

LateFetch ==
  /\ pc = "late"
  /\ c' = kbd_buf[slot]
  /\ ret' = kbd_buf[slot]
  /\ pc' = "idle"
  /\ UNCHANGED <<kbd_buf, kbd_head, kbd_tail, head, slot, lost>>

kbd_get == ReadHead \/ ReturnEmpty \/ Fetch \/ Advance \/ AdvanceFirst \/ LateFetch

Next == (\E ch \in Char : kbd_put(ch)) \/ kbd_get

Spec == Init /\ [][Next]_rvars

-----------------------------------------------------------------------------
(* The queue the buffer stands for.                                           *)

CountOf(h, t) == IF h >= t THEN h - t ELSE h + KBD_BUF_SIZE - t

\* The slot that holds the i-th oldest character when kbd_tail is t.
SlotOf(t, i) == IF t + (i - 1) < KBD_BUF_SIZE
                THEN t + (i - 1)
                ELSE t + (i - 1) - KBD_BUF_SIZE

ContentOf(b, h, t) == [i \in 1 .. CountOf(h, t) |-> b[SlotOf(t, i)]]

Content == ContentOf(kbd_buf, kbd_head, kbd_tail)

\* The answer kbd_get is bound to give, from the moment it is decided: "empty"
\* when the head it read is the tail, the late slot once the tail has moved.
Answer ==
  IF pc = "compare" /\ head = kbd_tail THEN Empty
  ELSE IF pc = "late" THEN kbd_buf[slot]
  ELSE ret

Queue == INSTANCE LossyQueue
           WITH queue <- Content, got <- Answer, Capacity <- KBD_BUF_SIZE - 1

(* The types of the buffer's state (keyboard.c:19-20): in particular both      *)
(* indexes stay inside kbd_buf.                                               *)
TypeOK ==
  /\ kbd_buf \in [Slots -> Char \cup {Nul}]
  /\ kbd_head \in Slots /\ kbd_tail \in Slots
  /\ pc \in {"idle", "compare", "advance", "late"}
  /\ head \in Slots /\ slot \in Slots
  /\ c \in Char \cup {Nul}
  /\ ret \in Char \cup {Empty, Nul}
  /\ lost \in {0, 1}

(* A slot that kbd_get has still to read is never the slot the handler would   *)
(* write next: the slot the full test keeps free (keyboard.c:24) also protects *)
(* a read that was moved behind the store to kbd_tail (keyboard.c:29-30).      *)
ReadSlotSafe ==
  /\ pc = "advance" => kbd_head # kbd_tail /\ kbd_buf[kbd_tail] = c
  /\ pc = "late" => ~(HasRoom /\ kbd_head = slot)

(* What every step keeps (keyboard.c:22-32), for the proofs: once kbd_get has   *)
(* seen a character there is one, whatever the handler did since; the character *)
(* it fetched is still the oldest; a slot it left is the one before kbd_tail.   *)
RingInv ==
  /\ TypeOK
  /\ pc = "compare" /\ head # kbd_tail => kbd_head # kbd_tail
  /\ pc = "advance" => kbd_head # kbd_tail /\ kbd_buf[kbd_tail] = c
  /\ pc = "late" => kbd_tail = NextSlot(slot)

(* However the handler and kbd_get interleave, and in whichever order the      *)
(* compiler put the two accesses of keyboard.c:29-30, the buffer is a queue of *)
(* KBD_BUF_SIZE - 1 characters: kbd_get returns each stored character once, in *)
(* order, says "empty" only when it is, and kbd_put drops only when full.      *)
ImplementsLossyQueue == Queue!Spec
=============================================================================

----------------------------- MODULE LossyQueue -----------------------------
(* What the keyboard buffer promises to its two users, the interrupt          *)
(* handler that stores characters and the main program that takes them: a     *)
(* bounded queue in arrival order that never blocks the producer.  When the   *)
(* queue is full the newest character is refused; nothing is lost otherwise.  *)
EXTENDS Naturals, Sequences

CONSTANTS Char,      \* the characters the producer may store
          Empty,     \* the answer to a consumer that finds nothing (-1)
          Capacity   \* how many characters fit

VARIABLES queue,     \* the characters stored and not yet taken, oldest first
          got,       \* the consumer's last answer
          lost       \* 0 or 1: parity of the number of refused characters

qvars == <<queue, got, lost>>

Init == queue = <<>> /\ got = Empty /\ lost = 0

\* A character arrives while there is room for it.
Put(c) ==
  /\ Len(queue) < Capacity
  /\ queue' = Append(queue, c)
  /\ UNCHANGED <<got, lost>>

\* A character arrives and there is no room: it is the one that is dropped.
Refuse ==
  /\ Len(queue) = Capacity
  /\ lost' = 1 - lost
  /\ UNCHANGED <<queue, got>>

\* The consumer takes the oldest character.
Take ==
  /\ queue # <<>>
  /\ got' = Head(queue)
  /\ queue' = Tail(queue)
  /\ UNCHANGED lost

\* The consumer is told, truthfully, that there is none.
TakeNone ==
  /\ queue = <<>>
  /\ got' = Empty
  /\ UNCHANGED <<queue, lost>>

Next == (\E c \in Char : Put(c)) \/ Refuse \/ Take \/ TakeNone

Spec == Init /\ [][Next]_qvars
=============================================================================

SPECIFICATION Spec
CONSTANTS
  a = a
  b = b
  Char <- MCChar
  Empty = Empty
  Nul = Nul
  KBD_BUF_SIZE = 4
INVARIANTS TypeOK ReadSlotSafe RingInv
PROPERTIES ImplementsLossyQueue

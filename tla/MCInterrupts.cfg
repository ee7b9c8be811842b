SPECIFICATION FairSpec
CONSTANTS
  RING = 2
  TICKS = 3
  MAXWIRE = 2
INVARIANTS TypeOK EveryInterruptHasAGate InServiceUntilEoi HandlersDoNotNest WaitingByteIsRequested DecodedWithOneLayout
PROPERTIES InputIsTaken TicksKeepCounting

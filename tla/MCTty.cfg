SPECIFICATION FairSpec
CONSTANTS
  VGA_W = 3
  VGA_H = 2
  LINE = 3
  CAPACITY = 2
  KEYS <- MCKeys
  COUNTS = {0, 1, 2}
  OUTPUTS <- MCOutputs
  BEYOND <- MCBeyond
  MAXEVENTS = 4
INVARIANTS TypeOK LineInBounds LinesDeliveredOnce RawDeliveredOnce EchoShowsTheLine EditingKeepsTheScreen
PROPERTIES ReadReturns

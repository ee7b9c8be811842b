CONSTANTS
  a = a b = b x = x
  Names <- MCNames
  Data <- MCData
  Junk = Junk
  CLUSTERS = 2
  DiskFails = TRUE
  FD_MAX = 2
  COUNTS <- MCCounts
  OFFSETS <- MCOffsets
  FLAGS <- MCFlags
  Shared = FALSE
VIEW View
SYMMETRY Symmetry
SPECIFICATION Spec
INVARIANTS TypeOK SlotsMatchDescriptors
PROPERTIES RefusedCallsChangeNothing AppendsAtTheEnd ImplementsPosixFiles

CONSTANTS
  a = a b = b x = x
  Names <- MCNames
  Data <- MCData
  Junk = Junk
  CLUSTERS = 2
  DiskFails = FALSE
  FD_MAX = 2
  COUNTS <- MCCounts
  OFFSETS <- MCOffsets
  FLAGS <- MCFlags
  Shared = TRUE
SPECIFICATION Spec
PROPERTY AppendsAtTheEnd

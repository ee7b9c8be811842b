SPECIFICATION Spec
CONSTANTS
  CAPACITY = 1
  MAXWIRE = 4
  MAXHELD = 3
INVARIANTS TypeOK FlagsFollowKeys
PROPERTIES StoresWhatWasStruck

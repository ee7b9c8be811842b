SPECIFICATION Spec
CONSTANTS
  CAPACITY = 1
  MAXWIRE = 4
  MAXHELD = 3

PROPERTIES ExtendedKeysAreIgnored

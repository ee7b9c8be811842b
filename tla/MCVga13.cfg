SPECIFICATION Spec
\* A call that overflows may overwrite memory: nothing is claimed of the machine
\* then, and the model stops.
CHECK_DEADLOCK FALSE
CONSTANTS
  W = 3
  H = 2
  INT_MAX = 7
  COORDS <- MCCoords
  COLOURS <- MCColours
  WORDS <- MCWords
  ENTRIES <- MCEntries
  RANGES <- MCRanges
INVARIANTS TypeOK ScreenIsPicture PaletteShowsWhatIsTaken

SPECIFICATION SpecBoth
CONSTANTS
  Rows = 3
  Max = 2
  Counts = {1, 3}
  Lines = {"_", "a"}
  Blank = "_"
INVARIANTS ShowsPlain
PROPERTIES FlushShows ViewHeld

SPECIFICATION Spec
CONSTANTS
  Params = 2
  Cols = 2
  Rows = 2
  Buffer = 2
  MaxFeed = 3
  Bytes = {7, 8, 10, 24, 27, 40, 48, 52, 55, 59, 63, 64, 66, 72, 75, 77, 80, 91, 92, 93, 104, 108, 120, 130, 156, 195, 226}
INVARIANTS SameAsPlain

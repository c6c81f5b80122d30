CONSTANTS
  Kbds = {k1}
  MaxLinks = 1
  QueueMax = 2
SPECIFICATION Spec
INVARIANTS
  OpenerOwnsDevice
PROPERTIES
  OpenEnds
  KeepsLooking

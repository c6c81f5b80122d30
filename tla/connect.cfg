CONSTANTS
  a = a
  b = b
  c = c
  k1 = k1
  k2 = k2
  Hosts = {a, b, c}
  Keys = {k1, k2}
  NoKey = NoKey
  NoHost = NoHost
  MaxPins = 2
  Watched = a
SPECIFICATION Spec
INVARIANTS TrustedPeer ChangeFlagged
PROPERTIES RepinDeliberate CancelLands

SPECIFICATION Spec
CONSTANTS
  Nets = {a, b}
  Good = {b}
  Vaulted = {a}
  Max = 2
  QueueMax = 2
INVARIANTS NeverBlank ConnectedIsUp
PROPERTIES ParkedDecidesNothing KeepsTrying GetsThere

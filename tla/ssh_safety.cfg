CONSTANTS
  Keys = {k1, k2}
  NoKey = none
  MaxQueue = 2
  Budget = 2
  RespMax = 1
  MayStall = TRUE
SPECIFICATION SafeSpec
INVARIANTS TypeOK LockOwned SessionVerdict TailShown
PROPERTIES CleanupIsAlone SessionSafe
CHECK_DEADLOCK FALSE

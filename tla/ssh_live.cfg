CONSTANTS
  Keys = {k1, k2}
  NoKey = none
  MaxQueue = 1
  Budget = 2
  RespMax = 1
  MayStall = FALSE
SPECIFICATION Spec
PROPERTIES CancelEndsQuietly DropNoticed SendReturns DisconnectCompletes ImplementsSession

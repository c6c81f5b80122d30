SPECIFICATION Spec
CONSTANTS
  PwNames = {"p"}
  KeyNames = {"k"}
  Faults = TRUE
INVARIANTS LockedIsCold OneWorker ListFresh
PROPERTIES SecretResolved EditKeepsOthers OrderKept GateHolds

CONSTANTS
  Ids = {a, b}
  Mats = {m1, m2}
  Names = {p, q}
  Pws = {w1}
  Codes = {c1}
  MaxStores = 2
  ScanMax = 2
  Edits = {"put", "rename"}
  GateHolds = TRUE
  MayFail = TRUE
  Cuts = {"idle", "adopt", "zero", "delkw", "divert", "write", "restore", "dropbundle", "emit", "emitted", "reset"}
SPECIFICATION Spec
INVARIANTS KeyKept
PROPERTIES NoKeyUncovered HeaderLast

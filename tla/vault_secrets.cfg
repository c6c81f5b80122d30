CONSTANTS
  Ids = {}
  Mats = {}
  Names = {p, q}
  Pws = {w1, w2}
  Codes = {c1, c2}
  MaxStores = 2
  ScanMax = 1
  Edits = {"put", "drop"}
  GateHolds = FALSE
  MayFail = FALSE
  Cuts = {"idle", "adopt", "zero", "unlink", "delkw", "setrm", "divert", "write", "restore", "dropbundle", "emit", "emitted", "reset", "wipe"}
SPECIFICATION Spec
INVARIANTS CredentialKept StoreFits DivertedUnlessForeign

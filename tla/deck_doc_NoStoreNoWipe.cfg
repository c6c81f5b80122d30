SPECIFICATION Spec
CONSTANTS
  PwNames = {"p"}
  KeyNames = {"k"}
  Faults = FALSE
PROPERTY NoStoreNoWipe

SPECIFICATION Spec
CONSTANTS
  NData = 2
  Order = 3
  WriteVals = {1}
  Arrays <- Intact
  Methods = {"RMW", "RECON"}
  OutOfBounds = {"NULL", "page"}
INVARIANTS
  TypeOK
  ReadsCurrent
PROPERTIES
  SyncErrorIsReal
  SyncRepairs
CHECK_DEADLOCK FALSE

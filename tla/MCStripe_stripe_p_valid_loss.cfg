SPECIFICATION Spec
CONSTANTS
  NData = 2
  Order = 3
  WriteVals = {1}
  Arrays <- PLostReadError
  Methods = {"RMW", "RECON"}
  OutOfBounds = {"NULL"}
INVARIANTS
  AckedDataStored
CHECK_DEADLOCK FALSE

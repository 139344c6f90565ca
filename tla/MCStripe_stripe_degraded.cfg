SPECIFICATION Spec
CONSTANTS
  NData = 2
  Order = 3
  WriteVals = {1}
  Arrays <- Degraded
  Methods = {"RMW", "RECON"}
  OutOfBounds = {"NULL", "page"}
INVARIANTS
  NoAssertionFails
  AckedDataStored
  AckedDataSurvivesCrash
  CleanBuffersCurrent
PROPERTIES
  RebuiltDiskCurrent
  ImplementsBlockStore
CHECK_DEADLOCK FALSE

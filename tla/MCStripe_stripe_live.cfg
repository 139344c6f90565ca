SPECIFICATION LiveSpec
CONSTANTS
  NData = 1
  Order = 3
  WriteVals = {1}
  Arrays <- Mirror
  Methods = {"RECON"}
  OutOfBounds = {"NULL", "page"}
INVARIANTS
  NoRequestFails
PROPERTIES
  RequestsAnswered
  SyncsEnd
CHECK_DEADLOCK FALSE

SPECIFICATION Spec
CONSTANTS
  p1 = p1
  q1 = q1
  a1 = a1
  b1 = b1
  x1 = x1
  None = None
  DataSlots = {1, 2}
  P = 0
  Q = 29
  Disks = {p1, q1, a1, b1, x1}
  SizeOf <- MCSizeOf
  Assemblies <- MCAssemblies
  Fits <- MCFits
  Zeroed = {b1}
  Incidents = {}
  MaxLoads = 2
  MaxErrors = 1
INVARIANTS
  ValidIsCurrent
  FileIsCurrent
  WithinParity
  CountersExact
CHECK_DEADLOCK FALSE

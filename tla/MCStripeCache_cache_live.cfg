SPECIFICATION LiveSpec
CONSTANTS
  s1 = s1
  s2 = s2
  b1 = b1
  b2 = b2
  Sync = Sync
  None = None
  Stripes = {s1, s2}
  Sectors = {0, 1}
  NData = 1
  Bios = {b1}
  UnitOf <- OneUnitOf
  First <- OneFirst
  Last <- OneLast
  NoBlock = {}
  MaxRounds = 1
  MaxIO = 1
  InitStripes = 2
  StripeCounts = {1}
  QueueLimits = {80}
  SyncLimits = {0}
PROPERTIES
  AllServed
  ResizeEnds
CHECK_DEADLOCK FALSE

SPECIFICATION Spec
CONSTANTS
  s1 = s1
  s2 = s2
  b1 = b1
  b2 = b2
  Sync = Sync
  None = None
  Stripes = {s1, s2}
  Sectors = {0, 1}
  NData = 1
  Bios = {b1, b2}
  UnitOf <- MCUnitOf
  First <- MCFirst
  Last <- MCLast
  NoBlock = {b2}
  MaxRounds = 1
  MaxIO = 2
  InitStripes = 2
  StripeCounts = {1, 2}
  QueueLimits = {80}
  SyncLimits = {5, 100}
INVARIANTS
  RefCountsExact
  HandledAlone
  ListsMatchCounts
  OneStripePerSector
  ActiveStripesExact
  BioCountsExact
CHECK_DEADLOCK FALSE

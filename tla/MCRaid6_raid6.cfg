SPECIFICATION Spec
CONSTANTS
  Words = 8
  Archs = {"i386", "x86_64", "ppc", "s390", "arm", "loongarch"}
  MinPerf = 1
  MaxPerf = 2
  Disks = {3, 4, 6, 7}
  Contents <- MCContents
  Versions = {0, 1}
  Written <- MCWritten
  Failing <- MCFailing
  MaxXorBlocks = 4
INVARIANTS
  BestChosen
  ParityCoded
  RecoveredRight
  CheckExact

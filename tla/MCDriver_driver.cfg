SPECIFICATION DriverSpec
CONSTANTS
  Disks = {0, 1}
  P = 0
  SizeOf <- MCSizeOf
  Writers = {w1, w2}
  Windows = {}
  MaxCommands = 3
  MaxErrors = 1
  MaxActive = 1
  Parity = {0}
  Unit = 1
  MeetFlush = {"check", "resume"}
INVARIANTS
  RebuiltCovered
  ResumePoint
  CountersMatch
  SyncOnlyWhileRunning
  FlushCovers
PROPERTIES
  CommandsReturn
  FlushesEnd
CHECK_DEADLOCK FALSE

SPECIFICATION DriverSpec
CONSTANTS
  Disks = {0, 1}
  P = 0
  SizeOf <- MCSizeOf
  Writers = {w1}
  Windows = {"stale"}
  MaxCommands = 3
  MaxErrors = 1
  MaxActive = 1
  Parity = {0}
  Unit = 1
  MeetFlush = {"check", "resume"}
INVARIANT RebuiltCovered
CHECK_DEADLOCK FALSE

SPECIFICATION LiveSpec
CONSTANTS
  None = None
  Procs = {p1, p2}
  Windows = {}
  Autostart = TRUE
  MaxEnds = 3
  MaxFailures = 2
INVARIANTS
  UncleanRemembered
PROPERTIES
  CheckOnlyAfterUnclean
  DebtPaid

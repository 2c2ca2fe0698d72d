SPECIFICATION LiveSpec
CONSTANTS
  None = None
  Runtimes = {r1, r2}
  Procs = {p1, p2, p3}
  MaxCommands = 3
  MaxFaults = 1
INVARIANTS TypeOK IdsAreLive QuietExitsAreStops
PROPERTY TasksSettle
CHECK_DEADLOCK FALSE

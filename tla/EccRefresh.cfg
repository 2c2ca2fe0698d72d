\* One run, overlapping refreshes: projection, terminal state, liveness.
CONSTANTS
  r1 = r1
  t1 = t1
  Runs = {r1}
  Trackers = {t1}
  NoRun = NoRun
  NoTracker = NoTracker
  InitialFlows = {"Failed"}
  WrittenFlows = {"Ongoing", "Success"}
  MaxWrites = 3
  MaxReads = 2
  MaxAdopts = 1
SPECIFICATION LiveSpec
PROPERTY ProjectionNeverGoesBack
PROPERTY LifecycleSpec
PROPERTY GoneRunSettles
CHECK_DEADLOCK FALSE

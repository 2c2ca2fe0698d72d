\* Two runs and two trackers: concurrent starts, adoptions and exits.
CONSTANTS
  r1 = r1
  r2 = r2
  t1 = t1
  t2 = t2
  Runs = {r1, r2}
  Trackers = {t1, t2}
  NoRun = NoRun
  NoTracker = NoTracker
  InitialFlows = {"Success"}
  WrittenFlows = {}
  MaxWrites = 1
  MaxReads = 1
  MaxAdopts = 2
CONSTRAINT NoCancelNoRerun
SYMMETRY Symmetry
SPECIFICATION Spec
INVARIANT TypeOK
INVARIANT AdoptedTerminalMeansStopped
INVARIANT PlainStartsExclude
PROPERTY NoResurrection
CHECK_DEADLOCK FALSE

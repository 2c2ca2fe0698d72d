\* Two slots, two candidates, every control, one crash or interruption with
\* its relaunch.
CONSTANTS
  Slots = 2
  CandidateLimit = 2
  PlanLimit = 3
  MaxIdleTurns = 1
  MaxLaunches = 1
  Controls = {"stop", "pause", "drain", "clock"}
SPECIFICATION LiveSpec
INVARIANT TypeOK
INVARIANT MemoryMatchesLedger
INVARIANT BudgetKept
INVARIANT OnlyGapsAreRefused
PROPERTY LedgerIsLog
PROPERTY StopSettles
PROPERTY EpisodeEnds
CHECK_DEADLOCK FALSE

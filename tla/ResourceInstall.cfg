\* A chain, a shared dependency and a cycle: concurrent installs and cancellations.
CONSTANTS
  app = app
  suite = suite
  lib = lib
  Resources = {app, suite, lib}
  Requires <- SelfCycle
  NoResource = NoResource
SPECIFICATION LiveSpec
INVARIANT TypeOK
INVARIANT AbortedIffUnwanted
PROPERTY HonestCancellation
PROPERTY InstallEnds
CHECK_DEADLOCK FALSE

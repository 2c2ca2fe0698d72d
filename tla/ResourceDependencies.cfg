\* Shows that the code breaks DependenciesInstalled.
CONSTANTS
  app = app
  suite = suite
  lib = lib
  Resources = {app, suite, lib}
  Requires <- ChainAndDiamond
  NoResource = NoResource
SPECIFICATION Spec
INVARIANT DependenciesInstalled
CHECK_DEADLOCK FALSE

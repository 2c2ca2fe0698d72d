\* Two versions of a tool; faults, crashes, cancellations and uninstalls.
CONSTANTS
  Versions = {v1, v2}
  NoVersion = NoVersion
  External = External
  MaxEvents = 3
SPECIFICATION LiveSpec
INVARIANT TypeOK
INVARIANT RegisteredIsInPlace
PROPERTY RetryInstalls
CHECK_DEADLOCK FALSE

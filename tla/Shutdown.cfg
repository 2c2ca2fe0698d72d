CONSTANTS
  Windows = {w1, w2}
  App = App
  Attempts = {a1, a2}
  NoAttempt = NoAttempt
  NoWindow = NoWindow
  MaxWork = 0
SPECIFICATION Spec
SYMMETRY Symmetry
CONSTRAINT Unforced
INVARIANT TypeOK
INVARIANT CancelledDrainReleased
PROPERTY SafeApproval
CHECK_DEADLOCK FALSE

CONSTANTS
  Windows = {w1}
  App = App
  Attempts = {a1, a2}
  NoAttempt = NoAttempt
  NoWindow = NoWindow
  MaxWork = 1
SPECIFICATION LiveSpec
CONSTRAINT TwoCalls
PROPERTY SafeApproval
PROPERTY ForceQuitEnds
CHECK_DEADLOCK FALSE

\* Two scans, and status requests that overlap.
SPECIFICATION FairSpec
CONSTANTS
  Nil = Nil
  Jobs = {j1, j2}
  Polls = {p1, p2}
  MaxAttempts = 2
INVARIANTS CompletedIsTrue ButtonHasCause
PROPERTIES ButtonReturns PollingEnds
CHECK_DEADLOCK FALSE

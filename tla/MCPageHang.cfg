\* A scan that the server never completes; each request is answered before the next.
SPECIFICATION FairSpec
CONSTANTS
  Nil = Nil
  Jobs = {j1}
  Polls = {p1}
  MaxAttempts = 2
PROPERTIES PollingTimesOut
CHECK_DEADLOCK FALSE

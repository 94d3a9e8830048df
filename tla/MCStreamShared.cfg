\* Two requests with one scan id, and a channel for both simulators.
SPECIFICATION FairSpec
CONSTANTS
  s1 = s1
  s2 = s2
  i1 = i1
  i2 = i2
  Nil = Nil
  Streams = {s1, s2}
  Ids = {i1, i2}
  IdOf <- SameId
  N = 2
  Cap = 6
INVARIANTS DoneMeansCompleted
PROPERTIES NoSendOnClosed SessionReleased
CHECK_DEADLOCK FALSE

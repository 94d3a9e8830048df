\* Requests with a scan id each, and a channel that holds one scan's events.
SPECIFICATION FairSpec
CONSTANTS
  s1 = s1
  s2 = s2
  i1 = i1
  i2 = i2
  Nil = Nil
  Streams = {s1, s2}
  Ids = {i1, i2}
  IdOf <- OwnIds
  N = 2
  Cap = 3
PROPERTIES FeedSpec StreamEnds
CHECK_DEADLOCK FALSE

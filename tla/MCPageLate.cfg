\* One scan and two status requests, of which the earlier is answered later.
SPECIFICATION Spec
CONSTANTS
  Nil = Nil
  Jobs = {j1}
  Polls = {p1, p2}
  MaxAttempts = 40
INVARIANTS BadgeTrue
CHECK_DEADLOCK FALSE

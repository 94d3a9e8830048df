\* Limit 2, a window of two ticks, watched for as long, a cleanup every three.
SPECIFICATION FairSpec
CONSTANTS
  Ips = {a1, a2}
  Limit = 2
  Window = 2
  Period = 3
  Span = 2
INVARIANTS LimitHolds
PROPERTIES BurstSpec IdleForgotten

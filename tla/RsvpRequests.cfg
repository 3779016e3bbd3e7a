\* Two requests on one invitation against a host; three keys and room for
\* two buckets.
SPECIFICATION PartsSpec
CONSTANTS
  None = None
  Invitation = {i1}
  Request = {r1, r2}
  Note = {}
  MaxCount = 1
  MaxHistory = 3
  Key = {k1, k2, k3}
  Maximum = 2
  Window = 2
  PruneFrom = 2
  MaxBuckets = 2
  MaxNow = 3
  MaxCalls = 4
CHECK_DEADLOCK FALSE
SYMMETRY Interchangeable
INVARIANTS
  AnswersInv
  LimiterInv
PROPERTIES
  RevokedAnswersFreeze
  LogSpec
  NewestBucketKept

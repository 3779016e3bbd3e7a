\* Two senders, two guests, with failures; the same key may come for both.
SPECIFICATION Spec
CONSTANTS
  None = None
  Guest = {g1, g2}
  Invitation = {i1, i2}
  Key = {k1, k2}
  Sender = {s1, s2}
  RateLimit = 1
  MaxBegins = 2
  BeginSkew = FALSE
  Failures = TRUE
CHECK_DEADLOCK FALSE
SYMMETRY Interchangeable
INVARIANTS
  AttemptsInv
  OneInProgress
  SentWasAccepted
  OneCallPerKey
PROPERTIES
  AttemptsOnlyAdvance
  NoneQueuedForArchived

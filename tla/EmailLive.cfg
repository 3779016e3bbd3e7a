\* Two senders for one guest, no failures, fair.
SPECIFICATION FairSpec
CONSTANTS
  None = None
  Guest = {g1}
  Invitation = {i1, i2}
  Key = {k1, k2}
  Sender = {s1, s2}
  RateLimit = 2
  MaxBegins = 2
  BeginSkew = FALSE
  Failures = FALSE
CHECK_DEADLOCK FALSE
PROPERTIES
  DeliveriesFinish

\* A crash while an attempt is sending.
SPECIFICATION FairSpec
CONSTANTS
  None = None
  Guest = {g1}
  Invitation = {i1}
  Key = {k1}
  Sender = {s1}
  RateLimit = 1
  MaxBegins = 1
  BeginSkew = FALSE
  Failures = TRUE
CHECK_DEADLOCK FALSE
PROPERTIES
  CrashedSendIsRecovered

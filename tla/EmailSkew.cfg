\* Transactions may get the guest lock out of order.
SPECIFICATION Spec
CONSTANTS
  None = None
  Guest = {g1}
  Invitation = {i1, i2, i3}
  Key = {k1, k2, k3}
  Sender = {s1, s2}
  RateLimit = 3
  MaxBegins = 3
  BeginSkew = TRUE
  Failures = FALSE
CHECK_DEADLOCK FALSE
SYMMETRY Interchangeable
CONSTRAINT OnlySends
INVARIANTS
  OneInProgress

\* Six callers that keep coming back, two slots, three places in the queue;
\* host and visitor on one link.
SPECIFICATION PartsSpec
CONSTANTS
  Caller = {c1, c2, c3, c4, c5, c6}
  Limit = 2
  MaxPending = 3
  None = None
  Guest = {g1}
  Invitation = {i1, i2}
  Grant = {k1}
  Host = {h1}
  Visitor = {v1}
  MaxTrack = 1
INVARIANTS
  WithinLimit
  WaitersOnlyWhenFull
PROPERTIES
  EveryWaiterRuns
  RequestsEnd

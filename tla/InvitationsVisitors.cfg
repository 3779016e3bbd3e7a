\* One host request against two visitors, one of them with a grant.
SPECIFICATION Spec
CONSTANTS
  None = None
  Guest = {g1}
  Invitation = {i1, i2}
  Grant = {k1}
  Host = {h1}
  Visitor = {v1, v2}
  MaxTrack = 2
SYMMETRY Interchangeable
INVARIANTS
  OpenedIffCounted
  GrantsStayWhileUsed
PROPERTIES
  RevokedIsTerminal

\* Two host requests on the links of one guest; one visitor that opens.
SPECIFICATION Spec
CONSTANTS
  None = None
  Guest = {g1}
  Invitation = {i1, i2, i3}
  Grant = {}
  Host = {h1, h2}
  Visitor = {v1}
  MaxTrack = 1
SYMMETRY Interchangeable
INVARIANTS
  TypeOK
  OneActivePerGuest
  AuditMatchesRow
PROPERTIES
  RotationIsAtomic
  LifecycleSpec

\* A host shrinks the party while an answer is under way.
SPECIFICATION Spec
CONSTANTS
  None = None
  Invitation = {i1}
  Request = {r1, r2}
  Note = {}
  MaxCount = 1
  MaxHistory = 1
SYMMETRY Interchangeable
PROPERTIES
  AcceptedWithinParty

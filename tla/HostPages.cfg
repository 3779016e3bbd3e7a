\* The host's page of guests, one part of it at a time.
SPECIFICATION PartsSpec
CONSTANTS
  None = None
  Guest = {g1, g2}
  Sole = {h1}
  Task = {t1, t2}
  Tab = {b1, b2}
  Request = {r1, r2}
  Locale = {"en", "es"}
  MaxInv = 2
  MaxHandlers = 2
  MaxPart = 1
  MaxTotal = 2
  MaxAnswer = 2
  Typed <- MCTyped
  Partial <- MCPartial
  GuestRow <- MCGuestRow
CHECK_DEADLOCK FALSE
SYMMETRY Interchangeable
INVARIANTS
  DialogsInv
  FreshWhenQuiet
  HeldLinkWorks
  EditsInv
  ListInv
  NewAnswersAreUnread
PROPERTIES
  StepsAsAsked

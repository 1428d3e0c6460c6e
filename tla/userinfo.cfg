SPECIFICATION Spec
CONSTANTS
  Clients = {c1, c2}
  Static = {c2}
  Handlers = {h1, h2}
  Grants <- MCGrants
  Persons <- MCPersons
  Rows <- MCRows
  None = None
  MinTTL = 1
  DefaultTTL = 1
  MaxAges = {0, 2}
  Limit = 1
  Window = 1
  MaxDelay = 1
  MaxVersion = 1
  MaxClock = 4
CHECK_DEADLOCK FALSE
SYMMETRY Symmetry
INVARIANTS
  TypeOK
  LimitedToConsent
  KeyWasRecent
  WindowsKept

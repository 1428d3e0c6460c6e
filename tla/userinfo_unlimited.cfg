SPECIFICATION Spec
CONSTANTS
  Clients = {c1}
  Static = {}
  Handlers = {h1, h2}
  Grants <- MCGrants
  Persons <- MCPersons
  Rows <- MCRows
  None = None
  MinTTL = 1
  DefaultTTL = 1
  MaxAges = {0, 2}
  Limit = 1
  Window = 1
  MaxDelay = 1
  MaxVersion = 1
  MaxClock = 2
CHECK_DEADLOCK FALSE
SYMMETRY Symmetry
INVARIANT ExposureLimited

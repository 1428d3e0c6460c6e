SPECIFICATION Spec
CONSTANTS
  Users = {u1, u2}
  Otps = {o1, o2}
  Clients = {c1}
  ActiveClients = {c1}
  Requests = {r1}
  Sessions = {s1}
  Handlers = {h1, h2}
  None = None
  MaxRetries = 2
  ParTTL = 1
  CodeTTL = 1
  MaxClock = 1
SYMMETRY Symmetry
CHECK_DEADLOCK FALSE
INVARIANTS
  TypeOK
  CodeAttestsUser
  ChallengeNotTorn
  FailedExactlyAtLimit
PROPERTY
  ImplementsGrant

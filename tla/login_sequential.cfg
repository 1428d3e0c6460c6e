SPECIFICATION FairSpec
CONSTANTS
  Users = {u1, u2}
  Otps = {o1}
  Clients = {c1, c2, c3}
  ActiveClients = {c1, c2}
  Requests = {r1, r2}
  Sessions = {s1}
  Handlers = {h1}
  None = None
  MaxRetries = 3
  ParTTL = 1
  CodeTTL = 1
  MaxClock = 2
CHECK_DEADLOCK FALSE
INVARIANTS
  CodeWithinRequest
  RetryLimit
PROPERTIES
  FailedIsFinal
  RequestsAnswered

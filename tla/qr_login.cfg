SPECIFICATION QRFairSpec
CONSTANTS
  Users = {u1}
  Otps = {o1}
  Clients = {c1}
  ActiveClients = {c1}
  Requests = {r1}
  Sessions = {s1}
  Handlers = {h1, h2}
  None = None
  MaxRetries = 1
  ParTTL = 1
  CodeTTL = 1
  MaxClock = 2
  QRs = {q1}
  QrTTL = 1
  MaxPollFails = 1
  MaxCallbacks = 1
CHECK_DEADLOCK FALSE
INVARIANTS
  QRTypeOK
  CodeAttestsUser
  RedirectIsIssued
  PageTellsTruth
PROPERTY PageSettles

SPECIFICATION Spec
CONSTANTS
  pPar = pPar
  pTok = pTok
  pInfo = pInfo
  aPar = aPar
  aTok = aTok
  c1 = c1
  k1 = k1
  Proofs = {pPar, pTok, pInfo}
  Assertions = {aPar, aTok}
  Endpoint <- MCEndpoint
  Owner <- MCOwner
  KeyOf <- MCKeyOf
  Iat <- MCIat
  Exp <- MCExp
  Clients = {c1}
  Keys = {k1, k2}
  Handlers = {h1, h2}
  None = None
  Window = 1
  Leeway = 1
  Retention = 2
  MaxClock = 2
  Users = {u1}
  Codes = {code1}
  Tokens = {t1, t2}
  CodeTTL = 1
  TokenTTL = 1
SYMMETRY Symmetry
CHECK_DEADLOCK FALSE
INVARIANT OneRedemption

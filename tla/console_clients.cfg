SPECIFICATION Spec
CONSTANTS
  Devs = {me, other}
  Me = me
  Clients = {c1}
  mock = mock
  deactivated = deactivated
  BuiltIn <- MCBuiltIn
  Secrets = {s1, s2}
  Uris = {u1, u2}
  Handlers = {h1, h2}
  None = None
SYMMETRY Symmetry
INVARIANTS
  TypeOK
  GrantsNeedLiveClient
  RevokedWithClient
  QuietPageIsFresh

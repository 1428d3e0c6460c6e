SPECIFICATION Spec
CONSTANTS
  Emails = {admin, dev}
  Admins = {admin}
  Otps = {o1, o2}
  Keys = {k1, k2}
  Browsers = {b1}
  Handlers = {h1, h2}
  None = None
  OtpTTL = 1
  SessionTTL = 1
  MaxClock = 1
SYMMETRY Symmetry
INVARIANTS
  TypeOK
  OneSessionPerCode
  CacheInStep
  ConsoleForItsRole
  SessionsOutliveRestarts

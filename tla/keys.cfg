SPECIFICATION Spec
CONSTANTS
  Keys = {k1, k2, k3, k4, k5}
  Day = 2
  Rotation = 2
  Grace = 4
  Purge = 5
  MaxClock = 14
SYMMETRY Symmetry
CHECK_DEADLOCK FALSE
INVARIANTS
  TypeOK
  SigningKeyAvailable

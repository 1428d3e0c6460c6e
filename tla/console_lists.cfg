SPECIFICATION Spec
CONSTANTS
  Places = {1, 2, 3}
  PerSecond = 2
  Limit = 1
  Handlers = {h1, h2}
  None = None
SYMMETRY Symmetry
INVARIANTS
  TypeOK
  PagesFitTogether
  ProfilesMatchUsers

SPECIFICATION Spec
CONSTANTS
  Sessions = {s1, s2}
  Ids = {i1, i2}
  None = none
  MaxClients = 2
  Timeout = 1
  Lossy = TRUE
  Stray = TRUE
  WritesBlock = TRUE
SYMMETRY Symmetry
INVARIANTS
  DisconnectFindsClient
CHECK_DEADLOCK FALSE

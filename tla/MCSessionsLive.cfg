SPECIFICATION FairSpec
CONSTANTS
  Sessions = {s1, s2}
  Ids = {i1, i2}
  None = none
  MaxClients = 1
  Timeout = 2
  Lossy = TRUE
  Stray = FALSE
  WritesBlock = TRUE
INVARIANT AtMostMaxClients
PROPERTIES
  
  ShutdownReturns
CHECK_DEADLOCK FALSE

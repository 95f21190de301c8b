CONSTANTS
  c1 = c1
  c2 = c2
  a1 = a1
  a2 = a2
  Main = main
  Clients = {c1}
  Admins = {a1}
  Modes = {"WAIT_FOR_CONFRM"}
  QueueSize = 1
  SeqMod = 2
  MaxWrites = 2
  MaxCalls = 2
  Overlapping = FALSE
SPECIFICATION FairSpec
PROPERTIES QuietUntilResume CallsAndWritesReturn

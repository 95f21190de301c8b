CONSTANTS
  c1 = c1
  c2 = c2
  a1 = a1
  a2 = a2
  Main = main
  Clients = {c1}
  Admins = {a1}
  Modes = {"NON_BLOCKING"}
  QueueSize = 1
  SeqMod = 3
  MaxWrites = 0
  MaxCalls = 2
  Overlapping = FALSE
SPECIFICATION Spec
PROPERTIES StartedInterfaceRuns
SYMMETRY MCSymmetry
CHECK_DEADLOCK FALSE

CONSTANTS
  c1 = c1
  c2 = c2
  a1 = a1
  a2 = a2
  Main = main
  Clients = {c1, c2}
  Admins = {a1}
  Modes = {"NON_BLOCKING", "WAIT_FOR_CONFRM"}
  QueueSize = 1
  SeqMod = 2
  MaxWrites = 3
  MaxCalls = 1
  Overlapping = TRUE
SPECIFICATION Spec
INVARIANTS SentInOrder
PROPERTIES BlockedUntilConfirmed
SYMMETRY MCSymmetry
CHECK_DEADLOCK FALSE

CONSTANTS
  SeqMod = 2
  Channels = {1}
  Monitors = {m1}
  MaxOutOfSync = 1
  MaxUnanswered = 1
  MaxBeats = 2
  MaxFrames = 2
  MaxSends = 0
  MaxReconnects = 1
  MaxSessions = 2
  MaxLate = 0
  Lossy = FALSE
  Duplicating = FALSE
  ErrorAcks = FALSE
  DeviceFails = FALSE
  ServerCloses = TRUE
SPECIFICATION FairSpec
PROPERTY ReconnectReturns
CHECK_DEADLOCK FALSE

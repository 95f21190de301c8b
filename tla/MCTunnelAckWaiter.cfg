CONSTANTS
  SeqMod = 3
  Channels = {1}
  Monitors = {m1}
  MaxOutOfSync = 3
  MaxUnanswered = 1
  MaxBeats = 1
  MaxFrames = 0
  MaxSends = 3
  MaxReconnects = 0
  MaxSessions = 1
  MaxLate = 0
  Lossy = TRUE
  Duplicating = TRUE
  ErrorAcks = TRUE
  DeviceFails = FALSE
  ServerCloses = FALSE
SPECIFICATION Spec
PROPERTIES AckReleases
CHECK_DEADLOCK FALSE

CONSTANTS
  SeqMod = 3
  Channels = {1}
  Monitors = {m1}
  MaxOutOfSync = 3
  MaxUnanswered = 3
  MaxBeats = 1
  MaxFrames = 2
  MaxSends = 0
  MaxReconnects = 0
  MaxSessions = 1
  MaxLate = 1
  Lossy = TRUE
  Duplicating = FALSE
  ErrorAcks = FALSE
  DeviceFails = TRUE
  ServerCloses = FALSE
SPECIFICATION FairSpec
CHECK_DEADLOCK FALSE
INVARIANT HeartbeatBounded
PROPERTIES DeadDeviceDetected FramesGetThrough

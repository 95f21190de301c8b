SPECIFICATION DeviceSpec
CONSTANTS
  RelaySlots = {0, 1}
  RelayChannels = {0, 1, 2}
  RelayWireMax = 1
  RelayPatience = 1
  RelayMaxWork = 3
  RelayMod = 4
  EmuSlots = {0, 1}
  EmuMaxFrames = 2
  ThrThreads = {1, 2, 3}
  ThrMain = 0
  ThrNone = 9
  KnxTexts <- MCTexts
  KnxValues <- MCValues
  KnxTpcis = {0, 3}
  KnxEndpoints <- MCEndpoints
  KnxServices = {0, 7}
  KnxNames <- MCNames
  KnxMaxSends = 2
INVARIANTS RelayChannelsDistinct RelayedInOrder EmuNobodyLeftBehind KnxReadAsMeant
PROPERTIES RelaySlotComesFree EmuQueueDrains ProgramEndsWithItsThreads
CHECK_DEADLOCK FALSE

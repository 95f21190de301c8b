SPECIFICATION ProgramsSpec
CONSTANTS
  Sessions <- TwoSessions
  None = 0
  Interval = 2
  Timeout = 4
  Lossy = TRUE
  Prompt = TRUE
  MayClose = TRUE
  MaxFrames = 1
  MaxReopens = 1
  AmxEntries = {"1 on", "1 off"}
  AmxCommands = {"f=1", "f=0"}
  AmxPackets <- MCAmxPackets
  AmxMaxPackets = 1
  AmxMaxEvents = 1
  SmsMessages <- TwoStores
  SmsAlerts = {"a"}
  SmsMaxEvents = 1
  SmsMaxSilences = 1
  SmsMaxOverlaps = 0
  SmsTries = 2
  SmsSelectFails = FALSE
  SmsNumbers = {"05", "06"}
  SmsAddresses = {"1/2/3"}
  SmsValues = {"0x80", "0x81"}
  SmsTexts <- MCSmsTexts
  SmsFiles <- MCSmsFiles
  SmsMaxEdits = 3
  PduNumbers <- MCPduNumbers
  PduTexts <- MCPduTexts
  PduIncoming <- MCPduIncoming
  PduLongest = 160
  LoginDraws = {5, 14}
  LoginPrivates = {1, 2, 7}
  LoginUsers <- MCLoginUsers
  LoginNames <- MCLoginNames
  LoginPasswords <- MCLoginPasswords
  LoginModes = {2}
INVARIANTS LoginAgrees MappingsKept PduReadAsMeant
PROPERTIES ImplementsAgreement  EveryCloseReturns AmxServesPacket SmsObeyed
CHECK_DEADLOCK FALSE

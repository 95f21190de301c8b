SPECIFICATION PartsSpec
CONSTANTS
  Period = 3
  Nap = 2
  MaxCommands = 3
  MaxDue = 4
  MaxTime = 10
  Prompt = TRUE
  OutputBlocks = TRUE
  Size = 3
  WebUsers = {1, 2}
  WebRights <- MCRights
  WebBrowsers = {1, 2}
  WebMaxCalls = 3
  WebMaxEdits = 1
  WebFirstLogin = FALSE
  Values <- MCValues
  NoValue = NoValue
  a = a
  b = b
  c = c
  JtcThreads = {1, 2, 3}
  JtcNone = 0
  JtcMaxDepth = 2
  JtcMaxNotify = 1
  StatsAddresses = {1, 2, 3}
  StatsMaxObjects = 2
  StatsMaxHistory = 2
  StatsBrowsers = {1}
  StatsMaxFrames = 5
  StatsMaxRequests = 2
  DocUsers <- MCDocUsers
  DocTyped <- MCDocTyped
  DocPosts <- MCDocPosts
  DocTables <- MCDocTables
  DocDevices <- MCDocDevices
  DocMaxEdits = 2
  DocMayEmpty = FALSE
  CfgPrograms <- MCCfgPrograms
  CfgFiles <- MCCfgFiles
  CfgTyped <- MCCfgTyped
  CfgMaxSteps = 4
  CfgMaxConsoles = 1
INVARIANTS SentInTimeOrder ExactlyOnce NeverVeryLate  WebActsWithRights StatsNewestFirst 
PROPERTIES CloseReturns ImplementsQueue JtcImplementsMesa
CHECK_DEADLOCK FALSE

SPECIFICATION Spec
CHECK_DEADLOCK FALSE
CONSTANTS
  TabPanels <- MCTabPanels
  TabTopics <- MCTabTopics
  TabTurns = {"t1", "t2"}
  TabRecords = {"r1"}
  TabStreams = {"s1"}
  TabMaxTabs = 3
  TabMaxStamp = 1
  RecTexts = {"", "a"}
  RecMaxId = 2
  RecMaxStamp = 4
  RecMaxMutations = 1
  StrMappings = {"m1", "m2"}
  StrStreams = {"s1", "s2"}
  StrMappingOf <- MCStrMappingOf
  StrMaxEvents = 3
  StrMaxCalls = 3
  UiMappings = {"m1", "m2"}
  UiStreams = {"s1", "s2"}
  UiMappingOf <- MCUiMappingOf
  UiMaxQueue = 4
  UiMaxSaves = 4
  PipPipes = {"p", "q"}
  PipTurns = {"t", "u"}
  PipMaxEdits = 1
  PipMaxCalls = 2
  PipMaxRuns = 2
  PipMaxMounts = 3
  StoIds = {"a", "b"}
  StoTitle <- MCStoTitle
  StoMaxWrites = 2
  StoMaxOps = 3
  LogMAX_LOG_ROWS = 2
  LogLimit = 1
  LogMaxLogs = 4
  LogMaxClears = 1
  ShlUrls = {"u", "v"}
  ShlDefault = "u"
  ShlMaxCalls = 3
  ShlMaxPings = 2
  ShlMaxLogins = 1
  TooModels = {"m", "n"}
  TooValues = {"d", "x"}
  TooDEFAULT_FINETUNING = "d"
  TooMaxSteps = 4
  TooMaxRuns = 2
  ComDrafts = {"people", "order"}
  ComKeyword <- NamedDomain
  ComSimilar <- SimilarDomain
  ComIndexViews <- Views
  ComChats = {"c1"}
  ComQuestion <- MCComQuestion
  ComCaption <- MCComCaption
  ComMaxKeys = 2
  ComMaxDrags = 1
  ComMaxSends = 1
INVARIANTS
  WorkspaceSound
  EditorsHoldTheirSubject
  LateReplyLandsNowhere
  ControlsAgree
  ListsShowTheTables
  ConsumersAgree
PROPERTIES
  TabsStay
  PillFollowsTheText

SPECIFICATION Spec
CHECK_DEADLOCK FALSE
CONSTANTS
  DesRowIds <- MCDesRowIds
  DesPaneTabs = {"source", "preview"}
  DesMaxOps = 4
  DesMaxWire = 2
  DesMaxRevisions = 2
  PreUnmappable = {3}
  PreMaxTexts = 4
  PreMaxRequests = 5
  PreMaxSwitches = 2
  AdmPanels <- AdminPanels
  AdmItems = {"a", "c"}
  AdmFresh = "c"
  AdmKey = "k"
  AdmMaxRequests = 3
  AdmMaxRevisions = 2
  SetMaxEdits = 3
  SetMaxSaves = 1
  SetMaxMounts = 2
  SetMaxPings = 2
  SetMaxLists = 1
  ObsUrls = {"u", "v", "w"}
  ObsHome = "u"
  ObsNodes = {"n1", "n2"}
  ObsBusOf <- MCObsBusOf
  ObsSTALE = 0
  ObsGONE = 1
  ObsMaxDials = 3
  ObsMaxApplies = 3
  ObsMaxBeats = 1
  ObsMaxClock = 2
  BenServers = {"s"}
  BenRoots = {"r"}
  BenFound = {}
  BenMAX_EVENTS = 1
  BenMAX_BUF = 1
  BenQueueCap = 1
  BenMaxOps = 2
  TxtStepNames = {"a", "b"}
  TxtSourceNames = {"d", "e"}
  TxtMaxSources = 2
  TxtMaxPipelineSteps = 2
  GqlColumns <- PersonColumns
  GqlMaps <- DataMaps
  GqlFilters <- QueryFilters
  GqlOrder <- Literals
  GqlRowIds = {"2", "3"}
  GqlMaxCalls = 2
INVARIANTS
  TextStaysWithItsRow
  BusyMeansUnderWay
  HealthOfTheUrl
  FeedOfTheBus
  ConnectionsFollowSettings
  AcceptedRunsThrough
PROPERTIES
  SquigglesNeverGoBack
  StoredAsAsked

------------------------------ MODULE Apps ------------------------------
(***************************************************************************)
(* The designer window (oosd), the observer (ooso), the bench and the two  *)
(* TypeScript packages, which share no state with each other, side by      *)
(* side: a behaviour is one of one part, chosen at the start, and the      *)
(* other parts hold nothing.  The variables and the constants carry the    *)
(* prefix of their part.                                                   *)
(***************************************************************************)
EXTENDS Naturals, Sequences

CONSTANTS
  DesRowIds, DesPaneTabs, DesMaxOps, DesMaxWire, DesMaxRevisions,
  PreUnmappable, PreMaxTexts, PreMaxRequests, PreMaxSwitches,
  AdmPanels, AdmItems, AdmFresh, AdmKey, AdmMaxRequests, AdmMaxRevisions,
  SetMaxEdits, SetMaxSaves, SetMaxMounts, SetMaxPings, SetMaxLists,
  ObsUrls, ObsHome, ObsNodes, ObsBusOf, ObsSTALE, ObsGONE, ObsMaxDials,
  ObsMaxApplies, ObsMaxBeats, ObsMaxClock,
  BenServers, BenRoots, BenFound, BenMAX_EVENTS, BenMAX_BUF, BenQueueCap,
  BenMaxOps,
  TxtStepNames, TxtSourceNames, TxtMaxSources, TxtMaxPipelineSteps,
  GqlColumns, GqlMaps, GqlFilters, GqlOrder, GqlRowIds, GqlMaxCalls

\* The reconnect channel of the bench holds at least one poke.
ASSUME QueueCapAssumption == BenQueueCap \in Nat \ {0}

\* The bounds on the length of a pipeline are numbers.
ASSUME LengthAssumption == TxtMaxSources \in Nat /\ TxtMaxPipelineSteps \in Nat

VARIABLES
  part,      \* the part that runs
  desRows, desKind, desSt, desSaving, desDialog, desDoomed, desTab, desWire, desOps,
  desRevs,
  prePane, preText, preLast, preNextId, preJobs, preValTimer, preLatest, preMarkers,
  prePrevTimer, preDef, preFailed, preMock, preDomainFetch, preChunkJob, preChunk,
  preChunkBroken, preSwitches,
  admPanel, admAlive, admData, admShown, admSel, admEntries, admEdit, admDirty,
  admBusy, admRequests, admCount, admRevision,
  setFile, setCopy, setLoadedOf, setLoads, setSection, setForm, setSaves, setModels,
  setListing, setSeen, setPing, setHealth, setMounts, setEdits, setSaved, setPinged,
  setLists,
  obsWsUrl, obsConn, obsConnecting, obsDials, obsOpen, obsDied, obsNatsUrl, obsApplies,
  obsEffect, obsTable, obsClock, obsShownAt, obsExpanded, obsEnv, obsDialled,
  obsApplied,
  benStore, benMem, benQueue, benSup, benStatuses, benViewReady, benFlushDue,
  benBuffer, benPushing, benBus, benCalls, benReadyCall, benSettings, benBadges,
  benEvents, benPaused, benMade, benSaved, benFlips,
  txtAst, txtVerdict, txtAt, txtHave, txtMissing,
  gqlRows, gqlCalls, gqlRead, gqlMade

varsDes == << desRows, desKind, desSt, desSaving, desDialog, desDoomed, desTab,
             desWire, desOps, desRevs >>
varsPre == << prePane, preText, preLast, preNextId, preJobs, preValTimer, preLatest,
             preMarkers, prePrevTimer, preDef, preFailed, preMock, preDomainFetch,
             preChunkJob, preChunk, preChunkBroken, preSwitches >>
varsAdm == << admPanel, admAlive, admData, admShown, admSel, admEntries, admEdit,
             admDirty, admBusy, admRequests, admCount, admRevision >>
varsSet == << setFile, setCopy, setLoadedOf, setLoads, setSection, setForm, setSaves,
             setModels, setListing, setSeen, setPing, setHealth, setMounts, setEdits,
             setSaved, setPinged, setLists >>
varsObs == << obsWsUrl, obsConn, obsConnecting, obsDials, obsOpen, obsDied, obsNatsUrl,
             obsApplies, obsEffect, obsTable, obsClock, obsShownAt, obsExpanded,
             obsEnv, obsDialled, obsApplied >>
varsBen == << benStore, benMem, benQueue, benSup, benStatuses, benViewReady,
             benFlushDue, benBuffer, benPushing, benBus, benCalls, benReadyCall,
             benSettings, benBadges, benEvents, benPaused, benMade, benSaved,
             benFlips >>
varsTxt == << txtAst, txtVerdict, txtAt, txtHave, txtMissing >>
varsPg == << gqlRows, gqlCalls, gqlRead, gqlMade >>

vars == << part, varsDes, varsPre, varsAdm, varsSet, varsObs, varsBen, varsTxt, varsPg >>

Des == INSTANCE Designer WITH
  RowIds <- DesRowIds, PaneTabs <- DesPaneTabs, MaxOps <- DesMaxOps,
  MaxWire <- DesMaxWire, MaxRevisions <- DesMaxRevisions, rows <- desRows,
  kind <- desKind, st <- desSt, saving <- desSaving, dialog <- desDialog,
  doomed <- desDoomed, tab <- desTab, wire <- desWire, ops <- desOps,
  revs <- desRevs

Pre == INSTANCE Preview WITH
  Unmappable <- PreUnmappable, MaxTexts <- PreMaxTexts,
  MaxRequests <- PreMaxRequests, MaxSwitches <- PreMaxSwitches, pane <- prePane,
  text <- preText, last <- preLast, nextId <- preNextId, jobs <- preJobs,
  valTimer <- preValTimer, latest <- preLatest, markers <- preMarkers,
  prevTimer <- prePrevTimer, def <- preDef, failed <- preFailed, mock <- preMock,
  domainFetch <- preDomainFetch, chunkJob <- preChunkJob, chunk <- preChunk,
  chunkBroken <- preChunkBroken, switches <- preSwitches

Adm == INSTANCE Admin WITH
  Panels <- AdmPanels, Items <- AdmItems, Fresh <- AdmFresh, Key <- AdmKey,
  MaxRequests <- AdmMaxRequests, MaxRevisions <- AdmMaxRevisions, panel <- admPanel,
  alive <- admAlive, data <- admData, shown <- admShown, sel <- admSel,
  entries <- admEntries, edit <- admEdit, dirty <- admDirty, busy <- admBusy,
  requests <- admRequests, count <- admCount, revision <- admRevision

Set == INSTANCE DesignerSettings WITH
  MaxEdits <- SetMaxEdits, MaxSaves <- SetMaxSaves, MaxMounts <- SetMaxMounts,
  MaxPings <- SetMaxPings, MaxLists <- SetMaxLists, file <- setFile,
  copy <- setCopy, loadedOf <- setLoadedOf, loads <- setLoads,
  section <- setSection, form <- setForm, saves <- setSaves, models <- setModels,
  listing <- setListing, seen <- setSeen, ping <- setPing, health <- setHealth, mounts <- setMounts,
  edits <- setEdits, saved <- setSaved, pinged <- setPinged, lists <- setLists

Obs == INSTANCE Observer WITH
  Urls <- ObsUrls, Home <- ObsHome, Nodes <- ObsNodes, BusOf <- ObsBusOf,
  STALE <- ObsSTALE, GONE <- ObsGONE, MaxDials <- ObsMaxDials,
  MaxApplies <- ObsMaxApplies, MaxBeats <- ObsMaxBeats, MaxClock <- ObsMaxClock,
  wsUrl <- obsWsUrl, conn <- obsConn, connecting <- obsConnecting,
  dials <- obsDials, open <- obsOpen, died <- obsDied, natsUrl <- obsNatsUrl,
  applies <- obsApplies, effect <- obsEffect, table <- obsTable, clock <- obsClock, shownAt <- obsShownAt,
  expanded <- obsExpanded, env <- obsEnv, dialled <- obsDialled,
  applied <- obsApplied

Ben == INSTANCE Bench WITH
  Servers <- BenServers, Roots <- BenRoots, Found <- BenFound,
  MAX_EVENTS <- BenMAX_EVENTS, MAX_BUF <- BenMAX_BUF, QueueCap <- BenQueueCap,
  MaxOps <- BenMaxOps, store <- benStore, mem <- benMem, queue <- benQueue,
  sup <- benSup, statuses <- benStatuses, viewReady <- benViewReady,
  flushDue <- benFlushDue, buffer <- benBuffer, pushing <- benPushing,
  bus <- benBus, calls <- benCalls, readyCall <- benReadyCall,
  settings <- benSettings, badges <- benBadges, events <- benEvents,
  paused <- benPaused, made <- benMade, saved <- benSaved, flips <- benFlips

Txt == INSTANCE PipelineText WITH
  StepNames <- TxtStepNames, SourceNames <- TxtSourceNames, MaxSources <- TxtMaxSources,
  MaxPipelineSteps <- TxtMaxPipelineSteps, ast <- txtAst, verdict <- txtVerdict,
  at <- txtAt, have <- txtHave, missing <- txtMissing

Pg == INSTANCE GqlPackage WITH
  Columns <- GqlColumns, Maps <- GqlMaps, Filters <- GqlFilters, Order <- GqlOrder,
  RowIds <- GqlRowIds, Returning <- TRUE, MaxCalls <- GqlMaxCalls, rows <- gqlRows,
  calls <- gqlCalls, read <- gqlRead, made <- gqlMade

My == INSTANCE GqlPackage WITH
  Columns <- GqlColumns, Maps <- GqlMaps, Filters <- GqlFilters, Order <- GqlOrder,
  RowIds <- GqlRowIds, Returning <- FALSE, MaxCalls <- GqlMaxCalls, rows <- gqlRows,
  calls <- gqlCalls, read <- gqlRead, made <- gqlMade

\* The parts that do not run hold nothing.
Idle == "idle"

IdleDes ==
  /\ desRows = Idle /\ desKind = Idle /\ desSt = Idle /\ desSaving = Idle /\
     desDialog = Idle /\ desDoomed = Idle /\ desTab = Idle /\ desWire = Idle /\
     desOps = Idle /\ desRevs = Idle
IdlePre ==
  /\ prePane = Idle /\ preText = Idle /\ preLast = Idle /\ preNextId = Idle /\
     preJobs = Idle /\ preValTimer = Idle /\ preLatest = Idle /\ preMarkers = Idle
     /\ prePrevTimer = Idle /\ preDef = Idle /\ preFailed = Idle /\ preMock = Idle
     /\ preDomainFetch = Idle /\ preChunkJob = Idle /\ preChunk = Idle /\
     preChunkBroken = Idle /\ preSwitches = Idle
IdleAdm ==
  /\ admPanel = Idle /\ admAlive = Idle /\ admData = Idle /\ admShown = Idle /\
     admSel = Idle /\ admEntries = Idle /\ admEdit = Idle /\ admDirty = Idle /\
     admBusy = Idle /\ admRequests = Idle /\ admCount = Idle /\ admRevision = Idle
IdleSet ==
  /\ setFile = Idle /\ setCopy = Idle /\ setLoadedOf = Idle /\ setLoads = Idle /\
     setSection = Idle /\ setForm = Idle /\ setSaves = Idle /\ setModels = Idle /\
     setListing = Idle /\ setSeen = Idle /\ setPing = Idle /\ setHealth = Idle /\ setMounts = Idle /\
     setEdits = Idle /\ setSaved = Idle /\ setPinged = Idle /\
     setLists = Idle
IdleObs ==
  /\ obsWsUrl = Idle /\ obsConn = Idle /\ obsConnecting = Idle /\ obsDials = Idle /\
     obsOpen = Idle /\ obsDied = Idle /\ obsNatsUrl = Idle /\ obsApplies = Idle /\ obsEffect = Idle /\
     obsTable = Idle /\ obsClock = Idle /\ obsShownAt = Idle /\ obsExpanded = Idle
     /\ obsEnv = Idle /\ obsDialled = Idle /\ obsApplied = Idle
IdleBen ==
  /\ benStore = Idle /\ benMem = Idle /\ benQueue = Idle /\ benSup = Idle /\
     benStatuses = Idle /\ benViewReady = Idle /\ benFlushDue = Idle /\
     benBuffer = Idle /\ benPushing = Idle /\ benBus = Idle /\ benCalls = Idle /\
     benReadyCall = Idle /\ benSettings = Idle /\ benBadges = Idle /\
     benEvents = Idle /\ benPaused = Idle /\ benMade = Idle /\ benSaved = Idle /\
     benFlips = Idle
IdleTxt ==
  /\ txtAst = Idle /\ txtVerdict = Idle /\ txtAt = Idle /\ txtHave = Idle /\
     txtMissing = Idle
IdlePg ==
  /\ gqlRows = Idle /\ gqlCalls = Idle /\ gqlRead = Idle /\ gqlMade = Idle

Init ==
  \/ part = "designer" /\ Des!Init
     /\ IdlePre /\ IdleAdm /\ IdleSet /\ IdleObs /\ IdleBen /\ IdleTxt /\ IdlePg
  \/ part = "preview" /\ Pre!Init
     /\ IdleDes /\ IdleAdm /\ IdleSet /\ IdleObs /\ IdleBen /\ IdleTxt /\ IdlePg
  \/ part = "admin" /\ Adm!Init
     /\ IdleDes /\ IdlePre /\ IdleSet /\ IdleObs /\ IdleBen /\ IdleTxt /\ IdlePg
  \/ part = "settings" /\ Set!Init
     /\ IdleDes /\ IdlePre /\ IdleAdm /\ IdleObs /\ IdleBen /\ IdleTxt /\ IdlePg
  \/ part = "observer" /\ Obs!Init
     /\ IdleDes /\ IdlePre /\ IdleAdm /\ IdleSet /\ IdleBen /\ IdleTxt /\ IdlePg
  \/ part = "bench" /\ Ben!Init
     /\ IdleDes /\ IdlePre /\ IdleAdm /\ IdleSet /\ IdleObs /\ IdleTxt /\ IdlePg
  \/ part = "text" /\ Txt!Init
     /\ IdleDes /\ IdlePre /\ IdleAdm /\ IdleSet /\ IdleObs /\ IdleBen /\ IdlePg
  \/ part = "gql_one_trip" /\ Pg!Init
     /\ IdleDes /\ IdlePre /\ IdleAdm /\ IdleSet /\ IdleObs /\ IdleBen /\ IdleTxt
  \/ part = "gql_two_trips" /\ My!Init
     /\ IdleDes /\ IdlePre /\ IdleAdm /\ IdleSet /\ IdleObs /\ IdleBen /\ IdleTxt

Next ==
  \/ part = "designer" /\ Des!Next
     /\ UNCHANGED << part, varsPre, varsAdm, varsSet, varsObs, varsBen, varsTxt,
                     varsPg >>
  \/ part = "preview" /\ Pre!Next
     /\ UNCHANGED << part, varsDes, varsAdm, varsSet, varsObs, varsBen, varsTxt,
                     varsPg >>
  \/ part = "admin" /\ Adm!Next
     /\ UNCHANGED << part, varsDes, varsPre, varsSet, varsObs, varsBen, varsTxt,
                     varsPg >>
  \/ part = "settings" /\ Set!Next
     /\ UNCHANGED << part, varsDes, varsPre, varsAdm, varsObs, varsBen, varsTxt,
                     varsPg >>
  \/ part = "observer" /\ Obs!Next
     /\ UNCHANGED << part, varsDes, varsPre, varsAdm, varsSet, varsBen, varsTxt,
                     varsPg >>
  \/ part = "bench" /\ Ben!Next
     /\ UNCHANGED << part, varsDes, varsPre, varsAdm, varsSet, varsObs, varsTxt,
                     varsPg >>
  \/ part = "text" /\ Txt!Next
     /\ UNCHANGED << part, varsDes, varsPre, varsAdm, varsSet, varsObs, varsBen,
                     varsPg >>
  \/ part = "gql_one_trip" /\ Pg!Next
     /\ UNCHANGED << part, varsDes, varsPre, varsAdm, varsSet, varsObs, varsBen,
                     varsTxt >>
  \/ part = "gql_two_trips" /\ My!Next
     /\ UNCHANGED << part, varsDes, varsPre, varsAdm, varsSet, varsObs, varsBen,
                     varsTxt >>

Spec == Init /\ [][Next]_vars

-----------------------------------------------------------------------------
\* What the source editor holds under a row, and what is stored under it, was
\* written for that row, whatever loads, saves, inserts and deletes are under way
\* when the selection moves; the chunk tab shows the chunk of that text (App.tsx
\* and ChunkPanel.tsx of oosd).
TextStaysWithItsRow == 
  /\ part = "designer" => Des!TextStaysWithItsRow
  /\ part = "preview" => Pre!ChunkCatchesUp

\* Diagnostics never fall back to those of an older text, however the worker
\* reorders its replies (diagnostics-client.ts).
SquigglesNeverGoBack == [][part = "preview" => Pre!SquiggleStep]_varsPre

\* A panel of the designer is busy only while the request it waits for is under
\* way: every answer, error and refusal ends it (KvStorePanel.tsx and the panels
\* beside it).
BusyMeansUnderWay == part = "admin" => Adm!BusyMeansUnderWay

\* The LLM health the footer shows is of the endpoint in force, or a ping of that
\* endpoint is due or under way, and no answer of an older one can replace it
\* (Footer.tsx of oosd).
HealthOfTheUrl == part = "settings" => Set!HealthOfTheUrl

\* The observer's connection and the subscription that feeds its table are of the
\* bus that was set last, and no switch of the bus closed them under it; one that
\* closed by itself keeps its dead subscription (nats.ts of ooso).
FeedOfTheBus == part = "observer" => Obs!FeedOfTheBus

\* When nothing is under way the supervisor of the bench runs the servers of the
\* settings in force, however many saves were folded into one poke.
ConnectionsFollowSettings == part = "bench" => Ben!ConnectionsFollowSettings

\* A pipeline the validator accepts runs through: every step finds its source and
\* its input, but for an llm step that names a docs source (validator.ts).
AcceptedRunsThrough == part = "text" => Txt!AcceptedRunsThrough

\* A mutation stores what its data map says, in the row it names, with and
\* without RETURNING (oos-gql-ts).
StoredAsAsked == 
  [][(part \in {"gql_one_trip", "gql_two_trips"}) => Pg!StoreStep]_varsPg
=============================================================================

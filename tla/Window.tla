----------------------------- MODULE Window -----------------------------
(***************************************************************************)
(* The parts of the oos window that share no state with each other, side   *)
(* by side: a behaviour is one of one part, chosen at the start, and the   *)
(* other parts hold nothing.  The variables and the constants carry the    *)
(* prefix of their part.                                                   *)
(***************************************************************************)
EXTENDS Naturals, Sequences, FiniteSets

CONSTANTS
  TabPanels, TabTopics, TabTurns, TabRecords, TabStreams, TabMaxTabs, TabMaxStamp,
  RecTexts, RecMaxId, RecMaxStamp, RecMaxMutations,
  StrMappings, StrStreams, StrMappingOf, StrMaxEvents, StrMaxCalls,
  UiMappings, UiStreams, UiMappingOf, UiMaxQueue, UiMaxSaves,
  PipPipes, PipTurns, PipMaxEdits, PipMaxCalls, PipMaxRuns, PipMaxMounts,
  StoIds, StoTitle, StoMaxWrites, StoMaxOps,
  LogMAX_LOG_ROWS, LogLimit, LogMaxLogs, LogMaxClears,
  ShlUrls, ShlDefault, ShlMaxCalls, ShlMaxPings, ShlMaxLogins,
  TooModels, TooValues, TooDEFAULT_FINETUNING, TooMaxSteps, TooMaxRuns,
  ComDrafts, ComKeyword, ComSimilar, ComIndexViews, ComChats, ComQuestion,
  ComCaption, ComMaxKeys, ComMaxDrags, ComMaxSends

\* The settings panels and the topics are a few, each once (tabs.ts: settingsGroup,
\* DOC_TOPICS).
ASSUME TabAssumption ==
  /\ TabPanels \in Seq(STRING) /\ TabPanels # <<>>
  /\ \A i, j \in 1..Len(TabPanels) : TabPanels[i] = TabPanels[j] => i = j
  /\ TabTopics \in Seq(STRING) /\ TabTopics # <<>>
  /\ \A i, j \in 1..Len(TabTopics) : TabTopics[i] = TabTopics[j] => i = j

\* The records have a bounded number of ids.
ASSUME RecAssumption == RecMaxId \in Nat

\* The default endpoint is one of the endpoints.
ASSUME ShlAssumption == ShlDefault \in ShlUrls

\* There are finitely many ids of chats, and the log ring has a bound.
ASSUME StoAssumption == IsFiniteSet(StoIds)
ASSUME LogAssumption == LogMAX_LOG_ROWS \in Nat

VARIABLES
  part,      \* the part that runs
  tabLoggedIn, tabGroups, tabActiveId, tabStamp, tabBody, tabLoads,
  recAuto, recTable, recNextId, recOpen, recStub, recShown, recStamp, recInst, recStage,
  recRows, recForm, recSavedAt, recLoads, recMutations, recSent, recMissed,
  strStreams, strEvents, strInserted, strCalls, strMade, strPanel, strStream,
  strList, strMode, strEditor, strTyped, strSaving, strChoice, strOffered,
  strLoading, strJson, strTarget, strFailed,
  uiStore, uiQueue, uiSaves, uiUnsaved, uiMisread, uiHooks, uiOptions, uiFetching,
  uiDraft, uiBrowser, uiBooted,
  pipRemote, pipRows, pipSelected, pipSource, pipDirty, pipSaving, pipEdits,
  pipCalls, pipIssued, pipTabs, pipShown, pipPanel, pipStarts, pipMounts, pipRuns,
  pipInspected, pipSteps, pipLoaded, pipLoads,
  stoDb, stoTurnRows, stoFailing, stoTxs, stoChatList, stoTurnList, stoMounted,
  stoActive, stoConfirm, stoWrites, stoOps,
  logLogRows, logNextLog, logAppends, logFailed, logEntries, logMounted, logClears,
  shlPhase, shlLoggedIn, shlClaims, shlToken, shlLogins, shlSeen, shlDisk, shlTorn,
  shlHook, shlLoaded, shlMounted, shlForm, shlIpc, shlIssued, shlHealth, shlEffect,
  shlPings, shlSentPings,
  tooPanel, tooSteps, tooKv, tooModelId, tooTuning, tooLoaded, tooTform, tooReads,
  tooSaves, tooModels, tooChosen, tooEndpoint, tooLists, tooStage, tooSource, tooTarget,
  tooBusy, tooAsked, tooRuns, tooTab, tooColumn,
  comIndex, comEmbedder, comVectors, comText, comMode, comManual, comAuto, comViews,
  comPicking, comKeys, comTimer, comResolves, comDropping, comWaiting, comSent,
  comDrags, comDragged, comFetches, comPending

varsTab == << tabLoggedIn, tabGroups, tabActiveId, tabStamp, tabBody, tabLoads >>
varsRec == << recAuto, recTable, recNextId, recOpen, recStub, recShown, recStamp, recInst,
             recStage, recRows, recForm, recSavedAt, recLoads, recMutations,
             recSent, recMissed >>
varsStr == << strStreams, strEvents, strInserted, strCalls, strMade, strPanel,
             strStream, strList, strMode, strEditor, strTyped, strSaving, strChoice,
             strOffered, strLoading, strJson, strTarget, strFailed >>
varsUi == << uiStore, uiQueue, uiSaves, uiUnsaved, uiMisread, uiHooks, uiOptions, uiFetching, uiDraft,
            uiBrowser, uiBooted >>
varsPip == << pipRemote, pipRows, pipSelected, pipSource, pipDirty, pipSaving,
             pipEdits, pipCalls, pipIssued, pipTabs, pipShown, pipPanel, pipStarts,
             pipMounts, pipRuns, pipInspected, pipSteps, pipLoaded, pipLoads >>
varsSto == << stoDb, stoTurnRows, stoFailing, stoTxs, stoChatList, stoTurnList,
             stoMounted, stoActive, stoConfirm, stoWrites, stoOps >>
varsLog == << logLogRows, logNextLog, logAppends, logFailed, logEntries, logMounted, logClears >>
varsShl == << shlPhase, shlLoggedIn, shlClaims, shlToken, shlLogins, shlSeen,
             shlDisk, shlTorn, shlHook, shlLoaded, shlMounted, shlForm, shlIpc,
             shlIssued, shlHealth, shlEffect, shlPings, shlSentPings >>
varsToo == << tooPanel, tooSteps, tooKv, tooModelId, tooTuning, tooLoaded, tooTform,
             tooReads, tooSaves, tooModels, tooChosen, tooEndpoint, tooLists, tooStage,
             tooSource, tooTarget, tooBusy, tooAsked, tooRuns, tooTab, tooColumn >>
varsCom == << comIndex, comEmbedder, comVectors, comText, comMode, comManual,
             comAuto, comViews, comPicking, comKeys, comTimer, comResolves,
             comDropping, comWaiting, comSent, comDrags, comDragged, comFetches,
             comPending >>

vars == << part, varsTab, varsRec, varsStr, varsUi, varsPip, varsSto, varsLog, varsShl,
           varsToo, varsCom >>

Tab == INSTANCE TabWorkspace WITH
  Panels <- TabPanels, Topics <- TabTopics, Turns <- TabTurns,
  Records <- TabRecords, Streams <- TabStreams, MaxTabs <- TabMaxTabs,
  MaxStamp <- TabMaxStamp, loggedIn <- tabLoggedIn, groups <- tabGroups,
  activeId <- tabActiveId, stamp <- tabStamp, body <- tabBody, loads <- tabLoads

Rec == INSTANCE RecordEditing WITH
  Texts <- RecTexts, MaxId <- RecMaxId, MaxStamp <- RecMaxStamp,
  MaxMutations <- RecMaxMutations, auto <- recAuto, table <- recTable, nextId <- recNextId,
  open <- recOpen, stub <- recStub, shown <- recShown, stamp <- recStamp,
  inst <- recInst, stage <- recStage, rows <- recRows, form <- recForm,
  savedAt <- recSavedAt, loads <- recLoads, mutations <- recMutations,
  sent <- recSent, missed <- recMissed

Str == INSTANCE EventStreams WITH
  Mappings <- StrMappings, Streams <- StrStreams, MappingOf <- StrMappingOf,
  MaxEvents <- StrMaxEvents, MaxCalls <- StrMaxCalls, streams <- strStreams,
  events <- strEvents, inserted <- strInserted, calls <- strCalls, made <- strMade,
  panel <- strPanel, stream <- strStream, list <- strList, mode <- strMode,
  editor <- strEditor, typed <- strTyped, saving <- strSaving, choice <- strChoice,
  offered <- strOffered, loading <- strLoading, json <- strJson,
  target <- strTarget, failed <- strFailed

Ui == INSTANCE UiState WITH
  UiMappings <- UiMappings, UiStreams <- UiStreams, UiMappingOf <- UiMappingOf,
  MaxQueue <- UiMaxQueue, MaxSaves <- UiMaxSaves, store <- uiStore,
  queue <- uiQueue, saves <- uiSaves, unsaved <- uiUnsaved, misread <- uiMisread, hooks <- uiHooks, options <- uiOptions,
  fetching <- uiFetching, draft <- uiDraft, browser <- uiBrowser, booted <- uiBooted

Pip == INSTANCE Pipelines WITH
  Pipes <- PipPipes, Turns <- PipTurns, MaxEdits <- PipMaxEdits,
  MaxCalls <- PipMaxCalls, MaxRuns <- PipMaxRuns, MaxMounts <- PipMaxMounts,
  remote <- pipRemote, rows <- pipRows, selected <- pipSelected,
  source <- pipSource, dirty <- pipDirty, saving <- pipSaving, edits <- pipEdits,
  calls <- pipCalls, issued <- pipIssued, tabs <- pipTabs, shown <- pipShown,
  panel <- pipPanel, starts <- pipStarts, mounts <- pipMounts, runs <- pipRuns,
  inspected <- pipInspected, steps <- pipSteps, loaded <- pipLoaded,
  loads <- pipLoads

Sto == INSTANCE LocalStore WITH
  Ids <- StoIds, Title <- StoTitle, MaxWrites <- StoMaxWrites, MaxOps <- StoMaxOps,
  db <- stoDb, turnRows <- stoTurnRows, failing <- stoFailing, txs <- stoTxs,
  chatList <- stoChatList, turnList <- stoTurnList, mounted <- stoMounted,
  active <- stoActive, confirm <- stoConfirm, writes <- stoWrites, ops <- stoOps

Log == INSTANCE LogRing WITH
  MAX_LOG_ROWS <- LogMAX_LOG_ROWS, Limit <- LogLimit, MaxLogs <- LogMaxLogs,
  MaxClears <- LogMaxClears, logRows <- logLogRows, nextLog <- logNextLog,
  appends <- logAppends, failed <- logFailed, entries <- logEntries, mounted <- logMounted,
  clears <- logClears

Shl == INSTANCE Shell WITH
  Urls <- ShlUrls, Default <- ShlDefault, MaxCalls <- ShlMaxCalls,
  MaxPings <- ShlMaxPings, MaxLogins <- ShlMaxLogins, phase <- shlPhase,
  loggedIn <- shlLoggedIn, claims <- shlClaims, token <- shlToken,
  logins <- shlLogins, seen <- shlSeen, disk <- shlDisk, torn <- shlTorn,
  hook <- shlHook, loaded <- shlLoaded, mounted <- shlMounted, form <- shlForm,
  ipc <- shlIpc, issued <- shlIssued, health <- shlHealth, effect <- shlEffect,
  pings <- shlPings, sentPings <- shlSentPings

Too == INSTANCE Tools WITH
  Models <- TooModels, Values <- TooValues,
  DEFAULT_FINETUNING <- TooDEFAULT_FINETUNING, MaxSteps <- TooMaxSteps,
  MaxRuns <- TooMaxRuns, panel <- tooPanel, steps <- tooSteps, kv <- tooKv,
  modelId <- tooModelId, tuning <- tooTuning, loaded <- tooLoaded,
  tform <- tooTform, reads <- tooReads, saves <- tooSaves, models <- tooModels, chosen <- tooChosen,
  endpoint <- tooEndpoint, lists <- tooLists, stage <- tooStage,
  source <- tooSource, target <- tooTarget, busy <- tooBusy, asked <- tooAsked,
  runs <- tooRuns, tab <- tooTab, column <- tooColumn

Com == INSTANCE Composer WITH
  Drafts <- ComDrafts, Keyword <- ComKeyword, Similar <- ComSimilar,
  IndexViews <- ComIndexViews, Chats <- ComChats, Question <- ComQuestion,
  Caption <- ComCaption, MaxKeys <- ComMaxKeys, MaxDrags <- ComMaxDrags,
  MaxSends <- ComMaxSends, index <- comIndex, embedder <- comEmbedder,
  vectors <- comVectors, text <- comText, mode <- comMode, manual <- comManual,
  auto <- comAuto, views <- comViews, picking <- comPicking, keys <- comKeys,
  timer <- comTimer, resolves <- comResolves, dropping <- comDropping,
  waiting <- comWaiting, sent <- comSent, drags <- comDrags, dragged <- comDragged,
  fetches <- comFetches, pending <- comPending

\* The parts that do not run hold nothing.
Idle == "idle"

IdleTab ==
  /\ tabLoggedIn = Idle /\ tabGroups = Idle /\ tabActiveId = Idle /\ tabStamp = Idle
     /\ tabBody = Idle /\ tabLoads = Idle
IdleRec ==
  /\ recAuto = Idle /\ recTable = Idle /\ recNextId = Idle /\ recOpen = Idle /\ recStub = Idle /\
     recShown = Idle /\ recStamp = Idle /\ recInst = Idle /\ recStage = Idle /\
     recRows = Idle /\ recForm = Idle /\ recSavedAt = Idle /\ recLoads = Idle /\
     recMutations = Idle /\ recSent = Idle /\ recMissed = Idle
IdleStr ==
  /\ strStreams = Idle /\ strEvents = Idle /\ strInserted = Idle /\ strCalls = Idle
     /\ strMade = Idle /\ strPanel = Idle /\ strStream = Idle /\ strList = Idle /\
     strMode = Idle /\ strEditor = Idle /\ strTyped = Idle /\ strSaving = Idle /\
     strChoice = Idle /\ strOffered = Idle /\ strLoading = Idle /\ strJson = Idle /\
     strTarget = Idle /\ strFailed = Idle
IdleUi ==
  /\ uiStore = Idle /\ uiQueue = Idle /\ uiSaves = Idle /\ uiUnsaved = Idle /\ uiMisread = Idle /\ uiHooks = Idle /\
     uiOptions = Idle /\ uiFetching = Idle /\ uiDraft = Idle /\ uiBrowser = Idle /\
     uiBooted = Idle
IdlePip ==
  /\ pipRemote = Idle /\ pipRows = Idle /\ pipSelected = Idle /\ pipSource = Idle /\
     pipDirty = Idle /\ pipSaving = Idle /\ pipEdits = Idle /\ pipCalls = Idle /\
     pipIssued = Idle /\ pipTabs = Idle /\ pipShown = Idle /\ pipPanel = Idle /\
     pipStarts = Idle /\ pipMounts = Idle /\ pipRuns = Idle /\ pipInspected = Idle
     /\ pipSteps = Idle /\ pipLoaded = Idle /\ pipLoads = Idle
IdleSto ==
  /\ stoDb = Idle /\ stoTurnRows = Idle /\ stoFailing = Idle /\ stoTxs = Idle /\
     stoChatList = Idle /\ stoTurnList = Idle /\ stoMounted = Idle /\
     stoActive = Idle /\ stoConfirm = Idle /\ stoWrites = Idle /\ stoOps = Idle
IdleLog ==
  /\ logLogRows = Idle /\ logNextLog = Idle /\ logAppends = Idle /\ logFailed = Idle /\
     logEntries = Idle /\ logMounted = Idle /\ logClears = Idle
IdleShl ==
  /\ shlPhase = Idle /\ shlLoggedIn = Idle /\ shlClaims = Idle /\ shlToken = Idle /\
     shlLogins = Idle /\ shlSeen = Idle /\ shlDisk = Idle /\ shlTorn = Idle /\
     shlHook = Idle /\ shlLoaded = Idle /\ shlMounted = Idle /\ shlForm = Idle /\
     shlIpc = Idle /\ shlIssued = Idle /\ shlHealth = Idle /\ shlEffect = Idle /\
     shlPings = Idle /\ shlSentPings = Idle
IdleToo ==
  /\ tooPanel = Idle /\ tooSteps = Idle /\ tooKv = Idle /\ tooModelId = Idle /\
     tooTuning = Idle /\ tooLoaded = Idle /\ tooTform = Idle /\ tooReads = Idle /\ tooSaves = Idle /\
     tooModels = Idle /\ tooChosen = Idle /\ tooEndpoint = Idle /\ tooLists = Idle
     /\ tooStage = Idle /\ tooSource = Idle /\ tooTarget = Idle /\ tooBusy = Idle /\
     tooAsked = Idle /\ tooRuns = Idle /\ tooTab = Idle /\ tooColumn = Idle
IdleCom ==
  /\ comIndex = Idle /\ comEmbedder = Idle /\ comVectors = Idle /\ comText = Idle /\
     comMode = Idle /\ comManual = Idle /\ comAuto = Idle /\ comViews = Idle /\
     comPicking = Idle /\ comKeys = Idle /\ comTimer = Idle /\ comResolves = Idle /\
     comDropping = Idle /\ comWaiting = Idle /\ comSent = Idle /\ comDrags = Idle /\
     comDragged = Idle /\ comFetches = Idle /\ comPending = Idle

Init ==
  \/ part = "tabs" /\ Tab!Init
     /\ IdleRec /\ IdleStr /\ IdleUi /\ IdlePip /\ IdleSto /\ IdleLog /\ IdleShl /\
        IdleToo /\ IdleCom
  \/ part = "records" /\ Rec!Init
     /\ IdleTab /\ IdleStr /\ IdleUi /\ IdlePip /\ IdleSto /\ IdleLog /\ IdleShl /\
        IdleToo /\ IdleCom
  \/ part = "streams" /\ Str!Init
     /\ IdleTab /\ IdleRec /\ IdleUi /\ IdlePip /\ IdleSto /\ IdleLog /\ IdleShl /\
        IdleToo /\ IdleCom
  \/ part = "ui" /\ Ui!Init
     /\ IdleTab /\ IdleRec /\ IdleStr /\ IdlePip /\ IdleSto /\ IdleLog /\ IdleShl /\
        IdleToo /\ IdleCom
  \/ part = "pipelines" /\ Pip!Init
     /\ IdleTab /\ IdleRec /\ IdleStr /\ IdleUi /\ IdleSto /\ IdleLog /\ IdleShl /\
        IdleToo /\ IdleCom
  \/ part = "store" /\ Sto!Init
     /\ IdleTab /\ IdleRec /\ IdleStr /\ IdleUi /\ IdlePip /\ IdleLog /\ IdleShl /\
        IdleToo /\ IdleCom
  \/ part = "log" /\ Log!Init
     /\ IdleTab /\ IdleRec /\ IdleStr /\ IdleUi /\ IdlePip /\ IdleSto /\ IdleShl /\
        IdleToo /\ IdleCom
  \/ part = "shell" /\ Shl!Init
     /\ IdleTab /\ IdleRec /\ IdleStr /\ IdleUi /\ IdlePip /\ IdleSto /\ IdleLog /\
        IdleToo /\ IdleCom
  \/ part = "tools" /\ Too!Init
     /\ IdleTab /\ IdleRec /\ IdleStr /\ IdleUi /\ IdlePip /\ IdleSto /\ IdleLog /\
        IdleShl /\ IdleCom
  \/ part = "composer" /\ Com!Init
     /\ IdleTab /\ IdleRec /\ IdleStr /\ IdleUi /\ IdlePip /\ IdleSto /\ IdleLog /\
        IdleShl /\ IdleToo

Next ==
  \/ part = "tabs" /\ Tab!Next
     /\ UNCHANGED << part, varsRec, varsStr, varsUi, varsPip, varsSto, varsLog,
                     varsShl, varsToo, varsCom >>
  \/ part = "records" /\ Rec!Next
     /\ UNCHANGED << part, varsTab, varsStr, varsUi, varsPip, varsSto, varsLog,
                     varsShl, varsToo, varsCom >>
  \/ part = "streams" /\ Str!Next
     /\ UNCHANGED << part, varsTab, varsRec, varsUi, varsPip, varsSto, varsLog,
                     varsShl, varsToo, varsCom >>
  \/ part = "ui" /\ Ui!Next
     /\ UNCHANGED << part, varsTab, varsRec, varsStr, varsPip, varsSto, varsLog,
                     varsShl, varsToo, varsCom >>
  \/ part = "pipelines" /\ Pip!Next
     /\ UNCHANGED << part, varsTab, varsRec, varsStr, varsUi, varsSto, varsLog,
                     varsShl, varsToo, varsCom >>
  \/ part = "store" /\ Sto!Next
     /\ UNCHANGED << part, varsTab, varsRec, varsStr, varsUi, varsPip, varsLog,
                     varsShl, varsToo, varsCom >>
  \/ part = "log" /\ Log!Next
     /\ UNCHANGED << part, varsTab, varsRec, varsStr, varsUi, varsPip, varsSto,
                     varsShl, varsToo, varsCom >>
  \/ part = "shell" /\ Shl!Next
     /\ UNCHANGED << part, varsTab, varsRec, varsStr, varsUi, varsPip, varsSto,
                     varsLog, varsToo, varsCom >>
  \/ part = "tools" /\ Too!Next
     /\ UNCHANGED << part, varsTab, varsRec, varsStr, varsUi, varsPip, varsSto,
                     varsLog, varsShl, varsCom >>
  \/ part = "composer" /\ Com!Next
     /\ UNCHANGED << part, varsTab, varsRec, varsStr, varsUi, varsPip, varsSto,
                     varsLog, varsShl, varsToo >>

Spec == Init /\ [][Next]_vars

-----------------------------------------------------------------------------
\* The rail holds no group and no tab twice whatever opener was used when, and
\* the one instance of the turn inspector shows the turn of the tab that is
\* active, however late the reads of other turns come back (store/tabs.ts,
\* ActivityDetailPanel.tsx).
WorkspaceSound == part = "tabs" => Tab!RailWellFormed /\ Tab!InspectorShowsItsTurn

\* No close, displacement, reopening or relogin leaves the content column blank,
\* and none but the close of that tab, or going home, takes a tab of settings,
\* history, activity or dev away (store/tabs.ts).
TabsStay == [][part = "tabs" => Tab!BlankStep /\ Tab!WorkspaceStep]_varsTab

\* The record form, the event editor and the pipeline editor hold the text of
\* what they were opened for, and a new event goes to a stream of its mapping,
\* whatever loads, saves and closings come back meanwhile (DetailRenderer.tsx,
\* StreamDetailPanel.tsx, NewEventPanel.tsx, PipelineListPanel.tsx).
EditorsHoldTheirSubject == 
  /\ part = "records" => Rec!FormShowsItsRecord
  /\ part = "streams" => Str!EditorHoldsItsEvent /\ Str!StreamOfItsMapping
  /\ part = "pipelines" => Pip!EditorHoldsItsPipeline

\* A run panel shows its own run, an inspector its own steps and a tuning form
\* the selected model: a reply that comes back after the user moved on is dropped
\* (PipelineRunPanel.tsx, useTurnPipelineSteps, useFinetuning).
LateReplyLandsNowhere == 
  /\ part = "pipelines" => Pip!PanelsShowTheirRun
  /\ part = "tools" => Too!TuningOfItsModel

\* Every control that loaded the ui state shows what a restart would read, unless
\* its read or the last write failed, and a save from a copy that was up to date
\* takes back no field of another control (store/ui-state.ts and its listeners).
ControlsAgree == part = "ui" => Ui!ControlsAgree

\* The result list shows the table after every save it can learn of, the history and activity
\* lists show theirs once no transaction is open, and the log ring is back within
\* its bound once no append is (ViewRenderer.tsx, chats.ts, turns.ts, log-
\* store.ts).
ListsShowTheTables == 
  /\ part = "records" => Rec!ListReflectsSaves
  /\ part = "store" => Sto!ListsShowTheTables
  /\ part = "log" => Log!RingBounded

\* Consumers that read the store show the same settings once no call is open and
\* no save went untold, and no window of the dev agent waits when no run is under
\* way (store/settings.ts, DevPanel.tsx).
ConsumersAgree == 
  /\ part = "shell" => Shl!ConsumersAgree
  /\ part = "tools" => Too!NobodyWaitsForNothing

\* While a draft is typed the view pill moves only to a view of the text as it
\* is, or of a drop: no late answer to an earlier keystroke changes it (Chat.tsx,
\* resolveStampRef).
PillFollowsTheText == [][part = "composer" => Com!PillStep]_varsCom
=============================================================================

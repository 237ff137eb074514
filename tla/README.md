# A verification of onisin

onisin is a set of Rust services (`services/`, `crates/`), four Tauri desktop apps
(`apps/oos`, `apps/oosd`, `apps/ooso`, `apps/bench`) and shared TypeScript packages. The
parts talk over NATS, keep their data in Postgres, and one machine's profile
(`oosrun.yaml`) starts one instance of each. This directory holds TLA+ models of the parts
that carry state through concurrency, failures and restarts, the TLC configurations that
check them, and machine-checked proofs of the main results. Paths below are relative to
`src/`.

Sections: 1 inventory · 2 modules · 3 runs and bounds · 4 fairness · 5 proofs ·
6 where code and documentation disagree · 7 not modelled · 8 plan · 9 how to run.

## 1. Inventory

| Part | State it keeps | Operations | Talks to | What is hard about it |
|---|---|---|---|---|
| **oosai** `services/oosai` | `oos.domain` / `oos.view` source rows, and the schema tables with the embedded chunks derived from them | `domain.save/delete`, `view.save/delete`, backfill at boot, search, embed | oosd (commands), Postgres, the embedding endpoint | one task per message; source row and chunk are two statements with a slow embed between; boot backfill works on a snapshot; several processes in one queue group; every statement may fail |
| **oosagent** `services/oosagent` | registry turnId → cancel flag; per-turn transcript, step count, trace | `turn.chat` (ReAct loop), `turn.ask`, `turn.translate`, `turn.cancel` | oos (requests, event stream), the LLM, tools | cancel races the loop; an LLM call that fails while a cancel is in; turnIds are timestamps of the clients |
| **oosgql** `services/oosgql` | cache of parsed domains | boot scan, reload on `oos.domain.changed`, `data.query`, `data.mutate` with a role gate | oosai's tables, oos | the scan, the reload and the requests interleave; select and apply are two steps; the database may be away at boot |
| **oosiam** `services/oosiam` and `apps/oos/src-tauri` login | authorization codes in memory, `iam.users`; the shell's listener and keychain | `/auth`, `/token`, user administration; `start_login`, `logout` | the browser | stale pages and callbacks, code expiry, role changes during a login, restart |
| **oos webview chat** `apps/oos/src/mainview` | scrollback, pending bubble, active chat, busy flag, saved chats | send, stop, open, clear, delete, agent events | oosagent, oosgql | every `await` lets the user, the events and the history panel in between |
| **oosmem** `services/oosmem` | `events.bin`, `events.idx`, `meta.bin`, graph in RAM | append, by id, streams, search, episodes, summary | bench and other clients | crash and power failure between four file operations; repair at start; failed calls followed by new ones |
| **oos webview, the rest of the window** | tab groups and active tab; one mounted panel with its form; UI blob, settings and their copies; Dexie tables; log ring; draft, pill and resolver index | open, focus, close; load, save, delete; pick, type, drop; login, logout | oosgql, oosagent, the shell, IndexedDB | React reuses or drops the mounted panel while its requests are under way; copies of one value in several components; replies in any order |
| **oosd** `apps/oosd` | rows and editor per kind, squiggles, live form and chunk, administration panels, settings copies, assistant | load, save, insert, delete, validate, ping, send | oosai, oosiam, a language worker | requests without stamps; a worker that reorders; busy flags; per-component copies |
| **ooso** `apps/ooso` | bus URL, connection, fleet table from heartbeats | subscribe, point at another bus, ingest, age, ask for an environment | all services | the URL changes while a dial is under way |
| **bench** `apps/bench` | settings file and memory, server connections, event buffer | save, rebuild, push, flush, clear | NATS servers | pokes on a bounded channel; flush racing new events |
| **`packages/oos-pipeline-ts`, `packages/oos-gql-ts`** | none | link, map, validate; build, admit and run a mutation; build and run a filtered query | (libraries; no app imports oos-gql-ts at this commit) | forward references; positional parameters; two round trips |
| `crates/oos-svc`, bench-nats | — | heartbeat, configuration, tool dispatch | all services | deadline racing the handler |
| oosmlx, `crates/oos-infer` | resident model, prefix cache | complete, embed | oosai, oosagent | one model behind a mutex, abandoned requests |
| oosrun | child processes | start, stop, restart, poll | the OS | exit racing stop and restart |
| `crates/oos-dsls`, other `packages/*` | none | parse, render, widgets | all | pure functions |

What makes each modelled part correct:

- *Schema index*: a chunk is always derived from a stored text, under the name that text
  declares; it is current once a save is answered, unless a named circumstance (overlap,
  failure, crash, shared name, a racing backfill) excuses it; a backfill that ran alone
  repairs everything; no step drops the chunk of a live row except the ones the code means to.
- *Turns*: a cancel that was acknowledged stops further work and is never reported as a
  failure; the transcript never has an unanswered tool call when the LLM is called; the
  stream of events ends the way the trace does; every turn is answered; the registry maps an
  id to a running turn and nothing else.
- *Domain cache*: after the announcements of a row are worked off the cache is no older than
  they were, and no request is let through by permissions outdated at the time it arrived.
- *Login*: the answer belongs to this login, only the first request with a code can be
  granted a token, and a user who lost groups obtains no token with them beyond the life of a
  code.
- *Chat*: a settled bubble shows its own turn's result wherever it is kept, chats do not
  take over each other's bubbles, and the input does not stay locked; where sends overlap, or a
  chat is opened before the auto-save, this does not hold and the case is named (§6).
- *Event store*: an acknowledged append survives every crash, is served under its id and
  listed once; an id readers have seen keeps its meaning; a killed process's store reopens.
- *The oos window*: what a form, an editor, a list, a pill or a control shows belongs to what
  the user has in front of them, whatever comes back late; copies of one value agree again
  once nothing is under way; no tab disappears that nobody closed.
- *Designer, observer, bench*: a text is edited and stored under its own row; squiggles never
  fall back to an older text, and no health of an older endpoint lands beside a newer one; a panel is busy only while it waits; the
  connections are those of the settings in force.
- *Packages*: in a pipeline that was accepted every step has its input; a mutation stores what it says.

## 2. Modules

| Module | Models | State ↔ code |
|---|---|---|
| `SchemaIndex` | oosai: `command_handler.rs`, `backfill.rs`, `domain_store.rs`, `main.rs` | `source`, `chunk`: the two tables; `phase`, `rows`, `todo`, `source_keys`, `orphans`: locals of `run_domains`/`run_views` per process; `task`: one spawned message handler each |
| `DerivedIndex` | what the index promises | abstract specification: save, delete, derive, drop |
| `AgentTurn` | oosagent: `turn.rs`, `chat.rs`, `main.rs` | `pc`, `step`, `calls`, `dangling`: the loop of `run_turn`; `cancels`: the registry; `events`, `status`: published events and trace |
| `DomainCache` | oosgql: `domain_store.rs`, `notify.rs`, `main.rs`, the gate of `data.rs` | `cache`: `DomainStore.cache`; `scan`, `reload`: results of a SELECT not yet applied; `inbox`: the subscription; `rows` keeps every version of a row |
| `Login` | `commands.rs`, `auth.rs` of the oos shell; oosiam `server.rs`, `store.rs`, `pkce.rs` | `pc`, `secret`, `held`, `answer`, `keychain`: the shell; `submit`, `codes`, `users`: oosiam; `callbacks`: the browser's history; `presented`, `tokens`: histories of `/token` |
| `ChatSession` | `useChat.ts`, `send` of `Chat.tsx`, `chats.ts`, parts of `rpc.ts`, `App.tsx` | `busy`, `pending`, `chatId`, `shown`: the hook's state and refs; `screen`: what was last rendered; `due`: an auto-save effect to run; `ids`: the millisecond each bubble is named by; `saved`: the chats table; `events`, `loads`, `deleting`: what is on the way |
| `EventStore` | oosmem: `store.rs`, `format.rs`, `append` of `server.rs` | `events`, `idx`: the files, cell by cell; `durable`: what fsync secured; `events_bytes`, `idx_bytes`, `by_id`, `by_stream`, `next_event_id`: the fields of `Store` |
| `TabWorkspace` | oos `store/tabs.ts`, `TabContent.tsx`, `TabRail.tsx`, the turn inspector | `groups`, `activeId`: the snapshot; `stamp`: the next `Date.now()`; `body`, `loads`: the inspector and its reads |
| `RecordEditing` | oos `ViewRenderer.tsx`, `DetailRenderer.tsx`, `domain-events.ts`, bound state of `oos-ui-ts`; `mutate` of oosgql's `data.rs` | `auto`: the view declares `auto_refresh`; `shown`, `inst`, `stage`, `form`, `rows`, `stamp`: the mounted renderer; `loads`, `mutations`: on the way; `table`: the rows behind oosgql |
| `EventStreams` | oos `StreamManagerPanel.tsx`, `StreamDetailPanel.tsx`, `NewEventPanel.tsx` | the panels' state; `calls`: on the way; `streams`, `events`: the backend |
| `UiState` | oos `store/ui-state.ts` and the controls over it | `store`, `queue`: the KV row and its pending requests; `hooks`: each control's copy; `unsaved`, `misread`: the last write failed, the reads that failed |
| `Pipelines` | oos `PipelineListPanel.tsx`, `PipelineRunPanel.tsx`, `store/pipeline-steps.ts` | `rows`, `selected`, `source`, `dirty`: the editor; `tabs`, `panel`, `runs`: runs; `inspected`, `steps`, `loads`: stored steps |
| `LocalStore`, `LogRing` | oos `store/db.ts`, `chats.ts`, `turns.ts`, `log-store.ts` and the panels that list them | `db`, `chatList`: the chats table and the list shown, each a function from id to `updatedAt`; `turnRows`, `turnList`; `txs`: the transactions queued; `logRows`, `entries`: the ring, a set of records numbered in the order they were written; `appends`: appends between two transactions; `failed`: an append that gave up left the ring too long |
| `Shell` | oos `store/settings.ts`, `auth.ts`, `LoginScreen.tsx`, `SettingsConnectionPanel.tsx`, `Footer.tsx` | `disk`: what the native side holds; `hook`, `form`: copies; `ipc`: calls in order, a load whose consumer is gone marked as cancelled; `health`, `pings` |
| `Tools` | oos `store/finetuning.ts`, model list, permissions, `TranslatePanel.tsx`, `DevPanel.tsx` | one panel per behaviour; `reads`, `saves`, `lists`, `asked`, `runs`: on the way |
| `Composer` | oos `Chat.tsx`, `store/resolver.ts`, `embedder.ts`, drops from `ChatHistoryPanel.tsx` | `text`, `manual`, `auto`: draft and view hint; `timer`, `resolves`, `dropping`, `waiting`: on the way |
| `Designer` | oosd `App.tsx`, `IdList.tsx`, `NewItemDialog.tsx`, `EditorPane.tsx`, `rpc.ts` | `st`: `KindState` per kind; `rows`: oosai's table; the wire |
| `Preview` | oosd `lang/worker/*`, `PreviewRenderer.tsx`, `ChunkPanel.tsx` | `text`, `markers`, `def`, chunk; `jobs`, `latest`, `nextId`: worker and clients |
| `Admin` | oosd KV, event-type, mapping, IAM, event, grammar and seed panels | one panel per behaviour; selection, content, busy flag, requests |
| `DesignerSettings` | oosd `store/settings.ts`, `SettingsPanel.tsx`, `Footer.tsx` | `file`; `copy` per component; `form`, `saves`, `models`; `seen`: what the footer's effects last ran for; `ping`, `health` |
| `Assistant` | oosd `ChatPanel.tsx`, `DslPills.tsx`, `embedder/dsl-resolver.ts` | `input`, `resolved`, `cleared`, `turns` |
| `Observer` | ooso `nats.ts`, `App.tsx`, `state.ts`, `ServiceTable.tsx` | URL, dials, open connections and those that `died`, feed, fleet |
| `Bench` | bench window, `observe.rs`, `settings.rs` | `store`, `mem`: file and `AppState`; `queue`, `sup`: channel and supervisor; buffer and list |
| `PipelineText` | `packages/oos-pipeline-ts` | `ast`, `verdict`; `at`, `have`, `missing`: the (external) runner |
| `GqlPackage` | `packages/oos-gql-ts` | `rows`: the table; `calls`: mutations between statement and re-read; `read`: the last answer of a query or re-read |
| `Window`, `Apps` | the parts of the oos window; the designer, observer, bench and packages | compositions: `part` and the variables of every part, see below |
| `MC…` | — | small instances for TLC |
| `SchemaIndexProofs`, `AgentTurnProofs`, `DomainCacheProofs`, `LoginProofs`, `ChatSessionProofs`, `EventStoreProofs`, `WindowProofs`, `AppsProofs` | — | theorems, see §5 |

A step ends where the code can be interleaved: at an SQL statement, at an `await`, at a file
operation, at a message. What lies between two such points is part of the action that
follows. Failures are actions (`…Fails`), a process's death is `Crash`, `Kill`, `Stop` or
`Restart`. Definitions whose comment starts with "Mutant" are deliberately wrong versions
of their neighbour, kept to show that the properties notice them; no specification uses
them.

**SchemaIndex.** `ReceiveSave`/`ReceiveDelete` spawn a task, `SaveSource`, `Reembed`,
`DeleteSource`, `DeleteChunk` are its statements, `SourceStatementFails`,
`ReembedSkipped` (a text that does not parse, an embed or upsert that failed; the code logs
and answers ok all the same) and `DeleteChunkFails` its failures. `FetchRows`, `SkipRow`,
`UpsertRow`, `ListKeys`, `PruneOrphan`, `BackfillDone` are the loop of a backfill. The
history variables `mode` (was the backfill alone, and without a failure), `raced`,
`excused` and `committed` only serve the properties. The domain and the view pair run the
same code, so one pair is modelled. A chunk is the text it was rendered from.

**DerivedIndex** is implemented by `SchemaIndex` (`Derived == INSTANCE DerivedIndex WITH ...`),
where `committed` is a history variable and the other two are the tables: proved, and checked by the run `index_processes`.

**AgentTurn.** `Register` puts a turn's flag in the registry, `BuildPrompt`, `CallLlm`,
`LlmAnswers`, `LlmCallsTools`, `LlmFails`, `StartTool`, `EndTool`, `CallsDone`,
`StepLimit`, `CancelAtTop`, `CancelAtCall` are the loop, `Reply` removes the registration
and answers. What the LLM and the tools say is free. `Cancel(i)` is the cancel command for
the turnId `i`; nothing makes turnIds distinct, so a later registration takes the entry
over and the first to finish removes it, as the code does.

**DomainCache.** `LoadAllSelect`/`LoadAllApply` and `ReloadSelect`/`ReloadApply` split each
SELECT from the use of its result; `Commit` is a write by oosai; `Publish` stands for the
publisher that the code expects and that does not exist (§6), so that what the subscriber
does can be checked.

**Login.** An attempt's verifier and state are one secret. Pages and callback URLs stay in
the browser and can be used again while the next attempt listens on the same port. The
clock is shared by both sides. `/token` serves whoever asks: an attempt that holds a code asks
with it as often as it likes, its reply may be lost, and a code that is in a callback URL may be
presented with a verifier that is not its own.

**ChatSession.** A scrollback maps each send to the text of its bubble, in six classes
(placeholder, own answer, note for an empty answer, error, another turn's text, absent).
`AgentEnds` is the turn as `AgentTurn` has it, reduced to its outcome. `Enter` is the composer's
`send` up to its `await`, judged by the `busy` that was rendered; `Send` follows later with that
same `busy`, so two sends can run at once, and two in one millisecond share a bubble id.
`Settle` is the continuation of a send, `Render` the render after it, `AutoSave` the passive
effect after that; other continuations may come between any two of them. The histories
`overlapped` (sends that ran beside another) and `crossed` (chats that became active while an
auto-save was due) name the two cases the properties excuse.

**The user interfaces.** A component's state is its `useState`/`useRef` fields; a step is one
event handler, effect or promise continuation up to its next `await`, so whatever React or the
user does between two of them is another step. Requests are records in a set or a queue; the
other side serves them in any order, or in the order issued where the code relies on it
(IndexedDB transactions, calls of the native side), and may fail. Data is abstracted to whose
it is: a source text is the row it was written for and a revision, a view hint is the text it
was resolved from, an answer is the request it answers. Where a stamp, a `cancelled` flag or a
`latest` id protects against a late answer the model has it, and where the code has none the
answer lands, as in the code. A failure the code swallows (`kvGet`, `kvSet`) is an outcome of
the call, not an action that may be left out. Passive effects that a property depends on
(`AutoSave`, `Effects` of `DesignerSettings`) are steps of their own. A number of calls of `apps/oos/src/mainview/rpc.ts` (406-425,
463, 486) are stubs at this commit that answer "not yet migrated"; the panels over them are
modelled against the contract they are written for, with success and failure both possible.

**Window, Apps.** Parts of one app that share no state are composed into one specification: `part` is
chosen in `Init` and never changes, the part's module is instantiated over variables with its
prefix, and all other variables keep one value. A behaviour of `Window` with `part =
"records"` is exactly a behaviour of `RecordEditing`, and so on; nothing is multiplied. A
property of the composition is the conjunction of what its parts promise on one theme. `MCWindow`
and `MCApps` are their instances.

**PipelineText, GqlPackage** turn pure code into a check: `PipelineText` lets the validator
decide on every pipeline of bounded size and then runs what was accepted, with a runner that
has rows for the db sources and the steps that ran, for no docs source, and stops where a step
reads something else; `GqlPackage` takes every data map of a set
through builder, schema and SQL and compares the rows that result with what the map says,
and every set of filter arguments through the operators of its column types and the WHERE
clause to the rows it selects.

**EventStore.** A file is a sequence of cells; a cell is a record or `Torn`, bytes that do
not decode. `WriteEvents`, `SyncEvents`, `WriteIdx`, `SyncIdx` are the four calls of
`append_event`, `AppendFails` an error from any of them. `Open`, `RepairRecord`,
`RepairTruncate`, `RepairFails`, `LoadDone` are `open_or_create`, `repair_idx` and `load`.
`Kill` ends the process and leaves the files; `PowerLoss` leaves of each file a prefix that
is at least as long as what was fsynced, perhaps with a torn cell at its end. Assumed of
the file system: an fsync that returns ok secures the whole file, lost data is lost from
the end, bytes that are not one whole record do not decode (`decode_event` checks lengths,
not a checksum), and 28 bytes overwritten in place are written whole or not at all.

## 3. Runs and bounds

| Run | Instance | Checks | Shows |
|---|---|---|---|
| `index_processes` | 2 processes, 1 command slot, keys 1..3, 2 row ids, 3 texts (one does not parse) | `CleanBootReconciles`, `SearchableUnlessExcused`, `LiveChunkKept`, `ImplementsDerivedIndex` | passes |
| `index_commands` | 1 process, 2 command slots, 1 row, 4 texts, one of which declares another name; fair | `CommandAnswered`, `BackfillEnds` | passes |
| `turns` | 2 chat turns with the same turnId, 1 plain turn, 2 steps, 1 tool call per reply; fair | `TranscriptComplete`, `RegistryExact`, `StreamMatchesTrace`, `CancelStopsWork`, `CancelIsNoFailure`, `TurnAnswered` | passes |
| `cache_gate` | 2 rows, 2 definitions, 1 commit per row, 2 waiting messages | `AnnouncedVersionCached`, `PermissionNotOutdated` | passes |
| `login` | 2 attempts, 1 user, 2 group lists, 2 codes, code life 1, clock up to 2; any number of requests to `/token` | `AnswerIsForThisLogin`, `CodeGrantsOnce`, `RevocationTakesHold` | passes |
| `chat` | 2 of 3 possible sends (a chat turn, an ask, an event), 2 chats, 2 loads in flight; fair | `SettledBubbleIsOwn`, `ChatsDoNotMix`, `BusyClears` | passes |
| `chat_events` | 2 chat sends | `EventsFillOwnBubble` | violated (§6) |
| `events` | 3 appends to 2 streams, any number of failures, kills, power failures | `AckedSurvives`, `AckedServed`, `IdDenotesOneEvent`, `KilledStoreReopens` | passes |
| `events_crash` | the same | `CrashIsRepaired` | violated (§6) |
| `window` | the ten parts of `Window`, each with its own bounds in `Window.cfg` | `WorkspaceSound`, `TabsStay`, `EditorsHoldTheirSubject`, `LateReplyLandsNowhere`, `ControlsAgree`, `ListsShowTheTables`, `ConsumersAgree`, `PillFollowsTheText` | passes |
| `apps` | the parts of `Apps`: designer, worker, panels, settings, observer, bench, pipeline validator, mutation and query builder | `TextStaysWithItsRow`, `SquigglesNeverGoBack`, `BusyMeansUnderWay`, `HealthOfTheUrl`, `FeedOfTheBus`, `ConnectionsFollowSettings`, `AcceptedRunsThrough`, `StoredAsAsked` | passes |
| `assistant` | 2 drafts, 2 domains, 1 view, 3 keystrokes, 2 sends | `InjectedAsShown` | violated (§6) |

The parts behind the properties of `window` and `apps`:

| Property | Part and what it says of it |
|---|---|
| `WorkspaceSound` | tabs: no tab twice, no empty group, Welcome exactly when nothing else is open; the inspector shows the turn of its tab once its read is in, also when reads come back after the tab changed |
| `TabsStay` | tabs: the content column goes blank only through the two calls that focus a panel that may be closed; a step that takes a workspace tab away closed exactly that tab, or went home |
| `EditorsHoldTheirSubject` | records: the form holds the record of its tab; streams: the editor holds the event it was opened for, a new event goes to a stream of the chosen mapping; pipelines: the editor holds the selected pipeline's source |
| `LateReplyLandsNowhere` | pipelines: a run panel shows its own run, an inspector its own steps; tools: the tuning values shown as loaded are the selected model's, whether read or announced by a save |
| `ControlsAgree` | UI state: with nothing under way every mounted control is loaded; a loaded one shows what a restart would read, unless its own read or the last write failed; a save issued while no other is under way takes back no other control's field |
| `ListsShowTheTables` | records: a list that is ready shows the table but for mutations still to be answered, unless it missed one: with `auto_refresh` one published between its query's answer and its ready stage or one whose reply was lost, without it any; local store: history and activity show the tables once no transaction is open; log ring: back within its bound once no append is under way and none has failed since it was |
| `ConsumersAgree` | shell: all consumers show one value of the settings once no call is open and every save was announced; tools: neither dev window waits when no run is under way |
| `PillFollowsTheText` | composer: a late embedding never changes the pill away from the text as it is |
| `TextStaysWithItsRow` | designer: what is edited and stored under a row was written for it; preview: the chunk shown catches up with its text |
| `SquigglesNeverGoBack` | preview: markers only move to newer texts |
| `BusyMeansUnderWay` | panels: busy only while the awaited request is under way |
| `HealthOfTheUrl` | settings: once the footer's effects ran for the settings it shows, every LLM ping awaited is of the endpoint in force, and the health shown is of it or such a ping is awaited |
| `FeedOfTheBus` | observer: the shared connection is open and to the bus set last; once no switch is under way the feed was subscribed on a connection to that bus, which no switch has closed |
| `ConnectionsFollowSettings` | bench: with nothing under way the supervisor runs the servers of the settings in force |
| `AcceptedRunsThrough` | pipeline text: in what the validator accepts no step lacks its source or input, but for an llm step that names a docs source |
| `StoredAsAsked` | mutations: a statement that changes the table does what the data map says; a query returns exactly the rows its filter names |

Why the bounds are enough for the interesting cases. *Index*: a rival of a save is another
command or another process's backfill; two actors show every race of a pair, and the proofs
drop the bound. Three keys allow a name that is an id, a name that is another row's id and
a name that is no id. *Turns*: two turns that share an id reach every order of register,
cancel and unregister; two steps give a first, a last and an exhausted step. A message
with two tool calls is beyond the five minutes of a run (`MaxCalls` = 1); `TranscriptTheorem`
has it for any number. *Cache*: one
commit per row already gives old/new in every order of scan, message and reload; a second
waiting message overtakes the first. *Login*: the second attempt meets everything the first
left behind. A code life of 1 and a clock of 2 allow a code in time, at its limit and late.
*Chat*: two sends, of the same or of different kinds, one after the other or overlapping, and two
loads that come back in either order, before, between and after them. *Events*: a failed append, the
append that reuses its id, and one after it; crashes and repairs are not bounded at all.
*Window and apps*: a late answer needs two requests on the way and a user action between them;
every part has two subjects (records, streams, models, URLs, rows) and room for two to five
requests. The log ring has a limit of 2, the bench channel of 1, so that both overflow. Three
bus URLs let a dial be overtaken twice. The two numbers `STALE` and `GONE` of the observer are
0 and 1 against a clock up to 2, so that a row goes stale, is dropped and comes back.
`PipelineText` has every pipeline of one or two sources, of one or two names, and one or two
steps, enough for a step that names itself, a later step, an earlier one, a source of either
kind and none. Three dials of the observer allow one that fails, one that closes by itself and
one that a switch overtakes.

Deadlock is not checked for `EventStore` (a store that was refused stays refused, and nothing
else happens in that model), nor for `window`, `apps` and `assistant`, where the bounds on user
actions and requests let every behaviour end. Each module keeps a `TypeOK` where the proofs or
the reader need one; the runs spend their time on the properties above.

Symmetry is used for processes, for the random values of `Login` and for two requests to
one stream, and only in runs without liveness properties.

## 4. Fairness

- `SchemaIndex`: weak fairness of each process's backfill step and each task's step. The
  tokio runtime polls a ready task, the embed request has a timeout (30 s, three tries) and a
  failing statement returns. No fairness for crashes, boots or arriving commands.
- `AgentTurn`: weak fairness of each turn's step: tokio polls the task, LLM calls and the
  bus requests of the tools time out.
- `ChatSession`: weak fairness of the steps of `send` and of `Render`; the request has a
  timeout, which is the step that makes it return when the answer never comes, and React
  renders a state that was set. None for `Enter`, loads, events or the auto-save.
- The other modules have safety properties only. That a panel's busy flag ends is stated as
  a relation between the flag and the requests under way (`BusyMeansUnderWay`), which needs no
  assumption about when an answer comes.

## 5. Proofs

Eight modules prove, for every value of the constants that meets the named `ASSUME`s, each
safety invariant, action property and refinement the passing runs check, with one exception
(`StoredAsAsked`, below). The bounds of the models (`Max…`) are constants like the others:
any number of rows, texts, processes, tasks, turns, attempts, sends, requests, tabs or calls.
Each proof is the usual one: an invariant that holds initially, that every action keeps (one
lemma or step per action) and that implies the property. What follows names that invariant and
why the property is not inductive without it.

**SchemaIndexProofs** (assumptions: keys are naturals, `None` is no key, text or process,
`NameOf` and `Saves` are typed).

- `TypeCorrect`: `TypeInv` = `TypeOK` with what the slot of a task holds at each step.
- `ServiceImplementsDerivedIndex`: `StoredInv` says that everything a process or task still
  carries (fetched rows, the text of a save about to be embedded) was once stored; without it
  a `Reembed` could not be matched with `Derive`. Each action is then a step of
  `DerivedIndex` or leaves its variables alone.
- `CleanBootTheorem`: `BootInv` per process. `AloneInv`: the snapshot of a backfill nobody
  overtook still is the source table. `ExactInv`: the rows behind the loop have their chunk,
  the last row with a name winning, and every other chunk is still to be pruned.
  `Reconciled`: the claim itself, kept until somebody writes again.
- `LiveChunkTheorem`: from `AloneInv`, which says that an orphan of an undisturbed backfill
  is declared by no row.
- `SearchableTheorem`: `ExcuseInv`. `RivalInv`: two commands in flight on one key are marked
  as raced. `CurrentInv`: a save that is not raced still carries the text of its row.
  `SharedInv`: a name two rows declare is excused. The claim is not inductive without the
  first two: the step that writes the chunk has to know that the row did not change since.

**AgentTurnProofs** (assumptions: `IdOf`, `KindOf` typed, at least one step and one call).
`Inv` = `TypeOK` ∧ `OwedInv` (tool calls owed in the transcript are the ones not yet
returned) ∧ `HolderInv`, `OwnerInv` (whose flag the registry holds, and how long) ∧ `AckInv`
(an acknowledged cancel's flag is up). From it: `TypeCorrect`, `TranscriptTheorem`,
`RegistryTheorem`, `CancelStopsWorkTheorem`, `CancelIsNoFailureTheorem`. `StreamTheorem` has
an invariant of its own, `StreamInv`: at every point of the loop, how many starts and ends of
tools the stream holds and which closing event, by cardinalities of sets of positions.

**DomainCacheProofs** (assumptions: finitely many numbered rows; `Bad` and `None` are no
definitions). `CacheTheorem`, `GateTheorem`. `QuietInv`: messages are only queued for a process
that subscribed. `ScanInv`, `ReloadInv`: what a SELECT has brought and nobody has applied yet is
a version of the row, and not one older than the last message unless that message still waits;
this is what lets an old result be applied after a newer message came in. `HeldInv`: a
cached definition is one the row has had, needed for the gate.

**LoginProofs** (assumptions: the administrator is a user, there are groups, `None` is none of
the values). `AnswerTheorem` rests on `SecretInv` (a page carries its attempt's secret, the
shell keeps it while the attempt lasts) and `CodeInv` (a code is bound to the secret of the
page it was issued for): between the password and the token three parties hold a piece of the
claim. `CodeTheorem`: `GrantInv`, a code that was ever
presented is no longer outstanding and is not issued again. `RevocationTheorem`: `RevokeInv`
follows the groups read at the password check through the page and the code to the token,
with the time each was read.

**ChatSessionProofs** (assumptions: every send has a kind, `None` is no send, chat or answer).
`Inv` = `TypeOK` ∧ `ProgressInv` (a send has an id and a chat from its start, a result at its
end) ∧ `SoloInv` (a send that overlaps no other has its bubble id to itself, runs alone while
busy is up, and its bubble is not pending once it is settled) ∧ `ShownInv` ∧ `DueInv` ∧ `KeptInv`
(the same claim of the scrollback on screen, of the one an auto-save that is due will write, and
of every one that is saved or being loaded). `SettledTheorem` and `ChatsTheorem` are what
`ShownInv` and `KeptInv` say; `DueInv` and the loads on their way have to be part of the
invariant because they replace what is saved or shown when they land.

**EventStoreProofs** (assumptions: `StreamOf` typed; `Torn` and `None` are no records). The
largest invariant, since an answered append must survive any number of failures, kills, power
failures and repairs. Of the files: `TornInv` (bytes that do not decode are at the end),
`PositiveInv`, `OrderInv` (entries go forward and never back to a smaller id), `OwnInv` (an
entry leads to a record of its id), `RisingInv` (so do the records). Of the process: `RepairInv`,
`UpInv`, `AppendInv` (where repair, service and the append under way are with the two files; at
most one entry of a failed append lies behind the counted part). Of the clients: `AckInv` (an
answered append is durably in both files, and the first to carry its id), `KnownInv` (the same,
not durably, of what readers have seen while the power held), `HoleInv` (a record that load
would have to take up is where it will find it), `CleanInv` (without a power failure or a short
write the idx is whole), `RamInv` (the maps are what the counted entries say). From it:
`TypeCorrect`, `SurvivalTheorem`, `ServiceTheorem`, `IdTheorem`, `ReopenTheorem`. None of the
four is inductive alone: that a reused id never displaces an answered record needs the order
of ids in both files, across every repair.

**WindowProofs** (assumptions: panels and topics are finite lists without repetition, not
empty; finitely many chat ids; the ring's bound and the largest record id are naturals; the
default endpoint is an endpoint). Each part has its invariant, guarded by `part = "…"`.

- `WorkspaceTheorem`, `TabsStayTheorem`: `TabRail`. Every tab is at home in the group of its
  kind, so two openers that decide by id and by kind agree; no tab carries a stamp from the
  future, so a stamped tab is new; the history and dev groups hold exactly their tab, so
  focusing an open group never blanks the column there. The proof is by the four ways a rail
  is made of another (groups kept, a group joined, a tab joined, a tab closed), each a lemma,
  over lemmas about `Filter`.
- `EditorsTheorem`: `RecFormInv` (a load or mutation with the current stamp belongs to the
  tab shown), `StrCallsInv`, `StrModeInv`, `StrPickInv` (what a call carries is the text of
  the event it names; the one wanted list is of the mapping picked), `PipListInv` (a source
  travels with its pipeline's name).
- `LateReplyTheorem`: `PipRunInv`, `PipStepsInv`, `TooTuningInv` (the one load that is not
  cancelled is of what is inspected or selected; an announced save is taken by its own model).
- `ControlsTheorem`: `UiLine`, `UiShown`, `UiAlone`: a control that is not loaded has its read
  in the line, one that is shows the store unless a failure is on record; a write that was
  alone has only reads before it, so the store is still what its control saw.
- `ListsTheorem`: `RecListInv` (at most one load is not late, and the answer it carries is the
  table but for mutations unanswered, unless a change went unheard); `StoLists` (a list shows its table, or a listing is still in
  the queue behind the last write); `LogRepairs` (some append under way has read enough to
  bring the ring back within its bound).
- `ConsumersTheorem`: `ShlSettingsInv`, `TooDevInv`. `PillTheorem`: `ComStamps`, a current
  stamp was given to the draft as it is.

**AppsProofs** (assumptions: the bench channel holds at least one poke; the bounds on sources
and steps of a pipeline are naturals).

- `TextTheorem`: `DesState`: what is stored, edited or on the wire under a row was made for
  it; `PreChunkInv`. `SquigglesTheorem`: `PreWorkerInv`, `PreMarkersInv`: request ids are
  given out once and in the order of texts.
- `BusyTheorem`: `AdmInv`, every busy flag has its request. `HealthTheorem`: `SetInv`, the
  LLM pings under way are of the endpoint the effects last ran for, and its health is shown or
  awaited.
- `FeedTheorem`: `ObsDialsInv`, `ObsConnInv`, `ObsEffectInv`: a subscription that is on the
  wrong bus, or on a connection being closed by a switch, belongs to an effect that will be run
  again.
- `ConnectionsTheorem`: `BenInv`, a snapshot the supervisor has not read has its poke, in the
  channel or about to be sent.
- `RunsThroughTheorem`: `TxtInv`, the runner has rows for all db sources and for the steps
  before the one it is at. `MaxSources` and `MaxPipelineSteps` are constants of the theorem, so
  it holds for pipelines of any length.

The proofs changed the models where these could not be reasoned about, never in what they do:
the lists of `LocalStore` became functions, the ring of `LogRing` a set of numbered records, the
filters of `TabWorkspace` an explicit `Filter`; `Shell` and `UiState` mark a cancelled load
instead of removing it, as the code does; `Window` and `Apps` were split from their instances.

Only model-checked: the liveness properties (`CommandAnswered`, `BackfillEnds`, `TurnAnswered`,
`BusyClears`), because the prover does not reason about fairness and `ENABLED`; and
`StoredAsAsked`, because `GqlPackage` puts column names together from strings and selects from
sequences with operators the provers have no theory of.

## 6. Where code and documentation disagree

Shown by a run:

1. `chat_events`. An event of another turn fills the pending bubble (`useChat.ts:497`,
   against 95). `SettledBubbleIsOwn` shows that the final answer puts it right.
2. `events_crash`. A crash may leave a store that `open_or_create` refuses, against
   `store.rs:8-11`: an idx entry cut short (`store.rs:123`), or a repaired entry whose record
   was never fsynced (`store.rs:218`, `233`). `AckedSurvives` shows that the data is still
   there, `KilledStoreReopens` that a killed process alone never causes it.
3. `assistant`. The X of a pill hides it, and its domain or view is sent all the same
   (`apps/oosd/.../ChatPanel.tsx:127`, against `DslPills.tsx:4-7`).

Seen while modelling, not the subject of a run. Services:

- Two overlapping saves of one row, each in its own task: the rows are written in one order,
  the chunks in the other, both are answered ok and the older text stays searchable
  (`command_handler.rs:143`, against the comment at 136). oosd gives up after 10 s and the user
  saves again while an embed may take three times 30 s. `SearchableUnlessExcused` carries this
  overlap as a named excuse.
- Delete passes the row id where the schema row's key is the declared name
  (`command_handler.rs:156`, against `backfill.rs:71` and `command_handler.rs:409`): the chunk
  of a row that declares another name stays until the next boot, which `CleanBootReconciles`
  shows to remove it.
- Nothing publishes `oos.domain.changed` (`notify.rs:17`; `notify.rs:3` says oosai does): an
  edited domain reaches oosgql with the next restart only.
- The token exchange of the login has no timeout (`commands.rs:209`); a Stop pressed before
  oosagent registered the turn is lost (`useChat.ts:441`); a chat deleted during its turn is
  written again by the auto-save (`App.tsx:212`); two oosmem instances on one data directory are
  not kept apart (`server.rs:6`).

- A row saved mid-edit so that it does not parse keeps its chunk until the next restart, whose
  backfill prunes it (`backfill.rs:86`; the comment at `command_handler.rs:138` says the chunk
  stays).
- A cancel may be answered `cancelled: true` when the last LLM call is in flight; the turn then
  ends with its answer (`chat.rs:153`, against `useChat.ts:76-78`). `CancelIsNoFailure` is what
  does hold.
- A code nobody redeems stays in oosiam's memory until a restart: only `/token` removes codes
  (`server.rs:209`, against "they last at most code_ttl_sec" at 11). An old one is refused there.
- A turn with an empty answer whose closing event is lost stays on its placeholder
  (`useChat.ts:328`, against 323-325).
- The auto-save and the Activity record of a turn use the chat that is open when the turn ends
  (`useChat.ts:423`, against 20-22). The auto-save is an effect after the render: a chat opened
  or started between the end of the turn and the effect gets the messages of the chat before
  (`useChat.ts:421-439`, 465-470), and one cleared there is not saved (`ChatsDoNotMix` excepts
  the chats in `crossed`).
- Two sends can overlap. `send` of the composer awaits a drop's embedding (`Chat.tsx:329-330`)
  with the draft still open, and `useChat` then judges by the `busy` of that render
  (`useChat.ts:126`). The two share `pending`; the first to settle lowers `busy` under the
  second, whose answer is then not auto-saved; sent in one millisecond they share a bubble.
  `SettledBubbleIsOwn` speaks of sends that did not overlap. Enter pressed while the chat is busy
  only clears the draft.
- oosmem: two appends that fail after their record was written, to different streams, may both
  be adopted under one id after a crash; the first stream's listing then shows the second's
  event. Neither was acknowledged; `AckedServed` holds for those that were.

User interfaces and packages (the models do what the code does here, and the properties leave
these cases out by name):

- oos, records: a list follows saves only if its view declares `auto_refresh`
  (`ViewRenderer.tsx:205-217`, optional in `view.langium:64`); without it the list is stale until it
  is loaded again, and with it a save published between the answer of the list's query and its
  ready stage, and a mutation whose reply was lost, go unheard. An `auto_refresh` that names
  another domain or event is not modelled. The renderers send an empty role, which oosgql refuses
  (`data.rs:124-126`), so that at this commit mutations end in `MutateRefused`.
- oos, UI state: `kvGet` and `kvSet` swallow their errors (`rpc.ts:525-532`) and `saveUiState` tells the
  listeners all the same (`ui-state.ts:40-43`): after a failed write the controls show what is not
  stored, after a failed read the defaults, which the next save then stores. Two saves under
  way at once each write the whole blob, and the later takes the earlier one's field back.
- oos, streams: a late close reply may show the closed text of another event
  (`StreamDetailPanel.tsx:382-383`, `mode.closed`); `EditorsHoldTheirSubject` is about the event and
  its text only.
- oos, losing or misplacing edits: switching tabs drops unsaved edits of a form; the ui state
  keeps a stream under another mapping after the mapping changed; a draft deleted to nothing
  keeps its pill; a drop may insert the chat of an earlier drag; a late `Saved` clears the dirty
  flag of later edits in the pipeline editor (the same in oosd `App.onSave`), and Ctrl+S there
  runs a stale closure; saving tuning values before they are loaded stores defaults.
- oos, others: concurrent appends over-prune the log ring, and the panel's text names another
  number of entries than it lists; a saved settings file whose `store.save` failed leaves
  consumers that disagree; saving the connection panel can drop the issuer; logout keeps the
  keychain token if its removal fails; dev events go to both dev windows; the model list has no
  stamp; a swap while translating puts the result on the other side; an ask tab may show
  another ask's answer; a second run may start in the tab of a first.
- oosd: a late model list of an older URL replaces the newer one and blanks the model
  chosen meanwhile (`SettingsPanel.tsx:225`); a late `selectId` reply replaces unsaved edits or reselects a deleted row; an insert
  may overwrite an existing row (`rpc.ts`, about 169); late keys, sources or grammars are shown
  under another bucket, type or tab; toggling a mapping's type writes the set of the mapping
  before, and a failed load wipes it; the user panel's create leaves the groups draft of another
  user (`IamPanel.tsx:77-95`, against 3-5); settings say "Saved" without waiting; a loaded text is
  not validated until it is edited; a preview may fall back to an older text, and a pending parse
  promise is never rejected; an `{ok: false}` of the assistant leaves it busy until cancel, and
  cancel does not stop a send that is still loading.
- oosd, settings and squiggles: the NATS indicator is labelled with `settings.natsUrl` and
  `pingNats` asks the fixed `ws://localhost:4223` whatever the URL (`rpc.ts:134-143`, `nats.ts:19`);
  after a change of the endpoint the old health stays beside the new name until the first answer,
  and for good when the endpoint was emptied (`Footer.tsx:45-61`). After `clearMarkers` a late reply of
  the row before still draws its squiggles, which `diagnostics-client.ts:118-122` means to prevent.
- ooso: a connection that closes by itself is forgotten (`nats.ts:69`) and the subscription on it
  is not renewed: the table falls silent until the bus is changed, although ooso's own heartbeat
  dials again. Two dials may be open at once although `nats.ts:46` says callers share one; the catch of
  an old dial forgets the newer one.
- bench: overlapping panel saves lose updates; the snapshot of `ready` may overwrite newer
  badges; a buffered event may be delivered after newer ones, or stay in the buffer.
- oos-pipeline-ts: the validator accepts an llm step whose source is a docs source
  (`validator.ts:117-119`), while a docs source is "not yet consumed by any step" (`types.ts:35-36`,
  `pipeline.langium:29-30`); `AcceptedRunsThrough` excepts exactly this step.
- oos-gql-ts: an insert without RETURNING whose driver names no id is reported as failed after
  its row was written (`sql-resolvers.ts:103-104`); an update whose map holds only the id and readonly fields is not refused as
  `build-mutation.ts` says; the id `0.5` becomes row 0; a re-read in the second round trip may see
  a later write.

## 7. Not modelled

Postgres, NATS, IndexedDB, the LLM and the embedding model are the environment: statements
are atomic, messages may be delayed or never come, answers are arbitrary. The text of prompts,
chunks and SQL, vector arithmetic and rendering are left out. `components` in `PROJECT.json`
lists every part with its status. Left out on purpose: generated parsers and ASTs
(`packages/*/src/generated`), themes, field widgets, icons and documentation text, vendored
mlx-rs, the numerical part of inference, and file, process and SQL tools of bench. Of the
designer's consumers of the settings the footer's copy and the open section's are modelled; the
others behave as the footer's. Of the parts
in scope these operations are still missing: oosai's global prompts and its event-type and
mapping commands (single statements); oosgql's SQL builders and query path, and the schema generation of `oos-gql-ts`; oosiam's password
change (it changes nothing the model keeps); oosmem's snapshot of `meta.bin` and a second
instance on the same data directory; oosrun; bench's tool deadlines.

## 8. Plan

Done: `SchemaIndex` with `DerivedIndex`; `AgentTurn`; `DomainCache`; `Login`; `ChatSession`;
`EventStore`; the oos window (ten modules); the designer (five modules); `Observer`; `Bench`;
`PipelineText`; `GqlPackage`; and the proofs of their safety properties (§5).

Next theorems: an abstract log of acknowledged appends (append, lose what was not
acknowledged, read) that `EventStore` is shown to implement, from the invariant already proved;
`StoredAsAsked` over a `GqlPackage` whose column names are pairs instead of strings.

Next modules: `Runner` (`tools/oosrun/src/proc.rs`): no child is lost track of, stop ends with
the child gone. `Dispatcher` (`apps/bench/src-tauri/src/dispatcher.rs`): deadlines and late
answers. A composition of `AgentTurn` and `ChatSession` over an event channel that loses and
delays. An abstract log that `EventStore` implements. `Designer` composed with the commands of
`SchemaIndex`.

## 9. How to run

```
tlc -workers 2 -config SchemaIndex_processes.cfg MCSchemaIndex   # likewise every other run
tlapm SchemaIndexProofs.tla     # likewise AgentTurnProofs, DomainCacheProofs, LoginProofs,
                                # ChatSessionProofs, EventStoreProofs, AppsProofs, WindowProofs
```

`PROJECT.json` lists components, runs, the mutant for each property, the source lines behind
each definition, the findings, the hazards and the theorems.

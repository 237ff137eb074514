-------------------------------- MODULE Bench --------------------------------
(***************************************************************************)
(* The bench desktop app: the window (apps/bench/src/mainview) with its    *)
(* settings panels, server badges and event list, and behind it observe.rs *)
(* (src-tauri): AppState, the ready, clear and save_settings commands, and *)
(* the supervisor that rebuilds the NATS connections after a save.  The    *)
(* log list is fed and cleared like the event list and is left out, the    *)
(* files and databases behind the tools too.                               *)
(*                                                                         *)
(* The settings are the servers, the roots and two revisions that stand    *)
(* for the fields of the General and Database forms.                       *)
(***************************************************************************)
EXTENDS Naturals, Sequences

CONSTANTS
  Servers, Roots,
  Found,                \* the servers in the settings file at the start
  MAX_EVENTS, MAX_BUF, QueueCap, MaxOps

VARIABLES
  store, mem,           \* settings.json, AppState.settings
  queue,                \* pokes in the reconnect channel
  sup,                  \* the supervisor: phase, the settings it connects, servers to do
  statuses,             \* AppState.statuses
  viewReady, flushDue,  \* view_ready, and the flush that ready spawned
  buffer, pushing,      \* tool_buffer, and a push_tool that has looked at view_ready
  bus,                  \* Tauri events under way to the window
  calls,                \* save_settings calls under way
  readyCall,            \* the ready call: "sent", its answer, or "done"
  settings, badges,     \* the window: useSettings, statuses
  events, paused,       \* the window: useEventStore, pausedRef
  made, saved, flips    \* bounds

bench == << store, mem, queue, sup, statuses, viewReady, flushDue, buffer, pushing, bus, calls,
            readyCall, settings, badges, events, paused, made, saved, flips >>

window == << settings, badges, events, paused >>
backend == << store, mem, queue, sup, statuses, viewReady, flushDue, buffer, pushing >>

DEFAULT_SETTINGS == [servers |-> {}, roots |-> {}, general |-> 0, database |-> 0]

Init ==
  /\ store = [DEFAULT_SETTINGS EXCEPT !.servers = Found]
  /\ mem = store
  /\ queue = 0
  /\ sup = [phase |-> "connecting", snap |-> store, todo |-> store.servers]
  /\ statuses = [s \in Servers |-> FALSE]
  /\ viewReady = FALSE /\ flushDue = FALSE
  /\ buffer = << >> /\ pushing = [event |-> 0, sawReady |-> FALSE]
  /\ bus = << >> /\ calls = {}
  /\ readyCall = [stage |-> "sent", settings |-> DEFAULT_SETTINGS, statuses |-> statuses]
  /\ settings = DEFAULT_SETTINGS /\ badges = statuses
  /\ events = << >> /\ paused = FALSE
  /\ made = 0 /\ saved = 0 /\ flips = 0

-----------------------------------------------------------------------------
\* The bound on what the user and the outside world do.
Budget == saved + made + flips < MaxOps

\* The settings panels: each saves the settings as the window shows them with
\* its own part changed, and does not wait for a save that is under way.
SaveSettings(next) ==
  /\ Budget
  /\ saved' = saved + 1
  /\ calls' = calls \cup {[n |-> saved, stage |-> "sent", next |-> next]}
  /\ UNCHANGED << backend, window, bus, readyCall, made, flips >>

AddServer == \E s \in Servers : SaveSettings([settings EXCEPT !.servers = @ \cup {s}])

RemoveServer ==
  \E s \in settings.servers : SaveSettings([settings EXCEPT !.servers = @ \ {s}])

AddRoot == \E r \in Roots \ settings.roots : SaveSettings([settings EXCEPT !.roots = @ \cup {r}])

RemoveRoot == \E r \in settings.roots : SaveSettings([settings EXCEPT !.roots = @ \ {r}])

SubmitGeneral == SaveSettings([settings EXCEPT !.general = saved + 1])

SubmitDatabase == SaveSettings([settings EXCEPT !.database = saved + 1])

Step(c, stage) == calls' = (calls \ {c}) \cup {[c EXCEPT !.stage = stage]}

\* save_settings writes the file, or fails and changes nothing else.
SaveFile ==
  \E c \in calls :
    /\ c.stage = "sent"
    /\ \/ store' = c.next /\ Step(c, "filed")
       \/ UNCHANGED store /\ Step(c, "failed")
    /\ UNCHANGED << mem, queue, sup, statuses, viewReady, flushDue, buffer, pushing, bus,
                    readyCall, window, made, saved, flips >>

Poke == queue' = IF queue < QueueCap THEN queue + 1 ELSE queue

\* Mutant: the supervisor is poked before the snapshot it will read is there.
PokeFirst(c) ==
  \/ c.stage = "filed" /\ Poke /\ Step(c, "written") /\ UNCHANGED mem
  \/ c.stage = "written" /\ mem' = c.next /\ Step(c, "answered") /\ UNCHANGED queue

\* Then the shared snapshot, then the poke; a full channel already has one.
WriteThenPoke(c) ==
  \/ c.stage = "filed" /\ mem' = c.next /\ Step(c, "written") /\ UNCHANGED queue
  \/ c.stage = "written" /\ Poke /\ Step(c, "answered") /\ UNCHANGED mem

SaveProceeds ==
  /\ \E c \in calls : WriteThenPoke(c)
  /\ UNCHANGED << store, sup, statuses, viewReady, flushDue, buffer, pushing, bus, readyCall,
                  window, made, saved, flips >>

\* notifySettingsChange: every useSettings takes the value.
notifySettingsChange(value) == settings' = value

\* The answer: notifySettingsChange with what this call sent.
SaveAnswered ==
  \E c \in calls :
    /\ c.stage \in {"answered", "failed"}
    /\ calls' = calls \ {c}
    /\ notifySettingsChange(IF c.stage = "answered" THEN c.next ELSE settings)
    /\ UNCHANGED << backend, bus, readyCall, badges, events, paused, made, saved, flips >>

-----------------------------------------------------------------------------
\* supervisor: a poke tears the connections down and connect_all reads the
\* settings afresh, then goes through the servers one by one.
Rebuild ==
  /\ sup.phase = "idle" /\ queue > 0
  /\ queue' = queue - 1
  /\ sup' = [phase |-> "connecting", snap |-> mem, todo |-> mem.servers]
  /\ UNCHANGED << store, mem, statuses, viewReady, flushDue, buffer, pushing, bus, calls,
                  readyCall, window, made, saved, flips >>

\* push_status: stored always, emitted once the window is ready.
PushStatus(s, up) ==
  /\ statuses' = [statuses EXCEPT ![s] = up]
  /\ bus' = IF viewReady THEN Append(bus, [server |-> s, up |-> up, tool |-> 0]) ELSE bus

ConnectOne ==
  /\ sup.phase = "connecting"
  /\ \E s \in sup.todo, up \in BOOLEAN :
       PushStatus(s, up) /\ sup' = [sup EXCEPT !.todo = @ \ {s}]
  /\ UNCHANGED << store, mem, queue, viewReady, flushDue, buffer, pushing, calls, readyCall,
                  window, made, saved, flips >>

Connected ==
  /\ sup.phase = "connecting" /\ sup.todo = {}
  /\ sup' = [sup EXCEPT !.phase = "idle"]
  /\ UNCHANGED << store, mem, queue, statuses, viewReady, flushDue, buffer, pushing, bus, calls,
                  readyCall, window, made, saved, flips >>

\* The client's event callback: a connection drops or comes back.
LinkChanges ==
  /\ sup.phase = "idle" /\ Budget
  /\ flips' = flips + 1
  /\ \E s \in sup.snap.servers : PushStatus(s, ~statuses[s])
  /\ UNCHANGED << store, mem, queue, sup, viewReady, flushDue, buffer, pushing, calls,
                  readyCall, window, made, saved >>

-----------------------------------------------------------------------------
\* push_tool looks at view_ready first and buffers or emits afterwards.
ToolEvent ==
  /\ pushing.event = 0 /\ Budget
  /\ made' = made + 1
  /\ pushing' = [event |-> made + 1, sawReady |-> viewReady]
  /\ UNCHANGED << store, mem, queue, sup, statuses, viewReady, flushDue, buffer, bus, calls,
                  readyCall, window, saved, flips >>

Tool(e) == [server |-> "", up |-> FALSE, tool |-> e]

PushTool ==
  /\ pushing.event # 0
  /\ IF pushing.sawReady
     THEN bus' = Append(bus, Tool(pushing.event)) /\ UNCHANGED buffer
     ELSE LET longer == Append(buffer, pushing.event)
          IN /\ buffer' = IF Len(longer) > MAX_BUF THEN Tail(longer) ELSE longer
             /\ UNCHANGED bus
  /\ pushing' = [event |-> 0, sawReady |-> FALSE]
  /\ UNCHANGED << store, mem, queue, sup, statuses, viewReady, flushDue, calls, readyCall,
                  window, made, saved, flips >>

\* ready: the view is marked ready and the flush scheduled, then the settings
\* and the statuses are read for the answer.
MarkReady ==
  /\ readyCall.stage = "sent" /\ ~viewReady
  /\ viewReady' = TRUE /\ flushDue' = TRUE
  /\ UNCHANGED << store, mem, queue, sup, statuses, buffer, pushing, bus, calls, readyCall,
                  window, made, saved, flips >>

ReadSnapshot ==
  /\ readyCall.stage = "sent" /\ viewReady
  /\ readyCall' = [stage |-> "answered", settings |-> mem, statuses |-> statuses]
  /\ UNCHANGED << backend, bus, calls, window, made, saved, flips >>

Flush ==
  /\ flushDue
  /\ flushDue' = FALSE
  /\ bus' = bus \o [i \in 1 .. Len(buffer) |-> Tool(buffer[i])]
  /\ buffer' = << >>
  /\ UNCHANGED << store, mem, queue, sup, statuses, viewReady, pushing, calls, readyCall,
                  window, made, saved, flips >>

-----------------------------------------------------------------------------
\* The listeners of rpc.ts, which hand an event to every subscriber.
Subscribers(e) == IF e.tool # 0 THEN "tools" ELSE "statuses"

\* App: the bootstrap's answer replaces the settings and all the badges.
Ready ==
  /\ readyCall.stage = "answered"
  /\ readyCall' = [readyCall EXCEPT !.stage = "done"]
  /\ notifySettingsChange(readyCall.settings)
  /\ badges' = readyCall.statuses
  /\ UNCHANGED << backend, bus, calls, events, paused, made, saved, flips >>

\* addEvent: newest first, cut off; nothing is added while paused.
addEvent(e) ==
  IF paused THEN events ELSE SubSeq(<< e >> \o events, 1, IF Len(events) < MAX_EVENTS
                                                          THEN Len(events) + 1 ELSE MAX_EVENTS)

Deliver ==
  /\ bus # << >>
  /\ bus' = Tail(bus)
  /\ LET e == Head(bus)
     IN IF Subscribers(e) = "tools"
        THEN events' = addEvent(e.tool) /\ UNCHANGED badges
        ELSE badges' = [badges EXCEPT ![e.server] = e.up] /\ UNCHANGED events
  /\ UNCHANGED << backend, calls, readyCall, settings, paused, made, saved, flips >>

handlePause ==
  /\ Budget
  /\ paused' = ~paused
  /\ UNCHANGED << backend, bus, calls, readyCall, settings, badges, events, made, saved, flips >>

\* The lists are emptied, and so is what the backend has not flushed yet.
handleClear ==
  /\ events # << >>
  /\ events' = << >>
  /\ buffer' = << >>
  /\ UNCHANGED << store, mem, queue, sup, statuses, viewReady, flushDue, pushing, bus, calls,
                  readyCall, settings, badges, paused, made, saved, flips >>

Next ==
  \/ AddServer \/ RemoveServer \/ AddRoot \/ RemoveRoot \/ SubmitGeneral \/ SubmitDatabase
  \/ SaveFile \/ SaveProceeds \/ SaveAnswered
  \/ Rebuild \/ ConnectOne \/ Connected \/ LinkChanges
  \/ ToolEvent \/ PushTool \/ MarkReady \/ ReadSnapshot \/ Flush
  \/ Ready \/ Deliver \/ handlePause \/ handleClear

Spec == Init /\ [][Next]_bench

-----------------------------------------------------------------------------
\* "Best-effort poke: a full channel means a reconnect is already queued."  Once
\* the channel is empty, the supervisor idle and no save between its write and
\* its poke, the connections are those of the settings in force, however the
\* saves overlapped with each other and with a rebuild.
ConnectionsFollowSettings ==
  queue = 0 /\ sup.phase = "idle" /\ (\A c \in calls : c.stage # "written")
    => sup.snap = mem
=============================================================================

------------------------------- MODULE Pipelines -------------------------------
(***************************************************************************)
(* Pipelines in the oos webview: the list and its editor                   *)
(* (PipelineListPanel.tsx), the tab of a run (PipelineRunPanel.tsx,        *)
(* store/tabs.ts) and the steps of a stored turn (store/pipeline-steps.ts).*)
(* A source is the pipeline it was written for and an edition number; the  *)
(* runner is external, and pushes progress and one result per run to       *)
(* whoever is subscribed then.                                             *)
(***************************************************************************)
EXTENDS Naturals, FiniteSets, Sequences, SequencesExt

CONSTANTS Pipes,     \* names of pipelines
          Turns,     \* turns whose steps can be inspected
          MaxEdits,  \* bound: edits of the source
          MaxCalls,  \* bound: calls of the list panel
          MaxRuns,   \* bound: runs, and tabs of runs
          MaxMounts  \* bound: tabs shown, one after the other

None == "none"
ListTab == 100   \* the tab of the list, and the one of a turn's steps, among the
StepsTab == 101  \* numbers of tabs

VARIABLES remote,     \* the stored source of every pipeline, NoSource if there is none
          rows,       \* PipelineListPanel: pipelines, a set
          selected, source, dirty, saving, \* PipelineListPanel
          edits,      \* how many edits there were
          calls,      \* calls of the panel under way, each with what its closure captured
          issued,     \* how many calls there were
          tabs,       \* pipeline_run payloads, by number of tab
          shown,      \* the tab shown: ListTab, StepsTab or the number of a run tab
          panel,      \* PipelineRunPanel: its state while mounted
          starts,     \* runPipeline under way: the mount that asked, and its tab
          mounts,     \* how many tabs were shown
          runs,       \* accepted runs: the tab each is for; running, then done
          inspected,  \* useTurnPipelineSteps: turnId
          steps,      \* the turn the steps shown belong to
          loaded,     \* useTurnPipelineSteps
          loads       \* loadPipelineSteps under way: turn, cancelled

list == <<remote, rows, selected, source, dirty, saving, edits, calls, issued>>
run == <<tabs, shown, panel, starts, mounts, runs>>
inspector == <<inspected, steps, loaded, loads>>
pipes == <<list, run, inspector>>

(* ---- the list and its editor ---- *)
newTemplate(p) == [of |-> p, n |-> 0]
NoSource == newTemplate(None)
Listing == shown = ListTab
Names == {r.name : r \in rows}
SourceOf(p) == (CHOOSE r \in rows : r.name = p).source

(* A call is in two steps: the service answers, then the closure resumes   *)
(* with the selection and the source it captured, where it uses them; what *)
(* it sets is dropped when the panel is gone.                              *)
Call(kind, p, src, sel) ==
  [id |-> issued, kind |-> kind, name |-> p, source |-> src, selected |-> sel,
   reply |-> None, live |-> TRUE, rows |-> {}]

Issue(c) == Listing /\ issued < MaxCalls /\ issued' = issued + 1 /\ calls' = calls \cup {c}

handleSelect(p) ==
  /\ Listing /\ p \in Names /\ selected # p
  /\ selected' = p /\ source' = SourceOf(p) /\ dirty' = FALSE
  /\ UNCHANGED <<remote, rows, saving, edits, calls, issued, run, inspector>>

Edit ==
  /\ Listing /\ selected # None /\ edits < MaxEdits
  /\ source' = [of |-> selected, n |-> edits + 1]
  /\ dirty' = TRUE /\ edits' = edits + 1
  /\ UNCHANGED <<remote, rows, selected, saving, calls, issued, run, inspector>>

handleCreate(p) ==
  /\ p \notin Names
  /\ Issue(Call("create", p, newTemplate(p), None))
  /\ UNCHANGED <<remote, rows, selected, source, dirty, saving, edits, run, inspector>>

handleDelete(p) ==
  /\ p \in Names
  /\ Issue(Call("delete", p, NoSource, selected))
  /\ UNCHANGED <<remote, rows, selected, source, dirty, saving, edits, run, inspector>>

CanSave == selected # None /\ dirty /\ ~saving

handleSave ==
  /\ CanSave
  /\ saving' = TRUE
  /\ Issue(Call("save", selected, source, None))
  /\ UNCHANGED <<remote, rows, selected, source, dirty, edits, run, inspector>>

Stored == {[name |-> p, source |-> remote[p]] : p \in {q \in Pipes : remote[q] # NoSource}}

(* oos.cmd.pipeline.list, save and delete at the service. *)
Answer(c) ==
  /\ c.reply = None
  /\ \E ok \in BOOLEAN :
       /\ calls' = (calls \ {c}) \cup {[c EXCEPT !.reply = IF ok THEN "ok" ELSE "failed",
                                               !.rows = IF ok THEN Stored ELSE {}]}
       /\ remote' = IF ~ok \/ c.kind = "list" THEN remote
                    ELSE [remote EXCEPT ![c.name] = IF c.kind = "delete" THEN NoSource ELSE c.source]
  /\ UNCHANGED <<rows, selected, source, dirty, saving, edits, issued, run, inspector>>

Listed(c) == rows' = c.rows /\ UNCHANGED <<selected, source, dirty, saving>>

Created(c) ==
  /\ rows' = rows \cup {[name |-> c.name, source |-> c.source]}
  /\ selected' = c.name /\ source' = c.source /\ dirty' = FALSE
  /\ UNCHANGED saving

Deleted(c) ==
  /\ rows' = {r \in rows : r.name # c.name}
  /\ IF c.selected = c.name THEN selected' = None /\ source' = NoSource /\ dirty' = FALSE
                            ELSE UNCHANGED <<selected, source, dirty>>
  /\ UNCHANGED saving

Saved(c) ==
  /\ rows' = {IF r.name = c.name THEN [r EXCEPT !.source = c.source] ELSE r : r \in rows}
  /\ dirty' = FALSE /\ saving' = FALSE
  /\ UNCHANGED <<selected, source>>

Resume(c) ==
  /\ c.reply # None
  /\ calls' = calls \ {c}
  /\ IF c.live /\ c.reply = "ok" THEN CASE c.kind = "list"   -> Listed(c)
                              [] c.kind = "create" -> Created(c)
                              [] c.kind = "delete" -> Deleted(c)
                              [] c.kind = "save"   -> Saved(c)
     ELSE /\ saving' = (saving /\ ~(c.live /\ c.kind = "save"))
          /\ UNCHANGED <<rows, selected, source, dirty>>
  /\ UNCHANGED <<remote, edits, issued, run, inspector>>

(* ---- the tab of a run ---- *)
(* Each call opens a fresh tab. *)
openPipelineRun ==
  /\ Listing /\ selected # None /\ Len(tabs) < MaxRuns
  /\ tabs' = Append(tabs, [status |-> "idle", output |-> 0, run |-> 0])
  /\ UNCHANGED <<list, shown, panel, starts, mounts, runs, inspector>>

(* updatePipelineRunTab: what an update does not carry stays. *)
updatePipelineRunTab(t, status, output, id) ==
  tabs' = [tabs EXCEPT ![t] = [status |-> status, output |-> IF output = 0 THEN @.output ELSE output,
                               run |-> IF id = 0 THEN @.run ELSE id]]

NoPanel == [mount |-> 0, status |-> "idle", run |-> 0, output |-> 0, progress |-> 0]

(* TabContent mounts the tab shown and unmounts the one before: the list   *)
(* starts empty with loadList, the steps with a load.                      *)
ListUnmounted ==
  /\ rows' = {} /\ selected' = None /\ source' = NoSource /\ dirty' = FALSE /\ saving' = FALSE
  /\ calls' = {[c EXCEPT !.live = FALSE] : c \in calls}
  /\ UNCHANGED issued

ShowList ==
  /\ ~Listing /\ mounts < MaxMounts /\ issued < MaxCalls
  /\ shown' = ListTab /\ mounts' = mounts + 1 /\ panel' = NoPanel
  /\ issued' = issued + 1
  /\ calls' = calls \cup {Call("list", None, NoSource, None)}
  /\ inspected' = None /\ steps' = None /\ loaded' = FALSE
  /\ loads' = {[l EXCEPT !.cancelled = TRUE] : l \in loads}
  /\ UNCHANGED <<remote, rows, selected, source, dirty, saving, edits, tabs, starts, runs>>

(* A stored output is shown, a stored run is waited for, and only without  *)
(* either is a run started, after an error too.                            *)
Mount(t) ==
  LET p == tabs[t]
      cold == p.output = 0 /\ p.run = 0
  IN /\ shown # t /\ mounts < MaxMounts /\ (cold => Cardinality(starts) + Len(runs) < MaxRuns)
     /\ shown' = t /\ mounts' = mounts + 1
     /\ panel' = [mount |-> mounts + 1, run |-> p.run, output |-> p.output, progress |-> 0,
                  status |-> IF p.output # 0 THEN "done"
                             ELSE IF p.status = "error" /\ ~cold THEN "error" ELSE "running"]
     /\ starts' = IF cold THEN starts \cup {[mount |-> mounts + 1, tab |-> t]} ELSE starts
     /\ ListUnmounted
     /\ inspected' = None /\ steps' = None /\ loaded' = FALSE
     /\ loads' = {[l EXCEPT !.cancelled = TRUE] : l \in loads}
     /\ UNCHANGED <<remote, edits, tabs, runs>>

(* start(): the reply is written to the tab even when the panel is gone.   *)
Started(s) ==
  /\ starts' = starts \ {s}
  /\ \/ /\ runs' = Append(runs, [tab |-> s.tab, state |-> "running"])
        /\ updatePipelineRunTab(s.tab, "running", 0, Len(runs) + 1)
        /\ panel' = IF panel.mount = s.mount THEN [panel EXCEPT !.run = Len(runs) + 1] ELSE panel
     \/ /\ updatePipelineRunTab(s.tab, "error", 0, 0)
        /\ panel' = IF panel.mount = s.mount THEN [panel EXCEPT !.status = "error"] ELSE panel
        /\ UNCHANGED runs
  /\ UNCHANGED <<list, shown, mounts, inspector>>

(* subscribePipelineRunProgress of the mounted panel. *)
Progress(id) ==
  /\ runs[id].state = "running" /\ panel.mount # 0 /\ panel.run = id /\ panel.progress = 0
  /\ panel' = [panel EXCEPT !.progress = id]
  /\ UNCHANGED <<list, tabs, shown, starts, mounts, runs, inspector>>

(* subscribePipelineRunResult of the mounted panel: a result of another    *)
(* run is passed over, and one that nobody is subscribed to is lost.       *)
ForThisPanel(id) == panel.mount # 0 /\ panel.run = id

Result(id) ==
  /\ runs[id].state = "running"
  /\ runs' = [runs EXCEPT ![id].state = "done"]
  /\ \E ok \in BOOLEAN :
       IF ~ForThisPanel(id) THEN UNCHANGED <<tabs, panel>>
       ELSE IF ok THEN /\ panel' = [panel EXCEPT !.status = "done", !.output = id]
                       /\ updatePipelineRunTab(shown, "done", id, 0)
       ELSE /\ panel' = [panel EXCEPT !.status = "error"]
            /\ updatePipelineRunTab(shown, "error", 0, 0)
  /\ UNCHANGED <<list, shown, starts, mounts, inspector>>

(* ---- the steps of a turn ---- *)
Inspect(t) ==
  /\ inspected # t /\ mounts < MaxMounts
  /\ shown' = StepsTab /\ mounts' = mounts + 1 /\ panel' = NoPanel
  /\ ListUnmounted
  /\ inspected' = t /\ loaded' = FALSE
  /\ loads' = {[l EXCEPT !.cancelled = TRUE] : l \in loads} \cup {[turn |-> t, cancelled |-> FALSE]}
  /\ UNCHANGED <<remote, edits, tabs, starts, runs, steps>>

StepsLoaded(l) ==
  /\ loads' = loads \ {l}
  /\ IF l.cancelled THEN UNCHANGED <<steps, loaded>> ELSE steps' = l.turn /\ loaded' = TRUE
  /\ UNCHANGED <<list, run, inspected>>

Init ==
  /\ remote \in {[p \in Pipes |-> IF p \in S THEN newTemplate(p) ELSE NoSource] : S \in SUBSET Pipes}
  /\ rows = {} /\ selected = None /\ source = NoSource
  /\ dirty = FALSE /\ saving = FALSE /\ edits = 0 /\ calls = {} /\ issued = 0
  /\ tabs = <<>> /\ shown = StepsTab /\ panel = NoPanel /\ starts = {} /\ mounts = 0 /\ runs = <<>>
  /\ inspected = None /\ steps = None /\ loaded = FALSE /\ loads = {}

Next ==
  \/ Edit \/ handleSave \/ openPipelineRun \/ ShowList
  \/ \E p \in Pipes : handleSelect(p) \/ handleCreate(p) \/ handleDelete(p)
  \/ \E c \in calls : Answer(c) \/ Resume(c)
  \/ \E t \in DOMAIN tabs : Mount(t)
  \/ \E s \in starts : Started(s)
  \/ \E id \in DOMAIN runs : Progress(id) \/ Result(id)
  \/ \E t \in Turns : Inspect(t)
  \/ \E l \in loads : StepsLoaded(l)

Spec == Init /\ [][Next]_pipes

(* The result a run tab stores, and the result and the progress its panel  *)
(* shows, are of a run started for that tab, and the steps shown as loaded *)
(* are those of the inspected turn: results of other tabs' runs, replies   *)
(* to unmounted panels and late loads do not get in (PipelineRunPanel.tsx  *)
(* result.runId !== runId, the cancelled flag of useTurnPipelineSteps).    *)
PanelsShowTheirRun ==
  /\ \A t \in DOMAIN tabs : tabs[t].output # 0 => runs[tabs[t].output].tab = t
  /\ \A id \in {panel.output, panel.progress} \ {0} : runs[id].tab = shown
  /\ loaded => steps = inspected

(* The text under a pipeline's name in the editor was written for that     *)
(* pipeline: no reply that arrives after the selection moved puts another  *)
(* pipeline's source there (PipelineListPanel.tsx).                        *)
EditorHoldsItsPipeline == selected # None => source.of = selected
================================================================================

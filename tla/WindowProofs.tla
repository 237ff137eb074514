---------------------------- MODULE WindowProofs ----------------------------
(***************************************************************************)
(* The properties of Window proved for every value of its constants.  A    *)
(* behaviour stays with the part it started with, so each theorem rests on *)
(* inductive invariants of single parts, guarded by part = "...".          *)
(***************************************************************************)
EXTENDS Window, FiniteSetTheorems, TLAPS

-----------------------------------------------------------------------------
(* The tool panels. *)

\* The one load of tuning values that is not cancelled is of the selected model,
\* and values shown as loaded are of that model.
TooTuningInv ==
  /\ \A r \in tooReads : /\ DOMAIN r = {"model", "cancelled", "value"}
                         /\ ~r.cancelled => r.model = tooModelId
  /\ Too!TuningOfItsModel

\* A window of the dev agent that waits is mounted, and it waits for a run.
TooDevInv ==
  /\ DOMAIN tooTab = {"name", "mounted", "busy", "msgs"}
  /\ DOMAIN tooColumn = {"name", "mounted", "busy", "msgs"}
  /\ tooTab.busy => tooTab.mounted
  /\ Too!NobodyWaitsForNothing

TooInv == part = "tools" => TooTuningInv /\ TooDevInv

\* The invariant holds of the tool panels as they start.
LEMMA TooInitial == Init => TooInv
<1> SUFFICES ASSUME Init, part = "tools"
             PROVE  TooTuningInv /\ TooDevInv
  BY DEF TooInv
<1>1. Too!Init
  BY DEF Init
<1>2. TooTuningInv
  BY <1>1 DEF Too!Init, TooTuningInv, Too!TuningOfItsModel
<1>3. TooDevInv
  BY <1>1 DEF Too!Init, TooDevInv, Too!NobodyWaitsForNothing
<1> QED
  BY <1>2, <1>3

\* Every step of the tool panels keeps the loads with their model: a new model
\* cancels the loads of the others.
LEMMA TooTuningStep == ASSUME TooTuningInv, Too!Next
                       PROVE  TooTuningInv'
<1> USE DEF TooTuningInv, Too!TuningOfItsModel
<1>1. ASSUME NEW m, Too!SwitchModel(m)
      PROVE  TooTuningInv'
  BY <1>1 DEF Too!SwitchModel
<1>2. ASSUME NEW r \in tooReads, Too!TuningLoaded(r)
      PROVE  TooTuningInv'
  <2>1. CASE Too!Wanted(r)
    BY <1>2, <2>1 DEF Too!TuningLoaded, Too!Wanted
  <2>2. CASE ~Too!Wanted(r)
    BY <1>2, <2>2 DEF Too!TuningLoaded
  <2> QED
    BY <2>1, <2>2
<1>3. ASSUME NEW r \in tooReads, Too!loadFinetuning(r)
      PROVE  TooTuningInv'
  <2>1. PICK v : tooReads' = (tooReads \ {r}) \cup {[r EXCEPT !.value = v]}
    BY <1>3 DEF Too!loadFinetuning
  <2>2. LET q == [r EXCEPT !.value = v]
        IN  /\ DOMAIN q = {"model", "cancelled", "value"}
            /\ q.model = r.model /\ q.cancelled = r.cancelled
    OBVIOUS
  <2>3. UNCHANGED << tooModelId, tooTuning, tooLoaded >>
    BY <1>3 DEF Too!loadFinetuning
  <2> QED
    BY <2>1, <2>2, <2>3
<1>4. ASSUME NEW v, Too!EditTuning(v) \/ Too!SaveTuning(v)
      PROVE  TooTuningInv'
  BY <1>4 DEF Too!EditTuning, Too!SaveTuning
<1>6. ASSUME NEW w \in tooSaves, Too!TuningStored(w) \/ Too!TuningTold(w)
      PROVE  TooTuningInv'
  BY <1>6 DEF Too!TuningStored, Too!TuningTold, Too!ToldOf
<1>5. CASE UNCHANGED Too!tuningvars
  BY <1>5 DEF Too!tuningvars
<1> QED
  BY <1>1, <1>2, <1>3, <1>4, <1>5, <1>6 DEF Too!Next, Too!EditSource, Too!EditEndpoint,
     Too!ChooseModel, Too!ModelsListed, Too!Permissions, Too!translate,
     Too!Translated, Too!swap, Too!ToggleTab, Too!ClearColumn, Too!DevSend,
     Too!DevToken, Too!DevEnds

\* Every step of the tool panels leaves no window waiting without a run: the end
\* of any run ends the waiting of every window that is mounted.
LEMMA TooDevStep == ASSUME TooDevInv, Too!Next
                    PROVE  TooDevInv'
<1> USE DEF TooDevInv, Too!NobodyWaitsForNothing
<1>1. ASSUME NEW w, Too!DevSend(w)
      PROVE  TooDevInv'
  BY <1>1 DEF Too!DevSend, Too!Started, Too!Idle
<1>2. ASSUME NEW r \in tooRuns, Too!DevToken(r)
      PROVE  TooDevInv'
  BY <1>2 DEF Too!DevToken, Too!Streamed
<1>3. ASSUME NEW r \in tooRuns, Too!DevEnds(r)
      PROVE  TooDevInv'
  BY <1>3 DEF Too!DevEnds, Too!EndsBusy
<1>4. CASE Too!ToggleTab
  BY <1>4 DEF Too!ToggleTab
<1>5. CASE Too!ClearColumn
  BY <1>5 DEF Too!ClearColumn
<1>6. CASE UNCHANGED Too!devvars
  BY <1>6 DEF Too!devvars
<1> QED
  BY <1>1, <1>2, <1>3, <1>4, <1>5, <1>6 DEF Too!Next, Too!SwitchModel,
     Too!loadFinetuning, Too!TuningLoaded, Too!EditTuning, Too!SaveTuning,
     Too!TuningStored, Too!TuningTold, Too!EditSource,
     Too!EditEndpoint, Too!ChooseModel, Too!ModelsListed, Too!Permissions,
     Too!translate, Too!Translated, Too!swap

\* The invariant of the tool panels holds in every behaviour.
LEMMA TooInvariance == Spec => []TooInv
<1>1. TooInv /\ [Next]_vars => TooInv'
  <2> SUFFICES ASSUME TooInv, [Next]_vars
               PROVE  TooInv'
    OBVIOUS
  <2>1. CASE part = "tools" /\ part' = part /\ Too!Next
    BY <2>1, TooTuningStep, TooDevStep DEF TooInv
  <2>2. CASE part' # "tools" \/ UNCHANGED << part, varsToo >>
    BY <2>2 DEF TooInv, TooTuningInv, TooDevInv, Too!TuningOfItsModel,
                Too!NobodyWaitsForNothing, varsToo
  <2> QED
    BY <2>1, <2>2 DEF Next, vars
<1> QED
  BY <1>1, TooInitial, PTL DEF Spec

-----------------------------------------------------------------------------
(* Pipelines: the list and its editor. *)

\* A source travels with the name of the pipeline it was written for: in the
\* stored pipelines, in the rows, in what a call carries and in its answer.
PipRowsInv(rs) == \A r \in rs : DOMAIN r = {"name", "source"} /\ r.source.of = r.name

PipCallInv(c) ==
  /\ DOMAIN c = {"id", "kind", "name", "source", "selected", "reply", "live", "rows"}
  /\ c.kind \in {"list", "create", "delete", "save"}
  /\ c.kind \in {"create", "save"} => c.source.of = c.name
  /\ PipRowsInv(c.rows)

PipListInv ==
  /\ DOMAIN pipRemote = PipPipes
  /\ \A p \in PipPipes : pipRemote[p] # Pip!NoSource => pipRemote[p].of = p
  /\ PipRowsInv(pipRows)
  /\ \A c \in pipCalls : PipCallInv(c)
  /\ Pip!EditorHoldsItsPipeline

\* The rows the service answers with.
LEMMA PipStored == ASSUME PipListInv PROVE PipRowsInv(Pip!Stored)
  BY DEF PipListInv, PipRowsInv, Pip!Stored

\* A call that is sent keeps the invariant when what it carries is of its name.
LEMMA PipIssue ==
  ASSUME PipListInv, NEW c, PipCallInv(c), Pip!Issue(c), pipRemote' = pipRemote,
         pipRows' = pipRows, pipSelected' = pipSelected, pipSource' = pipSource
  PROVE  PipListInv'
  BY DEF PipListInv, Pip!Issue, Pip!EditorHoldsItsPipeline

\* The panel that is left forgets its rows, its selection and its source, and
\* its calls keep what they carry.
LEMMA PipUnmounted ==
  ASSUME PipListInv, Pip!ListUnmounted, pipRemote' = pipRemote
  PROVE  PipListInv'
<1>1. \A c \in pipCalls' : PipCallInv(c)
  <2>1. \A c \in pipCalls : PipCallInv([c EXCEPT !.live = FALSE])
    BY DEF PipListInv, PipCallInv
  <2> QED
    BY <2>1 DEF Pip!ListUnmounted
<1>2. PipRowsInv(pipRows')
  BY DEF Pip!ListUnmounted, PipRowsInv
<1> QED
  BY <1>1, <1>2 DEF PipListInv, Pip!ListUnmounted, Pip!EditorHoldsItsPipeline

\* What the service answers is of the name of the row.
LEMMA PipAnswer ==
  ASSUME PipListInv, NEW c \in pipCalls, Pip!Answer(c)
  PROVE  PipListInv'
<1>1. PICK ok \in BOOLEAN :
        /\ pipCalls' = (pipCalls \ {c}) \cup
             {[c EXCEPT !.reply = IF ok THEN "ok" ELSE "failed",
                        !.rows = IF ok THEN Pip!Stored ELSE {}]}
        /\ pipRemote' = IF ~ok \/ c.kind = "list" THEN pipRemote
                        ELSE [pipRemote EXCEPT ![c.name] =
                                IF c.kind = "delete" THEN Pip!NoSource ELSE c.source]
  BY DEF Pip!Answer
<1>2. PipCallInv(c)
  BY DEF PipListInv
<1> DEFINE rs == IF ok THEN Pip!Stored ELSE {}
           d  == [c EXCEPT !.reply = IF ok THEN "ok" ELSE "failed", !.rows = rs]
<1>3. PipRowsInv(rs)
  BY PipStored DEF PipRowsInv
<1> HIDE DEF rs
<1>4. PipCallInv(d)
  BY <1>2, <1>3 DEF PipCallInv
<1>5. pipCalls' = (pipCalls \ {c}) \cup {d}
  BY <1>1 DEF rs
<1> HIDE DEF d
<1>6. \A e \in pipCalls' : PipCallInv(e)
  BY <1>4, <1>5 DEF PipListInv
<1>7. /\ DOMAIN pipRemote' = PipPipes
      /\ \A p \in PipPipes : pipRemote'[p] # Pip!NoSource => pipRemote'[p].of = p
  <2>1. CASE ~ok \/ c.kind = "list"
    BY <1>1, <2>1 DEF PipListInv
  <2>2. CASE ~(~ok \/ c.kind = "list")
    <3> DEFINE v == IF c.kind = "delete" THEN Pip!NoSource ELSE c.source
    <3>1. v # Pip!NoSource => v.of = c.name
      BY <1>2, <2>2 DEF PipCallInv
    <3>2. pipRemote' = [pipRemote EXCEPT ![c.name] = v]
      BY <1>1, <2>2
    <3> HIDE DEF v
    <3> QED
      BY <3>1, <3>2 DEF PipListInv
  <2> QED
    BY <2>1, <2>2
<1> QED
  BY <1>6, <1>7 DEF PipListInv, Pip!Answer, Pip!EditorHoldsItsPipeline

\* What a call that comes back leaves in the list and in the editor is of its name.
LEMMA PipResume ==
  ASSUME PipListInv, NEW c \in pipCalls, Pip!Resume(c)
  PROVE  PipListInv'
<1>1. PipCallInv(c)
  BY DEF PipListInv
<1>2. /\ pipRemote' = pipRemote
      /\ \A e \in pipCalls' : PipCallInv(e)
  BY DEF PipListInv, Pip!Resume
<1>3. PipRowsInv(pipRows') /\ Pip!EditorHoldsItsPipeline'
  <2> USE DEF Pip!EditorHoldsItsPipeline, PipRowsInv, PipListInv
  <2>1. CASE ~(c.live /\ c.reply = "ok")
    BY <2>1 DEF Pip!Resume
  <2>2. CASE Pip!Listed(c)
    BY <1>1, <2>2 DEF Pip!Listed, PipCallInv
  <2>3. CASE c.kind = "create" /\ Pip!Created(c)
    BY <1>1, <2>3 DEF Pip!Created, PipCallInv
  <2>4. CASE Pip!Deleted(c)
    BY <1>1, <2>4 DEF Pip!Deleted
  <2>5. CASE c.kind = "save" /\ Pip!Saved(c)
    BY <1>1, <2>5 DEF Pip!Saved, PipCallInv
  <2> QED
    BY <1>1, <2>1, <2>2, <2>3, <2>4, <2>5 DEF Pip!Resume, PipCallInv
<1> QED
  BY <1>2, <1>3 DEF PipListInv

\* Every step of the pipelines keeps the sources with their names.
LEMMA PipListStep == ASSUME PipListInv, Pip!Next PROVE PipListInv'
<1>1. CASE Pip!Edit
  BY <1>1 DEF Pip!Edit, PipListInv, Pip!EditorHoldsItsPipeline
<1>2. CASE Pip!handleSave
  <2>1. PipCallInv(Pip!Call("save", pipSelected, pipSource, Pip!None))
    BY <1>2 DEF Pip!handleSave, Pip!CanSave, PipCallInv, Pip!Call, PipRowsInv, PipListInv,
                Pip!EditorHoldsItsPipeline
  <2> QED
    BY <1>2, <2>1, PipIssue DEF Pip!handleSave
<1>3. ASSUME NEW p \in PipPipes, Pip!handleCreate(p)
      PROVE  PipListInv'
  <2>1. PipCallInv(Pip!Call("create", p, Pip!newTemplate(p), Pip!None))
    BY DEF PipCallInv, Pip!Call, PipRowsInv, Pip!newTemplate
  <2> QED
    BY <1>3, <2>1, PipIssue DEF Pip!handleCreate
<1>4. ASSUME NEW p \in PipPipes, Pip!handleDelete(p)
      PROVE  PipListInv'
  <2>1. PipCallInv(Pip!Call("delete", p, Pip!NoSource, pipSelected))
    BY DEF PipCallInv, Pip!Call, PipRowsInv
  <2> QED
    BY <1>4, <2>1, PipIssue DEF Pip!handleDelete
<1>5. ASSUME NEW p \in PipPipes, Pip!handleSelect(p)
      PROVE  PipListInv'
  <2>1. PICK r \in pipRows : r.name = p
    BY <1>5 DEF Pip!handleSelect, Pip!Names
  <2>2. Pip!SourceOf(p).of = p
    BY <2>1 DEF Pip!SourceOf, PipListInv, PipRowsInv
  <2> QED
    BY <1>5, <2>2 DEF Pip!handleSelect, PipListInv, Pip!EditorHoldsItsPipeline
<1>6. CASE Pip!ShowList
  <2>1. PipCallInv(Pip!Call("list", Pip!None, Pip!NoSource, Pip!None))
    BY DEF PipCallInv, Pip!Call, PipRowsInv
  <2> QED
    BY <1>6, <2>1 DEF Pip!ShowList, PipListInv, Pip!EditorHoldsItsPipeline
<1>7. ASSUME NEW t, Pip!Mount(t) PROVE PipListInv'
  BY <1>7, PipUnmounted DEF Pip!Mount
<1>8. ASSUME NEW t, Pip!Inspect(t) PROVE PipListInv'
  BY <1>8, PipUnmounted DEF Pip!Inspect
<1>9. CASE UNCHANGED Pip!list
  BY <1>9 DEF Pip!list, PipListInv, Pip!EditorHoldsItsPipeline
<1> QED
  BY <1>1, <1>2, <1>3, <1>4, <1>5, <1>6, <1>7, <1>8, <1>9, PipAnswer, PipResume
     DEF Pip!Next, Pip!openPipelineRun, Pip!Started, Pip!Progress, Pip!Result,
         Pip!StepsLoaded

-----------------------------------------------------------------------------
(* Pipelines: the tabs of runs and the steps of a turn. *)

PipStatus == {"idle", "running", "done", "error"}
PipTab == [status : PipStatus, output : Nat, run : Nat]
PipRun == [tab : Nat, state : {"running", "done"}]
PipStart == [mount : Nat \ {0}, tab : Nat]
PipPanel == [mount : Nat, status : PipStatus, run : Nat, output : Nat, progress : Nat]

PipTypes ==
  /\ pipTabs \in Seq(PipTab) /\ pipRuns \in Seq(PipRun)
  /\ pipStarts \subseteq PipStart /\ pipPanel \in PipPanel /\ pipMounts \in Nat

\* What a tab stores, and what the mounted panel waits for and shows, is a run of
\* that tab; a start under way is for a tab there is, asked by a mount of it.
PipRunInv ==
  /\ PipTypes
  /\ \A t \in DOMAIN pipTabs : \A id \in {pipTabs[t].run, pipTabs[t].output} \ {0} :
       id \in DOMAIN pipRuns /\ pipRuns[id].tab = t
  /\ \A s \in pipStarts : s.tab \in DOMAIN pipTabs /\ s.mount <= pipMounts
  /\ pipPanel.mount # 0 =>
       /\ pipShown \in DOMAIN pipTabs
       /\ pipPanel.mount <= pipMounts
       /\ \A s \in pipStarts : s.mount = pipPanel.mount => s.tab = pipShown
  /\ \A id \in {pipPanel.run, pipPanel.output, pipPanel.progress} \ {0} :
       pipPanel.mount # 0 /\ id \in DOMAIN pipRuns /\ pipRuns[id].tab = pipShown

\* The one load of steps that is not cancelled is of the inspected turn.
PipStepsInv ==
  /\ \A l \in pipLoads : /\ DOMAIN l = {"turn", "cancelled"}
                         /\ ~l.cancelled => l.turn = pipInspected
  /\ pipLoaded => pipSteps = pipInspected

PipInv == part = "pipelines" => PipListInv /\ PipRunInv /\ PipStepsInv

\* The invariant holds of the pipelines as they start.
LEMMA PipInitial == Init => PipInv
<1> SUFFICES ASSUME Init, part = "pipelines"
             PROVE  PipListInv /\ PipRunInv /\ PipStepsInv
  BY DEF PipInv
<1>1. Pip!Init
  BY DEF Init
<1>2. PipListInv
  BY <1>1 DEF Pip!Init, PipListInv, PipRowsInv, Pip!EditorHoldsItsPipeline, Pip!newTemplate
<1>3. PipRunInv
  BY <1>1 DEF Pip!Init, PipRunInv, PipTypes, PipPanel, PipStatus, Pip!NoPanel
<1>4. PipStepsInv
  BY <1>1 DEF Pip!Init, PipStepsInv
<1> QED
  BY <1>2, <1>3, <1>4

\* Every step of the pipelines keeps the loads of steps with their turn.
LEMMA PipStepsStep == ASSUME PipStepsInv, Pip!Next PROVE PipStepsInv'
<1> USE DEF PipStepsInv
<1>1. CASE Pip!ShowList
  BY <1>1 DEF Pip!ShowList
<1>2. ASSUME NEW t, Pip!Mount(t) PROVE PipStepsInv'
  BY <1>2 DEF Pip!Mount
<1>3. ASSUME NEW t, Pip!Inspect(t) PROVE PipStepsInv'
  BY <1>3 DEF Pip!Inspect
<1>4. ASSUME NEW l \in pipLoads, Pip!StepsLoaded(l) PROVE PipStepsInv'
  BY <1>4 DEF Pip!StepsLoaded
<1>5. CASE UNCHANGED Pip!inspector
  BY <1>5 DEF Pip!inspector
<1> QED
  BY <1>1, <1>2, <1>3, <1>4, <1>5 DEF Pip!Next, Pip!Edit, Pip!handleSave,
     Pip!openPipelineRun, Pip!handleSelect, Pip!handleCreate, Pip!handleDelete,
     Pip!Answer, Pip!Resume, Pip!Started, Pip!Progress, Pip!Result

\* Replacing one element of a sequence.
LEMMA SeqExcept ==
  ASSUME NEW S, NEW s \in Seq(S), NEW i \in DOMAIN s, NEW v \in S
  PROVE  /\ [s EXCEPT ![i] = v] \in Seq(S) /\ DOMAIN [s EXCEPT ![i] = v] = DOMAIN s
         /\ [s EXCEPT ![i] = v][i] = v
         /\ \A j \in DOMAIN s \ {i} : [s EXCEPT ![i] = v][j] = s[j]
  OBVIOUS

\* What updatePipelineRunTab changes: one tab, where it was told something new.
LEMMA PipUpdated ==
  ASSUME PipTypes, NEW t \in DOMAIN pipTabs, NEW st \in PipStatus, NEW out \in Nat,
         NEW id \in Nat, Pip!updatePipelineRunTab(t, st, out, id)
  PROVE  /\ DOMAIN pipTabs' = DOMAIN pipTabs /\ pipTabs' \in Seq(PipTab)
         /\ pipTabs'[t].run = IF id = 0 THEN pipTabs[t].run ELSE id
         /\ pipTabs'[t].output = IF out = 0 THEN pipTabs[t].output ELSE out
         /\ \A u \in DOMAIN pipTabs \ {t} : pipTabs'[u] = pipTabs[u]
<1>1. pipTabs[t] \in PipTab
  BY DEF PipTypes
<1> DEFINE v == [status |-> st, output |-> IF out = 0 THEN pipTabs[t].output ELSE out,
                 run |-> IF id = 0 THEN pipTabs[t].run ELSE id]
<1>2. v \in PipTab
  BY <1>1 DEF PipTab
<1>3. /\ v.run = IF id = 0 THEN pipTabs[t].run ELSE id
      /\ v.output = IF out = 0 THEN pipTabs[t].output ELSE out
  OBVIOUS
<1>4. pipTabs' = [pipTabs EXCEPT ![t] = v]
  BY DEF Pip!updatePipelineRunTab
<1> HIDE DEF v
<1> QED
  BY <1>2, <1>3, <1>4, SeqExcept DEF PipTypes

\* The reply to a start: the run is one of the tab the start was for, and only
\* the panel that asked waits for it.
LEMMA PipStarted ==
  ASSUME PipRunInv, NEW s \in pipStarts, Pip!Started(s)
  PROVE  PipRunInv'
<1> DEFINE n == Len(pipRuns) + 1
<1>1. /\ s \in PipStart /\ s.tab \in DOMAIN pipTabs /\ s.mount <= pipMounts
      /\ pipTabs[s.tab] \in PipTab
      /\ pipStarts' = pipStarts \ {s} /\ pipShown' = pipShown /\ pipMounts' = pipMounts
  BY DEF PipRunInv, PipTypes, Pip!Started
<1>2. CASE /\ pipRuns' = Append(pipRuns, [tab |-> s.tab, state |-> "running"])
           /\ Pip!updatePipelineRunTab(s.tab, "running", 0, n)
           /\ pipPanel' = IF pipPanel.mount = s.mount
                          THEN [pipPanel EXCEPT !.run = n] ELSE pipPanel
  <2>1. /\ pipRuns' \in Seq(PipRun) /\ n \in Nat \ {0}
        /\ \A id \in DOMAIN pipRuns : id \in DOMAIN pipRuns' /\ pipRuns'[id] = pipRuns[id]
        /\ n \in DOMAIN pipRuns' /\ pipRuns'[n].tab = s.tab
    BY <1>1, <1>2 DEF PipRunInv, PipTypes, PipRun, PipStart
  <2>2. /\ DOMAIN pipTabs' = DOMAIN pipTabs /\ pipTabs' \in Seq(PipTab)
        /\ pipTabs'[s.tab].run = n /\ pipTabs'[s.tab].output = pipTabs[s.tab].output
        /\ \A t \in DOMAIN pipTabs \ {s.tab} : pipTabs'[t] = pipTabs[t]
    BY <1>1, <1>2, <2>1, PipUpdated DEF PipRunInv, PipStatus
  <2>3. /\ pipPanel' \in PipPanel /\ pipPanel'.mount = pipPanel.mount
        /\ pipPanel'.output = pipPanel.output /\ pipPanel'.progress = pipPanel.progress
        /\ pipPanel'.run = IF pipPanel.mount = s.mount THEN n ELSE pipPanel.run
    BY <1>2, <2>1 DEF PipRunInv, PipTypes, PipPanel, PipStatus
  <2>4. PipTypes'
    BY <1>1, <2>1, <2>2, <2>3 DEF PipRunInv, PipTypes
  <2>7. pipPanel.mount = s.mount => pipPanel.mount # 0 /\ pipShown = s.tab
    BY <1>1 DEF PipRunInv, PipStart
  <2> HIDE DEF n
  <2>8. \A t \in DOMAIN pipTabs' : \A id \in {pipTabs'[t].run, pipTabs'[t].output} \ {0} :
          id \in DOMAIN pipRuns' /\ pipRuns'[id].tab = t
    BY <1>1, <2>1, <2>2 DEF PipRunInv
  <2>9. \A id \in {pipPanel'.run, pipPanel'.output, pipPanel'.progress} \ {0} :
          pipPanel'.mount # 0 /\ id \in DOMAIN pipRuns' /\ pipRuns'[id].tab = pipShown'
    BY <1>1, <2>3, <2>1, <2>7 DEF PipRunInv
  <2> QED
    BY <1>1, <2>2, <2>3, <2>4, <2>8, <2>9 DEF PipRunInv
<1>3. CASE /\ Pip!updatePipelineRunTab(s.tab, "error", 0, 0)
           /\ pipPanel' = IF pipPanel.mount = s.mount
                          THEN [pipPanel EXCEPT !.status = "error"] ELSE pipPanel
           /\ UNCHANGED pipRuns
  <2>2. /\ DOMAIN pipTabs' = DOMAIN pipTabs /\ pipTabs' \in Seq(PipTab)
        /\ pipTabs'[s.tab].run = pipTabs[s.tab].run
        /\ pipTabs'[s.tab].output = pipTabs[s.tab].output
        /\ \A t \in DOMAIN pipTabs \ {s.tab} : pipTabs'[t] = pipTabs[t]
    BY <1>1, <1>3, PipUpdated DEF PipRunInv, PipStatus
  <2>3. /\ pipPanel' \in PipPanel /\ pipPanel'.mount = pipPanel.mount
        /\ pipPanel'.output = pipPanel.output /\ pipPanel'.progress = pipPanel.progress
        /\ pipPanel'.run = pipPanel.run
    BY <1>3 DEF PipRunInv, PipTypes, PipPanel, PipStatus
  <2>4. PipTypes'
    BY <1>1, <1>3, <2>2, <2>3 DEF PipRunInv, PipTypes
  <2> QED
    BY <1>1, <1>3, <2>2, <2>3, <2>4 DEF PipRunInv
<1> QED
  BY <1>2, <1>3 DEF Pip!Started

\* The result of a run: it reaches a tab only through the panel that waits for it.
LEMMA PipResult ==
  ASSUME PipRunInv, NEW id \in DOMAIN pipRuns, Pip!Result(id)
  PROVE  PipRunInv'
<1>1. /\ pipStarts' = pipStarts /\ pipShown' = pipShown /\ pipMounts' = pipMounts
      /\ pipRuns' = [pipRuns EXCEPT ![id].state = "done"]
  BY DEF Pip!Result
<1>2. /\ pipRuns' \in Seq(PipRun) /\ id \in Nat \ {0}
      /\ DOMAIN pipRuns' = DOMAIN pipRuns
      /\ \A k \in DOMAIN pipRuns : pipRuns'[k].tab = pipRuns[k].tab
  <2> DEFINE v == [pipRuns[id] EXCEPT !.state = "done"]
  <2>1. pipRuns \in Seq(PipRun) /\ pipRuns[id] \in PipRun
    BY DEF PipRunInv, PipTypes
  <2>2. v \in PipRun /\ v.tab = pipRuns[id].tab
    BY <2>1 DEF PipRun
  <2>3. pipRuns' = [pipRuns EXCEPT ![id] = v]
    BY <1>1
  <2> HIDE DEF v
  <2> QED
    BY <2>1, <2>2, <2>3, SeqExcept
<1>4. CASE UNCHANGED << pipTabs, pipPanel >>
  <2>1. PipTypes'
    BY <1>1, <1>2, <1>4 DEF PipRunInv, PipTypes
  <2> QED
    BY <1>1, <1>2, <1>4, <2>1 DEF PipRunInv
<1>5. CASE /\ Pip!ForThisPanel(id)
           /\ pipPanel' = [pipPanel EXCEPT !.status = "done", !.output = id]
           /\ Pip!updatePipelineRunTab(pipShown, "done", id, 0)
  <2>1. /\ pipShown \in DOMAIN pipTabs /\ id \in DOMAIN pipRuns /\ pipRuns[id].tab = pipShown
        /\ pipTabs[pipShown] \in PipTab /\ pipPanel.mount # 0
    BY <1>2, <1>5 DEF PipRunInv, PipTypes, Pip!ForThisPanel
  <2>2. /\ DOMAIN pipTabs' = DOMAIN pipTabs /\ pipTabs' \in Seq(PipTab)
        /\ pipTabs'[pipShown].run = pipTabs[pipShown].run /\ pipTabs'[pipShown].output = id
        /\ \A t \in DOMAIN pipTabs \ {pipShown} : pipTabs'[t] = pipTabs[t]
    BY <1>2, <1>5, <2>1, PipUpdated DEF PipRunInv, PipStatus
  <2>3. /\ pipPanel' \in PipPanel /\ pipPanel'.mount = pipPanel.mount
        /\ pipPanel'.output = id /\ pipPanel'.progress = pipPanel.progress
        /\ pipPanel'.run = pipPanel.run
    BY <1>2, <1>5 DEF PipRunInv, PipTypes, PipPanel, PipStatus
  <2>4. PipTypes'
    BY <1>1, <1>2, <2>2, <2>3 DEF PipRunInv, PipTypes
  <2>5. id \in DOMAIN pipRuns' /\ pipRuns'[id].tab = pipShown
    BY <1>1, <1>2, <2>1
  <2>6. \A t \in DOMAIN pipTabs' : \A k \in {pipTabs'[t].run, pipTabs'[t].output} \ {0} :
          k \in DOMAIN pipRuns' /\ pipRuns'[k].tab = t
    BY <1>1, <1>2, <2>1, <2>2 DEF PipRunInv
  <2>7. \A k \in {pipPanel'.run, pipPanel'.output, pipPanel'.progress} \ {0} :
          pipPanel'.mount # 0 /\ k \in DOMAIN pipRuns' /\ pipRuns'[k].tab = pipShown'
    BY <1>1, <1>2, <2>1, <2>3 DEF PipRunInv
  <2> QED
    BY <1>1, <2>2, <2>3, <2>4, <2>6, <2>7 DEF PipRunInv
<1>6. CASE /\ Pip!ForThisPanel(id)
           /\ pipPanel' = [pipPanel EXCEPT !.status = "error"]
           /\ Pip!updatePipelineRunTab(pipShown, "error", 0, 0)
  <2>1. pipShown \in DOMAIN pipTabs /\ pipTabs[pipShown] \in PipTab
    BY <1>6 DEF PipRunInv, PipTypes, Pip!ForThisPanel
  <2>2. /\ DOMAIN pipTabs' = DOMAIN pipTabs /\ pipTabs' \in Seq(PipTab)
        /\ pipTabs'[pipShown].run = pipTabs[pipShown].run
        /\ pipTabs'[pipShown].output = pipTabs[pipShown].output
        /\ \A t \in DOMAIN pipTabs \ {pipShown} : pipTabs'[t] = pipTabs[t]
    BY <1>6, <2>1, PipUpdated DEF PipRunInv, PipStatus
  <2>3. /\ pipPanel' \in PipPanel /\ pipPanel'.mount = pipPanel.mount
        /\ pipPanel'.output = pipPanel.output /\ pipPanel'.progress = pipPanel.progress
        /\ pipPanel'.run = pipPanel.run
    BY <1>6 DEF PipRunInv, PipTypes, PipPanel, PipStatus
  <2>4. PipTypes'
    BY <1>1, <1>2, <2>2, <2>3 DEF PipRunInv, PipTypes
  <2>5. \A t \in DOMAIN pipTabs' : \A k \in {pipTabs'[t].run, pipTabs'[t].output} \ {0} :
          k \in DOMAIN pipRuns' /\ pipRuns'[k].tab = t
    BY <1>1, <1>2, <2>1, <2>2 DEF PipRunInv
  <2>6. \A k \in {pipPanel'.run, pipPanel'.output, pipPanel'.progress} \ {0} :
          pipPanel'.mount # 0 /\ k \in DOMAIN pipRuns' /\ pipRuns'[k].tab = pipShown'
    BY <1>1, <1>2, <2>3 DEF PipRunInv
  <2> QED
    BY <1>1, <2>2, <2>3, <2>4, <2>5, <2>6 DEF PipRunInv
<1> QED
  BY <1>4, <1>5, <1>6 DEF Pip!Result

\* The panel of a tab that is shown waits for the run the tab stores; only without
\* one is a run started, for that tab.
LEMMA PipMount ==
  ASSUME PipRunInv, NEW t \in DOMAIN pipTabs, Pip!Mount(t)
  PROVE  PipRunInv'
<1> DEFINE p == pipTabs[t]
           s == [mount |-> pipMounts + 1, tab |-> t]
<1>1. /\ p \in PipTab /\ pipMounts \in Nat /\ t \in Nat
      /\ pipTabs' = pipTabs /\ pipRuns' = pipRuns
      /\ pipShown' = t /\ pipMounts' = pipMounts + 1
  BY DEF PipRunInv, PipTypes, Pip!Mount
<1>2. /\ pipPanel' \in PipPanel /\ pipPanel'.mount = pipMounts + 1
      /\ pipPanel'.run = p.run /\ pipPanel'.output = p.output /\ pipPanel'.progress = 0
  BY <1>1 DEF Pip!Mount, PipPanel, PipTab, PipStatus
<1>3. s \in PipStart /\ s.mount = pipMounts + 1 /\ s.tab = t
  BY <1>1 DEF PipStart
<1>4. pipStarts' = pipStarts \/ pipStarts' = pipStarts \cup {s}
  BY DEF Pip!Mount
<1> HIDE DEF s
<1>5. PipTypes'
  BY <1>1, <1>2, <1>3, <1>4 DEF PipRunInv, PipTypes
<1>6. \A r \in pipStarts : r.tab \in DOMAIN pipTabs /\ r.mount \in Nat /\ r.mount <= pipMounts
  BY DEF PipRunInv, PipTypes, PipStart
<1>7. \A r \in pipStarts' : /\ r.tab \in DOMAIN pipTabs /\ r.mount <= pipMounts + 1
                            /\ r.mount = pipMounts + 1 => r.tab = t
  BY <1>1, <1>3, <1>4, <1>6
<1>8. \A id \in {p.run, p.output} \ {0} : id \in DOMAIN pipRuns /\ pipRuns[id].tab = t
  BY DEF PipRunInv
<1>9. \A u \in DOMAIN pipTabs : \A id \in {pipTabs[u].run, pipTabs[u].output} \ {0} :
        id \in DOMAIN pipRuns /\ pipRuns[id].tab = u
  BY DEF PipRunInv
<1> QED
  BY <1>1, <1>2, <1>5, <1>7, <1>8, <1>9 DEF PipRunInv

\* A new tab stores no run.
LEMMA PipOpen == ASSUME PipRunInv, Pip!openPipelineRun PROVE PipRunInv'
<1> DEFINE v == [status |-> "idle", output |-> 0, run |-> 0]
           n == Len(pipTabs) + 1
<1>1. v \in PipTab /\ v.output = 0 /\ v.run = 0
  BY DEF PipTab, PipStatus
<1>2. pipTabs' = Append(pipTabs, v) /\ pipTabs \in Seq(PipTab)
  BY DEF Pip!openPipelineRun, PipRunInv, PipTypes
<1> HIDE DEF v
<1>3. /\ pipTabs' \in Seq(PipTab) /\ DOMAIN pipTabs' = DOMAIN pipTabs \cup {n}
      /\ pipTabs'[n] = v /\ \A t \in DOMAIN pipTabs : pipTabs'[t] = pipTabs[t]
  BY <1>1, <1>2
<1> HIDE DEF n
<1>4. UNCHANGED << pipShown, pipPanel, pipStarts, pipMounts, pipRuns >>
  BY DEF Pip!openPipelineRun
<1>5. PipTypes'
  BY <1>3, <1>4 DEF PipRunInv, PipTypes
<1>6. \A u \in DOMAIN pipTabs' : \A id \in {pipTabs'[u].run, pipTabs'[u].output} \ {0} :
        id \in DOMAIN pipRuns /\ pipRuns[id].tab = u
  BY <1>1, <1>3 DEF PipRunInv
<1> QED
  BY <1>3, <1>4, <1>5, <1>6 DEF PipRunInv

\* A panel that is unmounted shows nothing.
LEMMA PipNoPanel ==
  ASSUME PipRunInv, pipPanel' = Pip!NoPanel, pipMounts' = pipMounts + 1,
         UNCHANGED << pipTabs, pipStarts, pipRuns >>
  PROVE  PipRunInv'
<1>1. /\ pipPanel' \in PipPanel /\ pipPanel'.mount = 0 /\ pipPanel'.run = 0
      /\ pipPanel'.output = 0 /\ pipPanel'.progress = 0
  BY DEF Pip!NoPanel, PipPanel, PipStatus
<1>2. /\ pipMounts \in Nat /\ pipMounts' \in Nat
      /\ \A s \in pipStarts : s.mount \in Nat /\ s.mount <= pipMounts'
  BY DEF PipRunInv, PipTypes, PipStart
<1>3. PipTypes'
  BY <1>1, <1>2 DEF PipRunInv, PipTypes
<1> QED
  BY <1>1, <1>2, <1>3 DEF PipRunInv

\* The panel shows the progress of the run it waits for.
LEMMA PipProgress ==
  ASSUME PipRunInv, NEW id \in DOMAIN pipRuns, Pip!Progress(id)
  PROVE  PipRunInv'
<1>1. /\ UNCHANGED << pipTabs, pipShown, pipStarts, pipMounts, pipRuns >>
      /\ pipPanel.mount # 0 /\ pipPanel.run = id
      /\ pipPanel' = [pipPanel EXCEPT !.progress = id]
  BY DEF Pip!Progress
<1>2. id \in Nat \ {0}
  BY DEF PipRunInv, PipTypes
<1>3. /\ pipPanel' \in PipPanel /\ pipPanel'.mount = pipPanel.mount
      /\ pipPanel'.run = id /\ pipPanel'.output = pipPanel.output /\ pipPanel'.progress = id
  BY <1>1, <1>2 DEF PipRunInv, PipTypes, PipPanel
<1>4. PipTypes'
  BY <1>1, <1>3 DEF PipRunInv, PipTypes
<1> QED
  BY <1>1, <1>2, <1>3, <1>4 DEF PipRunInv

\* Every step of the pipelines keeps the runs with their tabs.
LEMMA PipRunStep == ASSUME PipRunInv, Pip!Next PROVE PipRunInv'
<1>1. CASE Pip!ShowList
  BY <1>1, PipNoPanel DEF Pip!ShowList
<1>2. ASSUME NEW t, Pip!Inspect(t) PROVE PipRunInv'
  BY <1>2, PipNoPanel DEF Pip!Inspect
<1>3. CASE UNCHANGED Pip!run
  BY <1>3 DEF Pip!run, PipRunInv, PipTypes
<1> QED
  BY <1>1, <1>2, <1>3, PipStarted, PipResult, PipMount, PipOpen, PipProgress
     DEF Pip!Next, Pip!Edit, Pip!handleSave, Pip!handleSelect, Pip!handleCreate,
         Pip!handleDelete, Pip!Answer, Pip!Resume, Pip!StepsLoaded

\* The invariant of the pipelines holds in every behaviour.
LEMMA PipInvariance == Spec => []PipInv
<1>1. PipInv /\ [Next]_vars => PipInv'
  <2> SUFFICES ASSUME PipInv, [Next]_vars
               PROVE  PipInv'
    OBVIOUS
  <2>1. CASE part = "pipelines" /\ part' = part /\ Pip!Next
    BY <2>1, PipListStep, PipRunStep, PipStepsStep DEF PipInv
  <2>2. CASE part' # "pipelines" \/ UNCHANGED << part, varsPip >>
    BY <2>2 DEF PipInv, PipListInv, PipRowsInv, PipRunInv, PipStepsInv, PipTypes,
                Pip!EditorHoldsItsPipeline, varsPip
  <2> QED
    BY <2>1, <2>2 DEF Next, vars
<1> QED
  BY <1>1, PipInitial, PTL DEF Spec

\* A run panel shows its own run, an inspector its own steps and a tuning form
\* the selected model, for any number of tabs, runs, turns and models: a reply
\* that comes back after the user moved on is dropped (PipelineRunPanel.tsx,
\* useTurnPipelineSteps, useFinetuning).
THEOREM LateReplyTheorem == Spec => []LateReplyLandsNowhere
<1>1. PipInv /\ TooInv => LateReplyLandsNowhere
  <2>1. ASSUME PipRunInv, PipStepsInv PROVE Pip!PanelsShowTheirRun
    BY <2>1 DEF PipRunInv, PipStepsInv, Pip!PanelsShowTheirRun
  <2> QED
    BY <2>1 DEF PipInv, TooInv, TooTuningInv, LateReplyLandsNowhere
<1> QED
  BY <1>1, PipInvariance, TooInvariance, PTL

-----------------------------------------------------------------------------
(* Records. *)

\* A load, and a save or delete, that carries the stamp of the renderer as it is
\* now belongs to the tab shown; what was sent from the tab of a record is an
\* update or a delete of that record.
RecLoadInv(l) ==
  /\ DOMAIN l = {"stamp", "tab", "st", "rows"} /\ l.stamp \in Nat /\ l.stamp <= recStamp
  /\ l.stamp = recStamp => l.tab = recShown

RecMutationInv(q) ==
  /\ DOMAIN q = {"op", "no", "id", "text", "tab", "state", "inst", "st"}
  /\ q.state \in Nat /\ q.state <= recStamp
  /\ q.state = recStamp => q.tab = recShown
  /\ q.tab \in Rec!Ids => q.id = q.tab /\ q.op # "insert"

\* The save of a record that is still to be answered.
RecUnanswered(id) == \E q \in recMutations : q.st = "done" /\ q.id = id

RecFormInv ==
  /\ recStamp \in Nat /\ DOMAIN recForm = {"id", "text"}
  /\ \A l \in recLoads : RecLoadInv(l)
  /\ \A q \in recMutations : RecMutationInv(q)
  /\ Rec!FormShowsItsRecord

\* There is at most one load that is not late, and none once the stage is set.
RecLineInv ==
  /\ \A l, k \in recLoads : l.stamp = recStamp /\ k.stamp = recStamp => l = k
  /\ recStage # "loading" => \A l \in recLoads : l.stamp # recStamp

\* What the list shows, and the answer it is about to show, is the table but for
\* saves still to be answered, unless it missed a change.
RecListInv ==
  /\ DOMAIN recTable = Rec!Ids /\ recMissed \in BOOLEAN /\ RecLineInv
  /\ ~recMissed =>
       \A l \in recLoads : l.stamp = recStamp /\ l.tab = Rec!List /\ l.st = "rows" =>
         \A id \in Rec!Ids : l.rows[id] = recTable[id] \/ RecUnanswered(id)
  /\ ~recMissed /\ recShown = Rec!List /\ recStage = "ready" =>
       \A id \in Rec!Ids : recRows[id] = recTable[id] \/ RecUnanswered(id)

RecInv == part = "records" => RecFormInv /\ RecListInv

\* The invariant holds of the records as they start.
LEMMA RecInitial == Init => RecInv
<1> SUFFICES ASSUME Init, part = "records"
             PROVE  RecFormInv /\ RecListInv
  BY DEF RecInv
<1>1. Rec!Init
  BY DEF Init
<1> DEFINE new == [stamp |-> 1, tab |-> Rec!List, st |-> "sent",
                   rows |-> [i \in Rec!Ids |-> Rec!Gone]]
<1>a. recLoads = {new} /\ recStamp = 1 /\ recShown = Rec!List
  BY <1>1 DEF Rec!Init
<1>b. /\ DOMAIN new = {"stamp", "tab", "st", "rows"} /\ new.stamp = 1
      /\ new.tab = Rec!List /\ new.st = "sent"
  OBVIOUS
<1> HIDE DEF new
<1>2. RecFormInv
  <2>1. \A l \in recLoads : RecLoadInv(l)
    BY <1>a, <1>b DEF RecLoadInv
  <2>2. DOMAIN recForm = {"id", "text"}
    BY <1>1 DEF Rec!Init, Rec!EmptyForm, Rec!LoadEnvelope
  <2> QED
    BY <1>1, <2>1, <2>2 DEF Rec!Init, RecFormInv, Rec!FormShowsItsRecord
<1>3. RecListInv
  <2>1. DOMAIN recTable = Rec!Ids
    BY <1>1 DEF Rec!Init
  <2>2. \A l \in recLoads : l.st # "rows"
    BY <1>a, <1>b
  <2>3. RecLineInv
    BY <1>1, <1>a DEF Rec!Init, RecLineInv
  <2> QED
    BY <1>1, <2>1, <2>2, <2>3 DEF Rec!Init, RecListInv
<1> QED
  BY <1>2, <1>3

\* Ids are none of the other tabs.
LEMMA RecIds == \A i \in Rec!Ids : i # Rec!New /\ i # Rec!List
  BY RecAssumption DEF Rec!Ids, Rec!New, Rec!List

\* A new load makes all earlier ones, and what was sent before, late.
LEMMA RecMount ==
  ASSUME RecFormInv, RecListInv, NEW tab, NEW tabs, Rec!Mount(tab, tabs),
         recMutations' \subseteq recMutations, recTable' = recTable
  PROVE  RecFormInv' /\ RecListInv'
<1> DEFINE new == [stamp |-> recStamp + 1, tab |-> tab, st |-> "sent",
                   rows |-> [i \in Rec!Ids |-> Rec!Gone]]
<1>1. /\ recStamp' = recStamp + 1 /\ recStamp \in Nat /\ recShown' = tab
      /\ recStage' = "loading" /\ recLoads' = recLoads \cup {new}
      /\ DOMAIN recForm' = {"id", "text"} /\ recMissed' \in BOOLEAN
  BY DEF Rec!Mount, RecFormInv, RecListInv, Rec!EmptyForm, Rec!LoadEnvelope
<1>2. /\ DOMAIN new = {"stamp", "tab", "st", "rows"} /\ new.stamp = recStamp + 1
      /\ new.tab = tab /\ new.st = "sent"
  OBVIOUS
<1> HIDE DEF new
<1>3. \A l \in recLoads : l.stamp \in Nat /\ l.stamp <= recStamp
  BY DEF RecFormInv, RecLoadInv
<1>4. \A l \in recLoads' : RecLoadInv(l)'
  BY <1>1, <1>2, <1>3 DEF RecFormInv, RecLoadInv
<1>5. \A q \in recMutations' : RecMutationInv(q)'
  BY <1>1 DEF RecFormInv, RecMutationInv
<1>6. RecFormInv'
  BY <1>1, <1>4, <1>5 DEF RecFormInv, Rec!FormShowsItsRecord
<1>7. \A l \in recLoads' : l.stamp = recStamp' => l.st # "rows"
  BY <1>1, <1>2, <1>3
<1>8. RecLineInv'
  <2>1. \A l \in recLoads : l.stamp # recStamp'
    BY <1>1, <1>3
  <2> QED
    BY <1>1, <1>2, <2>1 DEF RecLineInv
<1>9. RecListInv'
  BY <1>1, <1>7, <1>8 DEF RecListInv
<1> QED
  BY <1>6, <1>9

\* A change the list shown would not hear of, unless its query is not answered yet.
LEMMA RecHeard ==
  ASSUME RecFormInv, RecListInv, ~Rec!Unheard
  PROVE  /\ ~(recShown = Rec!List /\ recStage = "ready")
         /\ \A l \in recLoads : ~(l.stamp = recStamp /\ l.tab = Rec!List /\ l.st = "rows")
<1>1. CASE recShown # Rec!List
  BY <1>1 DEF RecFormInv, RecLoadInv
<1>2. CASE recShown = Rec!List
  <2>1. PICK l \in recLoads : l.stamp = recStamp /\ l.st = "sent"
    BY <1>2 DEF Rec!Unheard
  <2> QED
    BY <2>1 DEF RecListInv, RecLineInv
<1> QED
  BY <1>1, <1>2

\* The close of a tab shows another one, or changes nothing but the rail.
LEMMA RecClosed ==
  ASSUME RecFormInv, RecListInv, NEW tab, Rec!Closed(tab), recTable' = recTable,
         recRows' = recRows, recMutations' \subseteq recMutations,
         recShown = Rec!List => recMutations' = recMutations
  PROVE  RecFormInv' /\ RecListInv'
<1>1. CASE recShown = tab
  BY <1>1, RecMount DEF Rec!Closed
<1>2. CASE recShown # tab
  <2>1. UNCHANGED << recShown, recStamp, recStage, recForm, recLoads, recMissed >>
    BY <1>2 DEF Rec!Closed
  <2>2. RecFormInv'
    BY <2>1 DEF RecFormInv, RecLoadInv, RecMutationInv, Rec!FormShowsItsRecord
  <2>3. CASE recShown = Rec!List
    BY <2>1, <2>2, <2>3 DEF RecListInv, RecLineInv, RecUnanswered
  <2>4. CASE recShown # Rec!List
    <3>1. \A l \in recLoads : l.stamp = recStamp => l.tab # Rec!List
      BY <2>4 DEF RecFormInv, RecLoadInv
    <3> QED
      BY <2>1, <2>2, <2>4, <3>1 DEF RecListInv, RecLineInv
  <2> QED
    BY <2>2, <2>3, <2>4
<1> QED
  BY <1>1, <1>2

\* A query is answered with the table as it is.
LEMMA RecAnswer ==
  ASSUME RecFormInv, RecListInv, NEW l \in recLoads, Rec!AnswerQuery(l)
  PROVE  RecFormInv' /\ RecListInv'
<1>1. PICK st \in {"rows", "query_failed", "view_failed"} :
        recLoads' = (recLoads \ {l}) \cup {[l EXCEPT !.st = st, !.rows = recTable]}
  BY DEF Rec!AnswerQuery
<1> DEFINE new == [l EXCEPT !.st = st, !.rows = recTable]
<1>2. UNCHANGED << recTable, recShown, recStamp, recStage, recRows, recForm, recMutations,
                   recMissed >>
  BY DEF Rec!AnswerQuery, Rec!server, Rec!screen
<1>3. RecLoadInv(l)
  BY DEF RecFormInv
<1>4. /\ DOMAIN new = {"stamp", "tab", "st", "rows"} /\ new.stamp = l.stamp
      /\ new.tab = l.tab /\ new.rows = recTable
  BY <1>3 DEF RecLoadInv
<1>5. recLoads' = (recLoads \ {l}) \cup {new}
  BY <1>1
<1> HIDE DEF new
<1>6. \A k \in recLoads' : RecLoadInv(k)'
  BY <1>2, <1>3, <1>4, <1>5 DEF RecFormInv, RecLoadInv
<1>7. RecFormInv'
  BY <1>2, <1>6 DEF RecFormInv, RecMutationInv, Rec!FormShowsItsRecord
<1>8. \A id : RecUnanswered(id) <=> RecUnanswered(id)'
  BY <1>2 DEF RecUnanswered
<1>9. RecLineInv'
  BY <1>2, <1>4, <1>5 DEF RecListInv, RecLineInv
<1>10. RecListInv'
  BY <1>2, <1>4, <1>5, <1>8, <1>9 DEF RecListInv
<1> QED
  BY <1>7, <1>10

\* The answer to the last load becomes what the tab shows; a late one is dropped.
LEMMA RecLoaded ==
  ASSUME RecFormInv, RecListInv, NEW l \in recLoads, Rec!Loaded(l)
  PROVE  RecFormInv' /\ RecListInv'
<1>1. /\ UNCHANGED << recTable, recShown, recStamp, recMutations >>
      /\ recLoads' = recLoads \ {l}
  BY DEF Rec!Loaded, Rec!server
<1>2. /\ \A k \in recLoads' : RecLoadInv(k)'
      /\ \A q \in recMutations' : RecMutationInv(q)'
      /\ \A id : RecUnanswered(id) <=> RecUnanswered(id)'
      /\ recStamp' \in Nat
  BY <1>1 DEF RecFormInv, RecLoadInv, RecMutationInv, RecUnanswered
<1>a. RecLineInv'
  <2>1. CASE l.stamp # recStamp
    BY <1>1, <2>1 DEF Rec!Loaded, RecListInv, RecLineInv
  <2>2. CASE l.stamp = recStamp
    BY <1>1, <2>2 DEF RecListInv, RecLineInv
  <2> QED
    BY <2>1, <2>2
<1>3. CASE l.stamp # recStamp
  <2>1. UNCHANGED << recStage, recRows, recForm, recMissed >>
    BY <1>3 DEF Rec!Loaded
  <2>2. RecFormInv'
    BY <1>1, <1>2, <2>1 DEF RecFormInv, Rec!FormShowsItsRecord
  <2> QED
    BY <1>1, <1>2, <1>a, <2>1, <2>2 DEF RecListInv
<1>4. CASE l.stamp = recStamp /\ l.tab = Rec!List
  <2>1. /\ recForm' = recForm /\ recRows' = Rec!fetchRows(l)
        /\ recMissed' = (recMissed \/ l.st # "rows")
    BY <1>4 DEF Rec!Loaded, Rec!ShowList
  <2>2. recShown = Rec!List /\ Rec!List \notin Rec!Ids
    BY <1>4, RecIds DEF RecFormInv, RecLoadInv
  <2>3. RecFormInv'
    BY <1>1, <1>2, <2>1, <2>2 DEF RecFormInv, Rec!FormShowsItsRecord
  <2>4. CASE recMissed \/ l.st # "rows"
    BY <1>1, <1>a, <2>1, <2>3, <2>4 DEF RecListInv
  <2>5. CASE ~(recMissed \/ l.st # "rows")
    <3>1. recRows' = l.rows
      BY <2>1, <2>5 DEF Rec!fetchRows
    <3> QED
      BY <1>1, <1>2, <1>4, <1>a, <2>1, <2>3, <2>5, <3>1 DEF RecListInv
  <2> QED
    BY <2>4, <2>5
<1>5. CASE l.stamp = recStamp /\ l.tab # Rec!List
  <2>1. UNCHANGED << recRows, recMissed >> /\ DOMAIN recForm' = {"id", "text"}
        /\ recForm'.id = l.tab
    <3>1. UNCHANGED << recRows, recMissed >>
          /\ \E text : recForm' = Rec!LoadEnvelope(l.tab, text)
      BY <1>5 DEF Rec!Loaded, Rec!ShowDetail
    <3>2. PICK text : recForm' = Rec!LoadEnvelope(l.tab, text)
      BY <3>1
    <3>3. DOMAIN recForm' = {"id", "text"} /\ recForm'.id = l.tab
      BY <3>2 DEF Rec!LoadEnvelope
    <3> QED
      BY <3>1, <3>3
  <2>2. recShown = l.tab
    BY <1>5 DEF RecFormInv, RecLoadInv
  <2>3. RecFormInv'
    BY <1>1, <1>2, <2>1, <2>2 DEF RecFormInv, Rec!FormShowsItsRecord
  <2> QED
    BY <1>1, <1>2, <1>5, <1>a, <2>1, <2>2, <2>3 DEF RecListInv
<1> QED
  BY <1>3, <1>4, <1>5

\* What is sent from a form is of the record of its tab.
LEMMA RecRequest ==
  ASSUME RecFormInv, RecListInv, NEW op, Rec!Request(op), Rec!Ready(recOpen),
         op = "insert" => recForm.id = Rec!New,
         UNCHANGED << recTable, recShown, recStamp, recStage, recRows, recForm, recLoads,
                      recMissed >>
  PROVE  RecFormInv' /\ RecListInv'
<1>a. PICK new : new = [op |-> op, no |-> recSent, id |-> recForm.id, text |-> recForm.text,
                        tab |-> recShown, state |-> recStamp, inst |-> recInst, st |-> "sent"]
  OBVIOUS
<1>1. recMutations' = recMutations \cup {new}
  BY <1>a DEF Rec!Request
<1>2. /\ DOMAIN new = {"op", "no", "id", "text", "tab", "state", "inst", "st"}
      /\ new.state = recStamp /\ new.tab = recShown /\ new.id = recForm.id
      /\ new.op = op /\ new.st = "sent"
  BY <1>a
<1>3. recShown \in Rec!Ids => recForm.id = recShown /\ op # "insert"
  BY RecIds DEF RecFormInv, Rec!FormShowsItsRecord, Rec!Ready
<1>4. recStamp \in Nat
  BY DEF RecFormInv
<1>5. RecMutationInv(new)'
  BY <1>2, <1>3, <1>4 DEF RecMutationInv
<1>6. \A q \in recMutations' : RecMutationInv(q)'
  BY <1>1, <1>5 DEF RecFormInv, RecMutationInv
<1>7. RecFormInv'
  BY <1>6 DEF RecFormInv, RecLoadInv, Rec!FormShowsItsRecord
<1>8. \A id : RecUnanswered(id) => RecUnanswered(id)'
  BY <1>1 DEF RecUnanswered
<1>9. RecListInv'
  BY <1>8 DEF RecListInv, RecLineInv
<1> QED
  BY <1>7, <1>9

\* The row the service changes is named by a save to be answered, or the list that
\* is shown missed the change, or is about to read it.
LEMMA RecMutate ==
  ASSUME RecFormInv, RecListInv, NEW q \in recMutations, Rec!Mutate(q)
  PROVE  RecFormInv' /\ RecListInv'
<1>a. PICK id : id = IF q.op = "insert" THEN recNextId ELSE q.id
  OBVIOUS
<1>b. PICK v : v = IF q.op = "delete" \/ (q.op = "update" /\ recTable[id] = Rec!Gone)
                   THEN Rec!Gone ELSE q.text
  OBVIOUS
<1> DEFINE new == [q EXCEPT !.st = "done", !.id = id, !.text = v]
<1>1. /\ UNCHANGED << recShown, recStamp, recStage, recRows, recForm, recLoads >>
      /\ q.st = "sent" /\ recTable' = [recTable EXCEPT ![id] = v]
      /\ \/ recMutations' = (recMutations \ {q}) \cup {new} /\ recMissed' = recMissed
         \/ recMutations' = recMutations \ {q} /\ recMissed' = (recMissed \/ Rec!Unheard)
  BY <1>a, <1>b DEF Rec!Mutate, Rec!screen
<1>2. RecMutationInv(q)
  BY DEF RecFormInv
<1>3. /\ DOMAIN new = {"op", "no", "id", "text", "tab", "state", "inst", "st"}
      /\ new.state = q.state /\ new.tab = q.tab /\ new.op = q.op
      /\ new.id = id /\ new.st = "done"
  BY <1>2 DEF RecMutationInv
<1>4. q.op # "insert" => id = q.id
  BY <1>a
<1> HIDE DEF new
<1>5. RecMutationInv(new)'
  BY <1>1, <1>2, <1>3, <1>4 DEF RecMutationInv
<1>6. \A r \in recMutations' : RecMutationInv(r)'
  BY <1>1, <1>5 DEF RecFormInv, RecMutationInv
<1>7. RecFormInv'
  BY <1>1, <1>6 DEF RecFormInv, RecLoadInv, Rec!FormShowsItsRecord
<1>8. \A i : RecUnanswered(i) => RecUnanswered(i)'
  BY <1>1 DEF RecUnanswered
<1>9. DOMAIN recTable' = Rec!Ids /\ \A i \in Rec!Ids : i # id => recTable'[i] = recTable[i]
  BY <1>1 DEF RecListInv
<1>10. RecLineInv' /\ recMissed' \in BOOLEAN
  BY <1>1 DEF RecListInv, RecLineInv, Rec!Unheard
<1>11. CASE recMutations' = (recMutations \ {q}) \cup {new} /\ recMissed' = recMissed
  <2>1. RecUnanswered(id)'
    BY <1>3, <1>11 DEF RecUnanswered
  <2> QED
    BY <1>1, <1>7, <1>8, <1>9, <1>10, <1>11, <2>1 DEF RecListInv
<1>12. CASE recMissed' = (recMissed \/ Rec!Unheard)
  <2>1. CASE recMissed \/ Rec!Unheard
    BY <1>7, <1>9, <1>10, <1>12, <2>1 DEF RecListInv
  <2>2. CASE ~Rec!Unheard
    BY <1>1, <1>7, <1>9, <1>10, <2>2, RecHeard DEF RecListInv
  <2> QED
    BY <2>1, <2>2
<1> QED
  BY <1>1, <1>11, <1>12

\* A reply that no list hears of.
LEMMA RecUntold ==
  ASSUME RecFormInv, RecListInv, recMutations' \subseteq recMutations,
         UNCHANGED << recTable, recRows, recShown, recStamp, recStage, recForm, recLoads >>,
         recMissed' = (recMissed \/ Rec!Unheard)
  PROVE  RecFormInv' /\ RecListInv'
<1>1. RecFormInv'
  BY DEF RecFormInv, RecLoadInv, RecMutationInv, Rec!FormShowsItsRecord
<1>2. RecLineInv' /\ recMissed' \in BOOLEAN
  BY DEF RecListInv, RecLineInv, Rec!Unheard
<1>3. CASE recMissed \/ Rec!Unheard
  BY <1>1, <1>2, <1>3 DEF RecListInv
<1>4. CASE ~Rec!Unheard
  BY <1>1, <1>2, <1>4, RecHeard DEF RecListInv
<1> QED
  BY <1>3, <1>4

\* The reply to a save goes into the form it was sent from, or to the list.
LEMMA RecSaveReplied ==
  ASSUME RecFormInv, RecListInv, NEW q \in recMutations, Rec!SaveReplied(q)
  PROVE  RecFormInv' /\ RecListInv'
<1>1. /\ UNCHANGED << recTable, recRows >> /\ recMutations' = recMutations \ {q}
      /\ q.st = "done"
  BY DEF Rec!SaveReplied, Rec!server
<1>2. CASE recShown = Rec!List /\ Rec!Subscribed
  BY <1>1, <1>2, RecMount DEF Rec!SaveReplied, Rec!Publish
<1>3. CASE recShown = Rec!List /\ ~Rec!Subscribed
  <2>1. /\ UNCHANGED << recShown, recStamp, recStage, recForm, recLoads >>
        /\ recMissed' = (recMissed \/ Rec!Unheard)
    BY <1>3 DEF Rec!SaveReplied, Rec!Publish
  <2> QED
    BY <1>1, <2>1, RecUntold
<1>4. CASE recShown # Rec!List
  <2>1. /\ UNCHANGED << recShown, recStamp, recStage, recLoads, recMissed >>
        /\ recForm' = IF q.state = recStamp /\ recStage = "ready" /\ q.text # Rec!Gone
                      THEN Rec!LoadEnvelope(q.id, q.text) ELSE recForm
    BY <1>4 DEF Rec!SaveReplied, Rec!Refreshed
  <2>2. /\ \A l \in recLoads' : RecLoadInv(l)'
        /\ \A r \in recMutations' : RecMutationInv(r)'
    BY <1>1, <2>1 DEF RecFormInv, RecLoadInv, RecMutationInv
  <2>3. DOMAIN recForm' = {"id", "text"} /\ Rec!FormShowsItsRecord'
    <3>1. CASE q.state = recStamp /\ recStage = "ready" /\ q.text # Rec!Gone
      BY <2>1, <3>1 DEF RecFormInv, RecMutationInv, Rec!LoadEnvelope, Rec!FormShowsItsRecord
    <3>2. CASE ~(q.state = recStamp /\ recStage = "ready" /\ q.text # Rec!Gone)
      BY <2>1, <3>2 DEF RecFormInv, Rec!FormShowsItsRecord
    <3> QED
      BY <3>1, <3>2
  <2>4. RecFormInv'
    BY <2>1, <2>2, <2>3 DEF RecFormInv
  <2>5. \A l \in recLoads : l.stamp = recStamp => l.tab # Rec!List
    BY <1>4 DEF RecFormInv, RecLoadInv
  <2> QED
    BY <1>1, <1>4, <2>1, <2>4, <2>5 DEF RecListInv, RecLineInv
<1> QED
  BY <1>2, <1>3, <1>4

\* The reply to a delete refreshes the list, or closes the tab it was asked for.
LEMMA RecDeleteReplied ==
  ASSUME RecFormInv, RecListInv, NEW q \in recMutations, Rec!DeleteReplied(q)
  PROVE  RecFormInv' /\ RecListInv'
<1>1. /\ UNCHANGED << recTable, recRows >> /\ recMutations' = recMutations \ {q}
  BY DEF Rec!DeleteReplied, Rec!server
<1>2. CASE recShown = Rec!List /\ Rec!Subscribed
  BY <1>1, <1>2, RecMount DEF Rec!DeleteReplied
<1>3. CASE recShown = Rec!List /\ ~Rec!Subscribed
  <2>1. /\ UNCHANGED << recShown, recStamp, recStage, recForm, recLoads >>
        /\ recMissed' = (recMissed \/ Rec!Unheard)
    BY <1>3 DEF Rec!DeleteReplied
  <2> QED
    BY <1>1, <2>1, RecUntold
<1>4. CASE recShown # Rec!List
  BY <1>1, <1>4, RecClosed DEF Rec!DeleteReplied
<1> QED
  BY <1>2, <1>3, <1>4

\* Every step of the records keeps the forms with their records and the list with
\* the table.
LEMMA RecStep == ASSUME RecFormInv, RecListInv, Rec!Next
                 PROVE  RecFormInv' /\ RecListInv'
<1>1. ASSUME NEW id, Rec!HandleAction(id) PROVE RecFormInv' /\ RecListInv'
  BY <1>1, RecMount DEF Rec!HandleAction, Rec!server
<1>2. CASE Rec!HandleNew
  BY <1>2, RecMount DEF Rec!HandleNew, Rec!server
<1>3. CASE Rec!DoRefresh
  BY <1>3, RecMount DEF Rec!DoRefresh, Rec!server
<1>4. ASSUME NEW tab, Rec!SwitchTo(tab) PROVE RecFormInv' /\ RecListInv'
  BY <1>4, RecMount DEF Rec!SwitchTo, Rec!server
<1>5. ASSUME NEW tab, Rec!CloseTab(tab) PROVE RecFormInv' /\ RecListInv'
  BY <1>5, RecClosed DEF Rec!CloseTab, Rec!server
<1>6. ASSUME NEW text, Rec!Type(text) PROVE RecFormInv' /\ RecListInv'
  <2>1. /\ UNCHANGED << recTable, recShown, recStamp, recStage, recRows, recLoads,
                        recMutations, recMissed >>
        /\ recForm' = [recForm EXCEPT !.text = text]
    BY <1>6 DEF Rec!Type, Rec!SetValue, Rec!server
  <2>2. DOMAIN recForm' = {"id", "text"} /\ recForm'.id = recForm.id
    BY <2>1 DEF RecFormInv
  <2>3. RecFormInv'
    BY <2>1, <2>2 DEF RecFormInv, RecLoadInv, RecMutationInv, Rec!FormShowsItsRecord
  <2> QED
    BY <2>1, <2>3 DEF RecListInv, RecLineInv, RecUnanswered
<1>7. CASE Rec!DoSave
  BY <1>7, RecRequest DEF Rec!DoSave, Rec!server, Rec!screen
<1>8. CASE Rec!DoConfirmDelete
  BY <1>8, RecRequest DEF Rec!DoConfirmDelete, Rec!server, Rec!screen
<1>9. ASSUME NEW q \in recMutations, Rec!MutateRefused(q)
      PROVE  RecFormInv' /\ RecListInv'
  <2>1. /\ UNCHANGED << recTable, recShown, recStamp, recStage, recRows, recForm, recLoads,
                        recMissed >>
        /\ recMutations' = recMutations \ {q} /\ q.st = "sent"
    BY <1>9 DEF Rec!MutateRefused, Rec!server, Rec!screen
  <2>2. \A id : RecUnanswered(id) => RecUnanswered(id)'
    BY <2>1 DEF RecUnanswered
  <2>3. RecFormInv'
    BY <2>1 DEF RecFormInv, RecLoadInv, RecMutationInv, Rec!FormShowsItsRecord
  <2> QED
    BY <2>1, <2>2, <2>3 DEF RecListInv, RecLineInv
<1> QED
  BY <1>1, <1>2, <1>3, <1>4, <1>5, <1>6, <1>7, <1>8, <1>9, RecAnswer, RecLoaded,
     RecMutate, RecSaveReplied, RecDeleteReplied DEF Rec!Next

\* The invariant of the records holds in every behaviour.
LEMMA RecInvariance == Spec => []RecInv
<1>1. RecInv /\ [Next]_vars => RecInv'
  <2> SUFFICES ASSUME RecInv, [Next]_vars
               PROVE  RecInv'
    OBVIOUS
  <2>1. CASE part = "records" /\ part' = part /\ Rec!Next
    BY <2>1, RecStep DEF RecInv
  <2>2. CASE part' # "records" \/ UNCHANGED << part, varsRec >>
    BY <2>2 DEF RecInv, RecFormInv, RecListInv, RecLineInv, RecLoadInv, RecMutationInv,
                RecUnanswered, Rec!FormShowsItsRecord, varsRec
  <2> QED
    BY <2>1, <2>2 DEF Next, vars
<1> QED
  BY <1>1, RecInitial, PTL DEF Spec

-----------------------------------------------------------------------------
(* Event streams. *)

\* A call: what it is to write is the text of the event it names.
StrShape(c) ==
  /\ DOMAIN c = {"op", "no", "live", "stream", "id", "from", "was", "st", "rows", "names"}
  /\ c.st \in {"sent", "ok", "failed"}
  /\ c.op = "update" => c.from = c.id
  /\ c.op = "streams" /\ c.st = "ok" => \A s \in c.names : StrMappingOf[s] = c.stream

StrCallsInv == \A c \in strCalls : StrShape(c)

\* The text of an event that can be edited is that event's, wherever the panel is.
StrModeInv ==
  /\ DOMAIN strMode = {"kind", "id", "closed"} /\ strMode.kind \in {"idle", "new", "edit"}
  /\ strMode.kind = "edit" /\ ~strMode.closed => strEditor = strMode.id

\* A call of another panel has no one to come back to; the one list of streams that
\* is still wanted is of the mapping picked, and until it is there the picker is
\* locked.
StrLiveInv(c) ==
  c.live =>
    /\ strPanel = "new" => c.op \in {"streams", "fill", "insert"}
    /\ c.op = "streams" => /\ strPanel = "new" /\ strLoading
                           /\ c.stream = strChoice.mapping

StrPickInv ==
  /\ DOMAIN strChoice = {"mapping", "stream", "type"}
  /\ strLoading \in BOOLEAN /\ strFailed \in BOOLEAN
  /\ \A c \in strCalls : StrLiveInv(c)
  /\ \A c, d \in strCalls :
       c.live /\ d.live /\ c.op = "streams" /\ d.op = "streams" => c = d
  /\ strPanel = "new" =>
       /\ strLoading => strChoice.stream = Str!None
       /\ ~strLoading /\ ~strFailed =>
            \A s \in strOffered : StrMappingOf[s] = strChoice.mapping
  /\ Str!StreamOfItsMapping

StrInv == part = "streams" => StrCallsInv /\ StrModeInv /\ StrPickInv

\* The invariant holds of the event workspace as it starts.
LEMMA StrInitial == Init => StrInv
<1> SUFFICES ASSUME Init, part = "streams"
             PROVE  StrCallsInv /\ StrModeInv /\ StrPickInv
  BY DEF StrInv
<1>1. Str!Init
  BY DEF Init
<1>2. strCalls = {} /\ strPanel = Str!None /\ strMode = Str!Idle /\ strChoice = Str!NoChoice
      /\ strLoading = FALSE /\ strFailed = FALSE
  BY <1>1 DEF Str!Init
<1> QED
  BY <1>2 DEF StrCallsInv, StrModeInv, StrPickInv, Str!Idle, Str!NoChoice, Str!None,
              Str!StreamOfItsMapping

\* A call that is sent.
LEMMA StrCall ==
  ASSUME NEW op, NEW s, NEW id, NEW from, NEW was, op = "update" => from = id
  PROVE  /\ StrShape(Str!Call(op, s, id, from, was))
         /\ Str!Call(op, s, id, from, was).op = op
         /\ Str!Call(op, s, id, from, was).live = TRUE
         /\ Str!Call(op, s, id, from, was).stream = s
  BY DEF StrShape, Str!Call

\* Calls of a panel that is left keep what they are.
LEMMA StrOrphaned ==
  ASSUME StrCallsInv
  PROVE  \A c \in Str!Orphaned : StrShape(c) /\ c.live = FALSE
  BY DEF StrCallsInv, StrShape, Str!Orphaned

\* Of the calls of one kind none is wanted any more, the others stay.
LEMMA StrLate ==
  ASSUME StrCallsInv, NEW op
  PROVE  \A c \in Str!Late(op) : StrShape(c) /\ (c.live => c \in strCalls /\ c.op # op)
<1>1. \A c \in strCalls : /\ StrShape([c EXCEPT !.live = FALSE])
                          /\ [c EXCEPT !.live = FALSE].live = FALSE
  BY DEF StrCallsInv, StrShape
<1> QED
  BY <1>1 DEF Str!Late, StrCallsInv

\* An answer keeps the call it is to, and names the streams of its mapping.
LEMMA StrAnswered ==
  ASSUME StrCallsInv, NEW c \in strCalls, NEW st \in {"ok", "failed"}
  PROVE  \E d : /\ Str!Answered(c, st) = (strCalls \ {c}) \cup {d}
                /\ StrShape(d) /\ d.live = c.live /\ d.op = c.op /\ d.stream = c.stream
<1> DEFINE rs == Str!Rows(c.stream)
           ns == {s \in strStreams : StrMappingOf[s] = c.stream}
           d == [c EXCEPT !.st = st, !.rows = rs, !.names = ns]
<1>1. StrShape(c)
  BY DEF StrCallsInv
<1>2. \A s \in ns : StrMappingOf[s] = c.stream
  OBVIOUS
<1>3. Str!Answered(c, st) = (strCalls \ {c}) \cup {d}
  BY DEF Str!Answered
<1> HIDE DEF rs, ns
<1>4. StrShape(d) /\ d.live = c.live /\ d.op = c.op /\ d.stream = c.stream
  BY <1>1, <1>2 DEF StrShape
<1> HIDE DEF d
<1> QED
  BY <1>3, <1>4

\* Calls that are sent, and calls that are answered and done, keep what calls are.
LEMMA StrSent ==
  ASSUME StrCallsInv, NEW new, StrShape(new), strCalls' \subseteq strCalls \cup {new}
  PROVE  StrCallsInv'
  BY DEF StrCallsInv

\* A step of a panel other than the free-text form: what it sends is none of the
\* form's lists of streams.
LEMMA StrAway ==
  ASSUME StrPickInv, strPanel # "new", strPanel' = strPanel, NEW new,
         new.op # "streams", strCalls' \subseteq strCalls \cup {new},
         DOMAIN strChoice' = {"mapping", "stream", "type"},
         strLoading' \in BOOLEAN, strFailed' \in BOOLEAN
  PROVE  StrPickInv'
<1>1. \A c \in strCalls' : c.op = "streams" => ~c.live
  BY DEF StrPickInv, StrLiveInv
<1>2. \A c \in strCalls' : StrLiveInv(c)'
  BY <1>1 DEF StrLiveInv
<1>3. Str!StreamOfItsMapping'
  BY DEF Str!StreamOfItsMapping
<1> QED
  BY <1>1, <1>2, <1>3 DEF StrPickInv

\* A panel that is opened waits for no list of streams, and offers none.
LEMMA StrOpened ==
  ASSUME StrCallsInv, NEW p, Str!Open(p),
         \A c \in strCalls' :
           c \in Str!Orphaned \/ (StrShape(c) /\ c.op = "events" /\ p # "new")
  PROVE  StrCallsInv' /\ StrModeInv' /\ StrPickInv'
<1>1. \A c \in strCalls' : StrShape(c) /\ (c.live => c.op = "events" /\ p # "new")
  BY StrOrphaned
<1>2. StrCallsInv'
  BY <1>1 DEF StrCallsInv
<1>3. /\ strPanel' = p /\ strMode' = Str!Idle /\ strChoice' = Str!NoChoice
      /\ strOffered' = {} /\ strLoading' = (p = "detail") /\ strFailed' = FALSE
  BY DEF Str!Open
<1>4. StrModeInv'
  BY <1>3 DEF StrModeInv, Str!Idle
<1>5. DOMAIN strChoice' = {"mapping", "stream", "type"} /\ strChoice'.stream = Str!None
  BY <1>3 DEF Str!NoChoice
<1>6. \A c \in strCalls' : StrLiveInv(c)'
  BY <1>1, <1>3 DEF StrLiveInv
<1>7. strLoading' \in BOOLEAN /\ strFailed' \in BOOLEAN
  BY <1>3
<1>8. StrPickInv'
  BY <1>1, <1>3, <1>5, <1>6, <1>7 DEF StrPickInv, Str!StreamOfItsMapping
<1> QED
  BY <1>2, <1>4, <1>8
\* A step that changes nothing of the form but its calls.
LEMMA StrSame ==
  ASSUME StrPickInv, NEW new, new.op \in {"fill", "insert"},
         strCalls' \subseteq strCalls \cup {new},
         UNCHANGED << strPanel, strChoice, strOffered, strLoading, strFailed >>
  PROVE  StrPickInv'
<1>1. \A c \in strCalls' : StrLiveInv(c)'
  BY DEF StrPickInv, StrLiveInv
<1>2. \A c \in strCalls' : c.op = "streams" => c \in strCalls
  OBVIOUS
<1> QED
  BY <1>1, <1>2 DEF StrPickInv, Str!StreamOfItsMapping

\* A call that is answered or that failed.
LEMMA StrServed ==
  ASSUME StrCallsInv, StrPickInv, NEW c \in strCalls, NEW st \in {"ok", "failed"},
         strCalls' = Str!Answered(c, st),
         UNCHANGED << strPanel, strChoice, strOffered, strLoading, strFailed >>
  PROVE  StrCallsInv' /\ StrPickInv'
<1>1. PICK d : /\ Str!Answered(c, st) = (strCalls \ {c}) \cup {d}
               /\ StrShape(d) /\ d.live = c.live /\ d.op = c.op /\ d.stream = c.stream
  BY StrAnswered
<1>2. StrCallsInv'
  BY <1>1, StrSent
<1>3. \A e \in strCalls' : StrLiveInv(e)'
  BY <1>1 DEF StrPickInv, StrLiveInv
<1>4. \A e, f \in strCalls' :
        e.live /\ f.live /\ e.op = "streams" /\ f.op = "streams" => e = f
  BY <1>1 DEF StrPickInv
<1>5. StrPickInv'
  BY <1>3, <1>4 DEF StrPickInv, Str!StreamOfItsMapping
<1> QED
  BY <1>2, <1>5

\* A new mapping: the lists of the one before are late, and no stream is picked.
LEMMA StrPickMapping ==
  ASSUME StrCallsInv, StrPickInv, NEW m, Str!PickMapping(m)
  PROVE  StrCallsInv' /\ StrPickInv'
<1>1. PICK new : new = Str!Call("streams", m, 0, 0, 0)
  OBVIOUS
<1>2. StrShape(new) /\ new.op = "streams" /\ new.live = TRUE /\ new.stream = m
  BY <1>1 DEF StrShape, Str!Call
<1>3. /\ strPanel = "new" /\ strPanel' = strPanel /\ strLoading' = TRUE
      /\ strCalls' = Str!Late("streams") \cup {new} /\ strFailed' = strFailed
      /\ strChoice' = [mapping |-> m, stream |-> Str!None, type |-> Str!None]
  BY <1>1 DEF Str!PickMapping
<1>4. /\ DOMAIN strChoice' = {"mapping", "stream", "type"}
      /\ strChoice'.mapping = m /\ strChoice'.stream = Str!None
  BY <1>3
<1>a. \A c \in Str!Late("streams") :
        StrShape(c) /\ (c.live => c \in strCalls /\ c.op # "streams")
  BY StrLate, Zenon
<1>5. \A c \in strCalls' : \/ c = new
                         \/ /\ StrShape(c)
                            /\ c.live => c \in strCalls /\ c.op # "streams"
  BY <1>3, <1>a
<1>6. StrCallsInv'
  BY <1>2, <1>5 DEF StrCallsInv
<1>7. \A c \in strCalls' : StrLiveInv(c)'
  BY <1>2, <1>3, <1>4, <1>5 DEF StrPickInv, StrLiveInv
<1>8. StrPickInv'
  BY <1>3, <1>4, <1>5, <1>7 DEF StrPickInv, Str!StreamOfItsMapping
<1> QED
  BY <1>6, <1>8

\* The list of streams that is wanted: the picker is unlocked with it.
LEMMA StrStreamsLoaded ==
  ASSUME StrCallsInv, StrPickInv, NEW c \in strCalls, Str!StreamsLoaded(c)
  PROVE  StrCallsInv' /\ StrPickInv'
<1>1. /\ c.op = "streams" /\ c.st # "sent" /\ strCalls' = strCalls \ {c}
      /\ strPanel' = strPanel /\ strChoice' = strChoice /\ StrShape(c)
  BY DEF Str!StreamsLoaded, StrCallsInv
<1>2. StrCallsInv'
  BY <1>1 DEF StrCallsInv
<1>3. CASE ~c.live
  <2>1. UNCHANGED << strLoading, strOffered, strFailed >>
    BY <1>3 DEF Str!StreamsLoaded
  <2>2. \A d \in strCalls' : StrLiveInv(d)'
    BY <1>1, <2>1 DEF StrPickInv, StrLiveInv
  <2>3. StrPickInv'
    BY <1>1, <2>1, <2>2 DEF StrPickInv, Str!StreamOfItsMapping
  <2> QED
    BY <1>2, <2>3
<1>4. CASE c.live
  <2>1. /\ strLoading' = FALSE /\ strFailed' = (c.st = "failed")
        /\ strOffered' = IF c.st = "ok" THEN c.names ELSE strOffered
    BY <1>4 DEF Str!StreamsLoaded
  <2>2. /\ strPanel = "new" /\ strLoading /\ c.stream = strChoice.mapping
        /\ strChoice.stream = Str!None
    BY <1>1, <1>4 DEF StrPickInv, StrLiveInv
  <2>3. \A d \in strCalls' : d.live => d.op # "streams"
    BY <1>1, <1>4 DEF StrPickInv
  <2>4. \A d \in strCalls' : StrLiveInv(d)'
    BY <1>1, <2>3 DEF StrPickInv, StrLiveInv
  <2>5. ~strFailed' => \A s \in strOffered' : StrMappingOf[s] = strChoice'.mapping
    BY <1>1, <2>1, <2>2 DEF StrShape
  <2>6. StrPickInv'
    BY <1>1, <2>1, <2>2, <2>3, <2>4, <2>5 DEF StrPickInv, Str!StreamOfItsMapping
  <2> QED
    BY <1>2, <2>6
<1> QED
  BY <1>3, <1>4

\* A stream is picked from an unlocked picker.
LEMMA StrPickStream ==
  ASSUME StrPickInv, NEW s, Str!PickStream(s)
  PROVE  StrPickInv'
<1>1. /\ strPanel = "new" /\ ~strLoading /\ s \in strOffered
      /\ UNCHANGED << strPanel, strCalls, strOffered, strLoading, strFailed >>
      /\ strChoice' = [strChoice EXCEPT !.stream = s]
  BY DEF Str!PickStream
<1>2. /\ DOMAIN strChoice' = {"mapping", "stream", "type"}
      /\ strChoice'.mapping = strChoice.mapping /\ strChoice'.stream = s
  BY <1>1 DEF StrPickInv
<1>3. \A c \in strCalls' : StrLiveInv(c)'
  BY <1>1, <1>2 DEF StrPickInv, StrLiveInv
<1> QED
  BY <1>1, <1>2, <1>3 DEF StrPickInv, Str!StreamOfItsMapping

\* A type is picked; the mapping and the stream stay.
LEMMA StrPickType ==
  ASSUME StrPickInv, NEW t, Str!PickType(t)
  PROVE  StrPickInv'
<1>1. /\ UNCHANGED << strPanel, strCalls, strOffered, strLoading, strFailed >>
      /\ strChoice' = [strChoice EXCEPT !.type = t]
  BY DEF Str!PickType
<1>2. /\ DOMAIN strChoice' = {"mapping", "stream", "type"}
      /\ strChoice'.mapping = strChoice.mapping /\ strChoice'.stream = strChoice.stream
  BY <1>1 DEF StrPickInv
<1>3. \A c \in strCalls' : StrLiveInv(c)'
  BY <1>1, <1>2 DEF StrPickInv, StrLiveInv
<1> QED
  BY <1>1, <1>2, <1>3 DEF StrPickInv, Str!StreamOfItsMapping

\* The reply of a call that changed something loads the list again, or not.
LEMMA StrSettled ==
  ASSUME StrCallsInv, StrPickInv, NEW c \in strCalls, Str!Settled(c), strPanel # "new",
         UNCHANGED << strPanel, strChoice, strFailed >>
  PROVE  StrCallsInv' /\ StrPickInv'
<1>1. PICK new : new = Str!Call("events", c.stream, 0, 0, 0)
  OBVIOUS
<1>2. StrShape(new) /\ new.op = "events"
  BY <1>1 DEF StrShape, Str!Call
<1>3. /\ strCalls' \subseteq strCalls \cup {new}
      /\ strLoading' = TRUE \/ strLoading' = strLoading
  BY <1>1 DEF Str!Settled, Str!Reload
<1>4. /\ strLoading' \in BOOLEAN /\ strFailed' \in BOOLEAN
      /\ DOMAIN strChoice' = {"mapping", "stream", "type"}
  BY <1>3 DEF StrPickInv
<1> QED
  BY <1>2, <1>3, <1>4, StrSent, StrAway

\* A call sent by a panel other than the free-text form.
LEMMA StrSend ==
  ASSUME StrCallsInv, StrPickInv, NEW op, NEW s, NEW id, NEW from, NEW was,
         op # "streams", op = "update" => from = id,
         Str!Send({Str!Call(op, s, id, from, was)}), strPanel # "new",
         UNCHANGED << strPanel, strFailed >>,
         DOMAIN strChoice' = {"mapping", "stream", "type"}, strLoading' \in BOOLEAN
  PROVE  StrCallsInv' /\ StrPickInv'
<1>1. PICK new : new = Str!Call(op, s, id, from, was)
  OBVIOUS
<1>2. StrShape(new) /\ new.op = op
  BY <1>1 DEF StrShape, Str!Call
<1>3. strCalls' = strCalls \cup {new}
  BY <1>1 DEF Str!Send
<1>4. strFailed' \in BOOLEAN
  BY DEF StrPickInv
<1> QED
  BY <1>2, <1>3, <1>4, StrSent, StrAway

\* The steps of a stream's own panel, and what comes back to it.
LEMMA StrDetail ==
  ASSUME StrCallsInv, StrModeInv, StrPickInv, Str!DetailNext
  PROVE  StrCallsInv' /\ StrModeInv' /\ StrPickInv'
<1>1. ASSUME NEW s, Str!OpenDetail(s) PROVE StrCallsInv' /\ StrModeInv' /\ StrPickInv'
  <2>1. PICK new : new = Str!Call("events", s, 0, 0, 0)
    OBVIOUS
  <2>2. StrShape(new) /\ new.op = "events"
    BY <2>1 DEF StrShape, Str!Call
  <2>3. Str!Open("detail") /\ strCalls' = Str!Orphaned \cup {new}
    BY <1>1, <2>1 DEF Str!OpenDetail
  <2> QED
    BY <2>2, <2>3, StrOpened
<1>2. DOMAIN strChoice = {"mapping", "stream", "type"} /\ strLoading \in BOOLEAN
  BY DEF StrPickInv
<1>3. ASSUME NEW s, Str!SwitchStream(s) PROVE StrCallsInv' /\ StrModeInv' /\ StrPickInv'
  <2>1. StrModeInv'
    BY <1>3 DEF Str!SwitchStream, StrModeInv, Str!Idle
  <2>2. StrCallsInv' /\ StrPickInv'
    <3>1. /\ Str!Send({Str!Call("events", s, 0, 0, 0)}) /\ strPanel # "new"
          /\ UNCHANGED << strPanel, strFailed, strChoice >> /\ strLoading' = TRUE
      BY <1>3 DEF Str!SwitchStream, Str!picked
    <3> QED
      BY <1>2, <3>1, StrSend
  <2> QED
    BY <2>1, <2>2
<1>4. CASE Str!Refresh
  <2>1. StrModeInv'
    BY <1>4 DEF Str!Refresh, StrModeInv, Str!detail
  <2>2. StrCallsInv' /\ StrPickInv'
    <3>1. /\ Str!Send({Str!Call("events", strStream, 0, 0, 0)}) /\ strPanel # "new"
          /\ UNCHANGED << strPanel, strFailed, strChoice >> /\ strLoading' = TRUE
      BY <1>4 DEF Str!Refresh, Str!picked
    <3> QED
      BY <1>2, <3>1, StrSend
  <2> QED
    BY <2>1, <2>2
<1>5. CASE Str!StartNew \/ Str!SelectType \/ Str!Cancel \/ \E ev \in strList : Str!StartEdit(ev)
  <2>1. StrModeInv'
    BY <1>5 DEF Str!StartNew, Str!SelectType, Str!Cancel, Str!StartEdit, StrModeInv, Str!Idle
  <2>2. UNCHANGED << strCalls, strPanel, strChoice, strOffered, strLoading, strFailed >>
    BY <1>5 DEF Str!StartNew, Str!SelectType, Str!Cancel, Str!StartEdit, Str!forms, Str!picked
  <2> QED
    BY <2>1, <2>2 DEF StrCallsInv, StrPickInv, StrLiveInv, Str!StreamOfItsMapping
<1>6. CASE Str!HandleSave
  <2>1. StrModeInv'
    BY <1>6 DEF Str!HandleSave, StrModeInv, Str!detail
  <2>2. PICK op : op = IF strMode.kind = "new" THEN "insert" ELSE "update"
    OBVIOUS
  <2>3. op # "streams" /\ (op = "update" => strEditor = strMode.id)
    BY <1>6, <2>2 DEF Str!HandleSave, Str!CanSave, Str!Editable, StrModeInv
  <2>4. /\ Str!Send({Str!Call(op, strStream, strMode.id, strEditor, 0)}) /\ strPanel # "new"
        /\ UNCHANGED << strPanel, strFailed, strChoice, strLoading >>
    BY <1>6, <2>2 DEF Str!HandleSave, Str!forms, Str!picked
  <2> QED
    BY <1>2, <2>1, <2>3, <2>4, StrSend
<1>7. ASSUME NEW ev, NEW op \in {"close", "delete"}, Str!Confirmed(op, ev)
      PROVE  StrCallsInv' /\ StrModeInv' /\ StrPickInv'
  <2>1. StrModeInv'
    BY <1>7 DEF Str!Confirmed, StrModeInv, Str!detail
  <2>2. PICK was : was = IF strMode.kind = "edit" THEN strMode.id ELSE 0
    OBVIOUS
  <2>3. /\ Str!Send({Str!Call(op, strStream, ev.id, 0, was)}) /\ strPanel # "new"
        /\ UNCHANGED << strPanel, strFailed, strChoice, strLoading >>
    BY <1>7, <2>2 DEF Str!Confirmed, Str!forms, Str!picked
  <2> QED
    BY <1>2, <2>1, <2>3, StrSend
<1>8. ASSUME NEW c \in strCalls, Str!EventsLoaded(c)
      PROVE  StrCallsInv' /\ StrModeInv' /\ StrPickInv'
  <2>1. StrModeInv'
    BY <1>8 DEF Str!EventsLoaded, StrModeInv
  <2>2. /\ strCalls' \subseteq strCalls \cup {c} /\ StrShape(c) /\ c.op # "streams"
        /\ strPanel # "new" /\ UNCHANGED << strPanel, strChoice, strFailed >>
        /\ strLoading' = FALSE /\ strFailed \in BOOLEAN
    BY <1>8 DEF Str!EventsLoaded, StrCallsInv, StrPickInv, StrLiveInv, Str!picked
  <2> QED
    BY <1>2, <2>1, <2>2, StrSent, StrAway
<1>9. ASSUME NEW c \in strCalls, Str!Saved(c)
      PROVE  StrCallsInv' /\ StrModeInv' /\ StrPickInv'
  <2>1. StrModeInv'
    BY <1>9 DEF Str!Saved, StrModeInv, Str!detail
  <2> QED
    BY <1>9, <2>1, StrSettled DEF Str!Saved, Str!picked
<1>10. ASSUME NEW c \in strCalls, Str!ClosedReply(c)
       PROVE  StrCallsInv' /\ StrModeInv' /\ StrPickInv'
  <2>1. StrModeInv'
    BY <1>10 DEF Str!ClosedReply, StrModeInv
  <2>2. strPanel # "new"
    BY <1>10 DEF Str!ClosedReply, StrPickInv, StrLiveInv
  <2> QED
    BY <1>10, <2>1, <2>2, StrSettled DEF Str!ClosedReply, Str!picked
<1>11. ASSUME NEW c \in strCalls, Str!DeletedReply(c)
       PROVE  StrCallsInv' /\ StrModeInv' /\ StrPickInv'
  <2>1. StrModeInv'
    BY <1>11 DEF Str!DeletedReply, StrModeInv, Str!Idle
  <2>2. strPanel # "new"
    BY <1>11 DEF Str!DeletedReply, StrPickInv, StrLiveInv
  <2> QED
    BY <1>11, <2>1, <2>2, StrSettled DEF Str!DeletedReply, Str!picked
<1> QED
  BY <1>1, <1>3, <1>4, <1>5, <1>6, <1>7, <1>8, <1>9, <1>10, <1>11
     DEF Str!DetailNext, Str!ConfirmClose, Str!ConfirmDelete

\* The steps of the free-text form.
LEMMA StrNewEvent ==
  ASSUME StrCallsInv, StrModeInv, StrPickInv, Str!NewEventNext
  PROVE  StrCallsInv' /\ StrModeInv' /\ StrPickInv'
<1>1. CASE Str!OpenNew
  <2>1. Str!Open("new") /\ strCalls' = Str!Orphaned
    BY <1>1 DEF Str!OpenNew
  <2> QED
    BY <2>1, StrOpened
<1>2. ASSUME UNCHANGED Str!detail PROVE StrModeInv'
  BY <1>2 DEF StrModeInv, Str!detail
<1>3. CASE Str!HandleFill
  <2>1. PICK new : new = Str!Call("fill", strChoice.type, 0, 0, 0)
    OBVIOUS
  <2>2. StrShape(new) /\ new.op \in {"fill", "insert"}
    BY <2>1 DEF StrShape, Str!Call
  <2>3. /\ strCalls' \subseteq strCalls \cup {new}
        /\ UNCHANGED << strPanel, strChoice, strOffered, strLoading, strFailed >>
    BY <1>3, <2>1 DEF Str!HandleFill, Str!Send
  <2>4. StrModeInv'
    BY <1>2, <1>3 DEF Str!HandleFill
  <2> QED
    BY <2>2, <2>3, <2>4, StrSent, StrSame
<1>4. CASE Str!InsertEvent
  <2>1. PICK new : new = Str!Call("insert", strChoice.stream, 0, 0, 0)
    OBVIOUS
  <2>2. StrShape(new) /\ new.op \in {"fill", "insert"}
    BY <2>1 DEF StrShape, Str!Call
  <2>3. /\ strCalls' \subseteq strCalls \cup {new}
        /\ UNCHANGED << strPanel, strChoice, strOffered, strLoading, strFailed >>
    BY <1>4, <2>1 DEF Str!InsertEvent, Str!Send, Str!forms, Str!picked
  <2>4. StrModeInv'
    BY <1>2, <1>4 DEF Str!InsertEvent
  <2> QED
    BY <2>2, <2>3, <2>4, StrSent, StrSame
<1>5. ASSUME NEW m, Str!PickMapping(m) PROVE StrCallsInv' /\ StrModeInv' /\ StrPickInv'
  BY <1>2, <1>5, StrPickMapping DEF Str!PickMapping
<1>6. ASSUME NEW s, Str!PickStream(s) PROVE StrCallsInv' /\ StrModeInv' /\ StrPickInv'
  BY <1>2, <1>6, StrPickStream DEF Str!PickStream, StrCallsInv
<1>7. ASSUME NEW t, Str!PickType(t) PROVE StrCallsInv' /\ StrModeInv' /\ StrPickInv'
  BY <1>2, <1>7, StrPickType DEF Str!PickType, StrCallsInv
<1>8. ASSUME NEW c \in strCalls, Str!StreamsLoaded(c)
      PROVE  StrCallsInv' /\ StrModeInv' /\ StrPickInv'
  BY <1>2, <1>8, StrStreamsLoaded DEF Str!StreamsLoaded
<1>9. ASSUME NEW c \in strCalls, Str!Filled(c) \/ Str!Inserted(c)
      PROVE  StrCallsInv' /\ StrModeInv' /\ StrPickInv'
  <2>1. /\ strCalls' \subseteq strCalls \cup {c} /\ StrShape(c) /\ c.op \in {"fill", "insert"}
        /\ UNCHANGED << strPanel, strChoice, strOffered, strLoading, strFailed >>
        /\ UNCHANGED Str!detail
    BY <1>9 DEF Str!Filled, Str!Inserted, StrCallsInv
  <2> QED
    BY <1>2, <2>1, StrSent, StrSame
<1> QED
  BY <1>1, <1>3, <1>4, <1>5, <1>6, <1>7, <1>8, <1>9 DEF Str!NewEventNext

\* The steps of the stream manager, and what comes back to it.
LEMMA StrManager ==
  ASSUME StrCallsInv, StrModeInv, StrPickInv, Str!ManagerNext
  PROVE  StrCallsInv' /\ StrModeInv' /\ StrPickInv'
<1>1. CASE Str!OpenManager
  <2>1. Str!Open("manager") /\ strCalls' = Str!Orphaned
    BY <1>1 DEF Str!OpenManager
  <2> QED
    BY <2>1, StrOpened
<1>2. ASSUME UNCHANGED Str!detail PROVE StrModeInv'
  BY <1>2 DEF StrModeInv, Str!detail
<1>3. DOMAIN strChoice = {"mapping", "stream", "type"} /\ strLoading \in BOOLEAN
      /\ strFailed \in BOOLEAN
  BY DEF StrPickInv
<1>4. ASSUME NEW m, Str!SelectMapping(m) PROVE StrCallsInv' /\ StrModeInv' /\ StrPickInv'
  <2>1. /\ Str!Send({Str!Call("rows", m, 0, 0, 0)}) /\ strPanel # "new"
        /\ UNCHANGED << strPanel, strFailed >> /\ strLoading' = TRUE
        /\ DOMAIN strChoice' = {"mapping", "stream", "type"} /\ UNCHANGED Str!detail
    BY <1>3, <1>4 DEF Str!SelectMapping
  <2> QED
    BY <1>2, <2>1, StrSend
<1>5. CASE Str!RefreshRows
  <2>1. /\ Str!Send({Str!Call("rows", strChoice.mapping, 0, 0, 0)}) /\ strPanel # "new"
        /\ UNCHANGED << strPanel, strFailed, strChoice >> /\ strLoading' = TRUE
        /\ UNCHANGED Str!detail
    BY <1>5 DEF Str!RefreshRows, Str!picked
  <2> QED
    BY <1>2, <1>3, <2>1, StrSend
<1>6. CASE Str!HandleDelete
  <2>1. /\ Str!Send({Str!Call("drop", strTarget, 0, 0, 0)}) /\ strPanel # "new"
        /\ UNCHANGED << strPanel, strFailed, strChoice, strLoading >>
        /\ UNCHANGED Str!detail
    BY <1>6 DEF Str!HandleDelete, Str!forms, Str!picked
  <2> QED
    BY <1>2, <1>3, <2>1, StrSend
<1>7. ASSUME NEW s, Str!HandleSubmit(s) PROVE StrCallsInv' /\ StrModeInv' /\ StrPickInv'
  <2>1. /\ Str!Send({Str!Call("create", s, 0, 0, 0)}) /\ strPanel # "new"
        /\ UNCHANGED << strPanel, strFailed, strChoice, strLoading >>
        /\ UNCHANGED Str!detail
    BY <1>7 DEF Str!HandleSubmit, Str!forms, Str!picked
  <2> QED
    BY <1>2, <1>3, <2>1, StrSend
<1>8. CASE Str!CancelDelete \/ \E s \in StrStreams : Str!AskDelete(s)
  <2>1. /\ UNCHANGED << strCalls, strPanel, strChoice, strOffered, strLoading, strFailed >>
        /\ UNCHANGED Str!detail
    BY <1>8 DEF Str!CancelDelete, Str!AskDelete
  <2> QED
    BY <1>2, <2>1 DEF StrCallsInv, StrPickInv, StrLiveInv, Str!StreamOfItsMapping
<1>9. ASSUME NEW c \in strCalls, Str!RowsLoaded(c)
      PROVE  StrCallsInv' /\ StrModeInv' /\ StrPickInv'
  <2>1. /\ strCalls' \subseteq strCalls \cup {c} /\ StrShape(c) /\ c.op # "streams"
        /\ strPanel # "new" /\ UNCHANGED << strPanel, strChoice, strFailed >>
        /\ strLoading' = FALSE /\ UNCHANGED Str!detail
    BY <1>9 DEF Str!RowsLoaded, StrCallsInv, StrPickInv, StrLiveInv
  <2> QED
    BY <1>2, <1>3, <2>1, StrSent, StrAway
<1>10. ASSUME NEW c \in strCalls, Str!ManagerReply(c)
       PROVE  StrCallsInv' /\ StrModeInv' /\ StrPickInv'
  <2>1. PICK new : new = Str!Call("rows", StrMappingOf[c.stream], 0, 0, 0)
    OBVIOUS
  <2>2. StrShape(new) /\ new.op = "rows"
    BY <2>1 DEF StrShape, Str!Call
  <2>3. /\ strCalls' \subseteq strCalls \cup {new}
        /\ UNCHANGED << strPanel, strChoice, strFailed >>
        /\ strLoading' = TRUE \/ strLoading' = strLoading
        /\ UNCHANGED Str!detail
    BY <1>10, <2>1 DEF Str!ManagerReply
  <2>4. strPanel # "new"
    BY <1>10 DEF Str!ManagerReply, StrPickInv, StrLiveInv
  <2>5. strLoading' \in BOOLEAN
    BY <1>3, <2>3
  <2> QED
    BY <1>2, <1>3, <2>2, <2>3, <2>4, <2>5, StrSent, StrAway
<1> QED
  BY <1>1, <1>4, <1>5, <1>6, <1>7, <1>8, <1>9, <1>10 DEF Str!ManagerNext

\* Every step of the event workspace keeps the invariant.
LEMMA StrStep ==
  ASSUME StrCallsInv, StrModeInv, StrPickInv, Str!Next
  PROVE  StrCallsInv' /\ StrModeInv' /\ StrPickInv'
<1>1. ASSUME UNCHANGED Str!detail PROVE StrModeInv'
  BY <1>1 DEF StrModeInv, Str!detail
<1>2. ASSUME NEW c \in strCalls, Str!Serve(c)
      PROVE  StrCallsInv' /\ StrModeInv' /\ StrPickInv'
  <2>1. /\ strCalls' = Str!Answered(c, "ok") /\ UNCHANGED Str!detail
        /\ UNCHANGED << strPanel, strChoice, strOffered, strLoading, strFailed >>
    BY <1>2 DEF Str!Serve, Str!forms, Str!picked
  <2> QED
    BY <1>1, <2>1, StrServed
<1>3. ASSUME NEW c \in strCalls, Str!Fail(c)
      PROVE  StrCallsInv' /\ StrModeInv' /\ StrPickInv'
  <2>1. /\ strCalls' = Str!Answered(c, "failed") /\ UNCHANGED Str!detail
        /\ UNCHANGED << strPanel, strChoice, strOffered, strLoading, strFailed >>
    BY <1>3 DEF Str!Fail, Str!forms, Str!picked
  <2> QED
    BY <1>1, <2>1, StrServed
<1>4. ASSUME NEW c \in strCalls, Str!Dropped(c)
      PROVE  StrCallsInv' /\ StrModeInv' /\ StrPickInv'
  <2>1. /\ strCalls' \subseteq strCalls /\ UNCHANGED Str!detail
        /\ UNCHANGED << strPanel, strChoice, strOffered, strLoading, strFailed >>
    BY <1>4 DEF Str!Dropped, Str!forms, Str!picked
  <2>2. \A d \in strCalls' : StrLiveInv(d)'
    BY <2>1 DEF StrPickInv, StrLiveInv
  <2> QED
    BY <1>1, <2>1, <2>2 DEF StrCallsInv, StrPickInv, Str!StreamOfItsMapping
<1> QED
  BY <1>2, <1>3, <1>4, StrDetail, StrNewEvent, StrManager DEF Str!Next

\* The invariant of the event workspace holds in every behaviour.
LEMMA StrInvariance == Spec => []StrInv
<1>1. StrInv /\ [Next]_vars => StrInv'
  <2> SUFFICES ASSUME StrInv, [Next]_vars
               PROVE  StrInv'
    OBVIOUS
  <2>1. CASE part = "streams" /\ part' = part /\ Str!Next
    BY <2>1, StrStep DEF StrInv
  <2>2. CASE part' # "streams" \/ UNCHANGED << part, varsStr >>
    BY <2>2 DEF StrInv, StrCallsInv, StrModeInv, StrPickInv, StrLiveInv,
                Str!StreamOfItsMapping, varsStr
  <2> QED
    BY <2>1, <2>2 DEF Next, vars
<1> QED
  BY <1>1, StrInitial, PTL DEF Spec

\* The record form, the event editor and the pipeline editor hold the text of what
\* they were opened for, and a new event goes to a stream of its mapping, for any
\* number of records, streams, mappings, pipelines and calls under way, in whatever
\* order these come back (DetailRenderer.tsx, StreamDetailPanel.tsx,
\* NewEventPanel.tsx, PipelineListPanel.tsx).
THEOREM EditorsTheorem == Spec => []EditorsHoldTheirSubject
<1>1. RecInv /\ StrInv /\ PipInv => EditorsHoldTheirSubject
  <2>1. ASSUME StrCallsInv, StrModeInv PROVE Str!EditorHoldsItsEvent
    BY <2>1 DEF StrCallsInv, StrShape, StrModeInv, Str!EditorHoldsItsEvent
  <2> QED
    BY <2>1 DEF RecInv, RecFormInv, StrInv, StrPickInv, PipInv, PipListInv,
                EditorsHoldTheirSubject
<1> QED
  BY <1>1, RecInvariance, StrInvariance, PipInvariance, PTL

-----------------------------------------------------------------------------
(* The composer. *)

\* A stamp that is current was given to the draft as it is: a match under way
\* that carries it was started for this text, and so will be the one the pending
\* debounce starts.
ComStampInv(r) ==
  /\ DOMAIN r = {"stamp", "drop", "text", "sync", "embed"}
  /\ r.stamp \in Nat /\ r.stamp <= comKeys
  /\ r.drop = 0 /\ r.stamp = comKeys /\ comText # Com!Empty /\ comMode # "ask" => r.text = comText

ComStamps ==
  /\ comKeys \in Nat /\ comTimer \in {0, comKeys}
  /\ \A r \in comResolves : ComStampInv(r)

ComInv == part = "composer" => ComStamps

\* The composer starts with no match under way.
LEMMA ComInitial == Init => ComInv
  BY DEF Init, ComInv, ComStamps, Com!Init, IdleCom, Idle

\* The effect of a new draft or mode hands out a new stamp, unless it leaves no
\* draft to resolve; matches started before are then stale.
LEMMA ComRetyped ==
  ASSUME NEW t, NEW ask, ComStamps, Com!Retyped(t, ask), comText' = t,
         ask = (comMode' = "ask"), comResolves' = comResolves
  PROVE  /\ ComStamps'
         /\ comAuto' # comAuto /\ comAuto' # Com!Unknown
              => comAuto' = Com!resolveText(comText').suggestion
<1>1. CASE ask \/ t = Com!Empty
  BY <1>1 DEF ComStamps, ComStampInv, Com!Retyped
<1>2. CASE ~(ask \/ t = Com!Empty)
  BY <1>2 DEF ComStamps, ComStampInv, Com!Retyped, Com!Pinned
<1> QED
  BY <1>1, <1>2

\* A step of the composer keeps the stamps, and moves the pill only to a view of
\* the text as it is, or of a drop.
LEMMA ComStep ==
  ASSUME ComStamps, Com!Next
  PROVE  ComStamps' /\ Com!PillStep
<1>1. ASSUME UNCHANGED <<comAuto, comText, comMode, comKeys, comTimer, comResolves>>
      PROVE  ComStamps' /\ Com!PillStep
  BY <1>1 DEF ComStamps, ComStampInv, Com!PillStep
<1>2. CASE \/ Com!loadResolverIndex \/ Com!loadEmbedder \/ Com!ensureAliasVectors
           \/ \E c \in ComChats : Com!HandleDragStart(c)
           \/ \E f \in comFetches : Com!ChatFetched(f)
           \/ Com!DragEnd \/ Com!TogglePicker \/ Com!ClearHint
           \/ \E v \in Com!Offered : Com!SelectView(v)
  BY <1>1, <1>2 DEF Com!loadResolverIndex, Com!loadEmbedder, Com!ensureAliasVectors,
     Com!HandleDragStart, Com!ChatFetched, Com!DragEnd, Com!TogglePicker, Com!ClearHint,
     Com!SelectView, Com!match, Com!draft, Com!pill, Com!drag
<1>3. CASE \E t \in ComDrafts \cup {Com!Empty} : Com!Type(t)
  <2> PICK t \in ComDrafts \cup {Com!Empty} : Com!Type(t)
    BY <1>3
  <2> QED
    BY ComRetyped DEF Com!Type, Com!Asking, Com!PillStep
<1>4. CASE \E m \in {"forms", "ask", "locked"} : Com!SwitchMode(m)
  <2> PICK m \in {"forms", "ask", "locked"} : Com!SwitchMode(m)
    BY <1>4
  <2>1. CASE Com!Asking = (m = "ask")
    BY <2>1 DEF Com!SwitchMode, Com!Asking, Com!PillStep, ComStamps, ComStampInv
  <2>2. CASE Com!Asking # (m = "ask")
    BY <2>2, ComRetyped DEF Com!SwitchMode, Com!Asking, Com!PillStep
  <2> QED
    BY <2>1, <2>2
<1>5. CASE Com!Debounced
  BY <1>5 DEF Com!Debounced, Com!Resolving, Com!pill, Com!PillStep, ComStamps, ComStampInv
<1>6. ASSUME NEW r \in comResolves, Com!EmbeddedKeystroke(r)
      PROVE  ComStamps' /\ Com!PillStep
  <2> DEFINE res == IF r.embed /\ comVectors = "built" THEN Com!Embedded(r.text)
                                                       ELSE Com!resolveText(r.text)
  <2>1. ComStamps'
    BY <1>6 DEF Com!EmbeddedKeystroke, Com!draft, ComStamps, ComStampInv
  <2>2. comAuto' # comAuto => r.stamp = comKeys /\ comAuto' = res.suggestion
    BY <1>6 DEF Com!EmbeddedKeystroke, Com!Pinned
  <2>3. comText' = comText /\ comMode' = comMode /\ r.drop = 0 /\ ComStampInv(r)
    BY <1>6 DEF Com!EmbeddedKeystroke, Com!draft, ComStamps
  <2>4. comAuto' # comAuto /\ comText' # Com!Empty /\ comMode' # "ask" => r.text = comText'
    BY <2>2, <2>3 DEF ComStampInv
  <2>5. r.text = comText' =>
          res.suggestion \in {Com!resolveText(comText').suggestion, Com!Embedded(comText').suggestion}
    OBVIOUS
  <2> HIDE DEF res
  <2> QED
    BY <2>1, <2>2, <2>4, <2>5 DEF Com!PillStep
<1>7. ASSUME NEW r \in comResolves, Com!EmbeddedDrop(r)
      PROVE  ComStamps' /\ Com!PillStep
  <2>1. ComStamps'
    BY <1>7 DEF Com!EmbeddedDrop, Com!draft, ComStamps, ComStampInv
  <2>2. r \in comResolves \ comResolves' /\ r.drop # 0
    BY <1>7 DEF Com!EmbeddedDrop
  <2> QED
    BY <2>1, <2>2 DEF Com!PillStep
<1>8. CASE Com!OnDrop
  <2>1. Com!Retyped(comText', comMode = "ask") /\ comMode' = comMode
    BY <1>8 DEF Com!OnDrop, Com!Asking
  <2>2. comResolves' = comResolves \cup {Com!Resolving(0, comDrags)}
    BY <1>8 DEF Com!OnDrop
  <2>3. CASE comMode = "ask" \/ comText' = Com!Empty
    BY <2>1, <2>2, <2>3 DEF ComStamps, ComStampInv, Com!Retyped, Com!Resolving, Com!PillStep
  <2>4. CASE ~(comMode = "ask" \/ comText' = Com!Empty)
    BY <2>1, <2>2, <2>4 DEF ComStamps, ComStampInv, Com!Retyped, Com!Resolving, Com!PillStep, Com!Pinned
  <2> QED
    BY <2>3, <2>4
<1>9. CASE Com!Send \/ \E w \in comWaiting : Com!SendAfterDrop(w)
  BY <1>9 DEF Com!Send, Com!SendAfterDrop, Com!Cleared, Com!pill, Com!PillStep, ComStamps, ComStampInv
<1> QED
  BY <1>2, <1>3, <1>4, <1>5, <1>6, <1>7, <1>8, <1>9 DEF Com!Next

\* While a draft is typed the view pill moves only to a view of the text as it
\* is, or of a drop, for any drafts, domains and views and any number of
\* keystrokes and matches under way: no late answer to an earlier keystroke
\* changes it (Chat.tsx, resolveStampRef).
THEOREM PillTheorem == Spec => PillFollowsTheText
<1>1. ComInv /\ [Next]_vars => ComInv'
  <2> SUFFICES ASSUME ComInv, [Next]_vars
               PROVE  ComInv'
    OBVIOUS
  <2>1. CASE part = "composer" /\ part' = part /\ Com!Next
    BY <2>1, ComStep DEF ComInv
  <2>2. CASE part' # "composer" \/ UNCHANGED << part, varsCom >>
    BY <2>2 DEF ComInv, ComStamps, ComStampInv, varsCom
  <2> QED
    BY <2>1, <2>2 DEF Next, vars
<1>2. ComInv /\ [Next]_vars => [part = "composer" => Com!PillStep]_varsCom
  <2> SUFFICES ASSUME ComInv, Next, part = "composer"
               PROVE  Com!PillStep
    BY DEF vars
  <2> QED
    BY ComStep DEF ComInv, Next
<1> QED
  BY <1>1, <1>2, ComInitial, PTL DEF Spec, PillFollowsTheText

-----------------------------------------------------------------------------
(* The ui state and its controls. *)

UiBlobOf(modes) == [mode : modes, mapping : UiMappings \cup {Ui!Nothing},
                    streamId : UiStreams \cup {Ui!Nothing}, askToTab : BOOLEAN]
UiBlob == UiBlobOf(Ui!Modes)
UiHook == [mounted : BOOLEAN, loaded : BOOLEAN, state : UiBlob]
UiReq == [op : {"get", "set"}, hook : Ui!Controls \cup {Ui!Nothing}, value : UiBlob,
          own : SUBSET Ui!Fields, alone : BOOLEAN]

\* A line of reads and writes fits the copies of the controls: a read under way is
\* that of a mounted control, a write is nobody's read.
UiLine(hs, q) ==
  /\ hs \in [Ui!Controls -> UiHook] /\ q \in Seq(UiReq)
  /\ \A h \in Ui!Controls \ Ui!Pickers : hs[h].mounted
  /\ hs["mapping"].mounted = hs["stream"].mounted
  /\ \A i \in 1..Len(q) : /\ q[i].op = "set" => q[i].hook = Ui!Nothing
                          /\ q[i].hook \in Ui!Controls => hs[q[i].hook].mounted

\* A control that is loaded shows what a restart would read, unless the last write
\* or its own read failed, and one that is not has its read in the line.
UiShown(hs, q, v, unsaved, misread) ==
  \A h \in Ui!Controls : hs[h].mounted =>
    /\ hs[h].loaded /\ ~unsaved /\ h \notin misread => hs[h].state = Ui!parseUiState(v)
    /\ ~hs[h].loaded => \E i \in 1..Len(q) : q[i].op = "get" /\ q[i].hook = h

\* A write that was alone has only reads before it, and the fields its control did
\* not mean to change are as they are stored.
UiAlone(q, v) ==
  \A i \in 1..Len(q) : q[i].alone =>
    /\ q[i].op = "set"
    /\ \A j \in 1..Len(q) : j < i => q[j].op = "get"
    /\ \A f \in Ui!Fields \ q[i].own : q[i].value[f] = Ui!parseUiState(v)[f]

UiStoreInv ==
  /\ uiStore \in UiBlobOf(Ui!Modes \cup {"retired"}) /\ uiOptions \subseteq UiStreams
  /\ UiLine(uiHooks, uiQueue) /\ UiShown(uiHooks, uiQueue, uiStore, uiUnsaved, uiMisread)
  /\ UiAlone(uiQueue, uiStore)

UiInv == part = "ui" => UiStoreInv

\* What is read from the store is a blob of a known mode, and one of a known mode
\* is read as it is.
LEMMA UiParsed ==
  ASSUME NEW v \in UiBlobOf(Ui!Modes \cup {"retired"})
  PROVE  Ui!parseUiState(v) \in UiBlob /\ (v \in UiBlob => Ui!parseUiState(v) = v)
  BY DEF UiBlob, UiBlobOf, Ui!parseUiState, Ui!Modes

\* The defaults, a control that just appeared and one that is gone.
LEMMA UiFresh ==
  /\ Ui!DEFAULT_UI_STATE \in UiBlob
  /\ Ui!Fresh \in UiHook /\ Ui!Fresh.mounted /\ ~Ui!Fresh.loaded
  /\ Ui!Unmounted \in UiHook /\ ~Ui!Unmounted.mounted
<1>1. Ui!DEFAULT_UI_STATE \in UiBlob
  BY DEF Ui!DEFAULT_UI_STATE, UiBlob, UiBlobOf, Ui!Modes
<1> QED
  BY <1>1 DEF Ui!Fresh, Ui!Unmounted, UiHook

\* A read in the line.
LEMMA UiRead ==
  ASSUME NEW h \in Ui!Controls \cup {Ui!Nothing}
  PROVE  /\ Ui!Read(h) \in UiReq /\ Ui!Read(h).op = "get" /\ Ui!Read(h).hook = h
         /\ ~Ui!Read(h).alone
  BY UiFresh DEF Ui!Read, UiReq

\* Cancelling the reads of the pickers keeps the line and the other reads.
LEMMA UiCancelled ==
  ASSUME NEW q \in Seq(UiReq)
  PROVE  /\ Ui!Cancelled(q) \in Seq(UiReq) /\ Len(Ui!Cancelled(q)) = Len(q)
         /\ \A i \in 1..Len(q) :
              /\ q[i].hook \notin Ui!Pickers => Ui!Cancelled(q)[i] = q[i]
              /\ q[i].hook \in Ui!Pickers => /\ Ui!Cancelled(q)[i].op = "get"
                                             /\ Ui!Cancelled(q)[i].hook = Ui!Nothing
                                             /\ ~Ui!Cancelled(q)[i].alone
<1> DEFINE s == Ui!Cancelled(q)
<1>1. DOMAIN s = 1..Len(q) /\ Len(q) \in Nat
  BY DEF Ui!Cancelled
<1>2. \A i \in 1..Len(q) : q[i] \in UiReq
  OBVIOUS
<1>3. ASSUME NEW i \in 1..Len(q)
      PROVE  s[i] = IF q[i].hook \in Ui!Pickers THEN Ui!Read(Ui!Nothing) ELSE q[i]
  BY <1>1, <1>3 DEF Ui!Cancelled
<1>4. s = [i \in 1..Len(q) |-> s[i]]
  BY <1>1 DEF Ui!Cancelled
<1> HIDE DEF s
<1>5. \A i \in 1..Len(q) : s[i] \in UiReq
  BY <1>2, <1>3, UiRead
<1>6. s \in [1..Len(q) -> UiReq]
  BY <1>4, <1>5
<1>7. s \in Seq(UiReq) /\ Len(s) = Len(q)
  BY <1>1, <1>6
<1>8. \A i \in 1..Len(q) : /\ q[i].hook \notin Ui!Pickers => s[i] = q[i]
                           /\ q[i].hook \in Ui!Pickers => /\ s[i].op = "get" /\ ~s[i].alone
                                                          /\ s[i].hook = Ui!Nothing
  BY <1>3, UiRead
<1> QED
  BY <1>7, <1>8 DEF s

\* The store starts with a blob of a known or a retired mode, and the controls that
\* are mounted with their reads in the line.
LEMMA UiInitial == Init => UiInv
<1> SUFFICES ASSUME Init, part = "ui"
             PROVE  UiStoreInv
  BY DEF UiInv
<1>1. Ui!Init
  BY DEF Init
<1>2. uiStore \in UiBlobOf(Ui!Modes \cup {"retired"}) /\ uiOptions \subseteq UiStreams
  BY <1>1 DEF Ui!Init, Ui!DEFAULT_UI_STATE, UiBlobOf, Ui!Modes
<1>3. uiQueue = <<Ui!Read("mode"), Ui!Read("footer"), Ui!Read("chat")>>
  BY <1>1 DEF Ui!Init
<1>4. /\ uiQueue \in Seq(UiReq) /\ Len(uiQueue) = 3
      /\ uiQueue[1] = Ui!Read("mode") /\ uiQueue[2] = Ui!Read("footer") /\ uiQueue[3] = Ui!Read("chat")
  <2>1. Ui!Read("mode") \in UiReq /\ Ui!Read("footer") \in UiReq /\ Ui!Read("chat") \in UiReq
    BY UiRead DEF Ui!Controls
  <2> QED
    BY <1>3, <2>1
<1>5. uiHooks = [h \in Ui!Controls |-> IF h \in Ui!Pickers THEN Ui!Unmounted ELSE Ui!Fresh]
  BY <1>1 DEF Ui!Init
<1>6. uiHooks \in [Ui!Controls -> UiHook]
  BY <1>5, UiFresh
<1>7. \A i \in 1..Len(uiQueue) : uiQueue[i].op = "get" /\ uiQueue[i].hook \in Ui!Controls \ Ui!Pickers
  BY <1>4, UiRead DEF Ui!Controls, Ui!Pickers
<1>8. \A h \in Ui!Controls \ Ui!Pickers : \E i \in 1..Len(uiQueue) : uiQueue[i].op = "get" /\ uiQueue[i].hook = h
  BY <1>4, UiRead DEF Ui!Controls, Ui!Pickers
<1>9. UiLine(uiHooks, uiQueue)
  <2>1. uiHooks["mapping"].mounted = uiHooks["stream"].mounted
    BY <1>5 DEF Ui!Controls, Ui!Pickers
  <2> QED
    BY <1>4, <1>5, <1>6, <1>7, <2>1, UiFresh DEF UiLine
<1>10. UiShown(uiHooks, uiQueue, uiStore, uiUnsaved, uiMisread)
  BY <1>5, <1>8, UiFresh DEF UiShown
<1>11. UiAlone(uiQueue, uiStore)
  BY <1>4, UiRead DEF UiAlone, Ui!Controls
<1> QED
  BY <1>2, <1>9, <1>10, <1>11 DEF UiStoreInv

\* Rendering the controls with new copies: the pickers come and go with events
\* mode, and their reads with them.
LEMMA UiRendered ==
  ASSUME NEW hs, NEW q, NEW v, NEW u, NEW ms, UiLine(hs, q), UiShown(hs, q, v, u, ms),
         UiAlone(q, v), Ui!Rendered(hs, q),
         uiHooks["stream"].mounted = hs["stream"].mounted, uiOptions \subseteq UiStreams
  PROVE  /\ UiLine(uiHooks', uiQueue') /\ UiShown(uiHooks', uiQueue', v, u, ms)
         /\ UiAlone(uiQueue', v) /\ uiOptions' \subseteq UiStreams
<1> DEFINE events == hs["chat"].state.mode = "events"
           appear == events /\ ~hs["stream"].mounted
           stay == events /\ ~appear
<1>1. uiHooks' = [h \in Ui!Controls |-> IF h \notin Ui!Pickers \/ stay THEN hs[h]
                                        ELSE IF appear THEN Ui!Fresh ELSE Ui!Unmounted]
  BY DEF Ui!Rendered
<1>2. uiQueue' = IF appear THEN q \o <<Ui!Read("mapping"), Ui!Read("stream")>>
                 ELSE IF events THEN q ELSE Ui!Cancelled(q)
  BY DEF Ui!Rendered
<1>3. uiOptions' \subseteq UiStreams
  BY DEF Ui!Rendered
<1> HIDE DEF events
<1>4. /\ hs \in [Ui!Controls -> UiHook] /\ q \in Seq(UiReq) /\ Len(q) \in Nat
      /\ "mapping" \in Ui!Controls /\ "stream" \in Ui!Controls
      /\ Ui!Pickers = {"mapping", "stream"}
  BY DEF UiLine, Ui!Controls, Ui!Pickers
<1>5. uiHooks' \in [Ui!Controls -> UiHook]
  BY <1>1, <1>4, UiFresh
<1>6. CASE stay
  <2>1. uiQueue' = q
    BY <1>2, <1>6
  <2>2. \A h \in Ui!Controls : uiHooks'[h] = hs[h]
    BY <1>1, <1>6
  <2>3. uiHooks' = hs
    BY <1>4, <1>5, <2>2
  <2> QED
    BY <1>3, <2>1, <2>3
<1>7. CASE appear
  <2> DEFINE m == Ui!Read("mapping")
             s == Ui!Read("stream")
  <2>1. /\ m \in UiReq /\ m.op = "get" /\ m.hook = "mapping" /\ ~m.alone
        /\ s \in UiReq /\ s.op = "get" /\ s.hook = "stream" /\ ~s.alone
    BY <1>4, UiRead
  <2>2. uiQueue' = q \o <<m, s>>
    BY <1>2, <1>7
  <2> HIDE DEF m, s
  <2>3. /\ uiQueue' \in Seq(UiReq) /\ Len(uiQueue') = Len(q) + 2
        /\ \A i \in 1..Len(q) : uiQueue'[i] = q[i]
        /\ uiQueue'[Len(q) + 1] = m /\ uiQueue'[Len(q) + 2] = s
    BY <1>4, <2>1, <2>2
  <2>4. /\ \A h \in Ui!Controls \ Ui!Pickers : uiHooks'[h] = hs[h]
        /\ uiHooks'["mapping"] = Ui!Fresh /\ uiHooks'["stream"] = Ui!Fresh
    BY <1>1, <1>4, <1>7
  <2>5. \A i \in 1..Len(uiQueue') : (uiQueue'[i] = q[i] /\ i \in 1..Len(q)) \/ uiQueue'[i] = m \/ uiQueue'[i] = s
    BY <1>4, <2>3
  <2>6. UiLine(uiHooks', uiQueue')
    <3>1. \A h \in Ui!Controls \ Ui!Pickers : uiHooks'[h].mounted
      BY <2>4 DEF UiLine
    <3>2. uiHooks'["mapping"].mounted = uiHooks'["stream"].mounted
      BY <2>4
    <3>3. ASSUME NEW i \in 1..Len(uiQueue')
          PROVE  /\ uiQueue'[i].op = "set" => uiQueue'[i].hook = Ui!Nothing
                 /\ uiQueue'[i].hook \in Ui!Controls => uiHooks'[uiQueue'[i].hook].mounted
      <4>1. CASE uiQueue'[i] = q[i] /\ i \in 1..Len(q)
        <5>1. /\ q[i].op = "set" => q[i].hook = Ui!Nothing
              /\ q[i].hook \in Ui!Controls => hs[q[i].hook].mounted
          BY <4>1 DEF UiLine
        <5>2. ~hs["mapping"].mounted /\ ~hs["stream"].mounted
          BY <1>7 DEF UiLine
        <5> QED
          BY <1>4, <2>4, <4>1, <5>1, <5>2
      <4>2. CASE uiQueue'[i] = m \/ uiQueue'[i] = s
        BY <2>1, <2>4, <4>2, UiFresh
      <4> QED
        BY <2>5, <4>1, <4>2
    <3> QED
      BY <1>5, <2>3, <3>1, <3>2, <3>3 DEF UiLine
  <2>7. UiShown(uiHooks', uiQueue', v, u, ms)
    <3> SUFFICES ASSUME NEW h \in Ui!Controls, uiHooks'[h].mounted
                 PROVE  /\ uiHooks'[h].loaded /\ ~u /\ h \notin ms => uiHooks'[h].state = Ui!parseUiState(v)
                        /\ ~uiHooks'[h].loaded => \E i \in 1..Len(uiQueue') :
                              uiQueue'[i].op = "get" /\ uiQueue'[i].hook = h
      BY DEF UiShown
    <3>1. CASE h \in Ui!Pickers
      <4>1. Len(q) + 1 \in 1..Len(uiQueue') /\ Len(q) + 2 \in 1..Len(uiQueue')
        BY <1>4, <2>3
      <4> QED
        BY <1>4, <2>1, <2>3, <2>4, <3>1, <4>1, UiFresh
    <3>2. CASE h \notin Ui!Pickers
      <4>1. uiHooks'[h] = hs[h]
        BY <2>4, <3>2
      <4>2. /\ hs[h].loaded /\ ~u /\ h \notin ms => hs[h].state = Ui!parseUiState(v)
            /\ ~hs[h].loaded => \E i \in 1..Len(q) : q[i].op = "get" /\ q[i].hook = h
        BY <4>1 DEF UiShown
      <4>3. \A i \in 1..Len(q) : i \in 1..Len(uiQueue')
        BY <1>4, <2>3
      <4> QED
        BY <2>3, <4>1, <4>2, <4>3
    <3> QED
      BY <3>1, <3>2
  <2>8. UiAlone(uiQueue', v)
    <3> SUFFICES ASSUME NEW i \in 1..Len(uiQueue'), uiQueue'[i].alone
                 PROVE  /\ uiQueue'[i].op = "set"
                        /\ \A j \in 1..Len(uiQueue') : j < i => uiQueue'[j].op = "get"
                        /\ \A f \in Ui!Fields \ uiQueue'[i].own :
                             uiQueue'[i].value[f] = Ui!parseUiState(v)[f]
      BY DEF UiAlone
    <3>1. i \in 1..Len(q) /\ uiQueue'[i] = q[i]
      BY <2>1, <2>5
    <3>2. \A j \in 1..Len(uiQueue') : j < i => j \in 1..Len(q) /\ uiQueue'[j] = q[j]
      BY <1>4, <2>3, <3>1
    <3> QED
      BY <3>1, <3>2 DEF UiAlone
  <2> QED
    BY <1>3, <2>6, <2>7, <2>8
<1>8. CASE ~events
  <2>1. uiQueue' = Ui!Cancelled(q)
    BY <1>2, <1>8
  <2>2. /\ uiQueue' \in Seq(UiReq) /\ Len(uiQueue') = Len(q)
        /\ \A i \in 1..Len(q) :
             /\ q[i].hook \notin Ui!Pickers => uiQueue'[i] = q[i]
             /\ q[i].hook \in Ui!Pickers => /\ uiQueue'[i].op = "get" /\ ~uiQueue'[i].alone
                                            /\ uiQueue'[i].hook = Ui!Nothing
    BY <1>4, <2>1, UiCancelled
  <2>3. /\ \A h \in Ui!Controls \ Ui!Pickers : uiHooks'[h] = hs[h]
        /\ \A h \in Ui!Pickers : uiHooks'[h] = Ui!Unmounted
    BY <1>1, <1>4, <1>8
  <2>4. UiLine(uiHooks', uiQueue')
    <3>1. \A h \in Ui!Controls \ Ui!Pickers : uiHooks'[h].mounted
      BY <2>3 DEF UiLine
    <3>2. uiHooks'["mapping"].mounted = uiHooks'["stream"].mounted
      BY <1>4, <2>3
    <3>3. ASSUME NEW i \in 1..Len(uiQueue')
          PROVE  /\ uiQueue'[i].op = "set" => uiQueue'[i].hook = Ui!Nothing
                 /\ uiQueue'[i].hook \in Ui!Controls => uiHooks'[uiQueue'[i].hook].mounted
      <4>1. /\ i \in 1..Len(q)
            /\ q[i].op = "set" => q[i].hook = Ui!Nothing
            /\ q[i].hook \in Ui!Controls => hs[q[i].hook].mounted
        BY <2>2 DEF UiLine
      <4>2. Ui!Nothing \notin Ui!Controls
        BY DEF Ui!Nothing, Ui!Controls, Ui!Pickers
      <4>3. CASE q[i].hook \in Ui!Pickers
        BY <2>2, <4>2, <4>3
      <4>4. CASE q[i].hook \notin Ui!Pickers
        BY <2>2, <2>3, <4>1, <4>4
      <4> QED
        BY <4>3, <4>4
    <3> QED
      BY <1>5, <2>2, <3>1, <3>2, <3>3 DEF UiLine
  <2>5. UiShown(uiHooks', uiQueue', v, u, ms)
    <3> SUFFICES ASSUME NEW h \in Ui!Controls, uiHooks'[h].mounted
                 PROVE  /\ uiHooks'[h].loaded /\ ~u /\ h \notin ms => uiHooks'[h].state = Ui!parseUiState(v)
                        /\ ~uiHooks'[h].loaded => \E i \in 1..Len(uiQueue') :
                              uiQueue'[i].op = "get" /\ uiQueue'[i].hook = h
      BY DEF UiShown
    <3>1. h \notin Ui!Pickers /\ uiHooks'[h] = hs[h]
      BY <2>3, UiFresh
    <3>2. /\ hs[h].loaded /\ ~u /\ h \notin ms => hs[h].state = Ui!parseUiState(v)
          /\ ~hs[h].loaded => \E i \in 1..Len(q) : q[i].op = "get" /\ q[i].hook = h
      BY <3>1 DEF UiShown
    <3> QED
      BY <2>2, <3>1, <3>2
  <2>6. UiAlone(uiQueue', v)
    <3> SUFFICES ASSUME NEW i \in 1..Len(uiQueue'), uiQueue'[i].alone
                 PROVE  /\ uiQueue'[i].op = "set"
                        /\ \A j \in 1..Len(uiQueue') : j < i => uiQueue'[j].op = "get"
                        /\ \A f \in Ui!Fields \ uiQueue'[i].own :
                             uiQueue'[i].value[f] = Ui!parseUiState(v)[f]
      BY DEF UiAlone
    <3>1. i \in 1..Len(q) /\ uiQueue'[i] = q[i]
      BY <2>2
    <3>2. \A j \in 1..Len(q) : uiQueue'[j] = q[j] \/ uiQueue'[j].op = "get"
      BY <2>2
    <3> QED
      BY <2>2, <3>1, <3>2 DEF UiAlone
  <2> QED
    BY <1>3, <2>4, <2>5, <2>6
<1> QED
  BY <1>6, <1>7, <1>8

\* The line without its first request, and what it was before it moved up.
LEMMA UiTail ==
  ASSUME NEW q \in Seq(UiReq), NEW t \in Seq(UiReq), NEW v, UiAlone(q, v), Len(q) \in Nat \ {0},
         Len(t) = Len(q) - 1, \A i \in 1..Len(t) : t[i] = q[i + 1]
  PROVE  UiAlone(t, v) /\ (q[1].op = "set" => \A i \in 1..Len(t) : ~t[i].alone)
<1>1. \A i \in 1..Len(t) : i + 1 \in 1..Len(q) /\ 1 < i + 1
  OBVIOUS
<1>2. 1 \in 1..Len(q)
  OBVIOUS
<1>3. ASSUME NEW i \in 1..Len(t), t[i].alone
      PROVE  /\ t[i].op = "set" /\ q[1].op = "get"
             /\ \A j \in 1..Len(t) : j < i => t[j].op = "get"
             /\ \A f \in Ui!Fields \ t[i].own : t[i].value[f] = Ui!parseUiState(v)[f]
  <2> DEFINE r == q[i + 1]
  <2>1. t[i] = r /\ i + 1 \in 1..Len(q)
    BY <1>1
  <2>2. /\ r.op = "set" /\ \A j \in 1..Len(q) : j < i + 1 => q[j].op = "get"
        /\ \A f \in Ui!Fields \ r.own : r.value[f] = Ui!parseUiState(v)[f]
    BY <1>3, <2>1 DEF UiAlone
  <2> HIDE DEF r
  <2>3. \A j \in 1..Len(t) : j < i => j + 1 \in 1..Len(q) /\ j + 1 < i + 1
    OBVIOUS
  <2> QED
    BY <1>1, <1>2, <2>1, <2>2, <2>3
<1> QED
  BY <1>3 DEF UiAlone

\* A read comes back to the control that asked: it shows what is stored, or has
\* misread it.
LEMMA UiLoadedStep ==
  ASSUME UiStoreInv, Ui!Loaded
  PROVE  UiStoreInv'
<1> DEFINE h == Head(uiQueue).hook
           rec(v) == [mounted |-> TRUE, loaded |-> TRUE, state |-> v]
           q == Tail(uiQueue)
<1>a. uiQueue # <<>> /\ Head(uiQueue).op = "get" /\ h # Ui!Nothing
  BY DEF Ui!Loaded
<1>b. \/ Ui!LoadedAs(h, Ui!parseUiState(uiStore)) /\ uiMisread' = uiMisread \ {h}
      \/ Ui!LoadedAs(h, Ui!DEFAULT_UI_STATE) /\ uiMisread' = uiMisread \cup {h}
  BY DEF Ui!Loaded
<1>c. Ui!parseUiState(uiStore) \in UiBlob /\ Ui!DEFAULT_UI_STATE \in UiBlob
  BY UiParsed, UiFresh DEF UiStoreInv
<1>d. PICK w \in UiBlob : /\ Ui!LoadedAs(h, w)
                          /\ h \notin uiMisread' => w = Ui!parseUiState(uiStore)
                          /\ \A g : g # h => (g \in uiMisread' <=> g \in uiMisread)
  BY <1>b, <1>c
<1> DEFINE hs == [uiHooks EXCEPT ![h] = rec(w)]
<1>1. /\ uiQueue # <<>> /\ Head(uiQueue).op = "get" /\ h # Ui!Nothing
      /\ Ui!Rendered(hs, q) /\ uiStore' = uiStore /\ uiUnsaved' = uiUnsaved
  BY <1>a, <1>d DEF Ui!LoadedAs
<1>2. /\ uiQueue \in Seq(UiReq) /\ Len(uiQueue) \in Nat \ {0} /\ Head(uiQueue) = uiQueue[1]
      /\ uiHooks \in [Ui!Controls -> UiHook] /\ Head(uiQueue) \in UiReq
  BY <1>1 DEF UiStoreInv, UiLine
<1>3. h \in Ui!Controls /\ uiHooks[h].mounted
  BY <1>1, <1>2 DEF UiStoreInv, UiLine, UiReq
<1>4. q \in Seq(UiReq) /\ Len(q) = Len(uiQueue) - 1 /\ \A i \in 1..Len(q) : q[i] = uiQueue[i + 1]
  BY <1>2
<1>5. rec(w) \in UiHook /\ rec(w).mounted /\ rec(w).loaded /\ rec(w).state = w
  BY DEF UiHook
<1>6. \A i \in 2..Len(uiQueue) : i - 1 \in 1..Len(q) /\ q[i - 1] = uiQueue[i]
  BY <1>2, <1>4
<1> HIDE DEF rec, q
<1>7. /\ hs \in [Ui!Controls -> UiHook] /\ hs[h] = rec(w)
      /\ \A g \in Ui!Controls : g # h => hs[g] = uiHooks[g]
      /\ \A g \in Ui!Controls : hs[g].mounted = uiHooks[g].mounted
  <2>1. hs \in [Ui!Controls -> UiHook] /\ hs[h] = rec(w) /\ \A g \in Ui!Controls : g # h => hs[g] = uiHooks[g]
    BY <1>2, <1>3, <1>5
  <2> HIDE DEF hs
  <2>2. uiHooks[h].mounted = TRUE /\ rec(w).mounted = TRUE
    BY <1>2, <1>3, <1>5 DEF UiHook
  <2> QED
    BY <2>1, <2>2
<1> HIDE DEF hs, h
<1>8. UiLine(hs, q)
  <2>1. \A i \in 1..Len(q) : i + 1 \in 1..Len(uiQueue)
    BY <1>2, <1>4
  <2>2. ASSUME NEW i \in 1..Len(q)
        PROVE  /\ q[i].op = "set" => q[i].hook = Ui!Nothing
               /\ q[i].hook \in Ui!Controls => hs[q[i].hook].mounted
    <3>1. q[i] = uiQueue[i + 1] /\ i + 1 \in 1..Len(uiQueue)
      BY <1>4, <2>1
    <3> DEFINE r == uiQueue[i + 1]
    <3>2. /\ r.op = "set" => r.hook = Ui!Nothing
          /\ r.hook \in Ui!Controls => uiHooks[r.hook].mounted
      BY <3>1 DEF UiStoreInv, UiLine
    <3> HIDE DEF r
    <3>3. q[i] = r
      BY <3>1 DEF r
    <3> QED
      BY <1>7, <3>2, <3>3
  <2>3. /\ \A h1 \in Ui!Controls \ Ui!Pickers : hs[h1].mounted
        /\ hs["mapping"].mounted = hs["stream"].mounted
    BY <1>7 DEF UiStoreInv, UiLine, Ui!Controls, Ui!Pickers
  <2> QED
    BY <1>4, <1>7, <2>2, <2>3 DEF UiLine
<1>9. UiShown(hs, q, uiStore, uiUnsaved, uiMisread')
  <2> SUFFICES ASSUME NEW g \in Ui!Controls, hs[g].mounted
               PROVE  /\ hs[g].loaded /\ ~uiUnsaved /\ g \notin uiMisread' => hs[g].state = Ui!parseUiState(uiStore)
                      /\ ~hs[g].loaded => \E i \in 1..Len(q) : q[i].op = "get" /\ q[i].hook = g
    BY DEF UiShown
  <2>1. CASE g = h
    BY <1>5, <1>7, <1>d, <2>1
  <2>2. CASE g # h
    <3>1. /\ hs[g] = uiHooks[g]
          /\ uiHooks[g].loaded /\ ~uiUnsaved /\ g \notin uiMisread =>
               uiHooks[g].state = Ui!parseUiState(uiStore)
          /\ ~uiHooks[g].loaded => \E i \in 1..Len(uiQueue) : uiQueue[i].op = "get" /\ uiQueue[i].hook = g
      BY <1>7, <2>2 DEF UiStoreInv, UiShown
    <3>2. \A i \in 1..Len(uiQueue) : uiQueue[i].hook = g => i \in 2..Len(uiQueue)
      BY <1>2, <2>2 DEF h
    <3> QED
      BY <1>6, <1>d, <2>2, <3>1, <3>2
  <2> QED
    BY <2>1, <2>2
<1>10. uiHooks["stream"].mounted = hs["stream"].mounted /\ uiOptions \subseteq UiStreams
  BY <1>7 DEF UiStoreInv, Ui!Controls, Ui!Pickers
<1>11. UiAlone(q, uiStore)
  BY <1>2, <1>4, UiTail DEF UiStoreInv
<1>12. /\ UiLine(uiHooks', uiQueue') /\ UiShown(uiHooks', uiQueue', uiStore, uiUnsaved, uiMisread')
       /\ UiAlone(uiQueue', uiStore) /\ uiOptions' \subseteq UiStreams
  BY <1>1, <1>8, <1>9, <1>10, <1>11, UiRendered
<1> QED
  BY <1>1, <1>12 DEF UiStoreInv, UiLine, UiShown, UiAlone

\* A write is done, or failed: every mounted control is told what was to be stored.
LEMMA UiSavedStep ==
  ASSUME UiStoreInv, Ui!Saved
  PROVE  UiStoreInv'
<1> DEFINE v == Head(uiQueue).value
           hs == Ui!Told(v)
           q == Tail(uiQueue)
<1>1. /\ uiQueue # <<>> /\ Head(uiQueue).op = "set" /\ Ui!Rendered(hs, q)
      /\ (uiStore' = v /\ uiUnsaved' = FALSE) \/ (uiStore' = uiStore /\ uiUnsaved' = TRUE)
  BY DEF Ui!Saved
<1>2. /\ uiQueue \in Seq(UiReq) /\ Len(uiQueue) \in Nat \ {0} /\ Head(uiQueue) = uiQueue[1]
      /\ uiHooks \in [Ui!Controls -> UiHook] /\ Head(uiQueue) \in UiReq
  BY <1>1 DEF UiStoreInv, UiLine
<1>3. v \in UiBlob
  BY <1>2 DEF UiReq
<1>4. q \in Seq(UiReq) /\ Len(q) = Len(uiQueue) - 1 /\ \A i \in 1..Len(q) : q[i] = uiQueue[i + 1]
  BY <1>2
<1>5. \A i \in 2..Len(uiQueue) : i - 1 \in 1..Len(q) /\ q[i - 1] = uiQueue[i]
  BY <1>2, <1>4
<1>6. uiQueue[1].op = "set"
  BY <1>1, <1>2
<1> HIDE DEF v, q
<1>7. v \in UiBlobOf(Ui!Modes \cup {"retired"}) /\ Ui!parseUiState(v) = v
  <2>1. v \in UiBlobOf(Ui!Modes \cup {"retired"})
    BY <1>3 DEF UiBlob, UiBlobOf
  <2> QED
    BY <1>3, <2>1, UiParsed
<1>8. \A g \in Ui!Controls : hs[g] = IF uiHooks[g].mounted THEN [uiHooks[g] EXCEPT !.state = v] ELSE uiHooks[g]
  BY DEF Ui!Told
<1>9. \A g \in Ui!Controls : /\ hs[g] \in UiHook
                             /\ hs[g].mounted = uiHooks[g].mounted /\ hs[g].loaded = uiHooks[g].loaded
                             /\ uiHooks[g].mounted => hs[g].state = v
  BY <1>2, <1>3, <1>8 DEF UiHook
<1>10. hs \in [Ui!Controls -> UiHook]
  BY <1>9 DEF Ui!Told
<1> HIDE DEF hs
<1>11. UiLine(hs, q)
  <2>1. \A i \in 1..Len(q) : i + 1 \in 1..Len(uiQueue)
    BY <1>2, <1>4
  <2>2. ASSUME NEW i \in 1..Len(q)
        PROVE  /\ q[i].op = "set" => q[i].hook = Ui!Nothing
               /\ q[i].hook \in Ui!Controls => hs[q[i].hook].mounted
    <3>1. q[i] = uiQueue[i + 1] /\ i + 1 \in 1..Len(uiQueue)
      BY <1>4, <2>1
    <3> DEFINE r == uiQueue[i + 1]
    <3>2. /\ r.op = "set" => r.hook = Ui!Nothing
          /\ r.hook \in Ui!Controls => uiHooks[r.hook].mounted
      BY <3>1 DEF UiStoreInv, UiLine
    <3> HIDE DEF r
    <3>3. q[i] = r
      BY <3>1 DEF r
    <3> QED
      BY <1>9, <3>2, <3>3
  <2>3. /\ \A h1 \in Ui!Controls \ Ui!Pickers : hs[h1].mounted
        /\ hs["mapping"].mounted = hs["stream"].mounted
    BY <1>9 DEF UiStoreInv, UiLine, Ui!Controls, Ui!Pickers
  <2> QED
    BY <1>4, <1>10, <2>2, <2>3 DEF UiLine
<1>12. UiShown(hs, q, uiStore', uiUnsaved', uiMisread')
  <2> SUFFICES ASSUME NEW g \in Ui!Controls, hs[g].mounted
               PROVE  /\ hs[g].loaded /\ ~uiUnsaved' /\ g \notin uiMisread' => hs[g].state = Ui!parseUiState(uiStore')
                      /\ ~hs[g].loaded => \E i \in 1..Len(q) : q[i].op = "get" /\ q[i].hook = g
    BY DEF UiShown
  <2>1. ~uiHooks[g].loaded => \E i \in 1..Len(uiQueue) : uiQueue[i].op = "get" /\ uiQueue[i].hook = g
    BY <1>9 DEF UiStoreInv, UiShown
  <2>2. \A i \in 1..Len(uiQueue) : uiQueue[i].op = "get" => i \in 2..Len(uiQueue)
    BY <1>2, <1>6
  <2>3. ~uiUnsaved' => uiStore' = v
    BY <1>1
  <2> QED
    BY <1>5, <1>7, <1>9, <2>1, <2>2, <2>3
<1>13. uiHooks["stream"].mounted = hs["stream"].mounted /\ uiOptions \subseteq UiStreams
  BY <1>9 DEF UiStoreInv, Ui!Controls, Ui!Pickers
<1>14. UiAlone(q, uiStore')
  <2>1. UiAlone(uiQueue, uiStore)
    BY DEF UiStoreInv
  <2>2. \A i \in 1..Len(q) : ~q[i].alone
    BY <1>2, <1>4, <1>6, <2>1, UiTail
  <2> QED
    BY <2>2 DEF UiAlone
<1>15. /\ UiLine(uiHooks', uiQueue') /\ UiShown(uiHooks', uiQueue', uiStore', uiUnsaved', uiMisread')
       /\ UiAlone(uiQueue', uiStore') /\ uiOptions' \subseteq UiStreams
  BY <1>1, <1>11, <1>12, <1>13, <1>14, UiRendered
<1>16. uiStore' \in UiBlobOf(Ui!Modes \cup {"retired"})
  BY <1>1, <1>7 DEF UiStoreInv
<1> QED
  BY <1>15, <1>16 DEF UiStoreInv, UiLine, UiShown, UiAlone

\* A save only adds a write to the line, and one from a copy that is up to date
\* differs from what is stored in the control's own fields only.
LEMMA UiSave ==
  ASSUME UiStoreInv, NEW h \in Ui!Controls, NEW own \in SUBSET Ui!Fields, NEW v \in UiBlob,
         uiHooks[h].mounted, uiHooks[h].loaded,
         \A f \in Ui!Fields \ own : v[f] = uiHooks[h].state[f],
         Ui!Save(h, own, v), UNCHANGED <<uiHooks, uiStore, uiOptions, uiUnsaved, uiMisread>>
  PROVE  UiStoreInv'
<1> DEFINE w == Ui!Write(h, own, v)
<1>1. /\ w \in UiReq /\ w.op = "set" /\ w.hook = Ui!Nothing /\ w.own = own /\ w.value = v
      /\ w.alone = (~uiUnsaved /\ h \notin uiMisread /\ \A i \in DOMAIN uiQueue : uiQueue[i].op = "get")
  <2> DEFINE al == ~uiUnsaved /\ h \notin uiMisread /\ \A i \in DOMAIN uiQueue : uiQueue[i].op = "get"
  <2>1. w = [op |-> "set", hook |-> Ui!Nothing, value |-> v, own |-> own, alone |-> al]
    BY DEF Ui!Write
  <2>2. al \in BOOLEAN
    OBVIOUS
  <2> HIDE DEF al, w
  <2>3. w \in UiReq /\ w.op = "set" /\ w.hook = Ui!Nothing /\ w.own = own /\ w.value = v /\ w.alone = al
    BY <2>1, <2>2 DEF UiReq
  <2> QED
    BY <2>3 DEF al
<1>2. uiQueue' = Append(uiQueue, w) /\ uiQueue \in Seq(UiReq) /\ Len(uiQueue) \in Nat
  BY DEF Ui!Save, UiStoreInv, UiLine
<1>3. DOMAIN uiQueue = 1..Len(uiQueue)
  BY <1>2
<1>4. w.alone => \A f \in Ui!Fields \ own : v[f] = Ui!parseUiState(uiStore)[f]
  BY <1>1 DEF UiStoreInv, UiShown
<1> HIDE DEF w
<1>5. /\ uiQueue' \in Seq(UiReq) /\ Len(uiQueue') = Len(uiQueue) + 1
      /\ \A i \in 1..Len(uiQueue) : uiQueue'[i] = uiQueue[i] /\ i \in 1..Len(uiQueue')
      /\ \A i \in 1..Len(uiQueue') : i \in 1..Len(uiQueue) \/ (i = Len(uiQueue) + 1 /\ uiQueue'[i] = w)
      /\ \A i \in 1..Len(uiQueue') : \A j \in 1..Len(uiQueue') : j < i => j \in 1..Len(uiQueue)
  BY <1>1, <1>2
<1>6. Ui!Nothing \notin Ui!Controls
  BY DEF Ui!Nothing, Ui!Controls, Ui!Pickers
<1>7. UiLine(uiHooks, uiQueue')
  BY <1>1, <1>5, <1>6 DEF UiStoreInv, UiLine
<1>8. UiShown(uiHooks, uiQueue', uiStore, uiUnsaved, uiMisread)
  BY <1>5 DEF UiStoreInv, UiShown
<1>9. UiAlone(uiQueue', uiStore)
  <2> SUFFICES ASSUME NEW i \in 1..Len(uiQueue'), uiQueue'[i].alone
               PROVE  /\ uiQueue'[i].op = "set"
                      /\ \A j \in 1..Len(uiQueue') : j < i => uiQueue'[j].op = "get"
                      /\ \A f \in Ui!Fields \ uiQueue'[i].own :
                           uiQueue'[i].value[f] = Ui!parseUiState(uiStore)[f]
    BY DEF UiAlone
  <2>1. CASE i \in 1..Len(uiQueue)
    BY <1>5, <2>1 DEF UiStoreInv, UiAlone
  <2>2. CASE i = Len(uiQueue) + 1 /\ uiQueue'[i] = w
    <3>1. \A j \in 1..Len(uiQueue) : uiQueue[j].op = "get"
      BY <1>1, <1>3, <2>2
    <3>2. \A j \in 1..Len(uiQueue') : j < i => uiQueue'[j] = uiQueue[j] /\ j \in 1..Len(uiQueue)
      BY <1>5
    <3>3. \A j \in 1..Len(uiQueue') : j < i => uiQueue'[j].op = "get"
      BY <3>1, <3>2
    <3>4. \A f \in Ui!Fields \ w.own : w.value[f] = Ui!parseUiState(uiStore)[f]
      BY <1>1, <1>4, <2>2
    <3> QED
      BY <1>1, <2>2, <3>3, <3>4
  <2> QED
    BY <1>5, <2>1, <2>2
<1> QED
  BY <1>7, <1>8, <1>9 DEF UiStoreInv, UiLine, UiShown, UiAlone

\* A step of the ui state keeps what the controls show.
LEMMA UiStep ==
  ASSUME UiStoreInv, Ui!Next
  PROVE  UiStoreInv'
<1> DEFINE St(h) == uiHooks[h].state
<1>1. \A h \in Ui!Controls : St(h) \in UiBlob
  BY DEF UiStoreInv, UiLine, UiHook
<1>2. ASSUME UNCHANGED <<uiHooks, uiStore, uiQueue, uiUnsaved, uiMisread>>, uiOptions' \subseteq UiStreams
      PROVE  UiStoreInv'
  BY <1>2 DEF UiStoreInv, UiLine, UiShown, UiAlone
<1>a. /\ "mode" \in Ui!Controls /\ "footer" \in Ui!Controls
      /\ "mapping" \in Ui!Controls /\ "stream" \in Ui!Controls
      /\ uiHooks["mode"].mounted /\ uiHooks["footer"].mounted
  BY DEF Ui!Controls, Ui!Pickers, UiStoreInv, UiLine
<1>3. CASE Ui!LoadDropped
  <2>1. /\ uiQueue # <<>> /\ uiQueue' = Tail(uiQueue) /\ Head(uiQueue).hook = Ui!Nothing
        /\ UNCHANGED <<uiHooks, uiStore, uiOptions, uiUnsaved, uiMisread>>
    BY <1>3 DEF Ui!LoadDropped, Ui!failures
  <2>2. uiQueue \in Seq(UiReq) /\ Len(uiQueue) \in Nat \ {0} /\ uiQueue[1].hook = Ui!Nothing
    BY <2>1 DEF UiStoreInv, UiLine
  <2>3. /\ uiQueue' \in Seq(UiReq) /\ Len(uiQueue') = Len(uiQueue) - 1
        /\ \A i \in 1..Len(uiQueue') : uiQueue'[i] = uiQueue[i + 1] /\ i + 1 \in 1..Len(uiQueue)
        /\ \A i \in 2..Len(uiQueue) : i - 1 \in 1..Len(uiQueue') /\ uiQueue'[i - 1] = uiQueue[i]
    BY <2>1, <2>2
  <2>4. Ui!Nothing \notin Ui!Controls
    BY DEF Ui!Nothing, Ui!Controls, Ui!Pickers
  <2>5. \A i \in 1..Len(uiQueue) : uiQueue[i].hook \in Ui!Controls => i \in 2..Len(uiQueue)
    BY <2>2, <2>4
  <2>6. UiLine(uiHooks, uiQueue')
    <3>1. ASSUME NEW i \in 1..Len(uiQueue')
          PROVE  /\ uiQueue'[i].op = "set" => uiQueue'[i].hook = Ui!Nothing
                 /\ uiQueue'[i].hook \in Ui!Controls => uiHooks[uiQueue'[i].hook].mounted
      <4> DEFINE r == uiQueue[i + 1]
      <4>1. uiQueue'[i] = r /\ i + 1 \in 1..Len(uiQueue)
        BY <2>3
      <4>2. /\ r.op = "set" => r.hook = Ui!Nothing
            /\ r.hook \in Ui!Controls => uiHooks[r.hook].mounted
        BY <4>1 DEF UiStoreInv, UiLine
      <4> HIDE DEF r
      <4> QED
        BY <4>1, <4>2
    <3> QED
      BY <2>3, <3>1 DEF UiStoreInv, UiLine
  <2>7. UiShown(uiHooks, uiQueue', uiStore, uiUnsaved, uiMisread)
    BY <2>3, <2>5 DEF UiStoreInv, UiShown
  <2>8. UiAlone(uiQueue', uiStore)
    BY <2>2, <2>3, UiTail DEF UiStoreInv
  <2> QED
    BY <2>1, <2>6, <2>7, <2>8 DEF UiStoreInv, UiLine, UiShown, UiAlone
<1>4. ASSUME NEW m \in Ui!Modes, Ui!ChangeMode(m)
      PROVE  UiStoreInv'
  <2>1. /\ [St("mode") EXCEPT !.mode = m] \in UiBlob
        /\ \A f \in Ui!Fields \ {"mode"} : [St("mode") EXCEPT !.mode = m][f] = St("mode")[f]
    BY <1>1, <1>a DEF UiBlob, UiBlobOf, Ui!Fields
  <2> QED
    BY <1>4, <1>a, <2>1, UiSave DEF Ui!ChangeMode, Ui!failures, Ui!Fields
<1>5. CASE Ui!ToggleAskToTab
  <2>1. /\ [St("footer") EXCEPT !.askToTab = ~@] \in UiBlob
        /\ \A f \in Ui!Fields \ {"askToTab"} : [St("footer") EXCEPT !.askToTab = ~@][f] = St("footer")[f]
    BY <1>1, <1>a DEF UiBlob, UiBlobOf, Ui!Fields
  <2> QED
    BY <1>5, <1>a, <2>1, UiSave DEF Ui!ToggleAskToTab, Ui!failures, Ui!Fields
<1>6. ASSUME NEW m \in UiMappings \cup {Ui!Nothing}, Ui!PickMapping(m)
      PROVE  UiStoreInv'
  <2>1. /\ [St("mapping") EXCEPT !.mapping = m, !.streamId = Ui!Nothing] \in UiBlob
        /\ \A f \in Ui!Fields \ {"mapping", "streamId"} : [St("mapping") EXCEPT !.mapping = m, !.streamId = Ui!Nothing][f] = St("mapping")[f]
    BY <1>1, <1>a DEF UiBlob, UiBlobOf, Ui!Fields
  <2> QED
    BY <1>6, <1>a, <2>1, UiSave DEF Ui!PickMapping, Ui!failures, Ui!Fields
<1>7. CASE Ui!StreamsFetched \/ \E t \in UiStreams : Ui!Typed(t)
  BY <1>2, <1>7 DEF Ui!StreamsFetched, Ui!Typed, Ui!failures, UiStoreInv
<1>b. ASSUME NEW t \in UiStreams \cup {Ui!Nothing}
      PROVE  /\ [St("stream") EXCEPT !.streamId = t] \in UiBlob
             /\ \A f \in Ui!Fields \ {"streamId"} : [St("stream") EXCEPT !.streamId = t][f] = St("stream")[f]
  BY <1>1, <1>a DEF UiBlob, UiBlobOf, Ui!Fields
<1>8. CASE Ui!Commit
  <2>1. Ui!resolveStream(uiDraft) \in UiStreams \cup {Ui!Nothing}
    BY DEF Ui!resolveStream, UiStoreInv
  <2> QED
    BY <1>8, <1>a, <1>b, <2>1, UiSave DEF Ui!Commit, Ui!Usable, Ui!failures, Ui!Fields
<1>9. CASE Ui!HandleClear
  <2>1. UNCHANGED <<uiHooks, uiStore, uiOptions, uiUnsaved, uiMisread>> /\ uiOptions \subseteq UiStreams
    BY <1>9 DEF Ui!HandleClear, Ui!failures, UiStoreInv
  <2>2. CASE uiQueue' = uiQueue
    BY <1>2, <2>1, <2>2
  <2>3. CASE /\ uiHooks["stream"].loaded
             /\ Ui!Save("stream", {"streamId"}, [St("stream") EXCEPT !.streamId = Ui!Nothing])
    BY <1>9, <1>a, <1>b, <2>1, <2>3, UiSave DEF Ui!HandleClear, Ui!Usable, Ui!Fields
  <2> QED
    BY <1>9, <2>2, <2>3 DEF Ui!HandleClear
<1> QED
  BY <1>3, <1>4, <1>5, <1>6, <1>7, <1>8, <1>9, UiLoadedStep, UiSavedStep DEF Ui!Next

\* The invariant of the ui state holds in every behaviour.
LEMMA UiInvariance == Spec => []UiInv
<1>1. UiInv /\ [Next]_vars => UiInv'
  <2> SUFFICES ASSUME UiInv, [Next]_vars
               PROVE  UiInv'
    OBVIOUS
  <2>1. CASE part = "ui" /\ part' = part /\ Ui!Next
    BY <2>1, UiStep DEF UiInv
  <2>2. CASE part' # "ui" \/ UNCHANGED << part, varsUi >>
    BY <2>2 DEF UiInv, UiStoreInv, UiLine, UiShown, UiAlone, varsUi
  <2> QED
    BY <2>1, <2>2 DEF Next, vars
<1> QED
  BY <1>1, UiInitial, PTL DEF Spec

\* A control that loaded the ui state shows what a restart would read unless its read
\* or the last write failed, and a save from a copy that was up to date takes back no
\* field of another control, for any mappings and streams and any number of saves,
\* although every control saves the whole blob from its own copy and is told of the
\* others' saves only after the write (store/ui-state.ts).
THEOREM ControlsTheorem == Spec => []ControlsAgree
<1>1. UiInv => ControlsAgree
  <2>1. ASSUME UiStoreInv PROVE Ui!ControlsAgree
    <3>1. uiQueue = <<>> => \A h \in Ui!Controls : uiHooks[h].mounted => uiHooks[h].loaded
      <4> SUFFICES ASSUME uiQueue = <<>>, NEW h \in Ui!Controls, uiHooks[h].mounted
                   PROVE  uiHooks[h].loaded
        OBVIOUS
      <4>1. Len(uiQueue) = 0
        OBVIOUS
      <4>2. ~\E i \in 1..Len(uiQueue) : uiQueue[i].op = "get" /\ uiQueue[i].hook = h
        BY <4>1
      <4> QED
        BY <2>1, <4>2 DEF UiStoreInv, UiShown
    <3>2. DOMAIN uiQueue = 1..Len(uiQueue)
      BY <2>1 DEF UiStoreInv, UiLine
    <3> QED
      BY <2>1, <3>1, <3>2 DEF UiStoreInv, UiShown, UiAlone, Ui!ControlsAgree
  <2> QED
    BY <2>1 DEF UiInv, ControlsAgree
<1> QED
  BY <1>1, UiInvariance, PTL

-----------------------------------------------------------------------------
(* The shell: settings and their consumers. *)

ShlSettings == [llm : ShlUrls, iam : BOOLEAN]
ShlOps == {"load", "save", "state", "logout", "cancelled"}
ShlCall == [op : ShlOps, by : Shl!Hooks \cup {"login"}, value : ShlSettings]

ShlTypes ==
  /\ shlDisk \in ShlSettings /\ shlSeen \in ShlSettings /\ shlForm \in ShlUrls
  /\ shlHook \in [Shl!Hooks -> ShlSettings] /\ shlTorn \in BOOLEAN
  /\ shlMounted \subseteq Shl!Hooks /\ shlLoaded \subseteq shlMounted
  /\ shlIpc \in Seq(ShlCall)

\* A load under way is that of a consumer still mounted (the cleanup cancelled the
\* others), and a save comes from the panel or the login screen; a consumer that
\* read the store shows what it holds, or the defaults a failed read left it, as
\* long as every save was told.
ShlCallInv(c, mounted) ==
  /\ c.op = "load" => c.by \in mounted
  /\ c.op = "save" => c.by \in {"panel", "login"}

ShlShown == ~shlTorn => \A h \in shlLoaded : shlHook[h] \in {shlDisk, Shl!DEFAULT_APP_SETTINGS}

ShlSettingsInv ==
  /\ ShlTypes /\ ShlShown
  /\ \A i \in 1..Len(shlIpc) : ShlCallInv(shlIpc[i], shlMounted)

ShlInv == part = "shell" => ShlSettingsInv

\* The defaults are settings.
LEMMA ShlDefaults == Shl!DEFAULT_APP_SETTINGS \in ShlSettings
  BY ShlAssumption DEF Shl!DEFAULT_APP_SETTINGS, ShlSettings

\* The shell starts with the check of the session, and no consumer mounted.
LEMMA ShlInitial == Init => ShlInv
<1> SUFFICES ASSUME Init, part = "shell"
             PROVE  ShlSettingsInv
  BY DEF ShlInv
<1>1. Shl!Init
  BY DEF Init
<1>2. Shl!Request("state", "login") \in ShlCall
  BY ShlDefaults DEF Shl!Request, ShlCall, ShlOps
<1>3. shlIpc \in Seq(ShlCall) /\ Len(shlIpc) = 1 /\ shlIpc[1] = Shl!Request("state", "login")
  BY <1>1, <1>2 DEF Shl!Init
<1>4. ShlTypes
  BY <1>1, <1>3, ShlDefaults, ShlAssumption DEF Shl!Init, ShlTypes, ShlSettings
<1> QED
  BY <1>1, <1>3, <1>4 DEF Shl!Init, ShlSettingsInv, ShlShown, ShlCallInv, Shl!Request

\* A call that is made joins the line.
LEMMA ShlCalled ==
  ASSUME ShlTypes, NEW c \in ShlCall, Shl!Call(c), NEW m,
         \A i \in 1..Len(shlIpc) : ShlCallInv(shlIpc[i], m), ShlCallInv(c, m)
  PROVE  shlIpc' \in Seq(ShlCall) /\ \A i \in 1..Len(shlIpc') : ShlCallInv(shlIpc'[i], m)
  BY DEF ShlTypes, Shl!Call

\* Cancelling the loads of some consumers keeps the line and its other calls.
LEMMA ShlUnloaded ==
  ASSUME ShlTypes, NEW hs
  PROVE  /\ Shl!Unloaded(hs) \in Seq(ShlCall) /\ Len(Shl!Unloaded(hs)) = Len(shlIpc)
         /\ \A i \in 1..Len(shlIpc) :
              LET c == Shl!Unloaded(hs)[i]
              IN \/ c = shlIpc[i] /\ ~(c.op = "load" /\ c.by \in hs)
                 \/ c.op = "cancelled"
<1> DEFINE s == Shl!Unloaded(hs)
<1>1. DOMAIN s = 1..Len(shlIpc) /\ Len(shlIpc) \in Nat
  BY DEF ShlTypes, Shl!Unloaded
<1>2. \A i \in 1..Len(shlIpc) : shlIpc[i] \in ShlCall
  BY DEF ShlTypes
<1>3. ASSUME NEW i \in 1..Len(shlIpc)
      PROVE  s[i] = IF shlIpc[i].op = "load" /\ shlIpc[i].by \in hs
                      THEN Shl!Request("cancelled", shlIpc[i].by) ELSE shlIpc[i]
  BY <1>1, <1>3 DEF Shl!Unloaded
<1>4. ASSUME NEW i \in 1..Len(shlIpc)
      PROVE  /\ s[i] \in ShlCall
             /\ \/ s[i] = shlIpc[i] /\ ~(s[i].op = "load" /\ s[i].by \in hs)
                \/ s[i].op = "cancelled"
  <2> shlIpc[i] \in ShlCall
    BY <1>2
  <2>1. CASE shlIpc[i].op = "load" /\ shlIpc[i].by \in hs
    <3>1. s[i] = Shl!Request("cancelled", shlIpc[i].by)
      BY <1>3, <2>1
    <3> QED
      BY <3>1, ShlDefaults DEF Shl!Request, ShlCall, ShlOps
  <2>2. CASE ~(shlIpc[i].op = "load" /\ shlIpc[i].by \in hs)
    BY <1>3, <2>2
  <2> QED
    BY <2>1, <2>2
<1>5. s = [i \in 1..Len(shlIpc) |-> s[i]]
  BY <1>1 DEF Shl!Unloaded
<1>6. s \in [1..Len(shlIpc) -> ShlCall]
  BY <1>4, <1>5
<1> HIDE DEF s
<1> QED
  BY <1>1, <1>4, <1>6 DEF s

\* What a step leaves of the invariant when the calls and the mounted consumers
\* keep it.
LEMMA ShlKeep ==
  ASSUME ShlTypes', ShlShown', \A i \in 1..Len(shlIpc') : ShlCallInv(shlIpc'[i], shlMounted')
  PROVE  ShlSettingsInv'
  BY DEF ShlSettingsInv, ShlCallInv

\* New values of some consumers, with the form seeded again.
LEMMA ShlReseeded ==
  ASSUME ShlTypes, NEW vs \in [Shl!Hooks -> ShlSettings], NEW ls, Shl!Reseeded(vs, ls)
  PROVE  shlHook' = vs /\ shlLoaded' = ls /\ shlForm' \in ShlUrls
<1>1. vs["panel"].llm \in ShlUrls
  BY DEF ShlSettings, Shl!Hooks
<1> QED
  BY <1>1 DEF Shl!Reseeded, ShlTypes

\* A read of the store answers a consumer that is mounted.
LEMMA ShlLoaded ==
  ASSUME ShlSettingsInv, NEW c \in ShlCall, c.op = "load", ShlCallInv(c, shlMounted), Shl!Loaded(c)
  PROVE  ShlShown' /\ shlMounted' = shlMounted /\ shlTorn' = shlTorn /\ shlDisk' = shlDisk
         /\ shlSeen' = shlSeen /\ shlHook' \in [Shl!Hooks -> ShlSettings]
         /\ shlForm' \in ShlUrls /\ shlLoaded' \subseteq shlMounted
<1> PICK v \in Shl!readSettings :
       Shl!Reseeded([shlHook EXCEPT ![c.by] = v], shlLoaded \cup {c.by})
  BY DEF Shl!Loaded
<1>1. v \in ShlSettings /\ v \in {shlDisk, Shl!DEFAULT_APP_SETTINGS}
  BY ShlDefaults DEF Shl!readSettings, ShlSettingsInv, ShlTypes
<1>2. c.by \in shlMounted /\ c.by \in Shl!Hooks
  BY DEF ShlCallInv, ShlSettingsInv, ShlTypes
<1>3. [shlHook EXCEPT ![c.by] = v] \in [Shl!Hooks -> ShlSettings]
  BY <1>1, <1>2 DEF ShlSettingsInv, ShlTypes
<1>4. /\ shlHook' = [shlHook EXCEPT ![c.by] = v] /\ shlLoaded' = shlLoaded \cup {c.by}
      /\ shlForm' \in ShlUrls
  BY <1>3, ShlReseeded DEF ShlSettingsInv
<1>5. UNCHANGED <<shlMounted, shlTorn, shlDisk, shlSeen>>
  BY DEF Shl!Loaded, Shl!auth
<1>6. ShlShown'
  <2> SUFFICES ASSUME ~shlTorn, NEW h \in shlLoaded'
               PROVE  shlHook'[h] \in {shlDisk, Shl!DEFAULT_APP_SETTINGS}
    BY <1>5 DEF ShlShown
  <2>1. CASE h = c.by
    BY <1>1, <1>2, <1>4, <2>1 DEF ShlSettingsInv, ShlTypes
  <2>2. CASE h # c.by
    BY <1>4, <2>2 DEF ShlSettingsInv, ShlTypes, ShlShown
  <2> QED
    BY <2>1, <2>2
<1> QED
  BY <1>2, <1>3, <1>4, <1>5, <1>6 DEF ShlSettingsInv, ShlTypes

\* A save of the panel is told to every consumer that is mounted; one of the login
\* screen, or one that failed half way, to none.
LEMMA ShlSaved ==
  ASSUME ShlSettingsInv, NEW c \in ShlCall, c.op = "save", ShlCallInv(c, shlMounted), Shl!Saved(c)
  PROVE  ShlShown' /\ shlMounted' = shlMounted /\ shlTorn' \in BOOLEAN /\ shlDisk' \in ShlSettings
         /\ shlSeen' = shlSeen /\ shlHook' \in [Shl!Hooks -> ShlSettings]
         /\ shlForm' \in ShlUrls /\ shlLoaded' = shlLoaded
<1>1. c.value \in ShlSettings /\ c.by \in {"panel", "login"}
  BY DEF ShlCall, ShlCallInv
<1>2. shlMounted' = shlMounted /\ shlSeen' = shlSeen
  BY DEF Shl!Saved
<1>3. CASE shlDisk' = c.value /\ shlTorn' = FALSE /\ c.by = "panel" /\ Shl!Notified(c.value)
  <2> DEFINE vs == [h \in Shl!Hooks |-> IF h \in shlMounted THEN c.value ELSE shlHook[h]]
  <2>1. vs \in [Shl!Hooks -> ShlSettings]
    BY <1>1 DEF ShlSettingsInv, ShlTypes
  <2>2. Shl!Reseeded(vs, shlLoaded)
    BY <1>3 DEF Shl!Notified
  <2>3. \A h \in shlLoaded : vs[h] = c.value
    BY DEF ShlSettingsInv, ShlTypes
  <2> HIDE DEF vs
  <2>4. shlHook' = vs /\ shlLoaded' = shlLoaded /\ shlForm' \in ShlUrls
    BY <2>1, <2>2, ShlReseeded DEF ShlSettingsInv
  <2> QED
    BY <1>1, <1>2, <1>3, <2>1, <2>3, <2>4 DEF ShlShown
<1>4. CASE /\ shlDisk' = c.value /\ shlTorn' = (shlMounted # {}) /\ c.by = "login"
           /\ UNCHANGED <<shlHook, shlLoaded, shlForm>>
  <2>1. shlMounted = {} => shlLoaded = {}
    BY DEF ShlSettingsInv, ShlTypes
  <2> QED
    BY <1>1, <1>2, <1>4, <2>1 DEF ShlShown, ShlSettingsInv, ShlTypes
<1>5. CASE /\ shlDisk' \in {shlDisk, c.value} /\ shlTorn' = (shlDisk' # shlDisk \/ shlTorn)
           /\ UNCHANGED <<shlHook, shlLoaded, shlForm>>
  BY <1>1, <1>2, <1>5 DEF ShlShown, ShlSettingsInv, ShlTypes
<1> QED
  BY <1>1, <1>3, <1>4, <1>5 DEF Shl!Saved

\* An answer of the native side takes the first call out of the line; the one to a
\* logout unmounts every consumer.
LEMMA ShlNative ==
  ASSUME ShlSettingsInv, Shl!Native
  PROVE  ShlSettingsInv'
<1> DEFINE c == Head(shlIpc)
<1>1. shlIpc # <<>> /\ shlIpc \in Seq(ShlCall) /\ c = shlIpc[1] /\ Len(shlIpc) \in Nat \ {0}
  BY DEF Shl!Native, ShlSettingsInv, ShlTypes
<1>2. c \in ShlCall /\ ShlCallInv(c, shlMounted)
  BY <1>1 DEF ShlSettingsInv
<1>3. /\ Tail(shlIpc) \in Seq(ShlCall)
      /\ \A i \in 1..Len(Tail(shlIpc)) : ShlCallInv(Tail(shlIpc)[i], shlMounted)
  BY <1>1 DEF ShlSettingsInv
<1>4. c.op \in ShlOps
  BY <1>2 DEF ShlCall
<1>5. c.op # "logout" => shlIpc' = Tail(shlIpc)
  BY DEF Shl!Native
<1>6. /\ c.op = "load" => Shl!Loaded(c)
      /\ c.op = "save" => Shl!Saved(c)
      /\ c.op = "state" => Shl!InitialState(c)
      /\ c.op = "logout" => Shl!LoggedOut(c)
      /\ c.op = "cancelled" => UNCHANGED <<Shl!auth, Shl!settings, Shl!footer>>
  BY DEF Shl!Native
<1>7. c.op = "logout" => shlIpc' = Append(Tail(Shl!Unloaded(Shl!Hooks)), Shl!Request("state", "login"))
  BY DEF Shl!Native
<1> HIDE DEF c
<1>8. CASE c.op = "load"
  <2>1. ShlTypes' /\ ShlShown' /\ shlMounted' = shlMounted
    BY <1>2, <1>3, <1>5, <1>6, <1>8, ShlLoaded DEF ShlSettingsInv, ShlTypes
  <2> QED
    BY <1>3, <1>5, <1>8, <2>1, ShlKeep
<1>9. CASE c.op = "save"
  <2>1. ShlTypes' /\ ShlShown' /\ shlMounted' = shlMounted
    BY <1>2, <1>3, <1>5, <1>6, <1>9, ShlSaved DEF ShlSettingsInv, ShlTypes
  <2> QED
    BY <1>3, <1>5, <1>9, <2>1, ShlKeep
<1>10. CASE c.op \in {"state", "cancelled"}
  <2>1. UNCHANGED <<shlDisk, shlTorn, shlHook, shlLoaded, shlMounted, shlForm>>
    BY <1>6, <1>10 DEF Shl!InitialState, Shl!settings
  <2>2. shlSeen' \in ShlSettings
    BY <1>6, <1>10, ShlDefaults DEF Shl!InitialState, Shl!readSettings, Shl!auth, ShlSettingsInv, ShlTypes
  <2>3. ShlTypes' /\ ShlShown'
    BY <1>3, <1>5, <1>10, <2>1, <2>2 DEF ShlSettingsInv, ShlTypes, ShlShown
  <2> QED
    BY <1>3, <1>5, <1>10, <2>1, <2>3, ShlKeep
<1>11. CASE c.op = "logout"
  <2> DEFINE u == Shl!Unloaded(Shl!Hooks)
             q == Shl!Request("state", "login")
  <2>1. /\ u \in Seq(ShlCall) /\ Len(u) = Len(shlIpc)
        /\ \A i \in 1..Len(u) : \/ u[i] = shlIpc[i] /\ ~(u[i].op = "load" /\ u[i].by \in Shl!Hooks)
                                \/ u[i].op = "cancelled"
    BY ShlUnloaded DEF ShlSettingsInv
  <2>2. \A i \in 1..Len(u) : ShlCallInv(u[i], {})
    <3> SUFFICES ASSUME NEW i \in 1..Len(u) PROVE ShlCallInv(u[i], {})
      OBVIOUS
    <3>1. ShlCallInv(shlIpc[i], shlMounted)
      BY <2>1 DEF ShlSettingsInv
    <3> QED
      BY <2>1, <3>1 DEF ShlCallInv, ShlSettingsInv, ShlTypes
  <2>3. q \in ShlCall /\ ShlCallInv(q, {})
    BY ShlDefaults DEF Shl!Request, ShlCall, ShlOps, ShlCallInv
  <2>4. shlIpc' = Append(Tail(u), q)
    BY <1>7, <1>11
  <2> HIDE DEF u, q
  <2>5. Tail(u) \in Seq(ShlCall) /\ \A i \in 1..Len(Tail(u)) : ShlCallInv(Tail(u)[i], {})
    BY <1>1, <2>1, <2>2
  <2>6. shlIpc' \in Seq(ShlCall) /\ \A i \in 1..Len(shlIpc') : ShlCallInv(shlIpc'[i], {})
    BY <2>3, <2>4, <2>5
  <2>7. /\ shlMounted' = {} /\ shlLoaded' = {} /\ shlTorn' = FALSE
        /\ UNCHANGED <<shlSeen, shlDisk, shlHook, shlForm>>
    BY <1>6, <1>11 DEF Shl!LoggedOut
  <2>8. ShlTypes' /\ ShlShown'
    BY <2>6, <2>7 DEF ShlSettingsInv, ShlTypes, ShlShown
  <2> QED
    BY <2>6, <2>7, <2>8, ShlKeep
<1> QED
  BY <1>4, <1>8, <1>9, <1>10, <1>11 DEF ShlOps

\* A step of the shell keeps what the consumers show.
LEMMA ShlStep ==
  ASSUME ShlSettingsInv, Shl!Next
  PROVE  ShlSettingsInv'
<1> DEFINE Kept == UNCHANGED <<shlDisk, shlTorn, shlHook, shlLoaded, shlMounted, shlSeen>>
<1>1. ASSUME NEW h \in Shl!Hooks, Shl!MountHook(h)
      PROVE  ShlSettingsInv'
  <2>1. Shl!Request("load", h) \in ShlCall /\ ShlCallInv(Shl!Request("load", h), shlMounted')
    BY <1>1, ShlDefaults DEF Shl!MountHook, Shl!Request, ShlCall, ShlOps, ShlCallInv
  <2>2. \A i \in 1..Len(shlIpc) : ShlCallInv(shlIpc[i], shlMounted')
    BY <1>1 DEF Shl!MountHook, ShlSettingsInv, ShlCallInv
  <2>3. shlIpc' \in Seq(ShlCall) /\ \A i \in 1..Len(shlIpc') : ShlCallInv(shlIpc'[i], shlMounted')
    BY <1>1, <2>1, <2>2, ShlCalled DEF Shl!MountHook, ShlSettingsInv
  <2>4. ShlTypes' /\ ShlShown'
    BY <1>1, <2>3, ShlDefaults, ShlAssumption
    DEF Shl!MountHook, Shl!auth, ShlSettingsInv, ShlTypes, ShlShown
  <2> QED
    BY <2>3, <2>4, ShlKeep
<1>2. CASE Shl!UnmountPanel
  <2> DEFINE u == Shl!Unloaded({"panel"})
  <2>1. /\ u \in Seq(ShlCall) /\ Len(u) = Len(shlIpc)
        /\ \A i \in 1..Len(u) : \/ u[i] = shlIpc[i] /\ ~(u[i].op = "load" /\ u[i].by \in {"panel"})
                                \/ u[i].op = "cancelled"
    BY ShlUnloaded DEF ShlSettingsInv
  <2>2. \A i \in 1..Len(u) : ShlCallInv(u[i], shlMounted \ {"panel"})
    <3> SUFFICES ASSUME NEW i \in 1..Len(u) PROVE ShlCallInv(u[i], shlMounted \ {"panel"})
      OBVIOUS
    <3>1. ShlCallInv(shlIpc[i], shlMounted)
      BY <2>1 DEF ShlSettingsInv
    <3> QED
      BY <2>1, <3>1 DEF ShlCallInv
  <2>3. /\ shlIpc' = u /\ shlMounted' = shlMounted \ {"panel"} /\ shlLoaded' = shlLoaded \ {"panel"}
        /\ UNCHANGED <<shlDisk, shlTorn, shlHook, shlForm, shlSeen>>
    BY <1>2 DEF Shl!UnmountPanel, Shl!auth
  <2> HIDE DEF u
  <2>4. ShlTypes' /\ ShlShown'
    BY <2>1, <2>3 DEF ShlSettingsInv, ShlTypes, ShlShown
  <2> QED
    BY <2>2, <2>3, <2>4, ShlKeep
<1>3. ASSUME Kept, shlForm' \in ShlUrls, NEW c \in ShlCall, Shl!Call(c), ShlCallInv(c, shlMounted)
      PROVE  ShlSettingsInv'
  <2>1. shlIpc' \in Seq(ShlCall) /\ \A i \in 1..Len(shlIpc') : ShlCallInv(shlIpc'[i], shlMounted)
    BY <1>3, ShlCalled DEF ShlSettingsInv
  <2>2. ShlTypes' /\ ShlShown'
    BY <1>3, <2>1 DEF ShlSettingsInv, ShlTypes, ShlShown
  <2> QED
    BY <1>3, <2>1, <2>2, ShlKeep
<1>4. ASSUME Kept, shlForm' \in ShlUrls, shlIpc' = shlIpc
      PROVE  ShlSettingsInv'
  BY <1>4 DEF ShlSettingsInv, ShlTypes, ShlShown, ShlCallInv
<1>5. CASE Shl!Submit \/ Shl!handleSaveIAM \/ Shl!handleLogout
  <2>1. Kept /\ shlForm' = shlForm /\ shlForm \in ShlUrls
    BY <1>5 DEF Shl!Submit, Shl!handleSaveIAM, Shl!handleLogout, Shl!auth, Shl!settings,
                ShlSettingsInv, ShlTypes
  <2>2. CASE Shl!Submit
    <3> DEFINE v == [shlHook["panel"] EXCEPT !.llm = shlForm]
               c == Shl!SaveRequest("panel", v)
    <3>1. v \in ShlSettings
      BY DEF ShlSettingsInv, ShlTypes, ShlSettings, Shl!Hooks
    <3>2. Shl!Call(c)
      BY <2>2 DEF Shl!Submit
    <3> HIDE DEF v
    <3>3. c \in ShlCall /\ ShlCallInv(c, shlMounted)
      BY <3>1, ShlDefaults DEF Shl!SaveRequest, Shl!Request, ShlCall, ShlOps, ShlCallInv, Shl!Hooks
    <3> HIDE DEF c
    <3> QED
      BY <1>3, <2>1, <3>2, <3>3
  <2>3. CASE Shl!handleSaveIAM
    <3> DEFINE v == [shlSeen EXCEPT !.iam = TRUE]
               c == Shl!SaveRequest("login", v)
    <3>1. v \in ShlSettings
      BY DEF ShlSettingsInv, ShlTypes, ShlSettings
    <3>2. Shl!Call(c)
      BY <2>3 DEF Shl!handleSaveIAM
    <3> HIDE DEF v
    <3>3. c \in ShlCall /\ ShlCallInv(c, shlMounted)
      BY <3>1, ShlDefaults DEF Shl!SaveRequest, Shl!Request, ShlCall, ShlOps, ShlCallInv
    <3> HIDE DEF c
    <3> QED
      BY <1>3, <2>1, <3>2, <3>3
  <2>4. CASE Shl!handleLogout
    <3> DEFINE c == Shl!Request("logout", "app")
    <3>1. c \in ShlCall /\ ShlCallInv(c, shlMounted)
      BY ShlDefaults DEF Shl!Request, ShlCall, ShlOps, ShlCallInv, Shl!Hooks
    <3>2. Shl!Call(c)
      BY <2>4 DEF Shl!handleLogout
    <3> HIDE DEF c
    <3> QED
      BY <1>3, <2>1, <3>1, <3>2
  <2> QED
    BY <1>5, <2>2, <2>3, <2>4
<1>6. CASE (\E u \in ShlUrls : Shl!EditUrl(u)) \/ Shl!ChangeIam \/ Shl!handleLogin \/ Shl!CancelLogin
           \/ Shl!LoginEnds \/ Shl!Ping \/ \E p \in shlPings : Shl!Pong(p)
  <2>1. Kept /\ shlForm' \in ShlUrls /\ shlIpc' = shlIpc
    BY <1>6 DEF Shl!EditUrl, Shl!ChangeIam, Shl!handleLogin, Shl!CancelLogin, Shl!LoginEnds, Shl!Ping,
                Shl!Pong, Shl!auth, Shl!settings, ShlSettingsInv, ShlTypes
  <2> QED
    BY <1>4, <2>1
<1> QED
  BY <1>1, <1>2, <1>5, <1>6, ShlNative DEF Shl!Next

\* The invariant of the shell holds in every behaviour.
LEMMA ShlInvariance == Spec => []ShlInv
<1>1. ShlInv /\ [Next]_vars => ShlInv'
  <2> SUFFICES ASSUME ShlInv, [Next]_vars
               PROVE  ShlInv'
    OBVIOUS
  <2>1. CASE part = "shell" /\ part' = part /\ Shl!Next
    BY <2>1, ShlStep DEF ShlInv
  <2>2. CASE part' # "shell" \/ UNCHANGED << part, varsShl >>
    BY <2>2 DEF ShlInv, ShlSettingsInv, ShlTypes, ShlShown, ShlCallInv, varsShl
  <2> QED
    BY <2>1, <2>2 DEF Next, vars
<1> QED
  BY <1>1, ShlInitial, PTL DEF Spec

\* The consumers of the settings agree once no call is open and no save went
\* untold, and no window of the dev agent waits when no run is under way, for any
\* endpoints and any number of calls, runs and steps: a save reaches every mounted
\* consumer, whatever loads it crossed (store/settings.ts, DevPanel.tsx).
THEOREM ConsumersTheorem == Spec => []ConsumersAgree
<1>1. ShlInv /\ TooInv => ConsumersAgree
  BY DEF ShlInv, ShlSettingsInv, ShlShown, TooInv, TooDevInv, ConsumersAgree, Shl!ConsumersAgree
<1> QED
  BY <1>1, ShlInvariance, TooInvariance, PTL

-----------------------------------------------------------------------------
(* The log ring. *)

\* The parts count with the same operator.
LEMMA SameCardinality ==
  ASSUME NEW S
  PROVE  Log!Cardinality(S) = Cardinality(S) /\ Sto!Cardinality(S) = Cardinality(S)
  BY DEF Log!Cardinality, Sto!Cardinality, Cardinality

\* An append brings the ring back within its bound by what it has read so far: it
\* has still to count, or it counted at least the records that are too many now,
\* or the keys it read leave no more than the bound.
LogRepairs(a, rows) ==
  \/ a.stage = "added"
  \/ a.stage = "counted" /\ Cardinality(rows) <= a.overflow + LogMAX_LOG_ROWS
  \/ a.stage = "keys" /\ Cardinality(rows \ a.oldest) <= LogMAX_LOG_ROWS

LogAppendInv(a) == DOMAIN a = {"id", "stage", "overflow", "oldest"} /\ a.overflow \in Nat

LogRingInv ==
  /\ IsFiniteSet(logLogRows)
  /\ \A a \in logAppends : LogAppendInv(a)
  /\ ~logFailed /\ Cardinality(logLogRows) > LogMAX_LOG_ROWS =>
       \E a \in logAppends : LogRepairs(a, logLogRows)

LogInv == part = "log" => LogRingInv

\* An append that repairs the ring goes on to do so when records are deleted.
LEMMA LogShrink ==
  ASSUME NEW a, LogAppendInv(a), NEW rows, IsFiniteSet(rows), NEW fewer \in SUBSET rows,
         LogRepairs(a, rows)
  PROVE  LogRepairs(a, fewer)
<1>1. /\ IsFiniteSet(fewer) /\ Cardinality(fewer) <= Cardinality(rows)
      /\ Cardinality(fewer) \in Nat /\ Cardinality(rows) \in Nat
  BY FS_Subset, FS_CardinalityType
<1>2. IsFiniteSet(rows \ a.oldest) /\ (fewer \ a.oldest) \subseteq (rows \ a.oldest)
  BY FS_Subset
<1>3. /\ Cardinality(fewer \ a.oldest) <= Cardinality(rows \ a.oldest)
      /\ Cardinality(fewer \ a.oldest) \in Nat /\ Cardinality(rows \ a.oldest) \in Nat
  BY <1>2, FS_Subset, FS_CardinalityType
<1> QED
  BY <1>1, <1>3, LogAssumption DEF LogRepairs, LogAppendInv

\* The ring starts empty.
LEMMA LogInitial == Init => LogInv
<1> SUFFICES ASSUME Init, part = "log"
             PROVE  LogRingInv
  BY DEF LogInv
<1>1. Log!Init
  BY DEF Init
<1>2. IsFiniteSet({}) /\ Cardinality({}) = 0
  BY FS_EmptySet
<1> QED
  BY <1>1, <1>2, LogAssumption DEF Log!Init, LogRingInv

\* An append that leaves while the ring is within its bound, or while another one
\* repairs it, is not missed.
LEMMA LogLeaves ==
  ASSUME LogRingInv, NEW rows \in SUBSET logLogRows, logLogRows' = rows,
         logAppends' \subseteq logAppends, logFailed' = logFailed,
         \/ Cardinality(rows) <= LogMAX_LOG_ROWS
         \/ \A a \in logAppends : LogRepairs(a, logLogRows) => a \in logAppends'
  PROVE  LogRingInv'
<1>1. /\ IsFiniteSet(rows) /\ Cardinality(rows) \in Nat /\ Cardinality(logLogRows) \in Nat
      /\ Cardinality(rows) <= Cardinality(logLogRows)
  BY FS_Subset, FS_CardinalityType DEF LogRingInv
<1>2. \A a \in logAppends' : LogAppendInv(a)
  BY DEF LogRingInv
<1>3. ASSUME ~logFailed, Cardinality(rows) > LogMAX_LOG_ROWS
      PROVE  \E a \in logAppends' : LogRepairs(a, rows)
  <2>1. Cardinality(logLogRows) > LogMAX_LOG_ROWS
    BY <1>1, <1>3, LogAssumption
  <2>2. PICK a \in logAppends : LogRepairs(a, logLogRows)
    BY <1>3, <2>1 DEF LogRingInv
  <2>3. a \in logAppends'
    BY <1>1, <1>3, <2>2, LogAssumption
  <2>4. LogRepairs(a, rows)
    BY <2>2, LogShrink DEF LogRingInv
  <2> QED
    BY <2>3, <2>4
<1> QED
  BY <1>1, <1>2, <1>3 DEF LogRingInv, LogRepairs, LogAppendInv

\* An append goes on to its next stage, where it repairs the ring if it did before.
LEMMA LogAdvances ==
  ASSUME LogRingInv, UNCHANGED <<logLogRows, logFailed>>, NEW a \in logAppends, NEW b,
         logAppends' = (logAppends \ {a}) \cup {b}, LogAppendInv(b),
         LogRepairs(a, logLogRows) => LogRepairs(b, logLogRows)
  PROVE  LogRingInv'
<1>1. \A d \in logAppends' : LogAppendInv(d)
  BY DEF LogRingInv
<1>2. ASSUME ~logFailed, Cardinality(logLogRows) > LogMAX_LOG_ROWS
      PROVE  \E d \in logAppends' : LogRepairs(d, logLogRows)
  <2>1. PICK d \in logAppends : LogRepairs(d, logLogRows)
    BY <1>2 DEF LogRingInv
  <2>2. CASE d = a
    BY <2>1, <2>2
  <2>3. CASE d # a
    BY <2>1, <2>3
  <2> QED
    BY <2>2, <2>3
<1> QED
  BY <1>1, <1>2 DEF LogRingInv, LogRepairs, LogAppendInv

\* A step of the ring keeps an append that repairs it, unless one failed.
LEMMA LogStep ==
  ASSUME LogRingInv, Log!Next
  PROVE  LogRingInv'
<1>1. CASE Log!logsAdd
  <2> DEFINE b == [id |-> logNextLog, stage |-> "added", overflow |-> 0, oldest |-> {}]
  <2>1. logLogRows' = logLogRows \cup {logNextLog} /\ logAppends' = logAppends \cup {b}
    BY <1>1 DEF Log!logsAdd
  <2>2. IsFiniteSet(logLogRows')
    BY <2>1, FS_AddElement DEF LogRingInv
  <2>3. LogAppendInv(b) /\ b.stage = "added"
    BY DEF LogAppendInv
  <2> HIDE DEF b
  <2>4. \A a \in logAppends' : LogAppendInv(a)
    BY <2>1, <2>3 DEF LogRingInv
  <2>5. \E a \in logAppends' : a.stage = "added"
    BY <2>1, <2>3
  <2> QED
    BY <2>2, <2>4, <2>5 DEF LogRingInv, LogRepairs, LogAppendInv
<1>2. CASE Log!clearLogs
  <2>1. Cardinality({}) = 0
    BY FS_EmptySet
  <2> QED
    BY <1>2, <2>1, LogLeaves, LogAssumption DEF Log!clearLogs
<1>3. CASE Log!Poll \/ Log!ToggleLogs
  BY <1>3 DEF Log!Poll, Log!ToggleLogs, LogRingInv, LogRepairs, LogAppendInv
<1>4. ASSUME NEW a \in logAppends, Log!logsCount(a)
      PROVE  LogRingInv'
  <2>1. a.stage = "added" /\ LogAppendInv(a) /\ UNCHANGED <<logLogRows, logFailed>>
    BY <1>4 DEF Log!logsCount, LogRingInv
  <2>2. Cardinality(logLogRows) \in Nat
    BY FS_CardinalityType DEF LogRingInv
  <2>3. CASE Log!Rows > LogMAX_LOG_ROWS
    <3> DEFINE b == [a EXCEPT !.stage = "counted", !.overflow = Log!Overflow(Log!Rows)]
    <3>1. logAppends' = (logAppends \ {a}) \cup {b}
      BY <1>4, <2>3 DEF Log!logsCount
    <3>2. LogAppendInv(b) /\ LogRepairs(b, logLogRows)
      BY <2>1, <2>2, <2>3, LogAssumption, SameCardinality
      DEF LogAppendInv, LogRepairs, Log!Overflow, Log!Rows
    <3> HIDE DEF b
    <3> QED
      BY <2>1, <3>1, <3>2, LogAdvances
  <2>4. CASE ~(Log!Rows > LogMAX_LOG_ROWS)
    <3>1. Cardinality(logLogRows) <= LogMAX_LOG_ROWS
      BY <2>2, <2>4, LogAssumption, SameCardinality DEF Log!Rows
    <3>2. logAppends' \subseteq logAppends
      BY <1>4, <2>4 DEF Log!logsCount
    <3> QED
      BY <2>1, <3>1, <3>2, LogLeaves
  <2> QED
    BY <2>3, <2>4
<1>5. ASSUME NEW a \in logAppends, Log!primaryKeys(a)
      PROVE  LogRingInv'
  <2>1. a.stage = "counted" /\ LogAppendInv(a) /\ UNCHANGED <<logLogRows, logFailed>>
    BY <1>5 DEF Log!primaryKeys, LogRingInv
  <2>2. PICK K \in Log!Oldest(a.overflow) :
          logAppends' = (logAppends \ {a}) \cup {[a EXCEPT !.stage = "keys", !.oldest = K]}
    BY <1>5 DEF Log!primaryKeys
  <2> DEFINE b == [a EXCEPT !.stage = "keys", !.oldest = K]
  <2>3. LogAppendInv(b) /\ b.stage = "keys" /\ b.oldest = K
    BY <2>1 DEF LogAppendInv
  <2> HIDE DEF b
  <2>4. K \subseteq logLogRows
        /\ Cardinality(K) = IF a.overflow < Cardinality(logLogRows) THEN a.overflow
                                                                    ELSE Cardinality(logLogRows)
    BY SameCardinality DEF Log!Oldest, Log!Rows
  <2>5. Cardinality(logLogRows \ K) = Cardinality(logLogRows) - Cardinality(K)
    <3>1. IsFiniteSet(K) /\ logLogRows \cap K = K
      BY <2>4, FS_Subset DEF LogRingInv
    <3> QED
      BY <3>1, FS_Difference DEF LogRingInv
  <2>6. Cardinality(logLogRows) \in Nat
    BY FS_CardinalityType DEF LogRingInv
  <2>7. LogRepairs(a, logLogRows) => LogRepairs(b, logLogRows)
    BY <2>1, <2>3, <2>4, <2>5, <2>6, LogAssumption DEF LogRepairs, LogAppendInv
  <2> QED
    BY <2>1, <2>2, <2>3, <2>7, LogAdvances DEF b
<1>6. ASSUME NEW a \in logAppends, Log!bulkDelete(a)
      PROVE  LogRingInv'
  <2>1. /\ a.stage = "keys" /\ logLogRows' = logLogRows \ a.oldest
        /\ logAppends' = logAppends \ {a} /\ logFailed' = logFailed
    BY <1>6 DEF Log!bulkDelete
  <2>2. LogRepairs(a, logLogRows) => Cardinality(logLogRows') <= LogMAX_LOG_ROWS
    BY <2>1 DEF LogRepairs
  <2> QED
    BY <2>1, <2>2, LogLeaves
<1>7. ASSUME NEW a \in logAppends, Log!AppendFails(a)
      PROVE  LogRingInv'
  BY <1>7 DEF Log!AppendFails, LogRingInv, LogRepairs, LogAppendInv
<1> QED
  BY <1>1, <1>2, <1>3, <1>4, <1>5, <1>6, <1>7 DEF Log!Next

\* The invariant of the ring holds in every behaviour.
LEMMA LogInvariance == Spec => []LogInv
<1>1. LogInv /\ [Next]_vars => LogInv'
  <2> SUFFICES ASSUME LogInv, [Next]_vars
               PROVE  LogInv'
    OBVIOUS
  <2>1. CASE part = "log" /\ part' = part /\ Log!Next
    BY <2>1, LogStep DEF LogInv
  <2>2. CASE part' # "log" \/ UNCHANGED << part, varsLog >>
    BY <2>2 DEF LogInv, LogRingInv, LogRepairs, LogAppendInv, varsLog
  <2> QED
    BY <2>1, <2>2 DEF Next, vars
<1> QED
  BY <1>1, LogInitial, PTL DEF Spec

-----------------------------------------------------------------------------
(* The local tables and the panels that list them. *)

StoOpNames == {"put", "delete", "putTurn", "chats", "turns", "load"}
StoTx == [op : StoOpNames, id : StoIds \cup {Sto!None}, at : Nat, then : BOOLEAN]

\* A listing of a kind is still to come.
StoPending(q, kind) == \E i \in 1..Len(q) : q[i].op = kind

\* The list of the panel that is mounted shows its table, or it is read again
\* before the transactions that are open are done.
StoLists ==
  /\ Sto!InHistory /\ ~stoFailing => stoChatList = stoDb \/ StoPending(stoTxs, "chats")
  /\ Sto!InActivity /\ ~stoFailing => stoTurnList = stoTurnRows \/ StoPending(stoTxs, "turns")

StoTypes ==
  /\ stoTxs \in Seq(StoTx) /\ stoConfirm \in Seq(StoIds)
  /\ stoWrites \in Nat /\ stoFailing \in BOOLEAN

StoInv == part = "store" => StoTypes /\ StoLists

\* The tables start empty, and no panel is mounted.
LEMMA StoInitial == Init => StoInv
<1> SUFFICES ASSUME Init, part = "store"
             PROVE  StoTypes /\ StoLists
  BY DEF StoInv
<1>1. Sto!Init
  BY DEF Init
<1>2. StoTypes
  <2>1. <<>> \in Seq(StoTx) /\ <<>> \in Seq(StoIds)
    OBVIOUS
  <2>2. stoTxs = <<>> /\ stoConfirm = <<>> /\ stoWrites = 0 /\ stoFailing = FALSE
    BY <1>1 DEF Sto!Init
  <2> QED
    BY <2>1, <2>2 DEF StoTypes
<1>3. StoLists
  BY <1>1 DEF Sto!Init, StoLists, Sto!InHistory, Sto!InActivity, Sto!None
<1> QED
  BY <1>2, <1>3

\* A transaction is opened with an id of a chat or none.
LEMMA StoOpened ==
  ASSUME NEW op \in StoOpNames, NEW c \in StoIds \cup {Sto!None}
  PROVE  Sto!Tx(op, c) \in StoTx /\ Sto!Tx(op, c).op = op
  BY DEF Sto!Tx, StoTx

\* Transactions that are opened come after the open ones.
LEMMA StoJoined ==
  ASSUME NEW q \in Seq(StoTx), NEW r \in Seq(StoTx), NEW kind
  PROVE  q \o r \in Seq(StoTx) /\ (StoPending(q, kind) => StoPending(q \o r, kind))
<1>1. /\ q \o r \in Seq(StoTx) /\ Len(q) \in Nat /\ Len(r) \in Nat /\ Len(q \o r) = Len(q) + Len(r)
      /\ \A i \in 1..Len(q) : (q \o r)[i] = q[i]
  OBVIOUS
<1>2. \A i \in 1..Len(q) : i \in 1..Len(q \o r)
  BY <1>1
<1> QED
  BY <1>1, <1>2 DEF StoPending

\* One transaction that is opened.
LEMMA StoAppended ==
  ASSUME NEW q \in Seq(StoTx), NEW t \in StoTx, NEW kind
  PROVE  /\ Append(q, t) \in Seq(StoTx) /\ StoPending(Append(q, t), t.op)
         /\ StoPending(q, kind) => StoPending(Append(q, t), kind)
<1>1. /\ Append(q, t) \in Seq(StoTx) /\ Len(q) \in Nat /\ Len(Append(q, t)) = Len(q) + 1
      /\ Append(q, t)[Len(q) + 1] = t /\ \A i \in 1..Len(q) : Append(q, t)[i] = q[i]
  OBVIOUS
<1>2. Len(q) + 1 \in 1..Len(Append(q, t)) /\ \A i \in 1..Len(q) : i \in 1..Len(Append(q, t))
  BY <1>1
<1> QED
  BY <1>1, <1>2 DEF StoPending

\* The first transaction is done: a listing of another kind is still to come.
LEMMA StoDone ==
  ASSUME NEW q \in Seq(StoTx), q # <<>>, NEW kind
  PROVE  /\ Tail(q) \in Seq(StoTx) /\ Head(q) \in StoTx
         /\ StoPending(q, kind) /\ Head(q).op # kind => StoPending(Tail(q), kind)
<1>1. /\ Tail(q) \in Seq(StoTx) /\ Len(q) \in Nat \ {0} /\ Len(Tail(q)) = Len(q) - 1
      /\ Head(q) = q[1] /\ Head(q) \in StoTx
  OBVIOUS
<1>2. \A i \in 2..Len(q) : i - 1 \in 1..Len(Tail(q)) /\ Tail(q)[i - 1] = q[i]
  BY <1>1
<1>3. ASSUME NEW i \in 1..Len(q), q[i].op = kind, Head(q).op # kind
      PROVE  StoPending(Tail(q), kind)
  <2>1. i \in 2..Len(q)
    BY <1>1, <1>3
  <2> QED
    BY <1>2, <1>3, <2>1 DEF StoPending
<1> QED
  BY <1>1, <1>3 DEF StoPending

\* The deletions of the members of a group.
LEMMA StoDeletes ==
  ASSUME NEW cs \in Seq(StoIds)
  PROVE  Sto!Deletes(cs) \in Seq(StoTx)
<1> DEFINE s == Sto!Deletes(cs)
<1>1. Len(cs) \in Nat /\ DOMAIN cs = 1..Len(cs) /\ \A i \in 1..Len(cs) : cs[i] \in StoIds
  OBVIOUS
<1>2. s = [i \in 1..Len(cs) |-> [Sto!Tx("delete", cs[i]) EXCEPT !.then = cs[i] = stoActive]]
  BY <1>1 DEF Sto!Deletes
<1>3. \A i \in 1..Len(cs) : [Sto!Tx("delete", cs[i]) EXCEPT !.then = cs[i] = stoActive] \in StoTx
  <2> SUFFICES ASSUME NEW i \in 1..Len(cs)
               PROVE  [Sto!Tx("delete", cs[i]) EXCEPT !.then = cs[i] = stoActive] \in StoTx
    OBVIOUS
  <2> DEFINE t == Sto!Tx("delete", cs[i])
  <2>1. t \in StoTx
    BY <1>1, StoOpened DEF StoOpNames
  <2>2. (cs[i] = stoActive) \in BOOLEAN
    OBVIOUS
  <2> HIDE DEF t
  <2>3. \A b \in BOOLEAN : [t EXCEPT !.then = b] \in StoTx
    BY <2>1 DEF StoTx
  <2> QED
    BY <2>2, <2>3 DEF t
<1> HIDE DEF s
<1>4. s \in [1..Len(cs) -> StoTx]
  BY <1>2, <1>3
<1>5. s \in Seq(StoTx)
  BY <1>1, <1>4
<1> QED
  BY <1>5 DEF s

\* The members of a group are a sequence of ids.
LEMMA StoMembers ==
  ASSUME NEW c, NEW cs \in Sto!Members(Sto!groupByTitle(c))
  PROVE  cs \in Seq(StoIds)
<1> DEFINE g == Sto!groupByTitle(c)
<1>1. g \subseteq StoIds
  BY DEF Sto!groupByTitle, Sto!Listed
<1> HIDE DEF g
<1>2. Cardinality(g) \in Nat
  BY <1>1, StoAssumption, FS_Subset, FS_CardinalityType
<1>3. cs \in [1..Cardinality(g) -> g]
  BY SameCardinality DEF Sto!Members, g
<1>4. cs \in [1..Cardinality(g) -> StoIds]
  BY <1>1, <1>3
<1> QED
  BY <1>2, <1>4

\* A step that only opens transactions keeps the lists.
LEMMA StoOpens ==
  ASSUME StoTypes, StoLists, UNCHANGED <<stoDb, stoTurnRows, stoFailing, stoChatList, stoTurnList, stoMounted>>,
         stoConfirm' \in Seq(StoIds), stoWrites' \in Nat,
         NEW r \in Seq(StoTx), stoTxs' = stoTxs \o r
  PROVE  StoTypes' /\ StoLists'
<1>1. stoTxs' \in Seq(StoTx)
  BY StoJoined DEF StoTypes
<1>2. /\ StoPending(stoTxs, "chats") => StoPending(stoTxs', "chats")
      /\ StoPending(stoTxs, "turns") => StoPending(stoTxs', "turns")
  BY StoJoined DEF StoTypes
<1>3. StoLists'
  BY <1>2 DEF StoLists, Sto!InHistory, Sto!InActivity, StoPending
<1> QED
  BY <1>1, <1>3 DEF StoTypes

\* A write is done, and whoever shows the table reads it again.
LEMMA StoNotified ==
  ASSUME StoTypes, stoTxs # <<>>, NEW kind \in {"chats", "turns"}, NEW panel,
         Sto!Notify(kind, panel), Head(stoTxs).op \notin {"chats", "turns"}
  PROVE  /\ stoTxs' \in Seq(StoTx)
         /\ stoMounted = panel => StoPending(stoTxs', kind)
         /\ StoPending(stoTxs, "chats") => StoPending(stoTxs', "chats")
         /\ StoPending(stoTxs, "turns") => StoPending(stoTxs', "turns")
<1> DEFINE t == Sto!List(kind)
           q == Tail(stoTxs)
<1>1. t \in StoTx /\ t.op = kind
  BY StoOpened DEF Sto!List, StoOpNames
<1>2. q \in Seq(StoTx)
  BY StoDone DEF StoTypes
<1>3. StoPending(stoTxs, "chats") => StoPending(q, "chats")
  BY StoDone DEF StoTypes
<1>4. StoPending(stoTxs, "turns") => StoPending(q, "turns")
  BY StoDone DEF StoTypes
<1>5. stoTxs' = IF stoMounted = panel THEN Append(q, t) ELSE q
  BY DEF Sto!Notify
<1> HIDE DEF t, q
<1>6. CASE stoMounted = panel
  <2>1. stoTxs' = Append(q, t)
    BY <1>5, <1>6
  <2>2. Append(q, t) \in Seq(StoTx) /\ StoPending(Append(q, t), kind)
    BY <1>1, <1>2, StoAppended
  <2>3. /\ StoPending(q, "chats") => StoPending(Append(q, t), "chats")
        /\ StoPending(q, "turns") => StoPending(Append(q, t), "turns")
    BY <1>1, <1>2, StoAppended
  <2> QED
    BY <1>3, <1>4, <2>1, <2>2, <2>3
<1>7. CASE stoMounted # panel
  BY <1>2, <1>3, <1>4, <1>5, <1>7
<1> QED
  BY <1>6, <1>7

\* A transaction keeps the lists: a write is followed by the listing of its table.
LEMMA StoTransaction ==
  ASSUME StoTypes, StoLists, Sto!Transaction
  PROVE  StoTypes' /\ StoLists'
<1> DEFINE t == Head(stoTxs)
<1>1. stoTxs # <<>> /\ UNCHANGED <<stoConfirm, stoWrites, stoMounted>>
  BY DEF Sto!Transaction
<1>2. t \in StoTx /\ t.op \in StoOpNames
  BY <1>1, StoDone DEF StoTypes, StoTx
<1>3. /\ t.op = "put" => Sto!Put(t)
      /\ t.op = "delete" => Sto!Delete(t)
      /\ t.op = "putTurn" => Sto!PutTurn
      /\ t.op = "chats" => Sto!ListChats
      /\ t.op = "turns" => Sto!ListTurns
      /\ t.op = "load" => Sto!loadChatById(t)
  BY DEF Sto!Transaction
<1>4. /\ Tail(stoTxs) \in Seq(StoTx)
      /\ StoPending(stoTxs, "chats") /\ t.op # "chats" => StoPending(Tail(stoTxs), "chats")
      /\ StoPending(stoTxs, "turns") /\ t.op # "turns" => StoPending(Tail(stoTxs), "turns")
  BY <1>1, StoDone DEF StoTypes
<1> DEFINE Chats == StoPending(stoTxs, "chats") => StoPending(stoTxs', "chats")
           Turns == StoPending(stoTxs, "turns") => StoPending(stoTxs', "turns")
<1>5. CASE t.op \in {"put", "delete"}
  <2>1. Sto!Notify("chats", "history") /\ UNCHANGED <<stoTurnRows, stoFailing, stoChatList, stoTurnList>>
    BY <1>3, <1>5 DEF Sto!Put, Sto!Delete
  <2>2. /\ stoTxs' \in Seq(StoTx) /\ Turns
        /\ stoMounted = "history" => StoPending(stoTxs', "chats")
    BY <1>1, <1>5, <2>1, StoNotified
  <2> QED
    BY <1>1, <2>1, <2>2 DEF StoTypes, StoLists, StoPending, Sto!InHistory, Sto!InActivity
<1>6. CASE t.op = "putTurn"
  <2>1. Sto!Notify("turns", "activity") /\ UNCHANGED <<stoDb, stoFailing, stoChatList, stoTurnList>>
    BY <1>3, <1>6 DEF Sto!PutTurn
  <2>2. /\ stoTxs' \in Seq(StoTx) /\ Chats
        /\ stoMounted = "activity" => StoPending(stoTxs', "turns")
    BY <1>1, <1>6, <2>1, StoNotified
  <2> QED
    BY <1>1, <2>1, <2>2 DEF StoTypes, StoLists, StoPending, Sto!InHistory, Sto!InActivity
<1>7. CASE t.op = "chats"
  <2>1. /\ stoTxs' = Tail(stoTxs) /\ UNCHANGED <<stoDb, stoTurnRows, stoTurnList>>
        /\ IF Sto!InHistory THEN stoFailing' \in BOOLEAN /\ (~stoFailing' => stoChatList' = stoDb)
                            ELSE UNCHANGED <<stoFailing, stoChatList>>
    BY <1>3, <1>7 DEF Sto!ListChats
  <2>2. stoTxs' \in Seq(StoTx) /\ Turns
    BY <1>4, <1>7, <2>1
  <2> QED
    BY <1>1, <2>1, <2>2 DEF StoTypes, StoLists, StoPending, Sto!InHistory, Sto!InActivity
<1>8. CASE t.op = "turns"
  <2>1. /\ stoTxs' = Tail(stoTxs) /\ UNCHANGED <<stoDb, stoTurnRows, stoChatList>>
        /\ IF Sto!InActivity THEN stoFailing' \in BOOLEAN /\ (~stoFailing' => stoTurnList' = stoTurnRows)
                             ELSE UNCHANGED <<stoFailing, stoTurnList>>
    BY <1>3, <1>8 DEF Sto!ListTurns
  <2>2. stoTxs' \in Seq(StoTx) /\ Chats
    BY <1>4, <1>8, <2>1
  <2> QED
    BY <1>1, <2>1, <2>2 DEF StoTypes, StoLists, StoPending, Sto!InHistory, Sto!InActivity
<1>9. CASE t.op = "load"
  <2>1. /\ stoTxs' = Tail(stoTxs)
        /\ UNCHANGED <<stoDb, stoTurnRows, stoFailing, stoChatList, stoTurnList>>
    BY <1>3, <1>9 DEF Sto!loadChatById
  <2>2. stoTxs' \in Seq(StoTx) /\ Chats /\ Turns
    BY <1>4, <1>9, <2>1
  <2> QED
    BY <1>1, <2>1, <2>2 DEF StoTypes, StoLists, StoPending, Sto!InHistory, Sto!InActivity
<1> QED
  BY <1>2, <1>5, <1>6, <1>7, <1>8, <1>9 DEF StoOpNames

\* A step of the local tables keeps what the lists show.
LEMMA StoStep ==
  ASSUME StoTypes, StoLists, Sto!Next
  PROVE  StoTypes' /\ StoLists'
<1>1. ASSUME NEW p \in {"history", "activity"}, Sto!MountPanel(p)
      PROVE  StoTypes' /\ StoLists'
  <2> DEFINE kind == IF p = "history" THEN "chats" ELSE "turns"
             t == Sto!List(kind)
  <2>1. t \in StoTx /\ t.op = kind
    BY StoOpened DEF Sto!List, StoOpNames
  <2>2. /\ stoTxs' = Append(stoTxs, t) /\ stoMounted' = p /\ stoFailing' = FALSE
        /\ UNCHANGED <<stoConfirm, stoWrites>>
    BY <1>1 DEF Sto!MountPanel, Sto!Open
  <2> HIDE DEF t
  <2>3. stoTxs' \in Seq(StoTx) /\ StoPending(stoTxs', kind)
    BY <2>1, <2>2, StoAppended DEF StoTypes
  <2> QED
    BY <2>2, <2>3 DEF StoTypes, StoLists, StoPending, Sto!InHistory, Sto!InActivity
<1>2. ASSUME NEW c \in StoIds, Sto!saveChat(c)
      PROVE  StoTypes' /\ StoLists'
  <2> DEFINE t == Sto!recordToRow(c)
             w == Sto!Tx("put", c)
             u == [w EXCEPT !.at = stoWrites + 1]
  <2>1. t \in StoTx /\ w \in StoTx
    BY StoOpened DEF Sto!recordToRow, StoOpNames
  <2> HIDE DEF w
  <2>2. u \in StoTx
    <3>1. stoWrites + 1 \in Nat
      BY DEF StoTypes
    <3>2. \A n \in Nat : [w EXCEPT !.at = n] \in StoTx
      BY <2>1 DEF StoTx
    <3> QED
      BY <3>1, <3>2
  <2>3. /\ stoTxs' = stoTxs \o <<t, u>> /\ stoWrites' = stoWrites + 1 /\ stoConfirm' = stoConfirm
        /\ UNCHANGED <<stoDb, stoTurnRows, stoFailing, stoChatList, stoTurnList, stoMounted>>
    BY <1>2 DEF Sto!saveChat, w
  <2> HIDE DEF t, u
  <2>4. <<t, u>> \in Seq(StoTx) /\ stoWrites' \in Nat /\ stoConfirm' \in Seq(StoIds)
    BY <2>1, <2>2, <2>3 DEF StoTypes
  <2> QED
    BY <2>3, <2>4, StoOpens
<1>3. ASSUME UNCHANGED <<stoDb, stoTurnRows, stoFailing, stoChatList, stoTurnList, stoMounted, stoWrites, stoTxs>>,
             stoConfirm' \in Seq(StoIds)
      PROVE  StoTypes' /\ StoLists'
  BY <1>3 DEF StoTypes, StoLists, StoPending, Sto!InHistory, Sto!InActivity
<1>4. ASSUME NEW c \in StoIds, Sto!handleClick(c)
      PROVE  StoTypes' /\ StoLists'
  <2> DEFINE t == Sto!Tx("load", c)
  <2>1. t \in StoTx
    BY StoOpened DEF StoOpNames
  <2>2. /\ stoTxs' = Append(stoTxs, t)
        /\ UNCHANGED <<stoDb, stoTurnRows, stoFailing, stoChatList, stoTurnList, stoMounted, stoConfirm, stoWrites>>
    BY <1>4 DEF Sto!handleClick, Sto!Open
  <2> HIDE DEF t
  <2>3. stoTxs' = stoTxs \o <<t>> /\ <<t>> \in Seq(StoTx)
    BY <2>1, <2>2 DEF StoTypes
  <2> QED
    BY <2>2, <2>3, StoOpens DEF StoTypes
<1>5. ASSUME NEW c \in StoIds, Sto!handleDelete(c)
      PROVE  StoTypes' /\ StoLists'
  <2>1. UNCHANGED <<stoDb, stoTurnRows, stoFailing, stoChatList, stoTurnList, stoMounted, stoWrites>>
    BY <1>5 DEF Sto!handleDelete
  <2>2. PICK cs \in Sto!Members(Sto!groupByTitle(c)) :
          \/ stoTxs' = stoTxs \o Sto!Deletes(cs) /\ UNCHANGED stoConfirm
          \/ stoConfirm' = cs /\ UNCHANGED stoTxs
    BY <1>5 DEF Sto!handleDelete
  <2>3. cs \in Seq(StoIds) /\ Sto!Deletes(cs) \in Seq(StoTx)
    BY StoMembers, StoDeletes
  <2> QED
    BY <1>3, <2>1, <2>2, <2>3, StoOpens DEF StoTypes
<1>6. CASE Sto!newChat
  BY <1>3, <1>6 DEF Sto!newChat, StoTypes
<1>7. CASE Sto!onConfirm
  <2>1. /\ UNCHANGED <<stoDb, stoTurnRows, stoFailing, stoChatList, stoTurnList, stoMounted, stoWrites>>
        /\ stoConfirm' = <<>> /\ (stoTxs' = stoTxs \o Sto!Deletes(stoConfirm) \/ stoTxs' = stoTxs)
    BY <1>7 DEF Sto!onConfirm
  <2>2. Sto!Deletes(stoConfirm) \in Seq(StoTx) /\ stoConfirm' \in Seq(StoIds)
    BY <2>1, StoDeletes DEF StoTypes
  <2> QED
    BY <1>3, <2>1, <2>2, StoOpens DEF StoTypes
<1> QED
  BY <1>1, <1>2, <1>4, <1>5, <1>6, <1>7, StoTransaction DEF Sto!Next

\* The invariant of the local tables holds in every behaviour.
LEMMA StoInvariance == Spec => []StoInv
<1>1. StoInv /\ [Next]_vars => StoInv'
  <2> SUFFICES ASSUME StoInv, [Next]_vars
               PROVE  StoInv'
    OBVIOUS
  <2>1. CASE part = "store" /\ part' = part /\ Sto!Next
    BY <2>1, StoStep DEF StoInv
  <2>2. CASE part' # "store" \/ UNCHANGED << part, varsSto >>
    BY <2>2 DEF StoInv, StoTypes, StoLists, StoPending, Sto!InHistory, Sto!InActivity, varsSto
  <2> QED
    BY <2>1, <2>2 DEF Next, vars
<1> QED
  BY <1>1, StoInitial, PTL DEF Spec

\* The result list shows the table after every save it can learn of, the history and
\* activity lists show theirs once no transaction is open, and the log ring is back within
\* its bound once no append is, for any number of records, chats, transactions and
\* concurrent appends and any bound of the ring (ViewRenderer.tsx, chats.ts,
\* turns.ts, log-store.ts).
THEOREM ListsTheorem == Spec => []ListsShowTheTables
<1>1. RecInv /\ StoInv /\ LogInv => ListsShowTheTables
  <2>1. ASSUME StoTypes, StoLists PROVE Sto!ListsShowTheTables
    <3>1. stoTxs = <<>> => ~StoPending(stoTxs, "chats") /\ ~StoPending(stoTxs, "turns")
      BY DEF StoPending
    <3> QED
      BY <2>1, <3>1 DEF StoLists, Sto!ListsShowTheTables
  <2>2. ASSUME LogRingInv PROVE Log!RingBounded
    <3>1. Cardinality(logLogRows) \in Nat /\ Log!Cardinality(logLogRows) = Cardinality(logLogRows)
      BY <2>2, FS_CardinalityType, SameCardinality DEF LogRingInv
    <3> QED
      BY <2>2, <3>1, LogAssumption DEF LogRingInv, Log!RingBounded
  <2>3. ASSUME RecListInv PROVE Rec!ListReflectsSaves
    BY <2>3 DEF RecListInv, RecUnanswered, Rec!ListReflectsSaves, Rec!Ready
  <2> QED
    BY <2>1, <2>2, <2>3 DEF RecInv, StoInv, LogInv, ListsShowTheTables
<1> QED
  BY <1>1, RecInvariance, StoInvariance, LogInvariance, PTL

-----------------------------------------------------------------------------
(* The tab workspace. *)

\* The position of an element of a finite set of numbers is one of 1, 2, ..., and
\* every one of these is taken once.
LEMMA TabRank ==
  ASSUME NEW n \in Nat, NEW I \in SUBSET (1..n)
  PROVE  /\ Tab!Cardinality(I) \in Nat
         /\ \A i \in I : Tab!Rank(I, i) \in 1..Tab!Cardinality(I)
         /\ \A i, j \in I : Tab!Rank(I, i) = Tab!Rank(I, j) => i = j
         /\ \A r \in 1..Tab!Cardinality(I) : \E i \in I : Tab!Rank(I, i) = r
<1> DEFINE c == Cardinality(I)
           Upto(i) == {k \in I : k <= i}
           f == [i \in I |-> Cardinality(Upto(i))]
<1>0. \A S : Tab!Cardinality(S) = Cardinality(S)
  BY DEF Tab!Cardinality, Cardinality
<1>1. IsFiniteSet(I) /\ c \in Nat
  <2>1. IsFiniteSet(1..n)
    BY FS_Interval
  <2> QED
    BY <2>1, FS_Subset, FS_CardinalityType
<1>2. ASSUME NEW i \in I PROVE IsFiniteSet(Upto(i)) /\ f[i] \in 1..c
  <2>1. Upto(i) \in SUBSET I /\ i \in Upto(i)
    OBVIOUS
  <2>2. IsFiniteSet(Upto(i)) /\ Cardinality(Upto(i)) <= c
    BY <1>1, <2>1, FS_Subset
  <2>3. Cardinality(Upto(i)) \in Nat /\ Cardinality(Upto(i)) # 0
    BY <2>1, <2>2, FS_CardinalityType, FS_EmptySet
  <2> QED
    BY <1>1, <2>2, <2>3
<1>3. ASSUME NEW i \in I, NEW j \in I, i < j PROVE f[i] # f[j]
  <2>0. \A k \in I : k \in Nat
    OBVIOUS
  <2>1. /\ \A k \in Upto(i) : k \in Upto(j)
        /\ j \in Upto(j) /\ j \notin Upto(i)
    <3>1. \A k \in I : k <= i => k <= j
      BY <1>3, <2>0
    <3>2. j <= j /\ ~(j <= i)
      BY <1>3, <2>0
    <3> QED
      BY <3>1, <3>2
  <2>2. Upto(i) # Upto(j)
    BY <2>1
  <2> HIDE DEF Upto
  <2>3. Cardinality(Upto(i)) # Cardinality(Upto(j))
    BY <1>2, <2>1, <2>2, FS_Subset
  <2> QED
    BY <2>3
<1>4. \A i, j \in I : f[i] = f[j] => i = j
  <2>1. \A i, j \in I : i < j \/ j < i \/ i = j
    OBVIOUS
  <2> QED
    BY <1>3, <2>1
<1>5. f \in Surjection(I, 1..c)
  <2>1. f \in [I -> 1..c]
    BY <1>2
  <2> HIDE DEF f
  <2>2. f \in Injection(I, 1..c)
    BY <1>4, <2>1 DEF Injection, IsInjective
  <2>3. IsFiniteSet(1..c) /\ Cardinality(1..c) = c
    BY <1>1, FS_Interval
  <2> QED
    BY <2>2, <2>3, FS_Injection
<1>6. \A r \in 1..c : \E i \in I : f[i] = r
  BY <1>5 DEF Surjection
<1>7. \A i \in I : Tab!Rank(I, i) = f[i]
  BY <1>0 DEF Tab!Rank
<1> HIDE DEF f
<1> QED
  BY <1>0, <1>1, <1>2, <1>4, <1>6, <1>7

\* The elements of f are those of s at the positions in I, each once.
TabPicks(f, s, I) ==
  \E h \in [DOMAIN f -> I] : /\ \A j \in DOMAIN f : f[j] = s[h[j]]
                             /\ \A j, k \in DOMAIN f : h[j] = h[k] => j = k
                             /\ \A i \in I : \E j \in DOMAIN f : h[j] = i

\* What a filtered sequence holds.
LEMMA TabFilter ==
  ASSUME NEW S, NEW s \in Seq(S), NEW I \in SUBSET DOMAIN s
  PROVE  Tab!Filter(s, I) \in Seq(S) /\ TabPicks(Tab!Filter(s, I), s, I)
<1> DEFINE c == Tab!Cardinality(I)
           h == [j \in 1..c |-> CHOOSE i \in I : Tab!Rank(I, i) = j]
<1>1. /\ c \in Nat
      /\ \A i \in I : Tab!Rank(I, i) \in 1..c
      /\ \A i, j \in I : Tab!Rank(I, i) = Tab!Rank(I, j) => i = j
      /\ \A r \in 1..c : \E i \in I : Tab!Rank(I, i) = r
  <2>1. DOMAIN s = 1..Len(s) /\ Len(s) \in Nat
    OBVIOUS
  <2> QED
    BY <2>1, TabRank
<1>2. \A j \in 1..c : h[j] \in I /\ Tab!Rank(I, h[j]) = j
  BY <1>1
<1>3. Tab!Filter(s, I) = [j \in 1..c |-> s[h[j]]]
  BY DEF Tab!Filter
<1> HIDE DEF h, c
<1>4. \A i \in I : s[i] \in S
  OBVIOUS
<1>5. Tab!Filter(s, I) \in Seq(S) /\ DOMAIN Tab!Filter(s, I) = 1..c
  <2>1. \A j \in 1..c : s[h[j]] \in S
    BY <1>2, <1>4
  <2> QED
    BY <1>1, <1>3, <2>1
<1>6. h \in [1..c -> I] /\ DOMAIN h = 1..c
  BY <1>2 DEF h
<1>7. \A i \in I : \E j \in 1..c : h[j] = i
  <2> SUFFICES ASSUME NEW i \in I PROVE h[Tab!Rank(I, i)] = i
    BY <1>1
  <2> QED
    BY <1>1, <1>2
<1>8. \A j, k \in 1..c : h[j] = h[k] => j = k
  BY <1>2
<1> QED
  BY <1>3, <1>5, <1>6, <1>7, <1>8 DEF TabPicks

\* The ids of tabs, and the kind of the group a tab is at home in.
TabKinds == {"welcome", "docs", "settings", "activity", "history", "dev", "results"}
TabPrefixes == {"welcome", "doc", "settings", "activity", "turn", "history", "dev", "graphql",
                "event", "ask", "detail_new", "run", "stream", "pipeline", "detail"}
TabArgs == {"", "list", "chats", "streams", "new-event", "translate", "agent"}
             \cup {TabPanels[i] : i \in DOMAIN TabPanels} \cup {TabTopics[i] : i \in DOMAIN TabTopics}
             \cup TabTurns \cup TabRecords \cup TabStreams
TabIds == TabPrefixes \X TabArgs \X Nat
TabHome(t) ==
  CASE t[1] = "doc" -> "docs"
    [] t[1] = "turn" -> "activity"
    [] t[1] \in {"welcome", "settings", "activity", "history", "dev"} -> t[1]
    [] OTHER -> "results"
TabGroupOf == [kind : TabKinds, tabs : Seq(TabIds)]

\* A tab of a group with the kind: at home there, not from the future; the history
\* and the developer's group have but one.
TabFits(t, kind, n) ==
  /\ TabHome(t) = kind /\ t[3] <= n
  /\ kind = "history" => t = Tab!Id("history", "chats")
  /\ kind = "dev" => t = Tab!Id("dev", "agent")

\* A rail, or a part of one: no kind and no tab twice, and every tab at home.
TabParts(gs, n) ==
  /\ gs \in Seq(TabGroupOf)
  /\ \A i, j \in DOMAIN gs : gs[i].kind = gs[j].kind => i = j
  /\ \A i \in DOMAIN gs : \A p, q \in DOMAIN gs[i].tabs : gs[i].tabs[p] = gs[i].tabs[q] => p = q
  /\ \A i \in DOMAIN gs : \A p \in DOMAIN gs[i].tabs : TabFits(gs[i].tabs[p], gs[i].kind, n)

TabFull(gs) == \A i \in DOMAIN gs : gs[i].tabs # <<>>

\* The whole rail: there is something on it, and Welcome only alone.
TabRail(gs, n) ==
  /\ TabParts(gs, n) /\ TabFull(gs) /\ gs # <<>>
  /\ "welcome" \in Tab!Kinds(gs) => gs = <<Tab!welcomeGroup>>

TabRailInv == tabStamp \in Nat /\ TabRail(tabGroups, tabStamp)
TabInv == part = "tabs" => TabRailInv /\ Tab!InspectorShowsItsTurn

\* Where a tab is: on the rail it is in the group of its kind.
LEMMA TabPlace ==
  ASSUME NEW n, NEW gs, TabParts(gs, n), NEW t \in Tab!TabsOf(gs)
  PROVE  /\ \E i \in DOMAIN gs : \E p \in DOMAIN gs[i].tabs : gs[i].tabs[p] = t
         /\ TabFits(t, TabHome(t), n) /\ TabHome(t) \in Tab!Kinds(gs) /\ t \in TabIds
<1>1. PICK i \in DOMAIN gs : \E p \in DOMAIN gs[i].tabs : gs[i].tabs[p] = t
  BY DEF Tab!TabsOf, Tab!Elements
<1>2. PICK p \in DOMAIN gs[i].tabs : gs[i].tabs[p] = t
  BY <1>1
<1>3. TabFits(t, gs[i].kind, n)
  BY <1>2 DEF TabParts
<1>4. gs[i].kind = TabHome(t)
  BY <1>3 DEF TabFits
<1>5. gs[i].kind \in Tab!Kinds(gs)
  BY DEF Tab!Kinds
<1>6. t \in TabIds
  <2>1. gs[i] \in TabGroupOf
    BY DEF TabParts
  <2>2. gs[i].tabs \in Seq(TabIds)
    BY <2>1 DEF TabGroupOf
  <2> QED
    BY <1>2, <2>2
<1> QED
  BY <1>1, <1>3, <1>4, <1>5, <1>6

\* The tabs of the parallel workspaces are those at home there.
LEMMA TabWorkspaceTabs ==
  ASSUME NEW n, NEW gs, TabParts(gs, n)
  PROVE  Tab!Workspace(gs) = {t \in Tab!TabsOf(gs) :
                                TabHome(t) \in {"settings", "history", "activity", "dev"}}
<1> DEFINE W == {"settings", "history", "activity", "dev"}
<1>1. \A i \in DOMAIN gs : \A p \in DOMAIN gs[i].tabs : TabHome(gs[i].tabs[p]) = gs[i].kind
  BY DEF TabParts, TabFits
<1>2. ASSUME NEW t PROVE t \in Tab!Workspace(gs) <=>
        \E i \in DOMAIN gs : gs[i].kind \in W /\ \E p \in DOMAIN gs[i].tabs : gs[i].tabs[p] = t
  BY DEF Tab!Workspace, Tab!Elements
<1>3. ASSUME NEW t PROVE t \in Tab!TabsOf(gs) <=>
        \E i \in DOMAIN gs : \E p \in DOMAIN gs[i].tabs : gs[i].tabs[p] = t
  BY DEF Tab!TabsOf, Tab!Elements
<1> HIDE DEF W
<1>4. \A t : t \in Tab!Workspace(gs) <=> t \in Tab!TabsOf(gs) /\ TabHome(t) \in W
  BY <1>1, <1>2, <1>3
<1> QED
  BY <1>4 DEF W

\* The four ways to make a rail of another.  Some of its groups are kept:
LEMMA TabKept ==
  ASSUME NEW n, NEW gs, TabParts(gs, n), NEW I \in SUBSET DOMAIN gs
  PROVE  LET f == Tab!Filter(gs, I)
         IN /\ TabParts(f, n)
            /\ \A j \in DOMAIN f : \E i \in I : f[j] = gs[i]
            /\ \A i \in I : \E j \in DOMAIN f : f[j] = gs[i]
<1> DEFINE f == Tab!Filter(gs, I)
<1>1. gs \in Seq(TabGroupOf)
  BY DEF TabParts
<1>2. f \in Seq(TabGroupOf) /\ TabPicks(f, gs, I)
  BY <1>1, TabFilter
<1> HIDE DEF f
<1>3. PICK h \in [DOMAIN f -> I] : /\ \A j \in DOMAIN f : f[j] = gs[h[j]]
                                   /\ \A j, k \in DOMAIN f : h[j] = h[k] => j = k
                                   /\ \A i \in I : \E j \in DOMAIN f : h[j] = i
  BY <1>2 DEF TabPicks
<1>4. \A j \in DOMAIN f : h[j] \in I /\ h[j] \in DOMAIN gs /\ f[j] = gs[h[j]]
  BY <1>3
<1>5. \A i, j \in DOMAIN f : f[i].kind = f[j].kind => i = j
  <2> SUFFICES ASSUME NEW i \in DOMAIN f, NEW j \in DOMAIN f, f[i].kind = f[j].kind PROVE i = j
    OBVIOUS
  <2>1. h[i] = h[j]
    BY <1>4 DEF TabParts
  <2> QED
    BY <1>3, <2>1
<1>6. TabParts(f, n)
  BY <1>2, <1>4, <1>5 DEF TabParts
<1> QED
  BY <1>3, <1>4, <1>6 DEF f

\* a group of a kind that is not there joins its end;
LEMMA TabJoined ==
  ASSUME NEW n, NEW gs, TabParts(gs, n), NEW g \in TabGroupOf, g.kind \notin Tab!Kinds(gs),
         \A p, q \in DOMAIN g.tabs : g.tabs[p] = g.tabs[q] => p = q,
         \A p \in DOMAIN g.tabs : TabFits(g.tabs[p], g.kind, n)
  PROVE  /\ TabParts(Append(gs, g), n)
         /\ Tab!TabsOf(Append(gs, g)) = Tab!TabsOf(gs) \cup Tab!Elements(g.tabs)
         /\ Tab!Kinds(Append(gs, g)) = Tab!Kinds(gs) \cup {g.kind}
         /\ TabFull(gs) /\ g.tabs # <<>> => TabFull(Append(gs, g))
<1> DEFINE f == Append(gs, g)
           m == Len(gs)
<1>1. gs \in Seq(TabGroupOf) /\ m \in Nat /\ DOMAIN gs = 1..m
  BY DEF TabParts
<1>2. /\ f \in Seq(TabGroupOf) /\ DOMAIN f = 1..(m + 1)
      /\ f[m + 1] = g /\ \A i \in 1..m : f[i] = gs[i]
  BY <1>1
<1>3. \A i \in 1..(m + 1) : i \in 1..m \/ i = m + 1
  BY <1>1
<1>4. \A i \in 1..m : i \in 1..(m + 1) /\ gs[i].kind # g.kind
  BY <1>1 DEF Tab!Kinds
<1>5. m + 1 \in 1..(m + 1)
  BY <1>1
<1> HIDE DEF f
<1>6. \A i, j \in DOMAIN f : f[i].kind = f[j].kind => i = j
  BY <1>1, <1>2, <1>3, <1>4 DEF TabParts
<1>7. \A i \in DOMAIN f : \A p, q \in DOMAIN f[i].tabs : f[i].tabs[p] = f[i].tabs[q] => p = q
  BY <1>1, <1>2, <1>3 DEF TabParts
<1>8. \A i \in DOMAIN f : \A p \in DOMAIN f[i].tabs : TabFits(f[i].tabs[p], f[i].kind, n)
  BY <1>1, <1>2, <1>3 DEF TabParts
<1>9. TabParts(f, n)
  BY <1>2, <1>6, <1>7, <1>8 DEF TabParts
<1>10. Tab!TabsOf(f) = Tab!TabsOf(gs) \cup Tab!Elements(g.tabs)
  <2>1. \A t : t \in Tab!TabsOf(f) <=> \E i \in 1..(m + 1) : t \in Tab!Elements(f[i].tabs)
    BY <1>2 DEF Tab!TabsOf
  <2>2. \A t : t \in Tab!TabsOf(gs) <=> \E i \in 1..m : t \in Tab!Elements(gs[i].tabs)
    BY <1>1 DEF Tab!TabsOf
  <2>3. \A t : t \in Tab!TabsOf(f) <=> t \in Tab!TabsOf(gs) \/ t \in Tab!Elements(g.tabs)
    BY <1>2, <1>3, <1>4, <1>5, <2>1, <2>2
  <2> QED
    BY <2>3
<1>11. Tab!Kinds(f) = Tab!Kinds(gs) \cup {g.kind}
  <2>1. \A k : k \in Tab!Kinds(f) <=> \E i \in 1..(m + 1) : k = f[i].kind
    BY <1>2 DEF Tab!Kinds
  <2>2. \A k : k \in Tab!Kinds(gs) <=> \E i \in 1..m : k = gs[i].kind
    BY <1>1 DEF Tab!Kinds
  <2>3. \A k : k \in Tab!Kinds(f) <=> k \in Tab!Kinds(gs) \/ k = g.kind
    BY <1>2, <1>3, <1>4, <1>5, <2>1, <2>2
  <2> QED
    BY <2>3
<1>12. TabFull(gs) /\ g.tabs # <<>> => TabFull(f)
  BY <1>1, <1>2, <1>3 DEF TabFull
<1> QED
  BY <1>9, <1>10, <1>11, <1>12 DEF f

\* a tab that is not there joins the group of its kind;
LEMMA TabExtended ==
  ASSUME NEW n, NEW gs, TabParts(gs, n), NEW id \in TabIds, id \notin Tab!TabsOf(gs),
         NEW kind \in Tab!Kinds(gs), TabFits(id, kind, n)
  PROVE  LET f == Tab!AppendTo(gs, kind, id)
         IN /\ TabParts(f, n) /\ f # <<>>
            /\ Tab!TabsOf(f) = Tab!TabsOf(gs) \cup {id}
            /\ Tab!Kinds(f) = Tab!Kinds(gs)
            /\ TabFull(gs) => TabFull(f)
<1> DEFINE f == Tab!AppendTo(gs, kind, id)
<1>1. gs \in Seq(TabGroupOf) /\ DOMAIN gs = 1..Len(gs) /\ Len(gs) \in Nat
  BY DEF TabParts
<1>2. DOMAIN f = DOMAIN gs
  BY <1>1 DEF Tab!AppendTo
<1>3. \A i \in DOMAIN gs : gs[i] \in TabGroupOf /\ gs[i].tabs \in Seq(TabIds) /\ gs[i].kind \in TabKinds
  <2>1. \A i \in DOMAIN gs : gs[i] \in TabGroupOf
    BY <1>1
  <2>2. \A g \in TabGroupOf : g.tabs \in Seq(TabIds) /\ g.kind \in TabKinds
    BY DEF TabGroupOf
  <2> QED
    BY <2>1, <2>2
<1>4. ASSUME NEW i \in DOMAIN gs, gs[i].kind # kind PROVE f[i] = gs[i]
  BY <1>1, <1>4 DEF Tab!AppendTo
<1>5. PICK k \in DOMAIN gs : gs[k].kind = kind
  BY DEF Tab!Kinds
<1> DEFINE ts == gs[k].tabs
           us == Append(ts, id)
           m == Len(ts)
<1>6. f[k] = [kind |-> kind, tabs |-> us]
  BY <1>1, <1>5 DEF Tab!AppendTo, Tab!Group
<1>7. \A i \in DOMAIN gs : i # k => f[i] = gs[i]
  BY <1>4, <1>5 DEF TabParts
<1>8. /\ us \in Seq(TabIds) /\ m \in Nat /\ DOMAIN ts = 1..m /\ DOMAIN us = 1..(m + 1)
      /\ us[m + 1] = id /\ \A p \in 1..m : us[p] = ts[p]
  BY <1>3, <1>5
<1>9. \A p \in 1..m : ts[p] # id
  BY <1>5, <1>8 DEF Tab!TabsOf, Tab!Elements
<1>10. \A p \in 1..(m + 1) : p \in 1..m \/ p = m + 1
  BY <1>8
<1> HIDE DEF us, m, f
<1>11. f \in Seq(TabGroupOf)
  <2>1. f[k] \in TabGroupOf
    BY <1>3, <1>5, <1>6, <1>8 DEF TabGroupOf
  <2>2. \A i \in 1..Len(gs) : f[i] \in TabGroupOf
    BY <1>1, <1>3, <1>7, <2>1
  <2>3. f = [i \in 1..Len(gs) |-> f[i]]
    BY <1>1 DEF f, Tab!AppendTo
  <2> QED
    BY <1>1, <2>2, <2>3
<1>12. \A i \in DOMAIN gs : f[i].kind = gs[i].kind
  BY <1>5, <1>6, <1>7
<1>13. \A p, q \in DOMAIN us : us[p] = us[q] => p = q
  <2>1. \A p, q \in 1..m : ts[p] = ts[q] => p = q
    BY <1>5, <1>8 DEF TabParts
  <2> QED
    BY <1>8, <1>9, <1>10, <2>1
<1>14. \A p \in DOMAIN us : TabFits(us[p], kind, n)
  <2>1. \A p \in 1..m : TabFits(ts[p], kind, n)
    BY <1>5, <1>8 DEF TabParts
  <2> QED
    BY <1>8, <1>10, <2>1
<1>15. TabParts(f, n)
  <2>1. \A i, j \in DOMAIN f : f[i].kind = f[j].kind => i = j
    BY <1>2, <1>12 DEF TabParts
  <2>2. \A i \in DOMAIN f : \A p, q \in DOMAIN f[i].tabs : f[i].tabs[p] = f[i].tabs[q] => p = q
    BY <1>2, <1>6, <1>7, <1>13 DEF TabParts
  <2>3. \A i \in DOMAIN f : \A p \in DOMAIN f[i].tabs : TabFits(f[i].tabs[p], f[i].kind, n)
    BY <1>2, <1>6, <1>7, <1>14 DEF TabParts
  <2> QED
    BY <1>11, <2>1, <2>2, <2>3 DEF TabParts
<1>16. Tab!TabsOf(f) = Tab!TabsOf(gs) \cup {id}
  <2>1. \A t : t \in Tab!TabsOf(f) <=> \E i \in DOMAIN gs : t \in Tab!Elements(f[i].tabs)
    BY <1>2 DEF Tab!TabsOf
  <2>2. \A t : t \in Tab!TabsOf(gs) <=> \E i \in DOMAIN gs : t \in Tab!Elements(gs[i].tabs)
    BY DEF Tab!TabsOf
  <2>3. \A t : t \in Tab!Elements(f[k].tabs) <=> t = id \/ t \in Tab!Elements(ts)
    <3>1. \A t : t \in Tab!Elements(us) <=> \E p \in 1..(m + 1) : us[p] = t
      BY <1>8 DEF Tab!Elements
    <3>2. \A t : t \in Tab!Elements(ts) <=> \E p \in 1..m : ts[p] = t
      BY <1>8 DEF Tab!Elements
    <3>3. m + 1 \in 1..(m + 1) /\ \A p \in 1..m : p \in 1..(m + 1)
      BY <1>8
    <3> QED
      BY <1>6, <1>8, <1>10, <3>1, <3>2, <3>3
  <2>4. \A t : t \in Tab!TabsOf(f) <=> t \in Tab!TabsOf(gs) \/ t = id
    BY <1>7, <2>1, <2>2, <2>3
  <2> QED
    BY <2>4
<1>17. Tab!Kinds(f) = Tab!Kinds(gs)
  BY <1>2, <1>12 DEF Tab!Kinds
<1>18. TabFull(gs) => TabFull(f)
  <2>1. us # <<>>
    BY <1>8
  <2> QED
    BY <1>2, <1>6, <1>7, <2>1 DEF TabFull
<1>19. f # <<>>
  BY <1>2
<1> QED
  BY <1>15, <1>16, <1>17, <1>18, <1>19 DEF f

\* A list of tabs without one of them.
TabOthers(tabs, id) == Tab!Filter(tabs, {i \in DOMAIN tabs : tabs[i] # id})

\* What is left of a list of tabs without one of them.
LEMMA TabOthersHold ==
  ASSUME NEW id, NEW ts \in Seq(TabIds)
  PROVE  /\ TabOthers(ts, id) \in Seq(TabIds)
         /\ (\A p, q \in DOMAIN ts : ts[p] = ts[q] => p = q)
              => (\A p, q \in DOMAIN TabOthers(ts, id) : TabOthers(ts, id)[p] = TabOthers(ts, id)[q] => p = q)
         /\ \A p \in DOMAIN TabOthers(ts, id) : TabOthers(ts, id)[p] # id
         /\ \A p \in DOMAIN TabOthers(ts, id) : \E q \in DOMAIN ts : TabOthers(ts, id)[p] = ts[q]
         /\ \A q \in DOMAIN ts : ts[q] # id => \E p \in DOMAIN TabOthers(ts, id) : TabOthers(ts, id)[p] = ts[q]
<1> DEFINE J == {i \in DOMAIN ts : ts[i] # id}
           os == TabOthers(ts, id)
<1>1. J \in SUBSET DOMAIN ts /\ os = Tab!Filter(ts, J) /\ \A i \in DOMAIN ts : i \in J <=> ts[i] # id
  BY DEF TabOthers
<1> HIDE DEF J, os
<1>2. os \in Seq(TabIds) /\ TabPicks(os, ts, J)
  BY <1>1, TabFilter
<1>3. PICK h \in [DOMAIN os -> J] : /\ \A j \in DOMAIN os : os[j] = ts[h[j]]
                                    /\ \A j, k \in DOMAIN os : h[j] = h[k] => j = k
                                    /\ \A i \in J : \E j \in DOMAIN os : h[j] = i
  BY <1>2 DEF TabPicks
<1>4. \A j \in DOMAIN os : h[j] \in DOMAIN ts /\ os[j] # id /\ os[j] = ts[h[j]]
  BY <1>1, <1>3
<1>5. (\A p, q \in DOMAIN ts : ts[p] = ts[q] => p = q)
        => (\A p, q \in DOMAIN os : os[p] = os[q] => p = q)
  BY <1>3, <1>4
<1>6. \A q \in DOMAIN ts : ts[q] # id => \E p \in DOMAIN os : os[p] = ts[q]
  BY <1>1, <1>3
<1> QED
  BY <1>2, <1>4, <1>5, <1>6 DEF os

\* the tab at one place is taken out, and its group with it if it was the last one.
LEMMA TabClosed ==
  ASSUME NEW n, NEW gs, TabParts(gs, n), NEW id \in Tab!TabsOf(gs)
  PROVE  LET rest == Tab!NonEmpty([i \in DOMAIN gs |-> Tab!Group(gs[i].kind, TabOthers(gs[i].tabs, id))])
         IN /\ TabParts(rest, n) /\ TabFull(rest)
            /\ Tab!TabsOf(rest) = Tab!TabsOf(gs) \ {id}
            /\ Tab!Kinds(rest) \subseteq Tab!Kinds(gs)
<1> DEFINE mid == [i \in DOMAIN gs |-> Tab!Group(gs[i].kind, TabOthers(gs[i].tabs, id))]
           I == {i \in DOMAIN mid : mid[i].tabs # <<>>}
           rest == Tab!NonEmpty(mid)
<1>1. gs \in Seq(TabGroupOf) /\ DOMAIN gs = 1..Len(gs) /\ Len(gs) \in Nat
  BY DEF TabParts
<1>2. \A i \in DOMAIN gs : gs[i].tabs \in Seq(TabIds) /\ gs[i].kind \in TabKinds
  <2>1. \A i \in DOMAIN gs : gs[i] \in TabGroupOf
    BY <1>1
  <2>2. \A g \in TabGroupOf : g.tabs \in Seq(TabIds) /\ g.kind \in TabKinds
    BY DEF TabGroupOf
  <2> QED
    BY <2>1, <2>2
<1>4. \A i \in DOMAIN gs : mid[i] = [kind |-> gs[i].kind, tabs |-> TabOthers(gs[i].tabs, id)]
  BY DEF Tab!Group
<1>5. \A i \in DOMAIN gs : mid[i].kind = gs[i].kind /\ mid[i].tabs = TabOthers(gs[i].tabs, id)
  BY DEF Tab!Group
<1>6. DOMAIN mid = DOMAIN gs
  OBVIOUS
<1>7. mid \in Seq(TabGroupOf)
  <2>1. \A i \in DOMAIN gs : mid[i] \in TabGroupOf
    <3> SUFFICES ASSUME NEW i \in DOMAIN gs PROVE mid[i] \in TabGroupOf
      OBVIOUS
    <3>1. TabOthers(gs[i].tabs, id) \in Seq(TabIds)
      BY <1>2, TabOthersHold
    <3>2. \A k \in TabKinds, ts \in Seq(TabIds) : [kind |-> k, tabs |-> ts] \in TabGroupOf
      BY DEF TabGroupOf
    <3>3. gs[i].kind \in TabKinds
      BY <1>2
    <3>4. mid[i] = [kind |-> gs[i].kind, tabs |-> TabOthers(gs[i].tabs, id)]
      BY <1>4
    <3> HIDE DEF mid
    <3> QED
      BY <3>1, <3>2, <3>3, <3>4
  <2>2. mid = [i \in 1..Len(gs) |-> mid[i]]
    BY <1>1, <1>6
  <2> HIDE DEF mid
  <2> QED
    BY <1>1, <2>1, <2>2
<1> HIDE DEF mid
<1>8. TabParts(mid, n)
  <2>1. \A i, j \in DOMAIN mid : mid[i].kind = mid[j].kind => i = j
    BY <1>5, <1>6 DEF TabParts
  <2>2. ASSUME NEW i \in DOMAIN gs
        PROVE  /\ \A p, q \in DOMAIN mid[i].tabs : mid[i].tabs[p] = mid[i].tabs[q] => p = q
               /\ \A p \in DOMAIN mid[i].tabs : TabFits(mid[i].tabs[p], mid[i].kind, n)
    <3> DEFINE ts == gs[i].tabs
    <3>1. ts \in Seq(TabIds)
      BY <1>2
    <3>2. \A p, q \in DOMAIN ts : ts[p] = ts[q] => p = q
      BY DEF TabParts
    <3>3. \A p \in DOMAIN ts : TabFits(ts[p], gs[i].kind, n)
      BY DEF TabParts
    <3>4. mid[i].tabs = TabOthers(ts, id) /\ mid[i].kind = gs[i].kind
      BY <1>5
    <3> HIDE DEF ts
    <3>5. \A p, q \in DOMAIN TabOthers(ts, id) : TabOthers(ts, id)[p] = TabOthers(ts, id)[q] => p = q
      BY TabOthersHold, <3>1, <3>2
    <3>6. \A p \in DOMAIN TabOthers(ts, id) : \E q \in DOMAIN ts : TabOthers(ts, id)[p] = ts[q]
      BY TabOthersHold, <3>1
    <3>7. \A p \in DOMAIN TabOthers(ts, id) : TabFits(TabOthers(ts, id)[p], gs[i].kind, n)
      BY <3>3, <3>6
    <3> QED
      BY <3>4, <3>5, <3>7
  <2> QED
    BY <1>6, <1>7, <2>1, <2>2 DEF TabParts
<1>9. I \in SUBSET DOMAIN mid
  OBVIOUS
<1>10. rest = Tab!Filter(mid, I)
  BY DEF Tab!NonEmpty
<1> HIDE DEF I, rest
<1>11. /\ TabParts(rest, n)
       /\ \A j \in DOMAIN rest : \E i \in I : rest[j] = mid[i]
       /\ \A i \in I : \E j \in DOMAIN rest : rest[j] = mid[i]
  BY <1>8, <1>9, <1>10, TabKept
<1>12. \A i \in DOMAIN mid : i \in I <=> mid[i].tabs # <<>>
  BY DEF I
<1>13. TabFull(rest)
  BY <1>9, <1>11, <1>12 DEF TabFull
<1>14. \A t : t \in Tab!TabsOf(rest) <=> t \in Tab!TabsOf(gs) /\ t # id
  <2>1. \A t : t \in Tab!TabsOf(rest) <=>
          \E j \in DOMAIN rest : \E p \in DOMAIN rest[j].tabs : rest[j].tabs[p] = t
    BY DEF Tab!TabsOf, Tab!Elements
  <2>2. \A t : t \in Tab!TabsOf(gs) <=>
          \E i \in DOMAIN gs : \E p \in DOMAIN gs[i].tabs : gs[i].tabs[p] = t
    BY DEF Tab!TabsOf, Tab!Elements
  <2>3. ASSUME NEW i \in DOMAIN gs, NEW t
        PROVE  (\E p \in DOMAIN mid[i].tabs : mid[i].tabs[p] = t)
                  <=> t # id /\ \E p \in DOMAIN gs[i].tabs : gs[i].tabs[p] = t
    <3> DEFINE ts == gs[i].tabs
    <3>1. ts \in Seq(TabIds) /\ mid[i].tabs = TabOthers(ts, id)
      BY <1>2, <1>5
    <3> HIDE DEF ts
    <3>2. /\ \A p \in DOMAIN TabOthers(ts, id) : TabOthers(ts, id)[p] # id /\ \E q \in DOMAIN ts : TabOthers(ts, id)[p] = ts[q]
          /\ \A q \in DOMAIN ts : ts[q] # id => \E p \in DOMAIN TabOthers(ts, id) : TabOthers(ts, id)[p] = ts[q]
      BY TabOthersHold, <3>1
    <3>3. (\E p \in DOMAIN TabOthers(ts, id) : TabOthers(ts, id)[p] = t)
                  <=> t # id /\ \E p \in DOMAIN ts : ts[p] = t
      BY <3>2
    <3> QED
      BY <3>1, <3>3 DEF ts
  <2>4. ASSUME NEW t, t \in Tab!TabsOf(rest) PROVE t \in Tab!TabsOf(gs) /\ t # id
    <3>1. PICK j \in DOMAIN rest : \E p \in DOMAIN rest[j].tabs : rest[j].tabs[p] = t
      BY <2>1, <2>4
    <3>2. PICK i \in I : rest[j] = mid[i]
      BY <1>11
    <3>3. i \in DOMAIN gs
      BY <1>6, <1>9
    <3> QED
      BY <2>2, <2>3, <3>1, <3>2, <3>3
  <2>5. ASSUME NEW t, t \in Tab!TabsOf(gs), t # id PROVE t \in Tab!TabsOf(rest)
    <3>1. PICK i \in DOMAIN gs : \E p \in DOMAIN gs[i].tabs : gs[i].tabs[p] = t
      BY <2>2, <2>5
    <3>2. PICK p \in DOMAIN mid[i].tabs : mid[i].tabs[p] = t
      BY <2>3, <2>5, <3>1
    <3>3. mid[i].tabs # <<>>
      BY <3>2
    <3>4. i \in I
      BY <1>6, <1>12, <3>3
    <3>5. PICK j \in DOMAIN rest : rest[j] = mid[i]
      BY <1>11, <3>4
    <3> QED
      BY <2>1, <3>2, <3>5
  <2> QED
    BY <2>4, <2>5
<1>15. Tab!TabsOf(rest) = Tab!TabsOf(gs) \ {id}
  BY <1>14
<1>16. Tab!Kinds(rest) \subseteq Tab!Kinds(gs)
  <2>1. \A j \in DOMAIN rest : \E i \in DOMAIN gs : rest[j].kind = gs[i].kind
    BY <1>5, <1>6, <1>9, <1>11
  <2> QED
    BY <2>1 DEF Tab!Kinds
<1> QED
  BY <1>11, <1>13, <1>15, <1>16 DEF rest, mid

\* A step that leads to the rail gs with the tab a active, at the stamp n: what
\* TabsStay says about it, next to the rail being one.
TabMove(gs, a, n) ==
  /\ TabRail(gs, n)
  /\ \/ a \in Tab!TabsOf(gs)
     \/ tabActiveId \notin Tab!TabsOf(tabGroups)
     \/ gs = tabGroups /\ a \in Tab!Elements(Tab!settingsGroup.tabs) \cup Tab!Elements(Tab!activityGroup.tabs)
  /\ \/ gs = <<Tab!welcomeGroup>>
     \/ \E id : Tab!TabsOf(tabGroups) \ Tab!TabsOf(gs) = {id}
     \/ \A t \in Tab!TabsOf(tabGroups) \ Tab!TabsOf(gs) : TabHome(t) \in {"welcome", "docs", "results"}

\* What every step keeps.
TabKeeps == TabRailInv' /\ Tab!InspectorShowsItsTurn' /\ Tab!BlankStep /\ Tab!WorkspaceStep

\* A rail without an empty group is taken as it is, and no rail is the Welcome page.
LEMMA TabSetState ==
  ASSUME NEW gs, NEW a
  PROVE  /\ TabFull(gs) /\ DOMAIN gs # {}
              => Tab!EnsureWelcome(gs, a) = [groups |-> gs, active |-> a]
         /\ Tab!EnsureWelcome(<<>>, a)
              = [groups |-> <<Tab!welcomeGroup>>, active |-> Tab!Id("welcome", "")]
<1> DEFINE empty == {i \in DOMAIN gs : gs[i].tabs = <<>>}
<1>1. ASSUME TabFull(gs), DOMAIN gs # {}
      PROVE  Tab!EnsureWelcome(gs, a) = [groups |-> gs, active |-> a]
  <2>1. empty = {} /\ empty # DOMAIN gs
    BY <1>1 DEF TabFull
  <2> QED
    BY <2>1 DEF Tab!EnsureWelcome
<1>2. {i \in DOMAIN <<>> : <<>>[i].tabs = <<>>} = DOMAIN <<>>
  OBVIOUS
<1>3. Tab!EnsureWelcome(<<>>, a)
              = [groups |-> <<Tab!welcomeGroup>>, active |-> Tab!Id("welcome", "")]
  BY <1>2 DEF Tab!EnsureWelcome
<1> QED
  BY <1>1, <1>3

\* The one inspector, when another tab is shown.
LEMMA TabShows ==
  ASSUME Tab!InspectorShowsItsTurn, NEW gs, NEW a, Tab!SetState(gs, a)
  PROVE  Tab!InspectorShowsItsTurn'
<1> DEFINE old == Tab!Shown(tabGroups, tabActiveId)
           next == Tab!EnsureWelcome(gs, a)
           new == Tab!Shown(next.groups, next.active)
<1>1. /\ tabGroups' = next.groups /\ tabActiveId' = next.active /\ tabLoggedIn' = tabLoggedIn
      /\ Tab!Render(old, new)
  BY DEF Tab!SetState
<1>2. Tab!Shown(tabGroups, tabActiveId)' = new
  BY <1>1 DEF Tab!Shown
<1>3. old[1] = "turn" /\ old \notin tabLoads => tabBody = old
  BY DEF Tab!InspectorShowsItsTurn
<1> HIDE DEF old, new, next
<1>4. /\ tabLoads' = IF new # old /\ new[1] = "turn" THEN tabLoads \cup {new} ELSE tabLoads
      /\ old = new => tabBody' = tabBody
  BY <1>1 DEF Tab!Render
<1>5. new[1] = "turn" /\ new \notin tabLoads' => tabBody' = new
  BY <1>3, <1>4
<1> QED
  BY <1>2, <1>5 DEF Tab!InspectorShowsItsTurn

\* A move keeps the invariant and satisfies the two step properties.
LEMMA TabMoved ==
  ASSUME TabRailInv, Tab!InspectorShowsItsTurn, NEW gs, NEW a, tabStamp' \in Nat,
         TabMove(gs, a, tabStamp'), Tab!SetState(gs, a)
  PROVE  TabKeeps
<1>1. DOMAIN gs # {} /\ TabFull(gs)
  <2>1. gs \in Seq(TabGroupOf) /\ gs # <<>>
    BY DEF TabMove, TabRail, TabParts
  <2>2. 1 \in DOMAIN gs
    BY <2>1
  <2>3. TabFull(gs)
    BY DEF TabMove, TabRail
  <2> QED
    BY <2>2, <2>3
<1>2. tabGroups' = gs /\ tabActiveId' = a
  <2>1. Tab!EnsureWelcome(gs, a) = [groups |-> gs, active |-> a]
    BY <1>1, TabSetState
  <2> QED
    BY <2>1 DEF Tab!SetState
<1>3. TabRailInv'
  BY <1>2 DEF TabMove, TabRailInv
<1>4. Tab!InspectorShowsItsTurn'
  BY TabShows
<1>5. Tab!BlankStep
  BY <1>2 DEF TabMove, Tab!BlankStep
<1>6. Tab!WorkspaceStep
  <2> DEFINE W == {"settings", "history", "activity", "dev"}
             lost == Tab!TabsOf(tabGroups) \ Tab!TabsOf(gs)
  <2>1. Tab!Workspace(tabGroups) = {t \in Tab!TabsOf(tabGroups) : TabHome(t) \in W}
    BY TabWorkspaceTabs DEF TabRailInv, TabRail
  <2>2. Tab!Workspace(gs) = {t \in Tab!TabsOf(gs) : TabHome(t) \in W}
    BY TabWorkspaceTabs DEF TabMove, TabRail
  <2>3. \A t \in Tab!Workspace(tabGroups) \ Tab!Workspace(gs) : t \in lost /\ TabHome(t) \in W
    BY <2>1, <2>2
  <2>4. \A t : TabHome(t) \in W => TabHome(t) \notin {"welcome", "docs", "results"}
    OBVIOUS
  <2>5. gs = <<Tab!welcomeGroup>> \/ (\E id : lost = {id})
          \/ \A t \in lost : TabHome(t) \in {"welcome", "docs", "results"}
    BY DEF TabMove
  <2>6. \A t \in Tab!Workspace(tabGroups) \ Tab!Workspace(gs) : gs = <<Tab!welcomeGroup>> \/ lost = {t}
    <3> HIDE DEF lost, W
    <3> QED
      BY <2>3, <2>4, <2>5
  <2>7. Tab!Workspace(tabGroups)' = Tab!Workspace(gs)
    BY <1>2 DEF Tab!Workspace, Tab!Elements
  <2>8. lost = Tab!TabsOf(tabGroups) \ Tab!TabsOf(tabGroups')
    BY <1>2
  <2> HIDE DEF lost
  <2> QED
    BY <1>2, <2>6, <2>7, <2>8 DEF Tab!WorkspaceStep
<1> QED
  BY <1>3, <1>4, <1>5, <1>6 DEF TabKeeps

\* The steps that leave the rail and the active tab as they are.
LEMMA TabStill ==
  ASSUME TabRailInv, UNCHANGED <<tabGroups, tabActiveId, tabStamp>>
  PROVE  TabRailInv' /\ Tab!BlankStep /\ Tab!WorkspaceStep
<1>1. TabRailInv'
  BY DEF TabRailInv
<1>2. Tab!BlankStep
  BY DEF Tab!BlankStep
<1>3. Tab!WorkspaceStep
  BY DEF Tab!WorkspaceStep
<1> QED
  BY <1>1, <1>2, <1>3

\* A read that comes back, the login and the logout.
LEMMA TabInspector ==
  ASSUME TabRailInv, Tab!InspectorShowsItsTurn,
         (\E tab \in tabLoads : Tab!LoadTurn(tab)) \/ Tab!LogIn \/ Tab!LogOut
  PROVE  TabKeeps
<1> DEFINE shown == Tab!Shown(tabGroups, tabActiveId)
<1>1. UNCHANGED <<tabGroups, tabActiveId, tabStamp>>
  BY DEF Tab!LoadTurn, Tab!LogIn, Tab!LogOut
<1>2. Tab!InspectorShowsItsTurn'
  <2>1. ASSUME NEW tab \in tabLoads, Tab!LoadTurn(tab) PROVE Tab!InspectorShowsItsTurn'
    <3>1. /\ tabLoads' = tabLoads \ {tab} /\ tabBody' = IF tab = shown THEN tab ELSE tabBody
          /\ UNCHANGED <<tabLoggedIn, tabGroups, tabActiveId>>
      BY <2>1 DEF Tab!LoadTurn
    <3>2. shown' = shown
      BY <3>1 DEF Tab!Shown
    <3>3. shown[1] = "turn" /\ shown \notin tabLoads => tabBody = shown
      BY DEF Tab!InspectorShowsItsTurn
    <3> HIDE DEF shown
    <3>4. shown[1] = "turn" /\ shown \notin tabLoads' => tabBody' = shown
      BY <3>1, <3>3
    <3> QED
      BY <3>2, <3>4 DEF shown, Tab!InspectorShowsItsTurn
  <2>2. ASSUME Tab!LogIn PROVE Tab!InspectorShowsItsTurn'
    <3> DEFINE new == IF tabActiveId \in Tab!TabsOf(tabGroups) THEN tabActiveId ELSE Tab!None
    <3>1. Tab!Render(Tab!None, new) /\ tabLoggedIn' = TRUE
      BY <2>2 DEF Tab!LogIn
    <3>2. shown' = new
      BY <1>1, <3>1 DEF Tab!Shown, Tab!TabsOf, Tab!Elements
    <3> HIDE DEF new
    <3>3. tabLoads' = IF new # Tab!None /\ new[1] = "turn" THEN tabLoads \cup {new} ELSE tabLoads
      BY <3>1 DEF Tab!Render
    <3>4. Tab!None[1] # "turn"
      BY DEF Tab!None
    <3>5. new[1] = "turn" => new \in tabLoads'
      BY <3>3, <3>4
    <3> QED
      BY <3>2, <3>5 DEF Tab!InspectorShowsItsTurn
  <2>3. ASSUME Tab!LogOut PROVE Tab!InspectorShowsItsTurn'
    <3>1. tabLoggedIn' = FALSE
      BY <2>3 DEF Tab!LogOut
    <3>2. shown' = Tab!None
      BY <3>1 DEF Tab!Shown
    <3>3. Tab!None[1] # "turn"
      BY DEF Tab!None
    <3> QED
      BY <3>2, <3>3 DEF Tab!InspectorShowsItsTurn
  <2> QED
    BY <2>1, <2>2, <2>3
<1> QED
  BY <1>1, <1>2, TabStill DEF TabKeeps

\* A group that can be on the rail.
TabGood(g, n) ==
  /\ g \in TabGroupOf /\ g.tabs # <<>>
  /\ \A p, q \in DOMAIN g.tabs : g.tabs[p] = g.tabs[q] => p = q
  /\ \A p \in DOMAIN g.tabs : TabFits(g.tabs[p], g.kind, n)

\* A tab that is at home in the group of the kind makes one.
LEMMA TabOne ==
  ASSUME NEW n, NEW id \in TabIds, NEW kind \in TabKinds, TabFits(id, kind, n)
  PROVE  /\ TabGood(Tab!Group(kind, <<id>>), n)
         /\ Tab!Elements(Tab!Group(kind, <<id>>).tabs) = {id}
         /\ Tab!Group(kind, <<id>>).kind = kind
<1> DEFINE g == Tab!Group(kind, <<id>>)
<1>1. g = [kind |-> kind, tabs |-> <<id>>]
  BY DEF Tab!Group
<1>2. g.kind = kind /\ g.tabs = <<id>> /\ g \in TabGroupOf
  <2>1. <<id>> \in Seq(TabIds)
    OBVIOUS
  <2>2. \A ts \in Seq(TabIds) : [kind |-> kind, tabs |-> ts] \in TabGroupOf
    BY DEF TabGroupOf
  <2> QED
    BY <1>1, <2>1, <2>2
<1> HIDE DEF g
<1>3. DOMAIN g.tabs = {1} /\ g.tabs[1] = id /\ g.tabs # <<>>
  BY <1>2
<1>4. Tab!Elements(g.tabs) = {id}
  BY <1>3 DEF Tab!Elements
<1>5. TabGood(g, n)
  BY <1>2, <1>3 DEF TabGood
<1> QED
  BY <1>2, <1>4, <1>5 DEF g

\* A list of names makes a group, one tab for each.
LEMMA TabMany ==
  ASSUME NEW n \in Nat, NEW kind \in TabKinds, NEW prefix \in TabPrefixes, NEW names \in Seq(STRING), names # <<>>,
         \A i, j \in 1..Len(names) : names[i] = names[j] => i = j,
         \A arg \in TabArgs : TabHome(Tab!Id(prefix, arg)) = kind, kind \notin {"history", "dev"},
         \A i \in DOMAIN names : names[i] \in TabArgs, NEW g, g = Tab!Group(kind, [i \in 1..Len(names) |-> Tab!Id(prefix, names[i])])
  PROVE  /\ TabGood(g, n) /\ g.kind = kind
         /\ Len(g.tabs) = Len(names) /\ Len(names) \in Nat /\ 1 \in DOMAIN names /\ DOMAIN names = 1..Len(names)
         /\ \A i \in DOMAIN names : Tab!Id(prefix, names[i]) \in Tab!Elements(g.tabs)
<1> DEFINE m == Len(names)
           ts == [i \in 1..m |-> Tab!Id(prefix, names[i])]
<1>1. m \in Nat /\ DOMAIN names = 1..m /\ 1 \in 1..m /\ \A i \in 1..m : names[i] \in TabArgs
  OBVIOUS
<1>2. \A i \in 1..m : Tab!Id(prefix, names[i]) = <<prefix, names[i], 0>>
  BY DEF Tab!Id
<1>3. \A i \in 1..m : Tab!Id(prefix, names[i]) \in TabIds
  BY <1>1, <1>2 DEF TabIds
<1>4. ts \in Seq(TabIds) /\ DOMAIN ts = 1..m /\ Len(ts) = m /\ ts # <<>>
  BY <1>1, <1>3
<1>5. \A i \in 1..m : ts[i] = Tab!Id(prefix, names[i])
  OBVIOUS
<1> HIDE DEF ts
<1>6. g = [kind |-> kind, tabs |-> ts]
  BY DEF ts, Tab!Group
<1>7. g.kind = kind /\ g.tabs = ts /\ g \in TabGroupOf
  BY <1>4, <1>6 DEF TabGroupOf
<1>8. \A i, j \in 1..m : ts[i] = ts[j] => i = j
  <2>1. \A i, j \in 1..m : ts[i] = ts[j] => names[i] = names[j]
    BY <1>2, <1>5
  <2> QED
    BY <2>1
<1>9. \A i \in 1..m : TabFits(ts[i], kind, n)
  <2> SUFFICES ASSUME NEW i \in 1..m PROVE TabFits(ts[i], kind, n)
    OBVIOUS
  <2>1. ts[i][3] = 0
    BY <1>2, <1>5
  <2>2. TabHome(ts[i]) = kind
    BY <1>1, <1>5
  <2> QED
    BY <2>1, <2>2 DEF TabFits
<1>10. TabGood(g, n)
  BY <1>4, <1>7, <1>8, <1>9 DEF TabGood
<1> QED
  BY <1>1, <1>4, <1>5, <1>7, <1>10 DEF Tab!Elements

\* The ids of the openers, and where they are at home.
LEMMA TabNamed ==
  /\ \A k \in TabPrefixes, arg \in TabArgs, n \in Nat :
        <<k, arg, n>> \in TabIds /\ <<k, arg, n>>[3] = n /\ <<k, arg, n>>[1] = k
  /\ \A k, arg : Tab!Id(k, arg) = <<k, arg, 0>>
  /\ \A arg : TabHome(Tab!Id("doc", arg)) = "docs"
  /\ \A arg : TabHome(Tab!Id("turn", arg)) = "activity"
  /\ \A arg : \A k \in {"welcome", "settings", "activity", "history", "dev"} : TabHome(Tab!Id(k, arg)) = k
  /\ \A arg, n : \A k \in {"graphql", "event", "ask", "detail_new", "run", "stream", "pipeline", "detail"} :
        TabHome(<<k, arg, n>>) = "results"
  /\ \A arg \in TabTurns \cup TabRecords \cup TabStreams : arg \in TabArgs
  /\ \A arg \in {"", "list", "chats", "streams", "new-event", "translate", "agent"} : arg \in TabArgs
<1>1. \A k \in TabPrefixes, arg \in TabArgs, n \in Nat :
        <<k, arg, n>> \in TabIds /\ <<k, arg, n>>[3] = n /\ <<k, arg, n>>[1] = k
  BY DEF TabIds
<1>2. \A k, arg : Tab!Id(k, arg) = <<k, arg, 0>>
  BY DEF Tab!Id
<1>3. \A arg : TabHome(Tab!Id("doc", arg)) = "docs"
  BY DEF Tab!Id, TabHome
<1>4. \A arg : TabHome(Tab!Id("turn", arg)) = "activity"
  BY DEF Tab!Id, TabHome
<1>5. \A arg : \A k \in {"welcome", "settings", "activity", "history", "dev"} : TabHome(Tab!Id(k, arg)) = k
  BY DEF Tab!Id, TabHome
<1>6. \A arg, n : \A k \in {"graphql", "event", "ask", "detail_new", "run", "stream", "pipeline", "detail"} :
        TabHome(<<k, arg, n>>) = "results"
  BY DEF TabHome
<1> QED
  BY <1>1, <1>2, <1>3, <1>4, <1>5, <1>6 DEF TabArgs

\* The groups the openers bring with them.
LEMMA TabFactories ==
  ASSUME NEW n \in Nat
  PROVE  /\ TabGood(Tab!welcomeGroup, n) /\ Tab!welcomeGroup.kind = "welcome"
         /\ Tab!Elements(Tab!welcomeGroup.tabs) = {Tab!Id("welcome", "")}
         /\ TabGood(Tab!docsGroup, n) /\ Tab!docsGroup.kind = "docs"
         /\ Head(Tab!docsGroup.tabs) \in Tab!Elements(Tab!docsGroup.tabs)
         /\ TabGood(Tab!settingsGroup, n) /\ Tab!settingsGroup.kind = "settings"
         /\ \A i \in DOMAIN TabPanels : Tab!Id("settings", TabPanels[i]) \in Tab!Elements(Tab!settingsGroup.tabs)
         /\ TabGood(Tab!activityGroup, n) /\ Tab!activityGroup.kind = "activity"
         /\ Tab!Elements(Tab!activityGroup.tabs) = {Tab!Id("activity", "list")}
         /\ TabGood(Tab!historyGroup, n) /\ Tab!historyGroup.kind = "history"
         /\ Tab!Elements(Tab!historyGroup.tabs) = {Tab!Id("history", "chats")}
<1>1. ASSUME NEW k \in {"welcome", "activity", "history"}, NEW arg \in TabArgs, k = "history" => arg = "chats"
      PROVE  /\ TabGood(Tab!Group(k, <<Tab!Id(k, arg)>>), n)
             /\ Tab!Elements(Tab!Group(k, <<Tab!Id(k, arg)>>).tabs) = {Tab!Id(k, arg)}
             /\ Tab!Group(k, <<Tab!Id(k, arg)>>).kind = k
  <2> DEFINE id == Tab!Id(k, arg)
  <2>0. k \in TabPrefixes /\ k \in TabKinds /\ k \in {"welcome", "settings", "activity", "history", "dev"} /\ id = <<k, arg, 0>>
    BY DEF TabPrefixes, TabKinds, Tab!Id
  <2>1. id \in TabIds /\ id[3] = 0 /\ TabHome(id) = k
    BY <2>0, TabNamed
  <2>2. k = "history" => id = Tab!Id("history", "chats")
    BY <1>1
  <2> HIDE DEF id
  <2>3. TabFits(id, k, n)
    BY <2>1, <2>2 DEF TabFits
  <2> QED
    BY <2>0, <2>1, <2>3, TabOne DEF id
<1>2. /\ TabGood(Tab!welcomeGroup, n) /\ Tab!welcomeGroup.kind = "welcome"
      /\ Tab!Elements(Tab!welcomeGroup.tabs) = {Tab!Id("welcome", "")}
  <2>1. "welcome" \in {"welcome", "activity", "history"} /\ "" \in TabArgs /\ ("welcome" = "history" => "" = "chats")
    BY TabNamed
  <2> QED
    BY <1>1, <2>1 DEF Tab!welcomeGroup
<1>3. /\ TabGood(Tab!activityGroup, n) /\ Tab!activityGroup.kind = "activity"
      /\ Tab!Elements(Tab!activityGroup.tabs) = {Tab!Id("activity", "list")}
  <2>1. "activity" \in {"welcome", "activity", "history"} /\ "list" \in TabArgs /\ ("activity" = "history" => "list" = "chats")
    BY TabNamed
  <2> QED
    BY <1>1, <2>1 DEF Tab!activityGroup
<1>4. /\ TabGood(Tab!historyGroup, n) /\ Tab!historyGroup.kind = "history"
      /\ Tab!Elements(Tab!historyGroup.tabs) = {Tab!Id("history", "chats")}
  <2>1. "history" \in {"welcome", "activity", "history"} /\ "chats" \in TabArgs /\ ("history" = "history" => "chats" = "chats")
    BY TabNamed
  <2> QED
    BY <1>1, <2>1 DEF Tab!historyGroup
<1>5. /\ TabGood(Tab!docsGroup, n) /\ Tab!docsGroup.kind = "docs"
      /\ Len(Tab!docsGroup.tabs) = Len(TabTopics) /\ 1 \in DOMAIN TabTopics
  <2>1. Tab!docsGroup = Tab!Group("docs", [i \in 1..Len(TabTopics) |-> Tab!Id("doc", TabTopics[i])])
    BY DEF Tab!docsGroup
  <2>2. \A arg \in TabArgs : TabHome(Tab!Id("doc", arg)) = "docs"
    BY TabNamed
  <2>3. "docs" \in TabKinds /\ "doc" \in TabPrefixes /\ "docs" \notin {"history", "dev"}
        /\ \A i \in DOMAIN TabTopics : TabTopics[i] \in TabArgs
    BY DEF TabKinds, TabPrefixes, TabArgs
  <2> HIDE DEF Tab!docsGroup
  <2> QED
    BY <2>1, <2>2, <2>3, TabMany, TabAssumption
<1>6. /\ TabGood(Tab!settingsGroup, n) /\ Tab!settingsGroup.kind = "settings"
      /\ \A i \in DOMAIN TabPanels : Tab!Id("settings", TabPanels[i]) \in Tab!Elements(Tab!settingsGroup.tabs)
  <2>1. Tab!settingsGroup = Tab!Group("settings", [i \in 1..Len(TabPanels) |-> Tab!Id("settings", TabPanels[i])])
    BY DEF Tab!settingsGroup
  <2>2. \A arg \in TabArgs : TabHome(Tab!Id("settings", arg)) = "settings"
    BY TabNamed
  <2>3. "settings" \in TabKinds /\ "settings" \in TabPrefixes /\ "settings" \notin {"history", "dev"}
        /\ \A i \in DOMAIN TabPanels : TabPanels[i] \in TabArgs
    BY DEF TabKinds, TabPrefixes, TabArgs
  <2> HIDE DEF Tab!settingsGroup
  <2> QED
    BY <2>1, <2>2, <2>3, TabMany, TabAssumption
<1>7. Head(Tab!docsGroup.tabs) \in Tab!Elements(Tab!docsGroup.tabs)
  <2>1. Tab!docsGroup \in TabGroupOf /\ Tab!docsGroup.tabs # <<>>
    BY <1>5 DEF TabGood
  <2>2. Tab!docsGroup.tabs \in Seq(TabIds)
    BY <2>1 DEF TabGroupOf
  <2>3. \A ts \in Seq(TabIds) : ts # <<>> => Head(ts) = ts[1] /\ 1 \in DOMAIN ts
    OBVIOUS
  <2> QED
    BY <2>1, <2>2, <2>3 DEF Tab!Elements
<1> QED
  BY <1>2, <1>3, <1>4, <1>5, <1>6, <1>7

\* What a step builds on: nothing but guidance and results may be missing.
TabBase(gs, n) ==
  /\ TabParts(gs, n) /\ TabFull(gs) /\ "welcome" \notin Tab!Kinds(gs)
  /\ \A t \in Tab!TabsOf(tabGroups) \ Tab!TabsOf(gs) : TabHome(t) \in {"welcome", "docs", "results"}

\* A tab is older than a later stamp, too.
LEMMA TabLater ==
  ASSUME NEW m \in Nat, NEW n \in Nat, m <= n, NEW gs, TabParts(gs, m)
  PROVE  TabParts(gs, n)
<1>1. \A i \in DOMAIN gs : \A p \in DOMAIN gs[i].tabs : gs[i].tabs[p] \in TabIds
  <2>1. \A i \in DOMAIN gs : gs[i] \in TabGroupOf
    BY DEF TabParts
  <2>2. \A g \in TabGroupOf : g.tabs \in Seq(TabIds)
    BY DEF TabGroupOf
  <2>3. \A i \in DOMAIN gs : gs[i].tabs \in Seq(TabIds)
    BY <2>1, <2>2
  <2> QED
    BY <2>3
<1>2. \A k : \A t \in TabIds : TabFits(t, k, m) => TabFits(t, k, n)
  <2>1. \A t \in TabIds : t[3] \in Nat
    BY DEF TabIds
  <2>2. \A t \in TabIds : t[3] <= m => t[3] <= n
    BY <2>1
  <2> QED
    BY <2>2 DEF TabFits
<1> QED
  BY <1>1, <1>2 DEF TabParts

\* The rail without some of guidance and results.
LEMMA TabSwept ==
  ASSUME TabRailInv, NEW n \in Nat, tabStamp <= n,
         NEW K, "welcome" \in K, \A k \in K : k \in {"welcome", "docs", "results"}
  PROVE  LET f == Tab!Without(tabGroups, K)
         IN /\ TabBase(f, n)
            /\ \A t \in Tab!TabsOf(f) : t \in Tab!TabsOf(tabGroups)
            /\ \A k \in Tab!Kinds(f) : k \in Tab!Kinds(tabGroups) /\ k \notin K
<1> DEFINE gs == tabGroups
           I == {i \in DOMAIN gs : gs[i].kind \notin K}
           f == Tab!Without(gs, K)
<1>1. TabParts(gs, tabStamp) /\ TabFull(gs) /\ tabStamp \in Nat
  BY DEF TabRailInv, TabRail
<1>2. TabParts(gs, n)
  BY <1>1, TabLater
<1>3. I \in SUBSET DOMAIN gs /\ f = Tab!Filter(gs, I) /\ \A i \in DOMAIN gs : i \in I <=> gs[i].kind \notin K
  BY DEF Tab!Without
<1> HIDE DEF I, f
<1>4. /\ TabParts(f, n)
      /\ \A j \in DOMAIN f : \E i \in I : f[j] = gs[i]
      /\ \A i \in I : \E j \in DOMAIN f : f[j] = gs[i]
  BY <1>2, <1>3, TabKept
<1>5. TabFull(f)
  BY <1>1, <1>3, <1>4 DEF TabFull
<1>6. \A k \in Tab!Kinds(f) : k \in Tab!Kinds(gs) /\ k \notin K
  <2>1. \A j \in DOMAIN f : \E i \in DOMAIN gs : f[j] = gs[i] /\ gs[i].kind \notin K
    BY <1>3, <1>4
  <2> QED
    BY <2>1 DEF Tab!Kinds
<1>7. \A t : t \in Tab!TabsOf(f) <=> \E j \in DOMAIN f : t \in Tab!Elements(f[j].tabs)
  BY DEF Tab!TabsOf
<1>8. \A t : t \in Tab!TabsOf(gs) <=> \E i \in DOMAIN gs : t \in Tab!Elements(gs[i].tabs)
  BY DEF Tab!TabsOf
<1>9. \A t \in Tab!TabsOf(f) : t \in Tab!TabsOf(gs)
  BY <1>3, <1>4, <1>7, <1>8
<1>10. ASSUME NEW t \in Tab!TabsOf(gs), t \notin Tab!TabsOf(f) PROVE TabHome(t) \in K
  <2>1. PICK i \in DOMAIN gs : t \in Tab!Elements(gs[i].tabs)
    BY <1>8
  <2>2. gs[i].kind \in K
    BY <1>3, <1>4, <1>7, <1>10, <2>1
  <2>3. PICK p \in DOMAIN gs[i].tabs : t = gs[i].tabs[p]
    BY <2>1 DEF Tab!Elements
  <2>4. TabHome(t) = gs[i].kind
    BY <1>1, <2>3 DEF TabParts, TabFits
  <2> QED
    BY <2>2, <2>4
<1>11. TabBase(f, n)
  <2>1. \A t \in Tab!TabsOf(tabGroups) \ Tab!TabsOf(f) : TabHome(t) \in {"welcome", "docs", "results"}
    BY <1>10
  <2> QED
    BY <1>4, <1>5, <1>6, <2>1 DEF TabBase
<1> QED
  BY <1>6, <1>9, <1>11 DEF f

\* The rail itself, when it is not the Welcome page.
LEMMA TabAsItIs ==
  ASSUME TabRailInv, NEW kind \in Tab!Kinds(tabGroups), kind # "welcome"
  PROVE  TabBase(tabGroups, tabStamp)
<1>1. TabRail(tabGroups, tabStamp) /\ tabStamp \in Nat
  BY DEF TabRailInv
<1>2. ASSUME tabGroups = <<Tab!welcomeGroup>> PROVE FALSE
  <2>1. Tab!Kinds(tabGroups) = {Tab!welcomeGroup.kind}
    BY <1>2 DEF Tab!Kinds
  <2> QED
    BY <2>1, TabFactories, <1>1
<1>3. "welcome" \notin Tab!Kinds(tabGroups)
  BY <1>1, <1>2 DEF TabRail
<1> QED
  BY <1>1, <1>3 DEF TabRail, TabBase

\* A group that joins the base, its tabs among them the one to show.
LEMMA TabJoin ==
  ASSUME NEW n, NEW gs, TabBase(gs, n), NEW g, TabGood(g, n), g.kind \notin Tab!Kinds(gs), g.kind # "welcome",
         NEW target \in Tab!Elements(g.tabs)
  PROVE  TabMove(Append(gs, g), target, n)
<1> DEFINE f == Append(gs, g)
<1>1. /\ TabParts(gs, n) /\ TabFull(gs) /\ "welcome" \notin Tab!Kinds(gs)
      /\ \A t \in Tab!TabsOf(tabGroups) \ Tab!TabsOf(gs) : TabHome(t) \in {"welcome", "docs", "results"}
  BY DEF TabBase
<1>2. /\ TabParts(f, n)
      /\ Tab!TabsOf(f) = Tab!TabsOf(gs) \cup Tab!Elements(g.tabs)
      /\ Tab!Kinds(f) = Tab!Kinds(gs) \cup {g.kind}
      /\ TabFull(f)
  BY <1>1, TabJoined DEF TabGood
<1>3. f # <<>>
  <2>1. gs \in Seq(TabGroupOf) /\ g \in TabGroupOf
    BY <1>1 DEF TabParts, TabGood
  <2> QED
    BY <2>1
<1> HIDE DEF f
<1>4. TabRail(f, n)
  BY <1>1, <1>2, <1>3 DEF TabRail
<1>5. target \in Tab!TabsOf(f)
  BY <1>2
<1>6. \A t \in Tab!TabsOf(tabGroups) \ Tab!TabsOf(f) : TabHome(t) \in {"welcome", "docs", "results"}
  BY <1>1, <1>2
<1> QED
  BY <1>4, <1>5, <1>6 DEF TabMove, f

\* A tab that joins the group of its kind.
LEMMA TabExtend ==
  ASSUME NEW n, NEW gs, TabBase(gs, n), NEW id \in TabIds, id \notin Tab!TabsOf(gs),
         NEW kind \in Tab!Kinds(gs), TabFits(id, kind, n)
  PROVE  TabMove(Tab!AppendTo(gs, kind, id), id, n)
<1> DEFINE f == Tab!AppendTo(gs, kind, id)
<1>1. /\ TabParts(gs, n) /\ TabFull(gs) /\ "welcome" \notin Tab!Kinds(gs)
      /\ \A t \in Tab!TabsOf(tabGroups) \ Tab!TabsOf(gs) : TabHome(t) \in {"welcome", "docs", "results"}
  BY DEF TabBase
<1>2. /\ TabParts(f, n) /\ f # <<>>
      /\ Tab!TabsOf(f) = Tab!TabsOf(gs) \cup {id}
      /\ Tab!Kinds(f) = Tab!Kinds(gs)
      /\ TabFull(f)
  BY <1>1, TabExtended
<1> HIDE DEF f
<1>3. TabRail(f, n)
  BY <1>1, <1>2 DEF TabRail
<1>4. \A t \in Tab!TabsOf(tabGroups) \ Tab!TabsOf(f) : TabHome(t) \in {"welcome", "docs", "results"}
  BY <1>1, <1>2
<1>5. id \in Tab!TabsOf(f)
  BY <1>2
<1> QED
  BY <1>3, <1>4, <1>5 DEF TabMove, f

\* The Welcome page alone is a rail at any time.
LEMMA TabWelcome ==
  ASSUME NEW n \in Nat
  PROVE  TabMove(<<Tab!welcomeGroup>>, Tab!Id("welcome", ""), n)
<1> DEFINE gs == <<Tab!welcomeGroup>>
<1>1. /\ TabGood(Tab!welcomeGroup, n) /\ Tab!welcomeGroup.kind = "welcome"
      /\ Tab!Elements(Tab!welcomeGroup.tabs) = {Tab!Id("welcome", "")}
  BY TabFactories
<1>2. DOMAIN gs = {1} /\ gs[1] = Tab!welcomeGroup /\ gs # <<>>
  OBVIOUS
<1>3. gs \in Seq(TabGroupOf)
  <2>1. Tab!welcomeGroup \in TabGroupOf
    BY <1>1 DEF TabGood
  <2>2. \A g \in TabGroupOf : <<g>> \in Seq(TabGroupOf)
    OBVIOUS
  <2> QED
    BY <2>1, <2>2
<1> HIDE DEF gs
<1>4. TabParts(gs, n) /\ TabFull(gs)
  BY <1>1, <1>2, <1>3 DEF TabGood, TabParts, TabFull
<1>5. TabRail(gs, n)
  BY <1>2, <1>4 DEF gs, TabRail
<1>6. Tab!Id("welcome", "") \in Tab!TabsOf(gs)
  BY <1>1, <1>2 DEF Tab!TabsOf
<1> QED
  BY <1>5, <1>6 DEF gs, TabMove

\* Another tab of the rail, or a fixed tab of a group that is open.
LEMMA TabFocus ==
  ASSUME TabRailInv, NEW id,
         id \in Tab!TabsOf(tabGroups) \cup Tab!Elements(Tab!settingsGroup.tabs)
                  \cup Tab!Elements(Tab!activityGroup.tabs)
  PROVE  TabMove(tabGroups, id, tabStamp)
<1>1. Tab!TabsOf(tabGroups) \ Tab!TabsOf(tabGroups) = {}
  OBVIOUS
<1> QED
  BY <1>1 DEF TabRailInv, TabMove

\* The tab to show after a close: another one of the rail, if there is one.
LEMMA TabSurvivor ==
  ASSUME TabRailInv, NEW g \in DOMAIN tabGroups, NEW p \in DOMAIN tabGroups[g].tabs,
         Tab!TabsOf(tabGroups) # {tabGroups[g].tabs[p]}
  PROVE  /\ Tab!NearestSurvivor(g, p) \in Tab!TabsOf(tabGroups)
         /\ Tab!NearestSurvivor(g, p) # tabGroups[g].tabs[p]
<1> DEFINE gs == tabGroups
           s == Tab!NearestSurvivor(g, p)
           id == gs[g].tabs[p]
<1>1. /\ gs \in Seq(TabGroupOf) /\ DOMAIN gs = 1..Len(gs) /\ Len(gs) \in Nat
      /\ TabParts(gs, tabStamp) /\ TabFull(gs)
  BY DEF TabRailInv, TabRail, TabParts
<1>2. ASSUME NEW i \in DOMAIN gs
      PROVE  /\ gs[i].tabs \in Seq(TabIds) /\ gs[i].tabs # <<>>
             /\ DOMAIN gs[i].tabs = 1..Len(gs[i].tabs) /\ Len(gs[i].tabs) \in Nat \ {0}
  <2>1. gs[i] \in TabGroupOf
    BY <1>1
  <2>2. \A h \in TabGroupOf : h.tabs \in Seq(TabIds)
    BY DEF TabGroupOf
  <2>3. gs[i].tabs \in Seq(TabIds) /\ gs[i].tabs # <<>>
    BY <1>1, <2>1, <2>2 DEF TabFull
  <2>4. \A ts \in Seq(TabIds) : ts # <<>> => DOMAIN ts = 1..Len(ts) /\ Len(ts) \in Nat \ {0}
    OBVIOUS
  <2> QED
    BY <2>3, <2>4
<1>3. ASSUME NEW i \in DOMAIN gs, NEW q \in DOMAIN gs[i].tabs, i # g \/ q # p
      PROVE  gs[i].tabs[q] \in Tab!TabsOf(gs) /\ gs[i].tabs[q] # id
  <2>1. gs[i].tabs[q] \in Tab!TabsOf(gs)
    BY DEF Tab!TabsOf, Tab!Elements
  <2>2. TabHome(gs[i].tabs[q]) = gs[i].kind /\ TabHome(id) = gs[g].kind
    BY <1>1 DEF TabParts, TabFits
  <2>3. i # g => gs[i].kind # gs[g].kind
    BY <1>1 DEF TabParts
  <2>4. i = g /\ q # p => gs[i].tabs[q] # id
    BY <1>1 DEF TabParts
  <2> QED
    BY <1>3, <2>1, <2>2, <2>3, <2>4
<1> DEFINE m == Len(gs[g].tabs)
<1>4. p \in 1..m /\ m \in Nat /\ g \in 1..Len(gs)
  BY <1>1, <1>2
<1>5. CASE p < m
  <2>1. s = gs[g].tabs[p + 1]
    BY <1>5 DEF Tab!NearestSurvivor
  <2>2. p + 1 \in DOMAIN gs[g].tabs /\ p + 1 # p
    BY <1>2, <1>4, <1>5
  <2> QED
    BY <1>3, <2>1, <2>2
<1>6. CASE p = m /\ g < Len(gs)
  <2>1. s = gs[g + 1].tabs[1]
    BY <1>4, <1>6 DEF Tab!NearestSurvivor
  <2>2. g + 1 \in DOMAIN gs /\ g + 1 # g
    BY <1>1, <1>4, <1>6
  <2>3. 1 \in DOMAIN gs[g + 1].tabs
    BY <1>2, <2>2
  <2> QED
    BY <1>3, <2>1, <2>2, <2>3
<1>7. CASE p = m /\ g = Len(gs) /\ p > 1
  <2>1. s = gs[g].tabs[p - 1]
    BY <1>4, <1>7 DEF Tab!NearestSurvivor
  <2>2. p - 1 \in DOMAIN gs[g].tabs /\ p - 1 # p
    BY <1>2, <1>4, <1>7
  <2> QED
    BY <1>3, <2>1, <2>2
<1>8. CASE p = m /\ g = Len(gs) /\ p = 1 /\ g > 1
  <2>1. s = gs[g - 1].tabs[Len(gs[g - 1].tabs)]
    BY <1>4, <1>8 DEF Tab!NearestSurvivor
  <2>2. g - 1 \in DOMAIN gs /\ g - 1 # g
    <3>1. \A x, y \in Nat : x > 1 /\ x = y => x - 1 \in 1..y /\ x - 1 # x
      OBVIOUS
    <3>2. g \in Nat /\ Len(gs) \in Nat /\ DOMAIN gs = 1..Len(gs)
      BY <1>1, <1>4
    <3> QED
      BY <1>8, <3>1, <3>2
  <2>3. Len(gs[g - 1].tabs) \in DOMAIN gs[g - 1].tabs
    BY <1>2, <2>2
  <2> QED
    BY <1>3, <2>1, <2>2, <2>3
<1>9. CASE p = m /\ g = Len(gs) /\ p = 1 /\ g = 1
  <2>1. DOMAIN gs = {1} /\ DOMAIN gs[g].tabs = {1}
    BY <1>1, <1>2, <1>9
  <2>2. Tab!TabsOf(gs) = {id}
    BY <1>9, <2>1 DEF Tab!TabsOf, Tab!Elements
  <2> QED
    BY <2>2
<1> QED
  BY <1>4, <1>5, <1>6, <1>7, <1>8, <1>9

\* Closing a tab.
LEMMA TabCloses ==
  ASSUME TabRailInv, Tab!InspectorShowsItsTurn, NEW g \in DOMAIN tabGroups, NEW p \in DOMAIN tabGroups[g].tabs,
         Tab!CloseTab(g, p)
  PROVE  TabKeeps
<1> DEFINE gs == tabGroups
           id == gs[g].tabs[p]
           rest == Tab!NonEmpty([i \in DOMAIN gs |-> Tab!Group(gs[i].kind, TabOthers(gs[i].tabs, id))])
           a == IF tabActiveId = id THEN Tab!NearestSurvivor(g, p) ELSE tabActiveId
<1>1. id # Tab!Id("welcome", "") /\ Tab!SetState(rest, a) /\ tabStamp' = tabStamp
  BY DEF Tab!CloseTab, TabOthers
<1>2. TabParts(gs, tabStamp) /\ TabFull(gs) /\ tabStamp \in Nat /\ TabRail(gs, tabStamp)
  BY DEF TabRailInv, TabRail
<1>3. id \in Tab!TabsOf(gs)
  BY DEF Tab!TabsOf, Tab!Elements
<1>4. /\ TabParts(rest, tabStamp) /\ TabFull(rest)
      /\ Tab!TabsOf(rest) = Tab!TabsOf(gs) \ {id}
      /\ \A k \in Tab!Kinds(rest) : k \in Tab!Kinds(gs)
  BY <1>2, <1>3, TabClosed
<1> HIDE DEF rest
<1>5. CASE rest = <<>>
  <2>1. Tab!SetState(<<Tab!welcomeGroup>>, Tab!Id("welcome", ""))
    <3> DEFINE w == <<Tab!welcomeGroup>>
               i == Tab!Id("welcome", "")
    <3>1. TabMove(w, i, tabStamp)
      BY <1>2, TabWelcome
    <3>2. TabFull(w)
      BY <3>1 DEF TabMove, TabRail
    <3>3. DOMAIN w # {}
      OBVIOUS
    <3>4. Tab!EnsureWelcome(rest, a) = Tab!EnsureWelcome(w, i)
      BY <1>5, <3>2, <3>3, TabSetState
    <3> HIDE DEF w, i, a
    <3>5. Tab!SetState(w, i)
      BY <1>1, <3>4 DEF Tab!SetState
    <3> QED
      BY <3>5 DEF w, i
  <2> QED
    BY <1>1, <1>2, <2>1, TabWelcome, TabMoved
<1>6. CASE rest # <<>>
  <2>1. \E t : t \in Tab!TabsOf(rest)
    <3>1. rest \in Seq(TabGroupOf)
      BY <1>4 DEF TabParts
    <3>2. 1 \in DOMAIN rest /\ rest[1] \in TabGroupOf /\ rest[1].tabs # <<>>
      BY <1>4, <1>6, <3>1 DEF TabFull
    <3>3. rest[1].tabs \in Seq(TabIds)
      BY <3>2 DEF TabGroupOf
    <3>4. 1 \in DOMAIN rest[1].tabs
      BY <3>2, <3>3
    <3>5. rest[1].tabs[1] \in Tab!Elements(rest[1].tabs)
      BY <3>4 DEF Tab!Elements
    <3>6. rest[1].tabs[1] \in Tab!TabsOf(rest)
      BY <3>2, <3>5 DEF Tab!TabsOf
    <3> QED
      BY <3>6
  <2>2. "welcome" \notin Tab!Kinds(rest)
    <3>1. ASSUME "welcome" \in Tab!Kinds(rest) PROVE FALSE
      <4>1. gs = <<Tab!welcomeGroup>>
        BY <1>2, <1>4, <3>1 DEF TabRail
      <4>2. gs[g] = Tab!welcomeGroup
        BY <4>1
      <4>3. id \in Tab!Elements(Tab!welcomeGroup.tabs)
        BY <4>2 DEF Tab!Elements
      <4> QED
        BY <1>1, <1>2, <4>3, TabFactories
    <3> QED
      BY <3>1
  <2>3. TabRail(rest, tabStamp)
    BY <1>4, <1>6, <2>2 DEF TabRail
  <2>4. a \in Tab!TabsOf(rest) \/ tabActiveId \notin Tab!TabsOf(gs)
    <3>1. Tab!TabsOf(gs) # {id}
      BY <1>4, <2>1
    <3>2. Tab!NearestSurvivor(g, p) \in Tab!TabsOf(rest)
      BY <1>4, <3>1, TabSurvivor
    <3> QED
      BY <1>4, <3>2
  <2>5. Tab!TabsOf(gs) \ Tab!TabsOf(rest) = {id}
    BY <1>3, <1>4
  <2> HIDE DEF a, id
  <2>6. TabMove(rest, a, tabStamp)
    BY <2>3, <2>4, <2>5 DEF TabMove
  <2> QED
    BY <1>1, <1>2, <2>6, TabMoved
<1> QED
  BY <1>5, <1>6

\* A result sweeps guidance away and joins the results.
LEMMA TabAdds ==
  ASSUME TabRailInv, Tab!InspectorShowsItsTurn, tabStamp' \in Nat, tabStamp <= tabStamp',
         NEW id \in TabIds, id \notin Tab!TabsOf(tabGroups), TabHome(id) = "results", id[3] <= tabStamp',
         Tab!AddResult(id)
  PROVE  TabKeeps
<1> DEFINE kept == Tab!Without(tabGroups, Tab!DisplaceOnNewActivity)
           n == tabStamp'
<1>1. /\ TabBase(kept, n)
      /\ \A t \in Tab!TabsOf(kept) : t \in Tab!TabsOf(tabGroups)
  BY TabSwept DEF Tab!DisplaceOnNewActivity
<1>2. TabFits(id, "results", n)
  BY DEF TabFits
<1>3. id \notin Tab!TabsOf(kept)
  BY <1>1
<1>4. CASE "results" \in Tab!Kinds(kept)
  <2>1. Tab!SetState(Tab!AppendTo(kept, "results", id), id)
    BY <1>4 DEF Tab!AddResult
  <2> HIDE DEF kept
  <2>2. TabMove(Tab!AppendTo(kept, "results", id), id, n)
    BY <1>1, <1>2, <1>3, <1>4, TabExtend
  <2> QED
    BY <2>1, <2>2, TabMoved
<1>5. CASE "results" \notin Tab!Kinds(kept)
  <2> DEFINE g == Tab!Group("results", <<id>>)
  <2>1. Tab!SetState(Append(kept, g), id)
    BY <1>5 DEF Tab!AddResult
  <2>2. TabGood(g, n) /\ id \in Tab!Elements(g.tabs) /\ g.kind = "results"
    BY <1>2, TabOne DEF TabKinds
  <2> HIDE DEF kept, g
  <2>3. TabMove(Append(kept, g), id, n)
    BY <1>1, <1>5, <2>2, TabJoin
  <2> QED
    BY <2>1, <2>3, TabMoved
<1> QED
  BY <1>4, <1>5

\* A result with the time in its id is a new one; one without is added unless it is
\* open.
LEMMA TabResults ==
  ASSUME TabRailInv, Tab!InspectorShowsItsTurn,
         \/ \E k \in {"graphql", "event", "ask", "detail_new", "run"} : Tab!Stamped(k)
         \/ \E k \in {"stream", "pipeline", "detail"} : \E arg \in TabArgs : Tab!FocusOrAdd(Tab!Id(k, arg))
  PROVE  TabKeeps
<1>0. tabStamp \in Nat /\ TabParts(tabGroups, tabStamp)
  BY DEF TabRailInv, TabRail
<1>1. ASSUME NEW k \in {"graphql", "event", "ask", "detail_new", "run"}, Tab!Stamped(k)
      PROVE  TabKeeps
  <2> DEFINE id == <<k, "", tabStamp + 1>>
  <2>1. tabStamp' = tabStamp + 1 /\ Tab!AddResult(id)
    BY <1>1 DEF Tab!Stamped
  <2>2. tabStamp' \in Nat /\ tabStamp <= tabStamp' /\ ~(tabStamp + 1 <= tabStamp)
    <3>1. \A x \in Nat : x + 1 \in Nat /\ x <= x + 1 /\ ~(x + 1 <= x)
      OBVIOUS
    <3>2. tabStamp' = tabStamp + 1
      BY <2>1
    <3> QED
      BY <1>0, <3>1, <3>2
  <2>3. id \in TabIds /\ id[3] = tabStamp'
    <3>1. k \in TabPrefixes /\ "" \in TabArgs /\ tabStamp + 1 \in Nat
      BY <2>1, <2>2, TabNamed DEF TabPrefixes
    <3> QED
      BY <2>1, <3>1, TabNamed
  <2>4. TabHome(id) = "results"
    BY TabNamed
  <2> HIDE DEF id
  <2>5. id \notin Tab!TabsOf(tabGroups)
    <3>1. \A t \in Tab!TabsOf(tabGroups) : t[3] <= tabStamp
      BY <1>0, TabPlace DEF TabFits
    <3> QED
      BY <2>1, <2>2, <2>3, <3>1
  <2>6. id[3] <= tabStamp'
    BY <2>2, <2>3
  <2> QED
    BY <2>1, <2>2, <2>3, <2>4, <2>5, <2>6, TabAdds
<1>2. ASSUME NEW k \in {"stream", "pipeline", "detail"}, NEW arg \in TabArgs, Tab!FocusOrAdd(Tab!Id(k, arg))
      PROVE  TabKeeps
  <2> DEFINE id == Tab!Id(k, arg)
  <2>1. /\ IF id \in Tab!TabsOf(tabGroups) THEN Tab!SetState(tabGroups, id) ELSE Tab!AddResult(id)
        /\ tabStamp' = tabStamp
    BY <1>2 DEF Tab!FocusOrAdd, Tab!Open
  <2>2. id \in TabIds /\ id[3] = 0 /\ TabHome(id) = "results"
    <3>1. k \in TabPrefixes /\ 0 \in Nat /\ id = <<k, arg, 0>>
      BY TabNamed DEF TabPrefixes
    <3>2. k \in {"graphql", "event", "ask", "detail_new", "run", "stream", "pipeline", "detail"}
      OBVIOUS
    <3>3. TabHome(<<k, arg, 0>>) = "results"
      BY <3>2, TabNamed
    <3>4. <<k, arg, 0>> \in TabIds /\ <<k, arg, 0>>[3] = 0
      BY <3>1, TabNamed
    <3> HIDE DEF id
    <3> QED
      BY <3>1, <3>3, <3>4
  <2> HIDE DEF id
  <2>3. CASE id \in Tab!TabsOf(tabGroups)
    BY <1>0, <2>1, <2>3, TabFocus, TabMoved
  <2>4. CASE id \notin Tab!TabsOf(tabGroups)
    <3>1. tabStamp' \in Nat /\ tabStamp <= tabStamp' /\ id[3] <= tabStamp'
      BY <1>0, <2>1, <2>2
    <3> QED
      BY <2>1, <2>2, <2>4, <3>1, TabAdds
  <2> QED
    BY <2>3, <2>4
<1> QED
  BY <1>1, <1>2

\* A group that is not open joins the rail, without Welcome.
LEMMA TabOpensGroup ==
  ASSUME TabRailInv, Tab!InspectorShowsItsTurn, tabStamp' = tabStamp,
         NEW g, TabGood(g, tabStamp), g.kind \notin Tab!Kinds(tabGroups), g.kind # "welcome",
         NEW target \in Tab!Elements(g.tabs), Tab!SetState(Tab!WithGroup(g), target)
  PROVE  TabKeeps
<1> DEFINE kept == Tab!Without(tabGroups, {"welcome"})
<1>1. tabStamp \in Nat /\ tabStamp <= tabStamp
  BY DEF TabRailInv
<1>2. TabBase(kept, tabStamp) /\ g.kind \notin Tab!Kinds(kept)
  <2>1. TabBase(kept, tabStamp) /\ \A k \in Tab!Kinds(kept) : k \in Tab!Kinds(tabGroups)
    BY <1>1, TabSwept
  <2> QED
    BY <2>1
<1>3. Tab!WithGroup(g) = Append(kept, g)
  BY DEF Tab!WithGroup
<1> HIDE DEF kept
<1>4. TabMove(Tab!WithGroup(g), target, tabStamp)
  BY <1>2, <1>3, TabJoin
<1> QED
  BY <1>1, <1>4, TabMoved

\* The history and the developer's group are there with their tab.
LEMMA TabSole ==
  ASSUME TabRailInv
  PROVE  /\ "history" \in Tab!Kinds(tabGroups) => Tab!Id("history", "chats") \in Tab!TabsOf(tabGroups)
         /\ "dev" \in Tab!Kinds(tabGroups) => Tab!Id("dev", "agent") \in Tab!TabsOf(tabGroups)
<1>0. TabParts(tabGroups, tabStamp) /\ TabFull(tabGroups)
  BY DEF TabRailInv, TabRail
<1>1. ASSUME NEW kind \in Tab!Kinds(tabGroups)
      PROVE  \E t \in Tab!TabsOf(tabGroups) : TabFits(t, kind, tabStamp)
  <2>1. PICK i \in DOMAIN tabGroups : tabGroups[i].kind = kind
    BY DEF Tab!Kinds
  <2>2. tabGroups[i] \in TabGroupOf /\ tabGroups[i].tabs # <<>>
    BY <1>0 DEF TabParts, TabFull
  <2>3. tabGroups[i].tabs \in Seq(TabIds)
    BY <2>2 DEF TabGroupOf
  <2>4. 1 \in DOMAIN tabGroups[i].tabs
    BY <2>2, <2>3
  <2>5. TabFits(tabGroups[i].tabs[1], kind, tabStamp)
    BY <1>0, <2>1, <2>4 DEF TabParts
  <2>6. tabGroups[i].tabs[1] \in Tab!Elements(tabGroups[i].tabs)
    BY <2>4 DEF Tab!Elements
  <2>7. tabGroups[i].tabs[1] \in Tab!TabsOf(tabGroups)
    BY <2>6 DEF Tab!TabsOf
  <2> QED
    BY <2>5, <2>7
<1> QED
  BY <1>1 DEF TabFits

\* The menu entries that open a whole group.
LEMMA TabGroups ==
  ASSUME TabRailInv, Tab!InspectorShowsItsTurn,
         \/ \E i \in DOMAIN TabPanels : Tab!OpenSettings(TabPanels[i])
         \/ Tab!OpenActivityList \/ Tab!OpenChatHistory
  PROVE  TabKeeps
<1>0. tabStamp \in Nat /\ TabParts(tabGroups, tabStamp) /\ TabFull(tabGroups)
  BY DEF TabRailInv, TabRail
<1>1. ASSUME NEW g, NEW target \in Tab!Elements(g.tabs), TabGood(g, tabStamp), g.kind # "welcome",
             g.kind \in Tab!Kinds(tabGroups) =>
               target \in Tab!TabsOf(tabGroups) \cup Tab!Elements(Tab!settingsGroup.tabs)
                            \cup Tab!Elements(Tab!activityGroup.tabs),
             Tab!OpenGroup(g, target)
      PROVE  TabKeeps
  <2>1. CASE g.kind \in Tab!Kinds(tabGroups)
    <3>1. Tab!SetState(tabGroups, target) /\ tabStamp' = tabStamp
      BY <1>1, <2>1 DEF Tab!OpenGroup
    <3>2. TabMove(tabGroups, target, tabStamp)
      BY <1>1, <2>1, TabFocus
    <3> QED
      BY <1>0, <3>1, <3>2, TabMoved
  <2>2. CASE g.kind \notin Tab!Kinds(tabGroups)
    <3>1. Tab!SetState(Tab!WithGroup(g), target) /\ tabStamp' = tabStamp
      BY <1>1, <2>2 DEF Tab!OpenGroup
    <3> QED
      BY <1>1, <2>2, <3>1, TabOpensGroup
  <2> QED
    BY <2>1, <2>2
<1>2. ASSUME NEW i \in DOMAIN TabPanels, Tab!OpenSettings(TabPanels[i]) PROVE TabKeeps
  <2>1. /\ TabGood(Tab!settingsGroup, tabStamp) /\ Tab!settingsGroup.kind = "settings"
        /\ Tab!Id("settings", TabPanels[i]) \in Tab!Elements(Tab!settingsGroup.tabs)
    BY <1>0, TabFactories
  <2>2. Tab!OpenGroup(Tab!settingsGroup, Tab!Id("settings", TabPanels[i]))
    BY <1>2 DEF Tab!OpenSettings
  <2> QED
    BY <1>1, <2>1, <2>2
<1>3. ASSUME Tab!OpenActivityList PROVE TabKeeps
  <2>1. /\ TabGood(Tab!activityGroup, tabStamp) /\ Tab!activityGroup.kind = "activity"
        /\ Tab!Id("activity", "list") \in Tab!Elements(Tab!activityGroup.tabs)
    BY <1>0, TabFactories
  <2>2. Tab!OpenGroup(Tab!activityGroup, Tab!Id("activity", "list"))
    BY <1>3 DEF Tab!OpenActivityList
  <2> QED
    BY <1>1, <2>1, <2>2
<1>4. ASSUME Tab!OpenChatHistory PROVE TabKeeps
  <2>1. /\ TabGood(Tab!historyGroup, tabStamp) /\ Tab!historyGroup.kind = "history"
        /\ Tab!Id("history", "chats") \in Tab!Elements(Tab!historyGroup.tabs)
    BY <1>0, TabFactories
  <2>2. Tab!OpenGroup(Tab!historyGroup, Tab!Id("history", "chats"))
    BY <1>4 DEF Tab!OpenChatHistory
  <2>3. "history" \in Tab!Kinds(tabGroups) => Tab!Id("history", "chats") \in Tab!TabsOf(tabGroups)
    BY TabSole
  <2> QED
    BY <1>1, <2>1, <2>2, <2>3
<1> QED
  BY <1>2, <1>3, <1>4

\* The tabs that are opened one at a time into a group of their own kind.
LEMMA TabOpens ==
  ASSUME TabRailInv, Tab!InspectorShowsItsTurn,
         \/ \E t \in TabTurns : Tab!OpenActivityDetail(t)
         \/ \E tool \in {"streams", "new-event", "translate"} : Tab!OpenTool(tool)
         \/ Tab!OpenDev
  PROVE  TabKeeps
<1>0. tabStamp \in Nat /\ TabParts(tabGroups, tabStamp)
  BY DEF TabRailInv, TabRail
<1>1. ASSUME NEW id, Tab!Open(id), Tab!Focus(id) PROVE TabKeeps
  <2>1. id \in Tab!TabsOf(tabGroups) /\ Tab!SetState(tabGroups, id) /\ tabStamp' = tabStamp
    BY <1>1 DEF Tab!Open, Tab!Focus
  <2> QED
    BY <1>0, <2>1, TabFocus, TabMoved
<1>2. ASSUME NEW id \in TabIds, ~Tab!Open(id), NEW kind \in Tab!Kinds(tabGroups), kind # "welcome",
             TabHome(id) = kind, id[3] = 0, kind # "history", kind = "dev" => id = Tab!Id("dev", "agent"),
             Tab!SetState(Tab!AppendTo(tabGroups, kind, id), id), tabStamp' = tabStamp
      PROVE  TabKeeps
  <2>1. TabFits(id, kind, tabStamp)
    BY <1>0, <1>2 DEF TabFits
  <2>2. TabBase(tabGroups, tabStamp) /\ id \notin Tab!TabsOf(tabGroups)
    BY <1>2, TabAsItIs DEF Tab!Open
  <2>3. TabMove(Tab!AppendTo(tabGroups, kind, id), id, tabStamp)
    BY <1>2, <2>1, <2>2, TabExtend
  <2> QED
    BY <1>0, <1>2, <2>3, TabMoved
<1>3. ASSUME NEW id \in TabIds, NEW kind \in TabKinds, kind \notin Tab!Kinds(tabGroups), kind # "welcome",
             TabHome(id) = kind, id[3] = 0, kind # "history", kind = "dev" => id = Tab!Id("dev", "agent"),
             Tab!SetState(Tab!WithGroup(Tab!Group(kind, <<id>>)), id), tabStamp' = tabStamp
      PROVE  TabKeeps
  <2> DEFINE g == Tab!Group(kind, <<id>>)
  <2>1. TabFits(id, kind, tabStamp)
    BY <1>0, <1>3 DEF TabFits
  <2>2. TabGood(g, tabStamp) /\ id \in Tab!Elements(g.tabs) /\ g.kind = kind
    BY <2>1, TabOne
  <2>3. Tab!SetState(Tab!WithGroup(g), id)
    BY <1>3
  <2> HIDE DEF g
  <2> QED
    BY <1>3, <2>2, <2>3, TabOpensGroup
<1>4. ASSUME NEW t \in TabTurns, Tab!OpenActivityDetail(t) PROVE TabKeeps
  <2> DEFINE id == Tab!Id("turn", t)
  <2>1. id \in TabIds /\ id[3] = 0 /\ TabHome(id) = "activity" /\ id[1] = "turn"
    <3>1. "turn" \in TabPrefixes /\ t \in TabArgs /\ 0 \in Nat /\ id = <<"turn", t, 0>>
      BY TabNamed DEF TabPrefixes
    <3>2. TabHome(id) = "activity"
      BY TabNamed
    <3> HIDE DEF id
    <3> QED
      BY <3>1, <3>2, TabNamed
  <2>2. CASE Tab!Open(id)
    BY <1>1, <1>4, <2>2 DEF Tab!OpenActivityDetail
  <2>3. CASE ~Tab!Open(id) /\ "activity" \in Tab!Kinds(tabGroups)
    <3>1. Tab!SetState(Tab!AppendTo(tabGroups, "activity", id), id) /\ tabStamp' = tabStamp
      BY <1>4, <2>3 DEF Tab!OpenActivityDetail
    <3> HIDE DEF id
    <3> QED
      BY <1>2, <2>1, <2>3, <3>1
  <2>4. CASE ~Tab!Open(id) /\ "activity" \notin Tab!Kinds(tabGroups)
    <3> DEFINE lst == Tab!Id("activity", "list")
               ts == Append(Tab!activityGroup.tabs, id)
               g == Tab!Group("activity", ts)
    <3>1. Tab!SetState(Tab!WithGroup(g), id) /\ tabStamp' = tabStamp
      BY <1>4, <2>4 DEF Tab!OpenActivityDetail
    <3>2. lst \in TabIds /\ lst[3] = 0 /\ TabHome(lst) = "activity" /\ lst[1] = "activity"
      <4>1. "activity" \in TabPrefixes /\ "list" \in TabArgs /\ 0 \in Nat /\ lst = <<"activity", "list", 0>>
        BY TabNamed DEF TabPrefixes
      <4>2. "activity" \in {"welcome", "settings", "activity", "history", "dev"}
        OBVIOUS
      <4>3. TabHome(lst) = "activity"
        BY <4>2, TabNamed
      <4> HIDE DEF lst
      <4> QED
        BY <4>1, <4>3, TabNamed
    <3> HIDE DEF lst, id
    <3>3. /\ ts \in Seq(TabIds) /\ DOMAIN ts = 1..2 /\ ts[1] = lst /\ ts[2] = id /\ ts # <<>>
          /\ lst # id
      <4>1. Tab!activityGroup.tabs = <<lst>>
        BY DEF Tab!activityGroup, Tab!Group, lst
      <4>2. <<lst>> \in Seq(TabIds) /\ Len(<<lst>>) = 1 /\ <<lst>>[1] = lst
        BY <3>2
      <4>3. ASSUME NEW us \in Seq(TabIds), NEW x \in TabIds
            PROVE  /\ Append(us, x) \in Seq(TabIds) /\ DOMAIN Append(us, x) = 1..(Len(us) + 1)
                   /\ Append(us, x)[Len(us) + 1] = x /\ \A i \in 1..Len(us) : Append(us, x)[i] = us[i]
        OBVIOUS
      <4>4. 1 + 1 = 2 /\ 1 \in 1..1 /\ 1 \in 1..2
        OBVIOUS
      <4>5. lst # id
        BY <2>1, <3>2
      <4> QED
        BY <2>1, <4>1, <4>2, <4>3, <4>4, <4>5
    <3>4. g.kind = "activity" /\ g.tabs = ts /\ g \in TabGroupOf
      <4>1. \A k \in TabKinds, us \in Seq(TabIds) : [kind |-> k, tabs |-> us] \in TabGroupOf
        BY DEF TabGroupOf
      <4>2. g = [kind |-> "activity", tabs |-> ts] /\ "activity" \in TabKinds
        BY DEF Tab!Group, TabKinds
      <4> HIDE DEF g, ts
      <4> QED
        BY <3>3, <4>1, <4>2
    <3> HIDE DEF g, ts
    <3>5. \A p \in 1..2 : p = 1 \/ p = 2
      OBVIOUS
    <3>6. \A p, q \in DOMAIN ts : ts[p] = ts[q] => p = q
      BY <3>3, <3>5
    <3>7. \A p \in DOMAIN ts : TabFits(ts[p], "activity", tabStamp)
      BY <1>0, <2>1, <3>2, <3>3, <3>5 DEF TabFits
    <3>8. TabGood(g, tabStamp) /\ id \in Tab!Elements(g.tabs)
      BY <3>3, <3>4, <3>6, <3>7 DEF TabGood, Tab!Elements
    <3> QED
      BY <2>4, <3>1, <3>4, <3>8, TabOpensGroup
  <2> QED
    BY <2>2, <2>3, <2>4
<1>5. ASSUME NEW tool \in {"streams", "new-event", "translate"}, Tab!OpenTool(tool) PROVE TabKeeps
  <2> DEFINE id == Tab!Id("settings", tool)
  <2>1. id \in TabIds /\ id[3] = 0 /\ TabHome(id) = "settings"
    <3>1. "settings" \in TabPrefixes /\ tool \in TabArgs /\ 0 \in Nat /\ id = <<"settings", tool, 0>>
      <4>1. tool \in {"", "list", "chats", "streams", "new-event", "translate", "agent"}
        OBVIOUS
      <4> QED
        BY <4>1, TabNamed DEF TabPrefixes
    <3>2. "settings" \in {"welcome", "settings", "activity", "history", "dev"}
      OBVIOUS
    <3>3. TabHome(id) = "settings"
      BY <3>2, TabNamed
    <3> HIDE DEF id
    <3> QED
      BY <3>1, <3>3, TabNamed
  <2>2. CASE Tab!Open(id)
    BY <1>1, <1>5, <2>2 DEF Tab!OpenTool
  <2>3. CASE ~Tab!Open(id) /\ "settings" \in Tab!Kinds(tabGroups)
    <3>1. Tab!SetState(Tab!AppendTo(tabGroups, "settings", id), id) /\ tabStamp' = tabStamp
      BY <1>5, <2>3 DEF Tab!OpenTool
    <3> HIDE DEF id
    <3> QED
      BY <1>2, <2>1, <2>3, <3>1
  <2>4. CASE ~Tab!Open(id) /\ "settings" \notin Tab!Kinds(tabGroups)
    <3>1. Tab!SetState(Tab!WithGroup(Tab!Group("settings", <<id>>)), id) /\ tabStamp' = tabStamp
      BY <1>5, <2>4 DEF Tab!OpenTool
    <3>2. "settings" \in TabKinds
      BY DEF TabKinds
    <3> HIDE DEF id
    <3> QED
      BY <1>3, <2>1, <2>4, <3>1, <3>2
  <2> QED
    BY <2>2, <2>3, <2>4
<1>6. ASSUME Tab!OpenDev PROVE TabKeeps
  <2> DEFINE id == Tab!Id("dev", "agent")
  <2>1. id \in TabIds /\ id[3] = 0 /\ TabHome(id) = "dev"
    <3>1. "dev" \in TabPrefixes /\ "agent" \in TabArgs /\ 0 \in Nat /\ id = <<"dev", "agent", 0>>
      BY TabNamed DEF TabPrefixes
    <3>2. "dev" \in {"welcome", "settings", "activity", "history", "dev"}
      OBVIOUS
    <3>3. TabHome(id) = "dev"
      BY <3>2, TabNamed
    <3> HIDE DEF id
    <3> QED
      BY <3>1, <3>3, TabNamed
  <2>2. CASE Tab!Open(id)
    BY <1>1, <1>6, <2>2 DEF Tab!OpenDev
  <2>3. CASE ~Tab!Open(id)
    <3>1. Tab!SetState(Tab!WithGroup(Tab!Group("dev", <<id>>)), id) /\ tabStamp' = tabStamp
      BY <1>6, <2>3 DEF Tab!OpenDev
    <3>2. "dev" \in TabKinds
      BY DEF TabKinds
    <3>3. "dev" \notin Tab!Kinds(tabGroups)
      BY <2>3, TabSole DEF Tab!Open
    <3> QED
      BY <1>3, <2>1, <3>1, <3>2, <3>3
  <2> QED
    BY <2>2, <2>3
<1> QED
  BY <1>4, <1>5, <1>6

\* The documentation replaces guidance and results.
LEMMA TabDocs ==
  ASSUME TabRailInv, Tab!InspectorShowsItsTurn, Tab!OpenDocs
  PROVE  TabKeeps
<1> DEFINE K == {"docs"} \cup Tab!DisplaceOnDocsOpen
           kept == Tab!Without(tabGroups, K)
<1>1. tabStamp \in Nat /\ tabStamp <= tabStamp
  BY DEF TabRailInv
<1>2. "welcome" \in K /\ "docs" \in K /\ \A k \in K : k \in {"welcome", "docs", "results"}
  BY DEF Tab!DisplaceOnDocsOpen
<1>3. Tab!SetState(Append(kept, Tab!docsGroup), Head(Tab!docsGroup.tabs)) /\ tabStamp' = tabStamp
  BY DEF Tab!OpenDocs
<1>4. /\ TabGood(Tab!docsGroup, tabStamp) /\ Tab!docsGroup.kind = "docs"
      /\ Head(Tab!docsGroup.tabs) \in Tab!Elements(Tab!docsGroup.tabs)
  BY <1>1, TabFactories
<1> HIDE DEF K
<1>5. TabBase(kept, tabStamp) /\ \A k \in Tab!Kinds(kept) : k \notin K
  BY <1>1, <1>2, TabSwept
<1> HIDE DEF kept
<1>6. TabMove(Append(kept, Tab!docsGroup), Head(Tab!docsGroup.tabs), tabStamp)
  BY <1>2, <1>4, <1>5, TabJoin
<1> QED
  BY <1>1, <1>3, <1>6, TabMoved

\* Every step of the tab workspace keeps the rail and the inspector, and neither
\* leaves the content column blank nor takes a tab of a parallel workspace away.
LEMMA TabStep ==
  ASSUME TabRailInv, Tab!InspectorShowsItsTurn, Tab!Next
  PROVE  TabKeeps
<1>0. tabStamp \in Nat
  BY DEF TabRailInv
<1>1. CASE Tab!Palette
  <2>1. CASE Tab!ShowWelcome
    <3>1. Tab!SetState(<<Tab!welcomeGroup>>, Tab!Id("welcome", "")) /\ tabStamp' = tabStamp
      BY <2>1 DEF Tab!ShowWelcome
    <3>2. TabMove(<<Tab!welcomeGroup>>, Tab!Id("welcome", ""), tabStamp)
      BY <1>0, TabWelcome
    <3> QED
      BY <1>0, <3>1, <3>2, TabMoved
  <2>2. CASE (\E i \in DOMAIN TabPanels : Tab!OpenSettings(TabPanels[i])) \/ Tab!OpenActivityList \/ Tab!OpenChatHistory
    BY <2>2, TabGroups
  <2>3. CASE Tab!OpenStreamManager \/ Tab!OpenNewEvent
    BY <2>3, TabOpens DEF Tab!OpenStreamManager, Tab!OpenNewEvent
  <2>4. CASE Tab!OpenDocs
    BY <2>4, TabDocs
  <2>5. CASE \E s \in TabStreams : Tab!OpenStreamDetail(s)
    <3>1. PICK s \in TabStreams : Tab!FocusOrAdd(Tab!Id("stream", s))
      BY <2>5 DEF Tab!OpenStreamDetail
    <3>2. s \in TabArgs
      BY TabNamed
    <3> QED
      BY <3>1, <3>2, TabResults
  <2> QED
    BY <1>1, <2>1, <2>2, <2>3, <2>4, <2>5 DEF Tab!Palette
<1>2. CASE Tab!Menu
  <2>1. CASE Tab!OpenTranslate
    BY <2>1, TabOpens DEF Tab!OpenTranslate
  <2>2. CASE Tab!OpenDev
    BY <2>2, TabOpens
  <2>3. CASE Tab!OpenPipelineList
    <3>1. Tab!FocusOrAdd(Tab!Id("pipeline", "list")) /\ "list" \in TabArgs
      BY <2>3, TabNamed DEF Tab!OpenPipelineList
    <3> QED
      BY <3>1, TabResults
  <2> QED
    BY <1>2, <2>1, <2>2, <2>3 DEF Tab!Menu
<1>3. CASE Tab!Results
  <2>1. CASE Tab!AddGraphqlResult \/ Tab!AddEventResult \/ Tab!AddAskResult \/ Tab!AddNewDetail \/ Tab!OpenPipelineRun
    <3>1. \E k \in {"graphql", "event", "ask", "detail_new", "run"} : Tab!Stamped(k)
      BY <2>1 DEF Tab!AddGraphqlResult, Tab!AddEventResult, Tab!AddAskResult, Tab!AddNewDetail, Tab!OpenPipelineRun
    <3> QED
      BY <3>1, TabResults
  <2>2. CASE \E t \in TabTurns : Tab!OpenActivityDetail(t)
    BY <2>2, TabOpens
  <2>3. CASE \E r \in TabRecords : Tab!AddDslDetail(r)
    <3>1. PICK r \in TabRecords : Tab!FocusOrAdd(Tab!Id("detail", r))
      BY <2>3 DEF Tab!AddDslDetail
    <3>2. r \in TabArgs
      BY TabNamed
    <3> QED
      BY <3>1, <3>2, TabResults
  <2> QED
    BY <1>3, <2>1, <2>2, <2>3 DEF Tab!Results
<1>4. CASE Tab!Rail
  <2>1. ASSUME NEW id, Tab!SetActive(id) PROVE TabKeeps
    <3>1. id \in Tab!TabsOf(tabGroups) /\ Tab!SetState(tabGroups, id) /\ tabStamp' = tabStamp
      BY <2>1 DEF Tab!SetActive, Tab!Open, Tab!Focus
    <3> QED
      BY <1>0, <3>1, TabFocus, TabMoved
  <2>2. \/ \E id : Tab!SetActive(id)
        \/ \E g \in DOMAIN tabGroups : \E p \in DOMAIN tabGroups[g].tabs : Tab!CloseTab(g, p)
    BY <1>4 DEF Tab!Rail, Tab!NavigateToDocTab
  <2> QED
    BY <2>1, <2>2, TabCloses
<1>5. CASE (\E tab \in tabLoads : Tab!LoadTurn(tab)) \/ Tab!LogIn \/ Tab!LogOut
  BY <1>5, TabInspector
<1> QED
  BY <1>1, <1>2, <1>3, <1>4, <1>5 DEF Tab!Next

\* The rail starts as the Welcome page, and no panel is mounted.
LEMMA TabInitial == Init => TabInv
<1> SUFFICES ASSUME part = "tabs", Tab!Init PROVE TabRailInv /\ Tab!InspectorShowsItsTurn
  BY DEF Init, TabInv
<1>1. tabGroups = <<Tab!welcomeGroup>> /\ tabStamp = 0 /\ tabLoggedIn = FALSE
  BY DEF Tab!Init
<1>2. TabMove(<<Tab!welcomeGroup>>, Tab!Id("welcome", ""), 0)
  BY TabWelcome
<1>3. TabRailInv
  BY <1>1, <1>2 DEF TabMove, TabRailInv
<1>4. Tab!Shown(tabGroups, tabActiveId) = Tab!None
  BY <1>1 DEF Tab!Shown
<1>5. Tab!None[1] # "turn"
  BY DEF Tab!None
<1> QED
  BY <1>3, <1>4, <1>5 DEF Tab!InspectorShowsItsTurn

\* The invariant of the tab workspace holds in every behaviour.
LEMMA TabInvariance == Spec => []TabInv
<1>1. TabInv /\ [Next]_vars => TabInv'
  <2> SUFFICES ASSUME TabInv, [Next]_vars
               PROVE  TabInv'
    OBVIOUS
  <2>1. CASE part = "tabs" /\ part' = part /\ Tab!Next
    BY <2>1, TabStep DEF TabInv, TabKeeps
  <2>2. CASE part' # "tabs" \/ UNCHANGED << part, varsTab >>
    BY <2>2 DEF TabInv, TabRailInv, Tab!InspectorShowsItsTurn, Tab!Shown, varsTab
  <2> QED
    BY <2>1, <2>2 DEF Next, vars
<1> QED
  BY <1>1, TabInitial, PTL DEF Spec

\* In whatever order the openers, displacements and closes come, the rail holds no
\* group and no id twice, no group is empty and Welcome is there exactly when nothing
\* else is; and the one turn inspector shows the turn of the tab that is active: for
\* any number of tabs, panels, topics, turns, records and streams (store/tabs.ts,
\* ActivityDetailPanel.tsx).
THEOREM WorkspaceTheorem == Spec => []WorkspaceSound
<1>1. TabInv => WorkspaceSound
  <2> SUFFICES ASSUME TabRailInv PROVE Tab!RailWellFormed
    BY DEF TabInv, WorkspaceSound
  <2> DEFINE gs == tabGroups
  <2>1. TabRail(gs, tabStamp) /\ TabParts(gs, tabStamp) /\ TabFull(gs) /\ gs # <<>> /\ tabStamp \in Nat
    BY DEF TabRailInv, TabRail
  <2>2. \A i \in DOMAIN gs : \A p \in DOMAIN gs[i].tabs : TabHome(gs[i].tabs[p]) = gs[i].kind
    BY <2>1 DEF TabParts, TabFits
  <2>3. ASSUME NEW i \in DOMAIN gs, NEW j \in DOMAIN gs
        PROVE  /\ gs[i].kind = gs[j].kind => i = j
               /\ \A p \in DOMAIN gs[i].tabs, q \in DOMAIN gs[j].tabs :
                    gs[i].tabs[p] = gs[j].tabs[q] => i = j /\ p = q
    <3>1. gs[i].kind = gs[j].kind => i = j
      BY <2>1 DEF TabParts
    <3>2. \A p, q \in DOMAIN gs[i].tabs : gs[i].tabs[p] = gs[i].tabs[q] => p = q
      BY <2>1 DEF TabParts
    <3> QED
      BY <2>2, <3>1, <3>2
  <2>4. "welcome" \in Tab!Kinds(gs) <=> Len(gs) = 1 /\ gs[1] = Tab!welcomeGroup
    <3>1. ASSUME "welcome" \in Tab!Kinds(gs) PROVE Len(gs) = 1 /\ gs[1] = Tab!welcomeGroup
      <4>1. gs = <<Tab!welcomeGroup>>
        BY <2>1, <3>1 DEF TabRail
      <4> QED
        BY <4>1
    <3>2. ASSUME Len(gs) = 1, gs[1] = Tab!welcomeGroup PROVE "welcome" \in Tab!Kinds(gs)
      <4>1. gs \in Seq(TabGroupOf)
        BY <2>1 DEF TabParts
      <4>2. 1 \in DOMAIN gs
        BY <3>2, <4>1
      <4>3. gs[1].kind = "welcome"
        BY <2>1, <3>2, TabFactories
      <4> QED
        BY <4>2, <4>3 DEF Tab!Kinds
    <3> QED
      BY <3>1, <3>2
  <2>5. \A i \in DOMAIN gs : gs[i].tabs # <<>>
    BY <2>1 DEF TabFull
  <2> QED
    BY <2>1, <2>3, <2>4, <2>5 DEF Tab!RailWellFormed
<1> QED
  BY <1>1, TabInvariance, PTL

\* No close, displacement, reopening or relogin leaves the content column blank, and
\* none but the close of that tab, or going home, takes a tab of settings, history,
\* activity or dev away, for any number of tabs (store/tabs.ts).
THEOREM TabsStayTheorem == Spec => TabsStay
<1>1. TabInv /\ [Next]_vars => [part = "tabs" => Tab!BlankStep /\ Tab!WorkspaceStep]_varsTab
  <2> SUFFICES ASSUME TabInv, [Next]_vars, part = "tabs", varsTab' # varsTab
               PROVE  Tab!BlankStep /\ Tab!WorkspaceStep
    OBVIOUS
  <2>1. Tab!Next
    BY DEF Next, vars
  <2> QED
    BY <2>1, TabStep DEF TabInv, TabKeeps
<1> QED
  BY <1>1, TabInvariance, PTL DEF Spec, TabsStay

=============================================================================

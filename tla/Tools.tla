--------------------------------- MODULE Tools ---------------------------------
(***************************************************************************)
(* Panels of the oos webview that wait for an answer of their own: the     *)
(* list of models (SettingsConnectionPanel.tsx), the values kept per model *)
(* (SettingsFinetuningPanel.tsx, store/finetuning.ts), the permissions     *)
(* (SettingsPermissionsPanel.tsx), the translator (TranslatePanel.tsx) and *)
(* the dev agent, which writes to a tab (DevPanel.tsx) and to the chat     *)
(* column (useDevChat of App.tsx) at once. One of them is exercised in a   *)
(* behaviour, chosen by Init: they share no state.                         *)
(***************************************************************************)
EXTENDS Naturals, FiniteSets, Sequences, SequencesExt

CONSTANTS Models,    \* model ids, NoModel not among them
          Values,    \* FinetuningSettings, DEFAULT_FINETUNING among them
          DEFAULT_FINETUNING,
          MaxSteps,  \* bound: steps of the user
          MaxRuns    \* bound: runs of the dev agent

NoModel == "none"
NoValue == "novalue"
Asked == "asked"   \* a read that was not served yet

VARIABLES panel,    \* the panel exercised
          steps,    \* how many steps the user made
          kv,       \* the rows finetuning:<model>, NoValue if there is none
          modelId, tuning, loaded, tform, \* useFinetuning and FinetuningEditor
          reads,    \* kvGet under way: the model, whether cancelled, the value read
          saves,    \* saveFinetuning under way: the model, the value, whether kvSet has returned
          models, chosen, endpoint, lists, \* SettingsConnectionPanel: models, llmModel, llmBaseUrl, requests
          stage,    \* SettingsPermissionsPanel: stage
          source, target, busy, asked, \* TranslatePanel; the source of the translation under way
          runs,     \* dev_run: runs under way, and who started each
          tab, column \* DevPanel and useDevChat: whether mounted, busy, and who each message is of

tuningvars == <<kv, modelId, tuning, loaded, tform, reads, saves>>
modelvars == <<models, chosen, endpoint, lists>>
translatevars == <<source, target, busy, asked>>
devvars == <<runs, tab, column>>
tools == <<panel, steps, tuningvars, modelvars, stage, translatevars, devvars>>

User(p) == panel = p /\ steps < MaxSteps /\ steps' = steps + 1

(* ---- store/finetuning.ts ---- *)
(* parseFinetuning: a row that is missing or malformed is the default.     *)
parseFinetuning(v) == IF v = NoValue THEN DEFAULT_FINETUNING ELSE v

(* The effect of useFinetuning for a new model: the running load is        *)
(* cancelled, the values shown stay until the next one is in.              *)
SwitchModel(m) ==
  /\ User("tuning") /\ modelId # m
  /\ modelId' = m /\ loaded' = FALSE
  /\ reads' = {[r EXCEPT !.cancelled = TRUE] : r \in reads}
              \cup {[model |-> m, cancelled |-> FALSE, value |-> Asked]}
  /\ UNCHANGED <<panel, kv, tuning, tform, saves, modelvars, stage, translatevars, devvars>>

(* loadFinetuning: the row is read; without a model, and when the read     *)
(* fails, there is none.                                                   *)
loadFinetuning(r) ==
  /\ r.value = Asked
  /\ \E v \in {NoValue} \cup {kv[m] : m \in {r.model} \ {NoModel}} :
       reads' = (reads \ {r}) \cup {[r EXCEPT !.value = parseFinetuning(v)]}
  /\ UNCHANGED <<panel, steps, kv, modelId, tuning, loaded, tform, saves, modelvars, stage,
                 translatevars, devvars>>

(* Mutant: a load of a model passed over is applied all the same. *)
LoadedLate(r) == TRUE

Wanted(r) == ~r.cancelled

(* The form is seeded again from the values that arrive. *)
TuningLoaded(r) ==
  /\ r.value # Asked
  /\ reads' = reads \ {r}
  /\ IF Wanted(r) THEN /\ tuning' = [of |-> r.model, value |-> r.value]
                       /\ loaded' = TRUE /\ tform' = r.value
                  ELSE UNCHANGED <<tuning, loaded, tform>>
  /\ UNCHANGED <<panel, steps, kv, modelId, saves, modelvars, stage, translatevars, devvars>>

applyPreset(v) == tform # v /\ tform' = v

EditTuning(v) ==
  /\ User("tuning") /\ applyPreset(v)
  /\ UNCHANGED <<panel, kv, modelId, tuning, loaded, reads, saves, modelvars, stage, translatevars, devvars>>

(* submit and resetDefaults: saveFinetuning for the model shown; without a *)
(* model nothing is written.                                               *)
SaveTuning(v) ==
  /\ User("tuning") /\ v \in {tform, DEFAULT_FINETUNING} /\ modelId # NoModel
  /\ saves' = saves \cup {[model |-> modelId, value |-> v, stored |-> FALSE]}
  /\ UNCHANGED <<panel, kv, modelId, tuning, loaded, tform, reads, modelvars, stage,
                 translatevars, devvars>>

(* kvSet returns whether or not the row was written.                       *)
TuningStored(w) ==
  /\ ~w.stored
  /\ kv' \in {kv, [kv EXCEPT ![w.model] = w.value]}
  /\ saves' = (saves \ {w}) \cup {[w EXCEPT !.stored = TRUE]}
  /\ UNCHANGED <<panel, steps, modelId, tuning, loaded, tform, reads, modelvars, stage,
                 translatevars, devvars>>

(* Mutant: the listener takes the values of any model. *)
ToldOfAny(w) == TRUE

(* onChange: the listener of the model shown takes the values saved for it *)
(* only.                                                                   *)
ToldOf(w) == w.model = modelId

(* notifyListeners, which seeds the form once more.                        *)
TuningTold(w) ==
  /\ w.stored
  /\ saves' = saves \ {w}
  /\ IF ToldOf(w) THEN /\ tuning' = [of |-> w.model, value |-> w.value]
                        /\ tform' = IF loaded THEN w.value ELSE tform
                   ELSE UNCHANGED <<tuning, tform>>
  /\ UNCHANGED <<panel, steps, kv, modelId, loaded, reads, modelvars, stage, translatevars,
                 devvars>>

(* ---- SettingsConnectionPanel.tsx: refreshModels ---- *)
EditEndpoint(e) ==
  /\ User("models") /\ endpoint # e /\ endpoint' = e
  /\ lists' = lists \cup {[n |-> steps, endpoint |-> e, chosen |-> chosen]}
  /\ UNCHANGED <<panel, tuningvars, models, chosen, stage, translatevars, devvars>>

ChooseModel(m) ==
  /\ User("models") /\ m \in models /\ chosen # m /\ chosen' = m
  /\ lists' = lists \cup {[n |-> steps, endpoint |-> endpoint, chosen |-> m]}
  /\ UNCHANGED <<panel, tuningvars, models, endpoint, stage, translatevars, devvars>>

(* Lists come back in any order, and the last to come is shown; a model    *)
(* the list does not offer is unset, as the request knew it.               *)
ModelsListed(q) ==
  /\ lists' = lists \ {q}
  /\ \E ids \in SUBSET Models :
       /\ models' = ids
       /\ chosen' = IF ids # {} /\ q.chosen \notin ids THEN NoModel ELSE chosen
  /\ UNCHANGED <<panel, steps, tuningvars, endpoint, stage, translatevars, devvars>>

(* ---- SettingsPermissionsPanel.tsx, rpc.ts getMyPermissions ---- *)
(* Without a role, and on an error of the bus, there is no matrix.         *)
getMyPermissions == {"error", "ready"}

Permissions ==
  /\ panel = "permissions" /\ stage = "loading"
  /\ stage' \in getMyPermissions
  /\ UNCHANGED <<panel, steps, tuningvars, modelvars, translatevars, devvars>>

(* ---- TranslatePanel.tsx ---- *)
EditSource(t) ==
  /\ User("translate") /\ source # t /\ source' = t
  /\ UNCHANGED <<panel, tuningvars, modelvars, stage, target, busy, asked, devvars>>

translate ==
  /\ User("translate") /\ source # NoValue /\ ~busy
  /\ busy' = TRUE /\ asked' = source
  /\ UNCHANGED <<panel, tuningvars, modelvars, stage, source, target, devvars>>

Translated ==
  /\ busy /\ busy' = FALSE /\ asked' = NoValue
  /\ target' \in {target, asked}
  /\ UNCHANGED <<panel, steps, tuningvars, modelvars, stage, source, devvars>>

(* The button waits for a named source language, which can be picked at    *)
(* any time.                                                               *)
swap ==
  /\ User("translate")
  /\ source' = target /\ target' = source
  /\ UNCHANGED <<panel, tuningvars, modelvars, stage, busy, asked, devvars>>

(* ---- the dev agent ---- *)
(* Each window lists for its messages the run they are of; a stream of     *)
(* tokens is one message.                                                  *)
Started(w, r) == [w EXCEPT !.busy = TRUE, !.msgs = Append(@, [kind |-> "user", of |-> r])]

\* The input bar: disabled while its window is busy.
Idle(w) == ~w.busy /\ w.mounted

DevSend(w) ==
  /\ User("dev") /\ Cardinality(runs) < MaxRuns /\ Idle(w)
  /\ LET r == [n |-> steps, by |-> w.name]
     IN /\ runs' = runs \cup {r}
        /\ IF w = tab THEN tab' = Started(tab, steps) /\ UNCHANGED column
                      ELSE column' = Started(column, steps) /\ UNCHANGED tab
  /\ UNCHANGED <<panel, tuningvars, modelvars, stage, translatevars>>

Stream(msgs, kinds, r) ==
  IF msgs # <<>> /\ Last(msgs).kind \in kinds THEN msgs
  ELSE Append(msgs, [kind |-> "token", of |-> r])

(* dev_event goes to both windows, whoever started the run. The column     *)
(* appends to its last bubble, and an answer replaces the bubble.          *)
Streamed(w, kinds, r) == IF w.mounted THEN [w EXCEPT !.msgs = Stream(@, kinds, r)] ELSE w
DevToken(r) ==
  /\ tab' = Streamed(tab, {"token"}, r.n)
  /\ column' = Streamed(column, {"token", "answer"}, r.n)
  /\ UNCHANGED <<panel, steps, runs, tuningvars, modelvars, stage, translatevars>>

Answered(msgs, r) == Append(msgs, [kind |-> "answer", of |-> r])
Front1(msgs) == IF msgs # <<>> /\ Last(msgs).kind # "user" THEN Front(msgs) ELSE msgs

EndsBusy(w) == [w EXCEPT !.busy = FALSE]

DevEnds(r) ==
  /\ runs' = runs \ {r}
  /\ tab' = IF tab.mounted THEN [EndsBusy(tab) EXCEPT !.msgs = Answered(@, r.n)] ELSE tab
  /\ column' = [EndsBusy(column) EXCEPT !.msgs = Answered(Front1(@), r.n)]
  /\ UNCHANGED <<panel, steps, tuningvars, modelvars, stage, translatevars>>

(* Leaving the tab drops its messages and its busy flag. *)
ToggleTab ==
  /\ User("dev")
  /\ tab' = [tab EXCEPT !.mounted = ~@, !.busy = FALSE, !.msgs = <<>>]
  /\ UNCHANGED <<panel, tuningvars, modelvars, stage, translatevars, runs, column>>

ClearColumn ==
  /\ User("dev") /\ column' = [column EXCEPT !.msgs = <<>>]
  /\ UNCHANGED <<panel, tuningvars, modelvars, stage, translatevars, runs, tab>>

Init ==
  /\ panel \in {"tuning", "models", "permissions", "translate", "dev"} /\ steps = 0
  /\ kv \in [Models -> Values \cup {NoValue}]
  /\ modelId = NoModel /\ tuning = [of |-> NoModel, value |-> DEFAULT_FINETUNING]
  /\ loaded = FALSE /\ tform = DEFAULT_FINETUNING
  /\ reads = {[model |-> NoModel, cancelled |-> FALSE, value |-> Asked]} /\ saves = {}
  /\ models = {} /\ chosen = NoModel /\ endpoint = 0 /\ lists = {}
  /\ stage = "loading"
  /\ source = NoValue /\ target = NoValue /\ busy = FALSE /\ asked = NoValue
  /\ runs = {} /\ tab = [name |-> "tab", mounted |-> FALSE, busy |-> FALSE, msgs |-> <<>>]
  /\ column = [name |-> "column", mounted |-> TRUE, busy |-> FALSE, msgs |-> <<>>]

Next ==
  \/ \E m \in Models \cup {NoModel} : SwitchModel(m)
  \/ \E r \in reads : loadFinetuning(r) \/ TuningLoaded(r)
  \/ \E w \in saves : TuningStored(w) \/ TuningTold(w)
  \/ \E v \in Values : EditTuning(v) \/ SaveTuning(v) \/ EditSource(v)
  \/ \E e \in 0..1 : EditEndpoint(e)
  \/ \E m \in Models : ChooseModel(m)
  \/ \E q \in lists : ModelsListed(q)
  \/ Permissions \/ translate \/ Translated \/ swap \/ ToggleTab \/ ClearColumn
  \/ DevSend(tab) \/ DevSend(column)
  \/ \E r \in runs : DevToken(r) \/ DevEnds(r)

Spec == Init /\ [][Next]_tools

(* Once loaded, the values the finetuning panel shows are those of the     *)
(* model it names, however the loads and the saves of the models passed    *)
(* through came back (the cancelled flag of useFinetuning and the id check *)
(* of its listener).                                                       *)
TuningOfItsModel == loaded => tuning.of = modelId

(* No window of the dev agent is left waiting when no run is under way:    *)
(* the end of a run reaches the window that started it, also when the      *)
(* other window was answered in between (dev_event of DevPanel.tsx and     *)
(* useDevChat).                                                            *)
NobodyWaitsForNothing == runs = {} => ~tab.busy /\ ~column.busy
================================================================================

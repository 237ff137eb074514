-------------------------- MODULE DesignerSettings --------------------------
(***************************************************************************)
(* The designer's settings (apps/oosd/src/mainview): store/settings.ts     *)
(* gives every component its own copy, loaded when it mounts and replaced  *)
(* when a save is announced; SettingsPanel.tsx shows one section at a time *)
(* and saves its fields on top of its copy; Footer.tsx pings the LLM its   *)
(* copy names, and the bus.                                                *)
(*                                                                         *)
(* A setting is a number: Empty, 1 its default, or a later text.  The base *)
(* URL of the LLM and its key are one setting, "endpoint".                 *)
(***************************************************************************)
EXTENDS Naturals

CONSTANTS MaxEdits, MaxSaves, MaxMounts, MaxPings, MaxLists

Keys == {"natsUrl", "endpoint", "llmModel", "dbUrl"}
Indicators == {"natsUrl", "endpoint"}
Consumers == {"footer", "section"}
Empty == 0
DEFAULT_OOSD_SETTINGS == [k \in Keys |-> IF k = "llmModel" THEN Empty ELSE 1]

\* SECTIONS and the settings each edits.  Without a section the panel is closed,
\* or shows the installation or the logs.
Sections == {"connection", "llm", "database"}
NoSection == "none"
Fields(s) ==
  CASE s = "connection" -> {"natsUrl"}
    [] s = "llm" -> {"endpoint", "llmModel"}
    [] s = "database" -> {"dbUrl"}

\* "Hardcoded for now": the bus the window talks to, which no setting names.
WS_URL == MaxEdits + 1

VARIABLES
  file,                  \* settings.json
  copy, loadedOf,        \* useOosdSettings of each consumer: settings, loaded
  loads,                 \* loadSettings calls: whose, for which mount, the answer
  section, form,         \* the section shown, and its fields as edited
  saves,                 \* saveOosdSettings calls
  models, listing,       \* LlmContent: the list shown, of which endpoint; those asked
  seen,                  \* Footer: what its effects last ran for
  ping, health,          \* its pings under way, and whom the last answer was from
  mounts, edits, saved, pinged, lists   \* bounds

designerSettings == << file, copy, loadedOf, loads, section, form, saves, models, listing,
                       seen, ping, health, mounts, edits, saved, pinged, lists >>

panel == << section, form, models, listing, mounts, edits, lists >>
footer == << seen, ping, health, pinged >>

Load(c, n) == [of |-> c, mount |-> n, answered |-> FALSE, value |-> DEFAULT_OOSD_SETTINGS]
NoModels == [ids |-> << >>, loading |-> FALSE]

Init ==
  /\ file \in {DEFAULT_OOSD_SETTINGS, [k \in Keys |-> 2]}
  /\ copy = [c \in Consumers |-> DEFAULT_OOSD_SETTINGS]
  /\ loadedOf = [c \in Consumers |-> FALSE]
  /\ loads = {Load("footer", 0)}
  /\ section = NoSection /\ form = DEFAULT_OOSD_SETTINGS
  /\ saves = {}
  /\ models = NoModels /\ listing = {}
  /\ seen = [loaded |-> FALSE, settings |-> DEFAULT_OOSD_SETTINGS]
  /\ ping = {} /\ health = [k \in Indicators |-> Empty]
  /\ mounts = 0 /\ edits = 2 /\ saved = 0 /\ pinged = 0 /\ lists = 0

-----------------------------------------------------------------------------
\* The sections' effects: a field follows the copy when the copy's value changed
\* (the LLM section: when it was replaced at all).
Follow(old, new) ==
  IF section = NoSection THEN form
  ELSE [k \in Keys |-> IF k \in Fields(section) /\ (section = "llm" \/ new[k] # old[k])
                       THEN new[k] ELSE form[k]]

\* A section is opened: its content mounts with the defaults and no model list,
\* and loads; lists still asked for go nowhere.
Open ==
  /\ mounts < MaxMounts
  /\ mounts' = mounts + 1
  /\ \E s \in (Sections \cup {NoSection}) \ {section} :
       /\ section' = s
       /\ loads' = IF s = NoSection THEN loads ELSE loads \cup {Load("section", mounts + 1)}
  /\ form' = DEFAULT_OOSD_SETTINGS
  /\ copy' = [copy EXCEPT !["section"] = DEFAULT_OOSD_SETTINGS]
  /\ loadedOf' = [loadedOf EXCEPT !["section"] = FALSE]
  /\ models' = NoModels /\ listing' = {}
  /\ UNCHANGED << file, saves, edits, saved, lists, footer >>

\* loadSettings reads the file, or falls back to the defaults.
Answer ==
  /\ \E q \in loads, ok \in BOOLEAN :
       /\ ~q.answered
       /\ loads' = (loads \ {q}) \cup
            {[q EXCEPT !.answered = TRUE, !.value = IF ok THEN file ELSE DEFAULT_OOSD_SETTINGS]}
  /\ UNCHANGED << file, copy, loadedOf, saves, saved, panel, footer >>

\* The answer reaches its hook, unless that has been unmounted.
Loaded ==
  /\ \E q \in loads :
       /\ q.answered
       /\ loads' = loads \ {q}
       /\ IF q.of = "section" /\ q.mount # mounts
          THEN UNCHANGED << copy, loadedOf, form >>
          ELSE /\ copy' = [copy EXCEPT ![q.of] = q.value]
               /\ loadedOf' = [loadedOf EXCEPT ![q.of] = TRUE]
               /\ form' = IF q.of = "section" THEN Follow(copy["section"], q.value) ELSE form
  /\ UNCHANGED << file, section, saves, models, listing, mounts, edits, saved, lists, footer >>

\* A field is changed or emptied; a model is chosen from a list.
Edit ==
  /\ section # NoSection /\ edits < MaxEdits
  /\ edits' = edits + 1
  /\ \E k \in Fields(section) :
       /\ k = "llmModel" => models.ids # << >> /\ ~models.loading
       /\ \E v \in {Empty, edits + 1} : form' = [form EXCEPT ![k] = v]
  /\ UNCHANGED << file, copy, loadedOf, loads, section, saves, models, listing, mounts, saved,
                  lists, footer >>

\* handleSave: the section's fields on top of its copy, loaded or not.  "Saved" is
\* shown without waiting.
Save ==
  /\ section # NoSection /\ saved < MaxSaves
  /\ saved' = saved + 1
  /\ saves' = saves \cup
       {[n |-> saved, stored |-> FALSE,
         next |-> [k \in Keys |-> IF k \in Fields(section) THEN form[k] ELSE copy["section"][k]]]}
  /\ UNCHANGED << file, copy, loadedOf, loads, panel, footer >>

\* rpc.saveSettings writes the file, or fails and nobody is told.
Written ==
  /\ \E q \in saves, ok \in BOOLEAN :
       /\ ~q.stored
       /\ file' = IF ok THEN q.next ELSE file
       /\ saves' = (saves \ {q}) \cup (IF ok THEN {[q EXCEPT !.stored = TRUE]} ELSE {})
  /\ UNCHANGED << copy, loadedOf, loads, saved, panel, footer >>

\* notifyListeners: every copy that is mounted is replaced, loaded or not.
Announced ==
  /\ \E q \in saves :
       /\ q.stored
       /\ saves' = saves \ {q}
       /\ copy' = [c \in Consumers |->
                     IF c = "section" /\ section = NoSection THEN copy[c] ELSE q.next]
       /\ form' = Follow(copy["section"], q.next)
  /\ UNCHANGED << file, loadedOf, loads, section, models, listing, mounts, edits, saved, lists,
                  footer >>

-----------------------------------------------------------------------------
\* refreshModels: the debounce fires for the fields as they are.
ListModels ==
  /\ section = "llm" /\ form["endpoint"] \notin listing /\ lists < MaxLists
  /\ lists' = lists + 1
  /\ listing' = listing \cup {form["endpoint"]}
  /\ models' = [models EXCEPT !.loading = TRUE]
  /\ UNCHANGED << file, copy, loadedOf, loads, section, form, saves, mounts, edits, saved,
                  footer >>

\* A list arrives, of whichever endpoint, and blanks a chosen model that is not on
\* it; a failure empties the list.
ModelsListed ==
  /\ \E r \in listing, ok, chosenIsListed \in BOOLEAN :
       /\ listing' = listing \ {r}
       /\ models' = [ids |-> IF ok THEN << r >> ELSE << >>, loading |-> FALSE]
       /\ form' = IF ok /\ ~chosenIsListed THEN [form EXCEPT !["llmModel"] = Empty] ELSE form
  /\ UNCHANGED << file, copy, loadedOf, loads, section, saves, mounts, edits, saved, lists,
                  footer >>

-----------------------------------------------------------------------------
\* Footer.  The dependencies of its two effects: loaded and the URL of each.
Now == [loaded |-> loadedOf["footer"], settings |-> copy["footer"]]

Due(k) == seen.loaded # Now.loaded \/ seen.settings[k] # Now.settings[k]

\* pingNats ignores the URL it is given; listModels asks the endpoint it is given.
Asked(k) == IF k = "natsUrl" THEN WS_URL ELSE Now.settings[k]

NewPings == {[of |-> k, url |-> Asked(k), n |-> pinged + 1] :
               k \in {i \in Indicators : Due(i) /\ Now.loaded /\ Now.settings[i] # Empty}}

\* Mutant: the pings of the old URL go on.
EffectsKeepPings ==
  /\ \E k \in Indicators : Due(k)
  /\ seen' = Now
  /\ ping' = ping \cup NewPings
  /\ pinged' = pinged + 1
  /\ UNCHANGED << file, copy, loadedOf, loads, saves, saved, health, panel >>

\* The passive effects, some time after the render that changed a dependency: the
\* pings of the old URL are cancelled, and the new one is pinged at once.
Effects ==
  /\ \E k \in Indicators : Due(k)
  /\ seen' = Now
  /\ ping' = {p \in ping : ~Due(p.of)} \cup NewPings
  /\ pinged' = pinged + 1
  /\ UNCHANGED << file, copy, loadedOf, loads, saves, saved, health, panel >>

\* The interval of an effect, which asks what it asked before.
Ping ==
  /\ pinged < MaxPings
  /\ pinged' = pinged + 1
  /\ \E k \in Indicators :
       /\ seen.loaded /\ seen.settings[k] # Empty
       /\ ping' = ping \cup {[of |-> k, n |-> pinged + 1,
                              url |-> IF k = "natsUrl" THEN WS_URL ELSE seen.settings[k]]}
  /\ UNCHANGED << file, copy, loadedOf, loads, saves, saved, seen, health, panel >>

\* A ping that was not cancelled comes back, well or not, and is shown.
Pong ==
  /\ \E p \in ping : ping' = ping \ {p} /\ health' = [health EXCEPT ![p.of] = p.url]
  /\ UNCHANGED << file, copy, loadedOf, loads, saves, saved, seen, pinged, panel >>

Next ==
  \/ Open \/ Answer \/ Loaded \/ Edit \/ Save \/ Written \/ Announced
  \/ ListModels \/ ModelsListed \/ Effects \/ Ping \/ Pong

Spec == Init /\ [][Next]_designerSettings

-----------------------------------------------------------------------------
\* The health the footer shows beside the LLM is of the endpoint it names, or is
\* about to be replaced: the effect for a new endpoint is due, or has asked it and
\* waits; and whatever is still awaited then is of that endpoint, so that no late
\* answer of an older one replaces it.  (An endpoint that was emptied is not asked,
\* and the old health stays.)
HealthOfTheUrl ==
  ~Due("endpoint") /\ Now.loaded /\ Now.settings["endpoint"] # Empty =>
    LET awaited == {p \in ping : p.of = "endpoint"}
    IN /\ \A p \in awaited : p.url = Now.settings["endpoint"]
       /\ health["endpoint"] = Now.settings["endpoint"] \/ awaited # {}
=============================================================================

------------------------------ MODULE TabWorkspace ------------------------------
(***************************************************************************)
(* The tab workspace of the oos webview: the module-level store            *)
(* (store/tabs.ts) that every menu entry, palette action, hotkey and chat  *)
(* reply mutates, the rail that shows it, and the one panel that React     *)
(* keeps mounted for the active tab (TabContent.tsx).                      *)
(*                                                                         *)
(* A tab is <<kind, arg, n>>: kind and arg spell the id prefix, n is the   *)
(* Date.now() suffix of the tabs that carry one (a fresh number: two user  *)
(* actions never fall into one millisecond) and 0 for the others.          *)
(***************************************************************************)
EXTENDS Naturals, FiniteSets, Sequences

CONSTANTS Panels,     \* the settings panels, in rail order, never empty
          Topics,     \* the documentation topics that have a body, in order
          Turns,      \* turn ids the activity list offers
          Records,    \* ids of records a result list can open
          Streams,    \* streams the manager and the palette can open
          MaxTabs,    \* bound: tabs open at a time
          MaxStamp    \* bound: tabs that carry a timestamp, per behaviour

VARIABLES loggedIn,   \* App's state: the workspace is mounted after the login
          groups,     \* TabsSnapshot.groups: kinds and their tabs, in rail order
          activeId,   \* TabsSnapshot.activeId
          stamp,      \* the last Date.now() handed out
          body,       \* the tab whose data the mounted panel instance holds
          loads       \* turns whose loadTurn call has not answered

vars == <<loggedIn, groups, activeId, stamp, body, loads>>

None == <<"none", "", 0>>

Id(kind, arg) == <<kind, arg, 0>>

Group(kind, tabs) == [kind |-> kind, tabs |-> tabs]

(* ---- Group factories: every group opens with its fixed tabs. ---- *)
welcomeGroup == Group("welcome", <<Id("welcome", "")>>)
docsGroup == Group("docs", [i \in 1..Len(Topics) |-> Id("doc", Topics[i])])
settingsGroup == Group("settings", [i \in 1..Len(Panels) |-> Id("settings", Panels[i])])
activityGroup == Group("activity", <<Id("activity", "list")>>)
historyGroup == Group("history", <<Id("history", "chats")>>)

(* The two displacement flags depend on the group's kind alone. *)
DisplaceOnNewActivity == {"welcome", "docs"}
DisplaceOnDocsOpen == {"welcome", "results"}

Kinds(gs) == {gs[i].kind : i \in DOMAIN gs}
Elements(s) == {s[i] : i \in DOMAIN s}
TabsOf(gs) == UNION {Elements(gs[i].tabs) : i \in DOMAIN gs}

(* filter: what a sequence has at the positions in I, in its order. The    *)
(* j-th element of the result is the one with j positions of I up to it.   *)
Rank(I, i) == Cardinality({k \in I : k <= i})
Filter(s, I) == [j \in 1..Cardinality(I) |-> s[CHOOSE i \in I : Rank(I, i) = j]]

Without(gs, kinds) == Filter(gs, {i \in DOMAIN gs : gs[i].kind \notin kinds})
NonEmpty(gs) == Filter(gs, {i \in DOMAIN gs : gs[i].tabs # <<>>})

(* ensureWelcome: with no tab left the Welcome group comes back; an empty  *)
(* group is dropped, and only then is the active tab checked.              *)
EnsureWelcome(gs, active) ==
  LET empty == {i \in DOMAIN gs : gs[i].tabs = <<>>}
      kept == NonEmpty(gs)
  IN IF empty = DOMAIN gs THEN [groups |-> <<welcomeGroup>>, active |-> Id("welcome", "")]
     ELSE IF empty = {} THEN [groups |-> gs, active |-> active]
     ELSE [groups |-> kept,
           active |-> IF active \in TabsOf(kept) THEN active ELSE Head(kept[1].tabs)]

(* ---- The mounted panel. TabContent picks the component by the kind of   *)
(* the active tab: React keeps the instance, and what it holds, while the  *)
(* kind stays the same, unless the element carries a key.                  *)
Shown(gs, active) == IF loggedIn /\ active \in TabsOf(gs) THEN active ELSE None

PanelKind(tab) == IF tab[1] \in {"settings", "activity", "pipeline"}
                    THEN <<tab[1], tab[2]>> ELSE <<tab[1]>>
Keyed(tab) == tab[1] = "run" \/ tab = Id("settings", "translate")
Reused(old, new) == PanelKind(old) = PanelKind(new) /\ ~Keyed(new)

(* A turn inspector shows a spinner until its record is read; the others   *)
(* take what they show from the tab's payload when they mount.             *)
Mounted(new) == IF new[1] = "turn" THEN None ELSE new

(* useEffect(.., [turnId]): a new id starts a read and cancels the last.   *)
(* Two reads of one turn bring the same row, so they count as one.         *)
Render(old, new) ==
  /\ body' = IF old = new \/ Reused(old, new) THEN body ELSE Mounted(new)
  /\ loads' = IF new # old /\ new[1] = "turn" THEN loads \cup {new} ELSE loads

SetState(gs, active) ==
  LET next == EnsureWelcome(gs, active) IN
  /\ groups' = next.groups
  /\ activeId' = next.active
  /\ Render(Shown(groups, activeId), Shown(next.groups, next.active))
  /\ UNCHANGED loggedIn

Open(id) == id \in TabsOf(groups)
Focus(id) == SetState(groups, id) /\ UNCHANGED stamp

AppendTo(gs, kind, tab) ==
  [i \in 1..Len(gs) |-> IF gs[i].kind = kind
                        THEN Group(kind, Append(gs[i].tabs, tab)) ELSE gs[i]]

(* A group that is not open joins the rail at its end, without Welcome.    *)
WithGroup(g) == Append(Without(groups, {"welcome"}), g)

(* ---- Openers ---- *)
ShowWelcome == SetState(<<welcomeGroup>>, Id("welcome", "")) /\ UNCHANGED stamp

(* An open group is not looked into: its tab may have been closed. *)
OpenGroup(g, target) ==
  /\ IF g.kind \in Kinds(groups) THEN SetState(groups, target)
                                 ELSE SetState(WithGroup(g), target)
  /\ UNCHANGED stamp

OpenSettings(panel) == OpenGroup(settingsGroup, Id("settings", panel))
OpenActivityList == OpenGroup(activityGroup, Id("activity", "list"))
OpenChatHistory == OpenGroup(historyGroup, Id("history", "chats"))

OpenActivityDetail(turn) ==
  LET id == Id("turn", turn) IN
  IF Open(id) THEN Focus(id)
  ELSE /\ SetState(IF "activity" \in Kinds(groups)
                     THEN AppendTo(groups, "activity", id)
                     ELSE WithGroup(Group("activity", Append(activityGroup.tabs, id))),
                   id)
       /\ UNCHANGED stamp

(* Tools that live in the settings group; opened first, they are alone in  *)
(* it: the settings panels themselves are not added.                       *)
OpenTool(tool) ==
  LET id == Id("settings", tool) IN
  IF Open(id) THEN Focus(id)
  ELSE /\ SetState(IF "settings" \in Kinds(groups)
                     THEN AppendTo(groups, "settings", id)
                     ELSE WithGroup(Group("settings", <<id>>)), id)
       /\ UNCHANGED stamp

OpenStreamManager == OpenTool("streams")
OpenNewEvent == OpenTool("new-event")
OpenTranslate == OpenTool("translate")

OpenDev ==
  LET id == Id("dev", "agent") IN
  IF Open(id) THEN Focus(id)
  ELSE SetState(WithGroup(Group("dev", <<id>>)), id) /\ UNCHANGED stamp

OpenDocs ==
  /\ SetState(Append(Without(groups, {"docs"} \cup DisplaceOnDocsOpen), docsGroup),
              Head(docsGroup.tabs))
  /\ UNCHANGED stamp

(* A result sweeps guidance away and joins the results group. *)
AddResult(id) ==
  LET kept == Without(groups, DisplaceOnNewActivity)
  IN SetState(IF "results" \in Kinds(kept) THEN AppendTo(kept, "results", id)
              ELSE Append(kept, Group("results", <<id>>)), id)

FocusOrAdd(id) == /\ IF Open(id) THEN SetState(groups, id) ELSE AddResult(id)
                  /\ UNCHANGED stamp

OpenStreamDetail(s) == FocusOrAdd(Id("stream", s))
OpenPipelineList == FocusOrAdd(Id("pipeline", "list"))
AddDslDetail(r) == FocusOrAdd(Id("detail", r))

Stamped(kind) == /\ stamp < MaxStamp
                 /\ stamp' = stamp + 1
                 /\ AddResult(<<kind, "", stamp + 1>>)

AddGraphqlResult == Stamped("graphql")
AddEventResult == Stamped("event")
AddAskResult == Stamped("ask")
AddNewDetail == Stamped("detail_new")
OpenPipelineRun == Stamped("run")

(* ---- The rail ---- *)
SetActive(id) == Open(id) /\ Focus(id)

(* A link between two topics: nothing happens if the other tab is closed.  *)
NavigateToDocTab(topic) == Shown(groups, activeId)[1] = "doc" /\ SetActive(Id("doc", topic))

(* Mutant: the successor is looked up behind the closed tab only.          *)
NearestSurvivorAfter(g, p) ==
  CASE p < Len(groups[g].tabs) -> groups[g].tabs[p + 1]
    [] g < Len(groups)         -> groups[g + 1].tabs[1]
    [] OTHER                   -> None

(* nearestSurvivor: the tab after the closed one in the rail, else the one *)
(* before; no group is empty.                                              *)
NearestSurvivor(g, p) ==
  CASE p < Len(groups[g].tabs) -> groups[g].tabs[p + 1]
    [] p = Len(groups[g].tabs) /\ g < Len(groups) -> groups[g + 1].tabs[1]
    [] p = Len(groups[g].tabs) /\ g = Len(groups) /\ p > 1 -> groups[g].tabs[p - 1]
    [] p = 1 /\ p = Len(groups[g].tabs) /\ g = Len(groups) /\ g > 1 ->
         groups[g - 1].tabs[Len(groups[g - 1].tabs)]
    [] OTHER -> None

(* The code looks for the id in every group; it is in one place.           *)
CloseTab(g, p) ==
  LET id == groups[g].tabs[p]
      Others(tabs) == Filter(tabs, {i \in DOMAIN tabs : tabs[i] # id})
      rest == NonEmpty([i \in DOMAIN groups |->
                          Group(groups[i].kind, Others(groups[i].tabs))])
  IN /\ id # Id("welcome", "")
     /\ SetState(rest, IF activeId = id THEN NearestSurvivor(g, p) ELSE activeId)
     /\ UNCHANGED stamp

(* Mutant: the effect does not cancel the read of the tab it left.         *)
LoadTurnUncancelled(tab) ==
  /\ tab \in loads
  /\ loads' = loads \ {tab}
  /\ body' = IF Shown(groups, activeId)[1] = "turn" THEN tab ELSE body
  /\ UNCHANGED <<loggedIn, groups, activeId, stamp>>

(* loadTurn answers: a read whose tab is no longer shown was cancelled.    *)
LoadTurn(tab) ==
  /\ tab \in loads
  /\ loads' = loads \ {tab}
  /\ body' = IF tab = Shown(groups, activeId) THEN tab ELSE body
  /\ UNCHANGED <<loggedIn, groups, activeId, stamp>>

(* App mounts the workspace after the login and drops it at the logout; the *)
(* store is a module-level variable and stays as it is.                    *)
LogIn ==
  /\ ~loggedIn
  /\ loggedIn' = TRUE
  /\ Render(None, IF activeId \in TabsOf(groups) THEN activeId ELSE None)
  /\ UNCHANGED <<groups, activeId, stamp>>

LogOut == /\ loggedIn
          /\ loggedIn' = FALSE
          /\ body' = None
          /\ UNCHANGED <<groups, activeId, stamp, loads>>

Init == /\ loggedIn = FALSE
        /\ groups = <<welcomeGroup>>
        /\ activeId = Id("welcome", "")
        /\ stamp = 0
        /\ body = None
        /\ loads = {}

Bounded == Cardinality(TabsOf(groups')) <= MaxTabs

(* The palette is mounted beside the workspace, so it works before the     *)
(* login too; its stream entries are there once listAllStreams answered.   *)
Palette == \/ ShowWelcome
           \/ \E i \in DOMAIN Panels : OpenSettings(Panels[i])
           \/ OpenActivityList
           \/ OpenChatHistory
           \/ OpenStreamManager
           \/ OpenNewEvent
           \/ OpenDocs
           \/ \E s \in Streams : OpenStreamDetail(s)

(* What the header's menu, the mode switch, the chat and the panels add.   *)
Menu == /\ loggedIn
        /\ \/ OpenTranslate
           \/ OpenDev
           \/ OpenPipelineList

Results == /\ loggedIn
           /\ \/ AddGraphqlResult
              \/ AddEventResult
              \/ AddAskResult
              \/ AddNewDetail
              \/ OpenPipelineRun
              \/ \E t \in Turns : OpenActivityDetail(t)
              \/ \E r \in Records : AddDslDetail(r)

Rail == /\ loggedIn
        /\ \/ \E g \in DOMAIN groups : \E p \in DOMAIN groups[g].tabs :
                SetActive(groups[g].tabs[p]) \/ CloseTab(g, p)
           \/ \E i \in 1..Len(Topics) : NavigateToDocTab(Topics[i])

Next == \/ Palette /\ Bounded
        \/ Menu /\ Bounded
        \/ Results /\ Bounded
        \/ Rail
        \/ \E tab \in loads : LoadTurn(tab)
        \/ LogIn
        \/ LogOut

Spec == Init /\ [][Next]_vars

---------------------------------------------------------------------------------
(* Every opener decides by id or by kind whether to focus or to add; in    *)
(* whatever order they are used, the rail holds no group and no id twice   *)
(* (React keys and closeTab rely on it), no group is empty, and Welcome is *)
(* there exactly when nothing else is.                                     *)
RailWellFormed ==
  /\ groups # <<>>
  /\ \A i, j \in DOMAIN groups :
       /\ groups[i].kind = groups[j].kind => i = j
       /\ \A p \in DOMAIN groups[i].tabs, q \in DOMAIN groups[j].tabs :
            groups[i].tabs[p] = groups[j].tabs[q] => i = j /\ p = q
  /\ \A i \in DOMAIN groups : groups[i].tabs # <<>>
  /\ "welcome" \in Kinds(groups) <=> Len(groups) = 1 /\ groups[1] = welcomeGroup

(* The content column goes blank only because a settings panel or the      *)
(* activity list was asked for after its tab had been closed in a group    *)
(* that is still open: no close, displacement, reopening or relogin leads  *)
(* there.                                                                  *)
BlankStep ==
  (activeId \in TabsOf(groups)) /\ activeId' \notin TabsOf(groups')
     => /\ groups' = groups
        /\ activeId' \in Elements(settingsGroup.tabs) \cup Elements(activityGroup.tabs)

(* Settings, history, activity and dev are parallel workspaces: a step     *)
(* that takes one of their tabs away closed exactly that tab, or went home.*)
Workspace(gs) == UNION {Elements(gs[i].tabs) : i \in
                   {j \in DOMAIN gs : gs[j].kind \in {"settings", "history", "activity", "dev"}}}

WorkspaceStep ==
  \A tab \in Workspace(groups) \ Workspace(groups') :
     \/ groups' = <<welcomeGroup>>
     \/ TabsOf(groups) \ TabsOf(groups') = {tab}

(* The turn inspector is one instance for all turn tabs, and reads come    *)
(* back after the user moved on: once no read for the shown tab is         *)
(* outstanding it shows that tab's turn, also after a logout in between.   *)
InspectorShowsItsTurn ==
  LET tab == Shown(groups, activeId) IN
  tab[1] = "turn" /\ tab \notin loads => body = tab
=================================================================================

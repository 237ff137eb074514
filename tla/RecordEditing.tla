------------------------------ MODULE RecordEditing ------------------------------
(***************************************************************************)
(* Records in the oos webview: a list tab (ViewRenderer.tsx) and the       *)
(* detail tabs it opens (DetailRenderer.tsx), of which React keeps only    *)
(* the active one mounted. Each mount, prop change and refresh starts a    *)
(* stamped load; saves and deletes go to oosgql and come back later, on    *)
(* whatever is mounted by then. domain-events.ts tells the list.           *)
(*                                                                         *)
(* A record is its id and one text. oosgql answers a read from its table,  *)
(* may fail, and runs or refuses a mutation (DomainCache is about which);  *)
(* the answer to one it ran may be lost.                                   *)
(***************************************************************************)
EXTENDS Integers, FiniteSets

CONSTANTS Texts,       \* what a user can type, "" among them
          MaxId,       \* bound: ids 1..MaxId
          MaxStamp,    \* bound: loads per behaviour
          MaxMutations \* bound: saves and deletes per behaviour

Ids == 1..MaxId
New == 0               \* the tab of a record that has no id yet
List == -1             \* the list tab
None == -2
Gone == "gone"         \* no such row
Null == "null"         \* a row whose text column is NULL

VARIABLES auto,       \* the list's view declares auto_refresh on its own domain's changes
          table,      \* oosgql: the row of every id
          nextId,     \* oosgql: the id the next insert gets
          open,       \* the detail tabs of the rail
          stub,       \* TabPayload.data: the list row a detail tab was opened with
          shown,      \* the active tab
          stamp,      \* stampRef of the mounted renderer
          inst,       \* which DetailRenderer instance is mounted, by its first stamp
          stage,      \* Stage.kind
          rows,       \* list: the rows of the ready stage
          form,       \* detail: the ViewState of the ready stage
          savedAt,    \* detail: the record whose save stamped "Gespeichert um"
          loads,      \* loads in flight
          mutations,  \* saves and deletes in flight
          sent,       \* how many of them were sent
          missed      \* history: a change the list shown could not learn of

server == <<auto, table, nextId>>
screen == <<open, stub, shown, stamp, inst, stage, rows, form, savedAt>>
vars == <<server, screen, loads, mutations, sent, missed>>

(* loadEnvelope flattens the row into strings: NULL becomes "". *)
LoadEnvelope(id, text) == [id |-> id, text |-> IF text \in {Null, Gone} THEN "" ELSE text]
EmptyForm == LoadEnvelope(New, Null)

(* The load effect of both renderers: the stage is loading, the stamp is   *)
(* new and the requests go out. A change from one detail tab to another    *)
(* keeps the instance, any other change of the tab mounts a new one.       *)
Mount(tab, tabs) ==
  /\ shown' = tab
  /\ open' = tabs
  /\ stamp' = stamp + 1
  /\ inst' = IF shown # List /\ tab # List THEN inst ELSE stamp + 1
  /\ stage' = "loading"
  /\ form' = EmptyForm
  /\ savedAt' = None
  /\ loads' = loads \cup {[stamp |-> stamp + 1, tab |-> tab, st |-> "sent", rows |-> [i \in Ids |-> Gone]]}
  /\ missed' = (tab # List /\ missed)
  /\ stamp < MaxStamp

Ready(tabs) == stage = "ready" /\ shown \in tabs

(* ---- List: row click, toolbar, refresh ---- *)
HandleAction(id) ==
  /\ Ready({List}) /\ rows[id] # Gone
  /\ Mount(id, open \cup {id})
  /\ stub' = IF id \in open THEN stub ELSE [stub EXCEPT ![id] = rows[id]]
  /\ UNCHANGED <<server, rows, mutations, sent>>

HandleNew ==
  /\ Ready({List}) /\ New \notin open
  /\ Mount(New, open \cup {New})
  /\ UNCHANGED <<server, stub, rows, mutations, sent>>

DoRefresh ==
  /\ Ready({List})
  /\ Mount(List, open)
  /\ UNCHANGED <<server, stub, rows, mutations, sent>>

(* ---- The rail ---- *)
SwitchTo(tab) ==
  /\ tab \in (open \cup {List}) \ {shown}
  /\ Mount(tab, open)
  /\ UNCHANGED <<server, stub, rows, mutations, sent>>

(* closeTab, also behind the exit button: a neighbour is shown instead.    *)
Closed(tab) ==
  /\ IF shown = tab THEN \E next \in (open \ {tab}) \cup {List} : Mount(next, open \ {tab})
     ELSE /\ open' = open \ {tab}
          /\ UNCHANGED <<shown, stamp, inst, stage, form, savedAt, loads, missed>>

CloseTab(tab) == /\ tab \in open
                 /\ Closed(tab)
                 /\ UNCHANGED <<server, stub, rows, mutations, sent>>

(* ---- Loads: getView and getDomain, the parse workers, dataQuery ---- *)
AnswerQuery(l) ==
  /\ l.st = "sent"
  /\ \E st \in {"rows", "query_failed", "view_failed"} :
       loads' = (loads \ {l}) \cup {[l EXCEPT !.st = st, !.rows = table]}
  /\ UNCHANGED <<server, screen, mutations, sent, missed>>

(* A view that cannot be read or parsed ends a detail in the error stage   *)
(* and a list in the generic table; a failed query leaves the detail with  *)
(* its stub and the list without rows.                                     *)
ShowDetail(l) ==
  LET found == l.st = "rows" /\ l.tab # New /\ l.rows[l.tab] # Gone
      text == IF l.tab = New THEN Null ELSE IF found THEN l.rows[l.tab] ELSE stub[l.tab]
  IN /\ stage' = IF l.st = "view_failed" THEN "error" ELSE "ready"
     /\ form' = LoadEnvelope(l.tab, text)
     /\ UNCHANGED <<rows, missed>>

\* fetchRows: an error or a throw leaves no rows.
fetchRows(l) == IF l.st = "rows" THEN l.rows ELSE [i \in Ids |-> Gone]

ShowList(l) ==
  /\ stage' = IF l.st = "view_failed" THEN "fallback" ELSE "ready"
  /\ rows' = fetchRows(l)
  /\ missed' = (missed \/ l.st # "rows")
  /\ UNCHANGED form

Loaded(l) ==
  /\ l.st # "sent"
  /\ loads' = loads \ {l}
  /\ IF l.stamp # stamp THEN UNCHANGED <<stage, rows, form, missed>>
     ELSE IF l.tab = List THEN ShowList(l) ELSE ShowDetail(l)
  /\ UNCHANGED <<server, open, stub, shown, stamp, inst, savedAt, mutations, sent>>

(* ---- Detail: typing, save, delete ---- *)
\* ViewState.set: the same value changes nothing and tells nobody.
SetValue(text) ==
  /\ form.text # text
  /\ form' = [form EXCEPT !.text = text]

Type(text) ==
  /\ Ready(open)
  /\ SetValue(text)
  /\ UNCHANGED <<server, open, stub, shown, stamp, inst, stage, rows, savedAt, loads, mutations,
                 sent, missed>>

Request(op) ==
  /\ sent < MaxMutations
  /\ sent' = sent + 1
  /\ mutations' = mutations \cup
       {[op |-> op, no |-> sent, id |-> form.id, text |-> form.text,
         tab |-> shown, state |-> stamp, inst |-> inst, st |-> "sent"]}

(* isEmptyId decides between insert and update; nothing locks the button.  *)
DoSave ==
  /\ Ready(open)
  /\ Request(IF form.id = New THEN "insert" ELSE "update")
  /\ UNCHANGED <<server, screen, loads, missed>>

DoConfirmDelete ==
  /\ Ready(open) /\ form.id # New
  /\ Request("delete")
  /\ UNCHANGED <<server, screen, loads, missed>>

(* The list shown does not hear of a change, and its query is answered.    *)
Unheard == shown = List /\ ~\E l \in loads : l.stamp = stamp /\ l.st = "sent"

(* data.mutate: the statement runs and answers with the row it returns,    *)
(* which is none if an update or a delete found no row. When the answer is *)
(* lost the caller times out: it shows an error and tells nobody.          *)
Mutate(q) ==
  /\ q.st = "sent"
  /\ q.op = "insert" => nextId <= MaxId
  /\ LET id == IF q.op = "insert" THEN nextId ELSE q.id
         none == q.op = "delete" \/ (q.op = "update" /\ table[id] = Gone)
         text == IF none THEN Gone ELSE q.text
     IN /\ table' = [table EXCEPT ![id] = text]
        /\ nextId' = IF q.op = "insert" THEN nextId + 1 ELSE nextId
        /\ \/ /\ mutations' = (mutations \ {q}) \cup {[q EXCEPT !.st = "done", !.id = id, !.text = text]}
              /\ UNCHANGED missed
           \/ /\ mutations' = mutations \ {q}
              /\ missed' = (missed \/ Unheard)
  /\ UNCHANGED <<auto, screen, loads, sent>>

MutateRefused(q) ==
  /\ q.st = "sent"
  /\ mutations' = mutations \ {q}
  /\ UNCHANGED <<server, screen, loads, sent, missed>>

(* publish reaches the list only while it is ready, and only if its view   *)
(* declares auto_refresh: it subscribes with the parsed view and starts    *)
(* over with a refresh.                                                    *)
Subscribed == shown = List /\ stage = "ready" /\ auto

Publish ==
  IF Subscribed THEN Mount(List, open)
  ELSE /\ missed' = (missed \/ Unheard)
       /\ UNCHANGED <<open, shown, stamp, inst, stage, form, savedAt, loads>>

(* The reply to a save: the record goes into the ViewState the handler     *)
(* closed over, the time into the instance, the news to the list.          *)
Refreshed(q) ==
  /\ form' = IF q.state = stamp /\ stage = "ready" /\ q.text # Gone THEN LoadEnvelope(q.id, q.text) ELSE form
  /\ savedAt' = IF shown # List /\ q.inst = inst THEN q.id ELSE savedAt
  /\ UNCHANGED <<open, shown, stamp, inst, stage, loads>>

SaveReplied(q) ==
  /\ q.st = "done" /\ q.op # "delete"
  /\ mutations' = mutations \ {q}
  /\ IF shown = List THEN Publish ELSE Refreshed(q) /\ UNCHANGED missed
  /\ UNCHANGED <<server, stub, rows, sent>>

(* The reply to a delete: the news, then the tab it was asked for closes.  *)
DeleteReplied(q) ==
  /\ q.st = "done" /\ q.op = "delete"
  /\ mutations' = mutations \ {q}
  /\ IF shown = List
       THEN /\ IF Subscribed THEN Mount(List, open \ {q.tab})
               ELSE /\ missed' = (missed \/ Unheard)
                    /\ open' = open \ {q.tab}
                    /\ UNCHANGED <<shown, stamp, inst, stage, form, savedAt, loads>>
       ELSE Closed(q.tab)
  /\ UNCHANGED <<server, stub, rows, sent>>

Init ==
  /\ auto \in BOOLEAN
  /\ table = [i \in Ids |-> IF i = 1 THEN Null ELSE IF i = 2 /\ MaxId > 2 THEN "" ELSE Gone]
  /\ nextId = IF MaxId > 2 THEN 3 ELSE 2
  /\ open = {} /\ stub = [i \in Ids |-> Gone]
  /\ shown = List /\ stamp = 1 /\ inst = 1 /\ stage = "loading"
  /\ rows = [i \in Ids |-> Gone] /\ form = EmptyForm /\ savedAt = None
  /\ loads = {[stamp |-> 1, tab |-> List, st |-> "sent", rows |-> [i \in Ids |-> Gone]]}
  /\ mutations = {} /\ sent = 0
  /\ missed = FALSE

Next ==
  \/ \E id \in Ids : HandleAction(id)
  \/ HandleNew
  \/ DoRefresh
  \/ \E tab \in Ids \cup {New, List} : SwitchTo(tab) \/ CloseTab(tab)
  \/ \E l \in loads : AnswerQuery(l) \/ Loaded(l)
  \/ \E text \in Texts : Type(text)
  \/ DoSave
  \/ DoConfirmDelete
  \/ \E q \in mutations : \/ Mutate(q) \/ MutateRefused(q) \/ SaveReplied(q) \/ DeleteReplied(q)

Spec == Init /\ [][Next]_vars

---------------------------------------------------------------------------------
(* One instance serves all detail tabs and its loads overlap: the form a   *)
(* user edits, and so every update or delete sent from it, is that of the  *)
(* record the tab was opened for.                                          *)
FormShowsItsRecord == stage = "ready" /\ shown \in Ids => form.id = shown

(* A list that is ready shows the table, but for mutations still           *)
(* unanswered and unless it missed one. A list of a view with auto_refresh *)
(* misses only what is published between the answer of its query and its   *)
(* ready stage, and what came back without an answer; one of a view        *)
(* without misses all until it is loaded again.                            *)
ListReflectsSaves ==
  Ready({List}) /\ ~missed =>
    \A id \in Ids : rows[id] = table[id] \/ \E q \in mutations : q.st = "done" /\ q.id = id
=================================================================================

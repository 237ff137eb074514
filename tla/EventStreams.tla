------------------------------ MODULE EventStreams ------------------------------
(***************************************************************************)
(* The event workspace of the oos webview: the stream manager              *)
(* (StreamManagerPanel.tsx), the history and editor of one stream          *)
(* (StreamDetailPanel.tsx) and the free-text event form                    *)
(* (NewEventPanel.tsx). One of them is mounted at a time; what they asked  *)
(* for comes back in any order, to the state as it is then.                *)
(*                                                                         *)
(* The backend is external and modelled by what the panels' calls expect   *)
(* of it; at this commit rpc.ts answers most of these calls with an error. *)
(***************************************************************************)
EXTENDS Naturals, FiniteSets

CONSTANTS Mappings,    \* event mappings
          Streams,     \* names of streams, one per possible stream
          MappingOf,   \* the mapping a stream was created under
          MaxEvents,   \* bound: events ever inserted
          MaxCalls     \* bound: calls per behaviour

None == "none"
Ids == 1..MaxEvents

VARIABLES streams,    \* backend: the streams that exist
          events,     \* backend: per id the stream and whether it is closed
          inserted,   \* backend: the last id given
          calls,      \* calls in flight
          made,       \* how many calls were made
          panel,      \* which panel is mounted
          stream,     \* detail: the streamId prop
          list,       \* detail: the event rows shown
          mode,       \* detail: PanelMode
          editor,     \* detail: the event the editor's text was built from; 0: a stub
          typed,      \* detail: a type is selected, so there is an editor
          saving,     \* detail, new: the save button is locked
          choice,     \* new: mapping, stream and type picked; manager: the mapping
          offered,    \* new: the streams of the picker; manager: the rows
          loading,    \* the list is on its way: the reload button or the picker is locked
          json,       \* new: the type whose fill is in the result editor
          target,     \* manager: the stream named in the delete dialog
          failed      \* history: the load behind `offered` failed

backend == <<streams, events, inserted>>
detail == <<stream, list, mode, editor, typed>>
picked == <<choice, offered, json, target, failed>>
forms == <<picked, loading>>
vars == <<backend, calls, made, panel, detail, saving, forms>>

Rows(s) == {[id |-> i, closed |-> events[i].closed] : i \in {j \in Ids : events[j].stream = s}}
Idle == [kind |-> "idle", id |-> 0, closed |-> FALSE]
NoChoice == [mapping |-> None, stream |-> None, type |-> None]

(* A call: what it is for, whether its panel is still mounted, and what    *)
(* its handler closed over.                                                *)
Call(op, s, id, from, was) ==
  [op |-> op, no |-> made, live |-> TRUE, stream |-> s, id |-> id, from |-> from, was |-> was,
   st |-> "sent", rows |-> {}, names |-> {}]

Send(cs) == /\ made < MaxCalls
            /\ made' = made + 1
            /\ calls' = calls \cup cs

Orphaned == {[c EXCEPT !.live = FALSE] : c \in calls}

(* ---- Mounting: local state starts anew, earlier calls find nobody ---- *)
Open(p) ==
  /\ panel' = p
  /\ mode' = Idle /\ editor' = 0 /\ typed' = FALSE /\ saving' = FALSE /\ list' = {}
  /\ choice' = NoChoice /\ offered' = {} /\ loading' = (p = "detail") /\ json' = None
  /\ target' = None /\ failed' = FALSE

OpenDetail(s) ==
  /\ panel # "detail"
  /\ Open("detail")
  /\ stream' = s
  /\ made < MaxCalls /\ made' = made + 1
  /\ calls' = Orphaned \cup {Call("events", s, 0, 0, 0)}
  /\ UNCHANGED backend

(* A sibling stream tab reuses the instance: the reset effect clears the   *)
(* editor, the list stays until the new one is there.                      *)
SwitchStream(s) ==
  /\ panel = "detail" /\ s # stream
  /\ stream' = s
  /\ mode' = Idle /\ editor' = 0 /\ typed' = FALSE
  /\ Send({Call("events", s, 0, 0, 0)})
  /\ loading' = TRUE
  /\ UNCHANGED <<backend, panel, list, saving, picked>>

OpenNew ==
  /\ panel # "new" /\ Open("new")
  /\ calls' = Orphaned
  /\ UNCHANGED <<backend, made, stream>>

OpenManager ==
  /\ panel # "manager" /\ Open("manager")
  /\ calls' = Orphaned
  /\ UNCHANGED <<backend, made, stream>>

(* ---- StreamDetailPanel ---- *)
Refresh ==
  /\ panel = "detail" /\ ~loading
  /\ Send({Call("events", stream, 0, 0, 0)})
  /\ loading' = TRUE
  /\ UNCHANGED <<backend, panel, detail, saving, picked>>

StartNew ==
  /\ panel = "detail" /\ mode.kind # "new"
  /\ mode' = [kind |-> "new", id |-> 0, closed |-> FALSE]
  /\ editor' = 0 /\ typed' = FALSE
  /\ UNCHANGED <<backend, calls, made, panel, stream, list, saving, forms>>

StartEdit(ev) ==
  /\ panel = "detail" /\ ev \in list
  /\ mode' = [kind |-> "edit", id |-> ev.id, closed |-> ev.closed]
  /\ editor' = ev.id /\ typed' = TRUE
  /\ UNCHANGED <<backend, calls, made, panel, stream, list, saving, forms>>

SelectType ==
  /\ panel = "detail" /\ mode.kind = "new" /\ ~typed
  /\ editor' = 0 /\ typed' = TRUE
  /\ UNCHANGED <<backend, calls, made, panel, stream, list, mode, saving, forms>>

(* The right side: empty when idle, read-only for a closed event. *)
Editable == mode.kind # "idle" /\ ~mode.closed

Cancel ==
  /\ panel = "detail" /\ Editable
  /\ mode' = Idle /\ editor' = 0 /\ typed' = FALSE
  /\ UNCHANGED <<backend, calls, made, panel, stream, list, saving, forms>>

CanSave == typed /\ Editable

HandleSave ==
  /\ panel = "detail" /\ CanSave /\ ~saving
  /\ saving' = TRUE
  /\ Send({Call(IF mode.kind = "new" THEN "insert" ELSE "update", stream, mode.id, editor, 0)})
  /\ UNCHANGED <<backend, panel, detail, forms>>

(* The context menu of a row: both entries are disabled once it is closed. *)
Offers(ev) == ev \in list /\ ~ev.closed

(* The dialogs close over the mode of the render that opened them. *)
Confirmed(op, ev) ==
  /\ panel = "detail" /\ Offers(ev)
  /\ Send({Call(op, stream, ev.id, 0, IF mode.kind = "edit" THEN mode.id ELSE 0)})
  /\ UNCHANGED <<backend, panel, detail, saving, forms>>

ConfirmClose(ev) == Confirmed("close", ev)
ConfirmDelete(ev) == Confirmed("delete", ev)

(* ---- Replies to StreamDetailPanel ---- *)
Reload(c) == IF made < MaxCalls
               THEN /\ calls' = (calls \ {c}) \cup {Call("events", c.stream, 0, 0, 0)}
                    /\ made' = made + 1
                    /\ loading' = TRUE
               ELSE /\ calls' = calls \ {c}
                    /\ UNCHANGED <<made, loading>>

Settled(c) == IF c.st = "ok" THEN Reload(c)
                ELSE calls' = calls \ {c} /\ UNCHANGED <<made, loading>>

EventsLoaded(c) ==
  /\ c.op = "events" /\ c.st # "sent" /\ c.live
  /\ calls' = calls \ {c}
  /\ list' = IF c.st = "ok" THEN c.rows ELSE list
  /\ loading' = FALSE
  /\ UNCHANGED <<backend, made, panel, stream, mode, editor, typed, saving, picked>>

Saved(c) ==
  /\ panel = "detail" /\ c.op \in {"insert", "update"} /\ c.st # "sent" /\ c.live
  /\ saving' = FALSE
  /\ Settled(c)
  /\ UNCHANGED <<backend, panel, detail, picked>>

(* Mutant: the reply puts the mode of the dialog back as it was.           *)
ClosedReplyKeepsMode(c) ==
  /\ c.op = "close" /\ c.st # "sent" /\ c.live
  /\ Settled(c)
  /\ mode' = IF c.st = "ok" /\ c.was = c.id
               THEN [kind |-> "edit", id |-> c.id, closed |-> FALSE] ELSE mode
  /\ UNCHANGED <<backend, panel, stream, list, editor, typed, saving, picked>>

ClosedReply(c) ==
  /\ c.op = "close" /\ c.st # "sent" /\ c.live
  /\ Settled(c)
  /\ mode' = IF c.st = "ok" /\ c.was = c.id
               THEN [kind |-> "edit", id |-> c.id, closed |-> TRUE] ELSE mode
  /\ UNCHANGED <<backend, panel, stream, list, editor, typed, saving, picked>>

DeletedReply(c) ==
  /\ c.op = "delete" /\ c.st # "sent" /\ c.live
  /\ Settled(c)
  /\ IF c.st = "ok" /\ c.was = c.id
       THEN mode' = Idle /\ editor' = 0 /\ typed' = FALSE
       ELSE UNCHANGED <<mode, editor, typed>>
  /\ UNCHANGED <<backend, panel, stream, list, saving, picked>>

(* ---- NewEventPanel ---- *)
Late(op) == {[c EXCEPT !.live = FALSE] : c \in {d \in calls : d.op = op}}
            \cup {c \in calls : c.op # op}

(* Picking a mapping clears the rest; the effect cancels the load before.  *)
PickMapping(m) ==
  /\ panel = "new" /\ choice.mapping # m
  /\ choice' = [mapping |-> m, stream |-> None, type |-> None]
  /\ json' = None /\ loading' = TRUE
  /\ made < MaxCalls /\ made' = made + 1
  /\ calls' = Late("streams") \cup {Call("streams", m, 0, 0, 0)}
  /\ UNCHANGED <<backend, panel, detail, saving, offered, target, failed>>

StreamsLoaded(c) ==
  /\ c.op = "streams" /\ c.st # "sent"
  /\ calls' = calls \ {c}
  /\ IF c.live
       THEN /\ loading' = FALSE
            /\ offered' = IF c.st = "ok" THEN c.names ELSE offered
            /\ failed' = (c.st = "failed")
       ELSE UNCHANGED <<loading, offered, failed>>
  /\ UNCHANGED <<backend, made, panel, detail, saving, choice, json, target>>

PickStream(s) ==
  /\ panel = "new" /\ choice.mapping # None /\ ~loading /\ s \in offered
  /\ choice' = [choice EXCEPT !.stream = s]
  /\ UNCHANGED <<backend, calls, made, panel, detail, saving, offered, loading, json, target, failed>>

PickType(t) ==
  /\ panel = "new" /\ choice.mapping # None /\ choice.type # t
  /\ choice' = [choice EXCEPT !.type = t]
  /\ json' = None
  /\ UNCHANGED <<backend, calls, made, panel, detail, saving, offered, loading, target, failed>>

CanFill == choice.type # None /\ \A c \in calls : ~(c.live /\ c.op = "fill")

HandleFill ==
  /\ panel = "new" /\ CanFill
  /\ json' = None
  /\ Send({Call("fill", choice.type, 0, 0, 0)})
  /\ UNCHANGED <<backend, panel, detail, saving, choice, offered, loading, target, failed>>

Filled(c) ==
  /\ c.op = "fill" /\ c.st # "sent" /\ c.live
  /\ calls' = calls \ {c}
  /\ json' = IF c.st = "ok" THEN c.stream ELSE json
  /\ UNCHANGED <<backend, made, panel, detail, saving, choice, offered, loading, target, failed>>

CanInsert == ~saving /\ json # None /\ choice.stream # None /\ choice.type # None

InsertEvent ==
  /\ panel = "new" /\ CanInsert
  /\ saving' = TRUE
  /\ Send({Call("insert", choice.stream, 0, 0, 0)})
  /\ UNCHANGED <<backend, panel, detail, forms>>

Inserted(c) ==
  /\ panel = "new" /\ c.op = "insert" /\ c.st # "sent" /\ c.live
  /\ calls' = calls \ {c}
  /\ saving' = FALSE
  /\ json' = IF c.st = "ok" THEN None ELSE json
  /\ UNCHANGED <<backend, made, panel, detail, choice, offered, loading, target, failed>>

(* ---- StreamManagerPanel ---- *)
SelectMapping(m) ==
  /\ panel = "manager" /\ choice.mapping # m
  /\ choice' = [choice EXCEPT !.mapping = m]
  /\ Send({Call("rows", m, 0, 0, 0)})
  /\ loading' = TRUE
  /\ UNCHANGED <<backend, panel, detail, saving, offered, json, target, failed>>

RefreshRows ==
  /\ panel = "manager" /\ choice.mapping # None /\ ~loading
  /\ Send({Call("rows", choice.mapping, 0, 0, 0)})
  /\ loading' = TRUE
  /\ UNCHANGED <<backend, panel, detail, saving, picked>>

RowsLoaded(c) ==
  /\ c.op = "rows" /\ c.st # "sent" /\ c.live
  /\ calls' = calls \ {c}
  /\ offered' = IF c.st = "ok" THEN c.names ELSE offered
  /\ loading' = FALSE
  /\ UNCHANGED <<backend, made, panel, detail, saving, choice, json, target, failed>>

AskDelete(s) ==
  /\ panel = "manager" /\ s \in offered /\ target = None
  /\ target' = s
  /\ UNCHANGED <<backend, calls, made, panel, detail, saving, choice, offered, loading, json, failed>>

(* The confirmation dialog: neither button works while a drop is under way. *)
Asked == target # None /\ \A c \in calls : ~(c.live /\ c.op = "drop")

CancelDelete ==
  /\ panel = "manager" /\ Asked
  /\ target' = None
  /\ UNCHANGED <<backend, calls, made, panel, detail, saving, choice, offered, loading, json, failed>>

HandleDelete ==
  /\ panel = "manager" /\ Asked
  /\ Send({Call("drop", target, 0, 0, 0)})
  /\ UNCHANGED <<backend, panel, detail, saving, forms>>

HandleSubmit(s) ==
  /\ panel = "manager" /\ choice.mapping = MappingOf[s] /\ s \notin streams
  /\ Send({Call("create", s, 0, 0, 0)})
  /\ UNCHANGED <<backend, panel, detail, saving, forms>>

ManagerReply(c) ==
  /\ c.op \in {"drop", "create"} /\ c.st # "sent" /\ c.live
  /\ IF c.st = "ok" /\ made < MaxCalls
       THEN /\ calls' = (calls \ {c}) \cup {Call("rows", MappingOf[c.stream], 0, 0, 0)}
            /\ made' = made + 1
            /\ loading' = TRUE
       ELSE calls' = calls \ {c} /\ UNCHANGED <<made, loading>>
  /\ target' = IF c.st = "ok" /\ c.op = "drop" THEN None ELSE target
  /\ UNCHANGED <<backend, panel, detail, saving, choice, offered, json, failed>>

(* ---- The backend ---- *)
Answered(c, st) == (calls \ {c}) \cup
  {[c EXCEPT !.st = st, !.rows = Rows(c.stream), !.names = {s \in streams : MappingOf[s] = c.stream}]}

Serve(c) ==
  /\ c.st = "sent"
  /\ calls' = Answered(c, "ok")
  /\ CASE c.op = "insert" -> /\ inserted < MaxEvents
                             /\ inserted' = inserted + 1
                             /\ events' = [events EXCEPT ![inserted + 1] = [stream |-> c.stream, closed |-> FALSE]]
                             /\ UNCHANGED streams
       [] c.op = "close"  -> /\ events' = [events EXCEPT ![c.id].closed = TRUE]
                             /\ UNCHANGED <<streams, inserted>>
       [] c.op = "delete" -> /\ ~events[c.id].closed
                             /\ events' = [events EXCEPT ![c.id].stream = None]
                             /\ UNCHANGED <<streams, inserted>>
       [] c.op = "create" -> streams' = streams \cup {c.stream} /\ UNCHANGED <<events, inserted>>
       [] c.op = "drop"   -> /\ streams' = streams \ {c.stream}
                             /\ events' = [i \in Ids |-> IF events[i].stream = c.stream
                                            THEN [events[i] EXCEPT !.stream = None] ELSE events[i]]
                             /\ UNCHANGED inserted
       [] OTHER           -> UNCHANGED backend
  /\ UNCHANGED <<made, panel, detail, saving, forms>>

Fail(c) == /\ c.st = "sent"
           /\ calls' = Answered(c, "failed")
           /\ UNCHANGED <<backend, made, panel, detail, saving, forms>>

(* A reply to a panel that is gone. *)
Dropped(c) == /\ c.st # "sent" /\ ~c.live /\ c.op # "streams"
              /\ calls' = calls \ {c}
              /\ UNCHANGED <<backend, made, panel, detail, saving, forms>>

Init ==
  /\ streams = Streams /\ inserted = 2
  /\ events = [i \in Ids |-> [stream |-> IF i <= 2 THEN CHOOSE s \in Streams : TRUE ELSE None,
                              closed |-> FALSE]]
  /\ calls = {} /\ made = 0 /\ panel = None
  /\ stream = None /\ list = {} /\ mode = Idle /\ editor = 0 /\ typed = FALSE /\ saving = FALSE
  /\ choice = NoChoice /\ offered = {} /\ loading = FALSE /\ json = None /\ target = None
  /\ failed = FALSE

DetailNext == \/ \E s \in Streams : OpenDetail(s) \/ SwitchStream(s)
              \/ Refresh \/ StartNew \/ SelectType \/ Cancel \/ HandleSave
              \/ \E ev \in list : StartEdit(ev) \/ ConfirmClose(ev) \/ ConfirmDelete(ev)
              \/ \E c \in calls : EventsLoaded(c) \/ Saved(c) \/ ClosedReply(c) \/ DeletedReply(c)

NewEventNext == \/ OpenNew \/ HandleFill \/ InsertEvent
                \/ \E m \in Mappings : PickMapping(m)
                \/ \E s \in Streams : PickStream(s)
                \/ \E t \in {"note", "claim"} : PickType(t)
                \/ \E c \in calls : StreamsLoaded(c) \/ Filled(c) \/ Inserted(c)

ManagerNext == \/ OpenManager \/ RefreshRows \/ CancelDelete \/ HandleDelete
               \/ \E m \in Mappings : SelectMapping(m)
               \/ \E s \in Streams : AskDelete(s) \/ HandleSubmit(s)
               \/ \E c \in calls : RowsLoaded(c) \/ ManagerReply(c)

Next == \/ DetailNext
        \/ NewEventNext
        \/ ManagerNext
        \/ \E c \in calls : Serve(c) \/ Fail(c) \/ Dropped(c)

Spec == Init /\ [][Next]_vars

---------------------------------------------------------------------------------
(* Dialogs and saves come back after the user moved on to another event or *)
(* stream: whatever the order, an editor that can be saved holds the text  *)
(* of the event it will be written to.                                     *)
EditorHoldsItsEvent ==
  /\ panel = "detail" /\ mode.kind = "edit" /\ ~mode.closed => editor = mode.id
  /\ \A c \in calls : c.op = "update" => c.from = c.id

(* Lists of the mapping before are cancelled and the picker is locked      *)
(* while one is on its way: unless a load failed, the new event goes to a  *)
(* stream of its mapping.                                                  *)
StreamOfItsMapping ==
  panel = "new" /\ choice.stream # None /\ ~failed => MappingOf[choice.stream] = choice.mapping
=================================================================================

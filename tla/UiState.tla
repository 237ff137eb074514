--------------------------------- MODULE UiState ---------------------------------
(***************************************************************************)
(* The one persisted UI blob of the oos webview (store/ui-state.ts): mode, *)
(* mapping, stream and the editor switch. Every control keeps a copy of it *)
(* in its own hook, saves the whole blob built from that copy, and learns  *)
(* of the others' saves from the listener bus after the write. The         *)
(* controls are ModeSwitch.tsx, MappingPicker.tsx, StreamPicker.tsx, the   *)
(* switch of Footer.tsx and the readers in App.tsx and Chat.tsx.           *)
(*                                                                         *)
(* IndexedDB (behind rpc.kvGet and rpc.kvSet) is external: a queue that    *)
(* serves reads and writes of the key in the order they were issued, and   *)
(* may fail. Nobody learns of it: a failed read yields the defaults, and   *)
(* the listeners are told of a failed write as of any other.               *)
(***************************************************************************)
EXTENDS Naturals, Sequences

CONSTANTS UiMappings,   \* enabled event mappings
          UiStreams,    \* stream ids
          UiMappingOf,  \* the mapping a stream belongs to
          MaxQueue,     \* bound: reads and writes under way
          MaxSaves      \* bound: saves per behaviour

Nothing == "nothing"
Modes == {"ask", "forms", "events", "documents", "dev"}
Pickers == {"mapping", "stream"}
Controls == Pickers \cup {"mode", "footer", "chat"}
Fields == {"mode", "mapping", "streamId", "askToTab"}

VARIABLES store,     \* what the key "ui" holds
          queue,     \* reads and writes under way
          saves,     \* how many saves were issued
          unsaved,   \* history: the last write failed, its blob is only shown
          misread,   \* history: the controls whose last read failed, untold since
          hooks,     \* per control the copy of useUiState
          options,   \* StreamPicker: the streams it resolves a text with
          fetching,  \* StreamPicker: the mapping whose streams are on their way
          draft,     \* StreamPicker: the text in the field
          browser,   \* openPipelineList was called
          booted     \* ModeSwitch: documentsBootstrapped

failures == <<unsaved, misread>>
ui == <<store, queue, saves, failures, hooks, options, fetching, draft, browser, booted>>

DEFAULT_UI_STATE == [mode |-> "forms", mapping |-> Nothing, streamId |-> Nothing, askToTab |-> FALSE]
Fresh == [mounted |-> TRUE, loaded |-> FALSE, state |-> DEFAULT_UI_STATE]
Unmounted == [Fresh EXCEPT !.mounted = FALSE]
Read(h) == [op |-> "get", hook |-> h, value |-> DEFAULT_UI_STATE, own |-> {}, alone |-> FALSE]

(* A write carries the whole blob; "own" are the fields the control meant  *)
(* to change, and "alone" says that its copy was up to date: no other      *)
(* write was under way, and neither its read nor the last write failed.    *)
Write(h, own, v) ==
  [op |-> "set", hook |-> Nothing, value |-> v, own |-> own,
   alone |-> ~unsaved /\ h \notin misread /\ \A i \in DOMAIN queue : queue[i].op = "get"]

(* A stored mode the code does not know is read as forms. *)
parseUiState(v) == [v EXCEPT !.mode = IF @ \in Modes THEN @ ELSE "forms"]

(* The cleanup of an unmounted reader cancels its read: the answer still   *)
(* comes, and is dropped.                                                  *)
Cancelled(q) == [i \in DOMAIN q |-> IF q[i].hook \in Pickers THEN Read(Nothing) ELSE q[i]]

(* What a change of the copies entails: the pickers are mounted in events  *)
(* mode only, an unmounted reader is cancelled, and the stream picker      *)
(* starts over when its mapping is another one.                            *)
Rendered(hs, q) ==
  LET events == hs["chat"].state.mode = "events"
      appear == events /\ ~hooks["stream"].mounted
      stay == events /\ ~appear
      mapping == IF stay THEN hs["stream"].state.mapping ELSE Nothing
      moved == ~stay \/ mapping # hooks["stream"].state.mapping
  IN /\ hooks' = [h \in Controls |-> IF h \notin Pickers \/ stay THEN hs[h]
                                     ELSE IF appear THEN Fresh ELSE Unmounted]
     /\ queue' = IF appear THEN q \o <<Read("mapping"), Read("stream")>>
                 ELSE IF events THEN q ELSE Cancelled(q)
     /\ options' = IF moved /\ mapping = Nothing THEN {} ELSE options
     /\ fetching' = IF moved THEN mapping ELSE fetching
     /\ draft' = IF stay THEN draft ELSE Nothing

(* loadUiState of a mounted hook comes back with the blob v. *)
LoadedAs(h, v) ==
  /\ Rendered([hooks EXCEPT ![h] = [mounted |-> TRUE, loaded |-> TRUE, state |-> v]], Tail(queue))
  /\ LET boot == h = "mode" /\ ~booted IN
       /\ booted' = (booted \/ boot)
       /\ browser' = (browser \/ (boot /\ v.mode = "documents"))
  /\ UNCHANGED <<store, saves, unsaved>>

(* The read, and the read that fails: kvGet answers null, which is parsed  *)
(* as the defaults.                                                        *)
Loaded ==
  /\ queue # <<>> /\ Head(queue).op = "get" /\ Head(queue).hook # Nothing
  /\ LET h == Head(queue).hook IN
       \/ LoadedAs(h, parseUiState(store)) /\ misread' = misread \ {h}
       \/ LoadedAs(h, DEFAULT_UI_STATE) /\ misread' = misread \cup {h}

LoadDropped ==
  /\ queue # <<>> /\ Head(queue).op = "get" /\ Head(queue).hook = Nothing
  /\ queue' = Tail(queue)
  /\ UNCHANGED <<store, saves, failures, hooks, options, fetching, draft, browser, booted>>

(* Mutant: the footer has no listener. *)
ToldButFooter(v) ==
  [h \in Controls |-> IF hooks[h].mounted /\ h # "footer" THEN [hooks[h] EXCEPT !.state = v] ELSE hooks[h]]

Told(v) == [h \in Controls |-> IF hooks[h].mounted THEN [hooks[h] EXCEPT !.state = v] ELSE hooks[h]]

(* kvSet of saveUiState returns, having written or not: the listeners are  *)
(* told.                                                                   *)
Saved ==
  /\ queue # <<>> /\ Head(queue).op = "set"
  /\ \/ store' = Head(queue).value /\ unsaved' = FALSE
     \/ store' = store /\ unsaved' = TRUE
  /\ misread' = {}
  /\ Rendered(Told(Head(queue).value), Tail(queue))
  /\ UNCHANGED <<saves, browser, booted>>

Save(h, own, v) == /\ Len(queue) < MaxQueue /\ saves < MaxSaves
                   /\ saves' = saves + 1
                   /\ queue' = Append(queue, Write(h, own, v))

(* ---- ModeSwitch ---- *)
ChangeMode(m) ==
  /\ hooks["mode"].loaded /\ hooks["mode"].state.mode # m
  /\ Save("mode", {"mode"}, [hooks["mode"].state EXCEPT !.mode = m])
  /\ browser' = (browser \/ m = "documents")
  /\ UNCHANGED <<store, failures, hooks, options, fetching, draft, booted>>

(* ---- Footer: the editor switch, in ask mode only ---- *)
ToggleAskToTab ==
  /\ hooks["footer"].loaded /\ hooks["footer"].state.mode = "ask"
  /\ Save("footer", {"askToTab"}, [hooks["footer"].state EXCEPT !.askToTab = ~@])
  /\ UNCHANGED <<store, failures, hooks, options, fetching, draft, browser, booted>>

(* ---- MappingPicker: another mapping wipes the stream ---- *)
PickMapping(m) ==
  /\ hooks["mapping"].mounted /\ hooks["mapping"].loaded /\ hooks["mapping"].state.mapping # m
  /\ Save("mapping", {"mapping", "streamId"},
          [hooks["mapping"].state EXCEPT !.mapping = m, !.streamId = Nothing])
  /\ UNCHANGED <<store, failures, hooks, options, fetching, draft, browser, booted>>

(* ---- StreamPicker ---- *)
(* getEventStreams comes back; an error leaves the list as it was. *)
StreamsFetched ==
  /\ fetching # Nothing
  /\ fetching' = Nothing
  /\ options' \in {options, {s \in UiStreams : UiMappingOf[s] = fetching}}
  /\ UNCHANGED <<store, queue, saves, failures, hooks, draft, browser, booted>>

Usable == hooks["stream"].mounted /\ hooks["stream"].state.mapping # Nothing /\ options # {}

Typed(t) ==
  /\ Usable /\ draft # t
  /\ draft' = t
  /\ UNCHANGED <<store, queue, saves, failures, hooks, options, fetching, browser, booted>>

resolveStream(t) == IF t \in options THEN t ELSE Nothing

(* An option is submitted, or the field loses the focus. *)
Commit ==
  /\ Usable /\ hooks["stream"].loaded
  /\ resolveStream(draft) # hooks["stream"].state.streamId
  /\ Save("stream", {"streamId"}, [hooks["stream"].state EXCEPT !.streamId = resolveStream(draft)])
  /\ UNCHANGED <<store, failures, hooks, options, fetching, draft, browser, booted>>

HandleClear ==
  /\ Usable /\ draft # Nothing
  /\ draft' = Nothing
  /\ IF hooks["stream"].loaded /\ hooks["stream"].state.streamId # Nothing
       THEN Save("stream", {"streamId"}, [hooks["stream"].state EXCEPT !.streamId = Nothing])
       ELSE UNCHANGED <<queue, saves>>
  /\ UNCHANGED <<store, failures, hooks, options, fetching, browser, booted>>

Init ==
  /\ store \in {[DEFAULT_UI_STATE EXCEPT !.mode = m] : m \in {"forms", "documents", "retired"}}
  /\ queue = <<Read("mode"), Read("footer"), Read("chat")>> /\ saves = 0
  /\ unsaved = FALSE /\ misread = {}
  /\ hooks = [h \in Controls |-> IF h \in Pickers THEN Unmounted ELSE Fresh]
  /\ options = {} /\ fetching = Nothing /\ draft = Nothing /\ browser = FALSE /\ booted = FALSE

Next ==
  \/ Loaded \/ LoadDropped
  \/ Saved
  \/ \E m \in Modes : ChangeMode(m)
  \/ ToggleAskToTab
  \/ \E m \in UiMappings \cup {Nothing} : PickMapping(m)
  \/ StreamsFetched
  \/ \E t \in UiStreams : Typed(t)
  \/ Commit
  \/ HandleClear

Spec == Init /\ [][Next]_ui

---------------------------------------------------------------------------------
(* Reads of a control that just appeared overlap saves of the others: once *)
(* nothing is under way every mounted control is loaded; one that is       *)
(* loaded shows what a restart would read, whatever the order the reads    *)
(* and writes were in, unless its read or the last write failed; and a     *)
(* save from a copy that was up to date takes no field of another control  *)
(* back. A save issued while another is under way may (the last wins).     *)
ControlsAgree ==
  /\ queue = <<>> => \A h \in Controls : hooks[h].mounted => hooks[h].loaded
  /\ ~unsaved => \A h \in Controls \ misread :
       hooks[h].mounted /\ hooks[h].loaded => hooks[h].state = parseUiState(store)
  /\ \A i \in DOMAIN queue : queue[i].alone =>
       \A f \in Fields \ queue[i].own : queue[i].value[f] = parseUiState(store)[f]
=================================================================================

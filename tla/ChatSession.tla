---------------------------- MODULE ChatSession ----------------------------
(***************************************************************************)
(* One oos webview's chat: the useChat hook, which owns the scrollback,    *)
(* the pending bubble and the active chat id, and the chats it saves.  A   *)
(* send awaits its tuning, then the turn (AgentTurn, abstracted to its     *)
(* outcome), while AgentEvents of EVERY turn on the bus come in through    *)
(* one wildcard subscription; the history panel can open or delete a chat  *)
(* at any moment, the send button's menu can clear it between turns.       *)
(*                                                                         *)
(* A scrollback maps each send to the text of its assistant bubble:        *)
(*   "absent" not in the scrollback   "dots"  the placeholder              *)
(*   "own" the turn's answer          "empty" the note for an empty answer *)
(*   "error" the turn's error         "other" the text of another turn     *)
(* What runs between two awaits is one step.  React renders later, and the *)
(* auto-save is an effect that runs later still: it takes the messages of  *)
(* the render it belongs to and the chat id of the moment it runs.         *)
(*                                                                         *)
(* The composer's send awaits the view of a document just dropped, so the  *)
(* busy that useChat's send tests is that of the render in which Enter was *)
(* pressed: a second turn may start while the first one runs.  The ids of  *)
(* a turn and its bubble are the clock in milliseconds, and two sends that *)
(* awaited the same drop can draw the same one.                            *)
(***************************************************************************)
EXTENDS Integers, FiniteSets

CONSTANTS
    Sends,      \* the calls of send
    KindOf,     \* KindOf[s]: "chat", "ask" or "event"
    Chats,      \* the ids createChatId yields
    None,
    MaxSends,   \* bound on the sends made
    MaxLoads    \* bound on the loadChat calls in flight

ASSUME KindsAssumption == KindOf \in [Sends -> {"chat", "ask", "event"}]
ASSUME NoneAssumption == None \notin Sends \cup Chats \cup {"own", "empty", "error"}

VARIABLES
    busy, shown,  \* the busy flag and the scrollback, all updates applied
    screen,    \* the last render: [messages, busy]
    due,       \* the auto-save effect of the last render has not run yet
    pending, chatId,  \* pendingIdRef, chatIdRef
    ids,       \* ids[s]: the id of the turn and of its bubble
    saved,     \* the chats table: chat -> scrollback, None without a row
    step,      \* step[s]: "idle", "resolving", "tuning", "waiting" or "settled"
    outcome,   \* outcome[s]: what the turn came to, as send sees it
    agent,     \* agent[s]: the turn in oosagent: "none", "running" or its outcome
    events,    \* closing events on the way: [turn, text]
    loads,     \* loadChat results on the way: [chat, content]
    deleting,  \* the deleteChat in progress: [chat, active]
    sentIn,    \* history: the chat that was active when s was sent
    logged,    \* logged[s]: the chat id in the turn's Activity record
    overlapped,  \* history: the sends that ran while another one did
    crossed    \* history: the chats that became active while an auto-save was due

vars == <<busy, shown, screen, due, pending, chatId, ids, saved, step, outcome, agent,
          events, loads, deleting, sentIn, logged, overlapped, crossed>>

turns == <<ids, step, outcome, agent, sentIn, logged, overlapped>>
chats == <<saved, loads, deleting, crossed>>
drawn == <<screen, due>>

Outcomes == {"own", "empty", "error"}
Texts == {"absent", "dots", "own", "empty", "error", "other"}
Scrollbacks == [Sends -> Texts]
Blank == [s \in Sends |-> "absent"]
Active(s) == step[s] \in {"tuning", "waiting"}

TypeOK ==
    /\ busy \in BOOLEAN
    /\ screen \in [messages : Scrollbacks, busy : BOOLEAN]
    /\ due \in BOOLEAN
    /\ ids \in [Sends -> Sends \cup {None}]
    /\ overlapped \in SUBSET Sends
    /\ crossed \in SUBSET Chats
    /\ pending \in Sends \cup {None}
    /\ chatId \in Chats \cup {None}
    /\ shown \in Scrollbacks
    /\ saved \in [Chats -> Scrollbacks \cup {None}]
    /\ step \in [Sends -> {"idle", "resolving", "tuning", "waiting", "settled"}]
    /\ outcome \in [Sends -> Outcomes \cup {None}]
    /\ agent \in [Sends -> Outcomes \cup {"none", "running"}]
    /\ events \in SUBSET [turn : Sends, text : Outcomes]
    /\ loads \in SUBSET [chat : Chats, content : Scrollbacks]
    /\ deleting = None \/ deleting \in [chat : Chats, active : BOOLEAN]
    /\ sentIn \in [Sends -> Chats \cup {None}]
    /\ logged \in [Sends -> Chats \cup {None}]

Init ==
    /\ busy = FALSE
    /\ screen = [messages |-> Blank, busy |-> FALSE]
    /\ due = FALSE
    /\ ids = [s \in Sends |-> None]
    /\ overlapped = {}
    /\ crossed = {}
    /\ pending = None
    /\ chatId = None
    /\ shown = Blank
    /\ saved = [c \in Chats |-> None]
    /\ step = [s \in Sends |-> "idle"]
    /\ outcome = [s \in Sends |-> None]
    /\ agent = [s \in Sends |-> "none"]
    /\ events = {}
    /\ loads = {}
    /\ deleting = None
    /\ sentIn = [s \in Sends |-> None]
    /\ logged = [s \in Sends |-> None]

-----------------------------------------------------------------------------
(* A turn.                                                                 *)

\* The active chat, or a fresh id when there is none.
ChatFor(c) == IF chatId # None THEN c = chatId
              ELSE c \in Chats \ {sentIn[s] : s \in Sends}

\* Enter: the composer's send, up to its await of the dropped document's view.
\* With none pending, Send follows at once.  While the chat is drawn busy, Enter
\* only clears the draft.
Enter(s) ==
    /\ step[s] = "idle"
    /\ ~screen.busy
    /\ Cardinality({t \in Sends : step[t] # "idle"}) < MaxSends
    /\ step' = [step EXCEPT ![s] = "resolving"]
    /\ UNCHANGED <<busy, shown, pending, chatId, ids, outcome, agent, sentIn, logged,
                   overlapped, events, drawn, chats>>

\* useChat's send, up to its first await; it sees the busy of Enter's render.
Send(s) ==
    LET active == {t \in Sends : Active(t)} IN
    /\ step[s] = "resolving"
    /\ \E c \in Chats :
          /\ ChatFor(c)
          /\ chatId' = c
          /\ sentIn' = [sentIn EXCEPT ![s] = c]
          /\ crossed' = IF due /\ chatId = None THEN crossed \cup {c} ELSE crossed
    /\ \E i \in {s} \cup {ids[t] : t \in {t \in active : step[t] = "tuning"}} :
          /\ ids' = [ids EXCEPT ![s] = i]
          /\ pending' = i
    /\ shown' = [shown EXCEPT ![s] = "dots"]
    /\ busy' = TRUE
    /\ step' = [step EXCEPT ![s] = "tuning"]
    /\ overlapped' = IF active = {} THEN overlapped ELSE overlapped \cup active \cup {s}
    /\ UNCHANGED <<outcome, agent, events, logged, saved, loads, deleting, drawn>>

\* patchAssistant: the bubbles with the id i get the text of turn s; one that is
\* no longer in the scrollback stays out.
Patched(i, s, text) ==
    [u \in Sends |-> IF shown[u] = "absent" \/ ids[u] # i THEN shown[u]
                     ELSE IF u = s THEN text ELSE "other"]

\* Mutant: the bubble is left to the event.
SettledShownByEvent(s, o) == IF o = "error" THEN Patched(ids[s], s, "error") ELSE shown

\* What the result does to the bubble: an empty answer of a chat turn leaves it
\* as it is, an empty ask answer is shown as it is.
SettledShown(s, o) ==
    IF o = "empty" /\ KindOf[s] = "chat" THEN shown
    ELSE Patched(ids[s], s, IF o = "error" THEN "error" ELSE "own")

\* The rest of send once the turn has come to outcome o: patch the bubble, log
\* the turn, clear the refs and busy, another turn's too.
Settle(s, o) ==
    /\ step' = [step EXCEPT ![s] = "settled"]
    /\ outcome' = [outcome EXCEPT ![s] = o]
    /\ shown' = SettledShown(s, o)
    /\ logged' = IF KindOf[s] = "event" THEN logged ELSE [logged EXCEPT ![s] = chatId]
    /\ pending' = None
    /\ busy' = FALSE
    /\ UNCHANGED <<chatId, ids, agent, events, sentIn, overlapped, drawn, chats>>

\* The tuning is loaded and the turn requested from oosagent.
RequestTurn(s) ==
    /\ step[s] = "tuning"
    /\ KindOf[s] # "event"
    /\ step' = [step EXCEPT ![s] = "waiting"]
    /\ agent' = [agent EXCEPT ![s] = "running"]
    /\ UNCHANGED <<busy, shown, pending, chatId, ids, outcome, events, sentIn, logged,
                   overlapped, drawn, chats>>

\* eventTurn is a stub that answers with an error at once.
EventTurn(s) ==
    /\ step[s] = "tuning"
    /\ KindOf[s] = "event"
    /\ Settle(s, "error")

\* oosagent ends the turn: a chat turn publishes its closing event, then the
\* reply.
AgentEnds(s, o) ==
    /\ agent[s] = "running"
    /\ agent' = [agent EXCEPT ![s] = o]
    /\ events' = IF KindOf[s] = "chat" THEN events \cup {[turn |-> s, text |-> o]}
                                        ELSE events
    /\ UNCHANGED <<busy, shown, pending, chatId, ids, step, outcome, sentIn, logged,
                   overlapped, drawn, chats>>

\* The reply arrives; its event may still be in the subscription's iterator.
TurnReplied(s) ==
    /\ step[s] = "waiting"
    /\ agent[s] \in Outcomes
    /\ Settle(s, agent[s])

\* Mutant: a timed-out request never clears busy.
TurnTimesOutBusy(s) ==
    /\ step[s] = "waiting"
    /\ step' = [step EXCEPT ![s] = "settled"]
    /\ outcome' = [outcome EXCEPT ![s] = "error"]
    /\ shown' = Patched(ids[s], s, "error")
    /\ UNCHANGED <<busy, pending, chatId, ids, agent, events, sentIn, logged, overlapped,
                   drawn, chats>>

\* No responder, or the request timed out; the turn may well be running on,
\* since the timeout is that of a single LLM call.
TurnTimesOut(s) ==
    /\ step[s] = "waiting"
    /\ Settle(s, "error")

-----------------------------------------------------------------------------
(* React.                                                                  *)

\* The next render, once the effects of the last one have run.  The auto-save
\* effect depends on busy and does nothing while it is up.
Render ==
    /\ ~due
    /\ screen # [messages |-> shown, busy |-> busy]
    /\ screen' = [messages |-> shown, busy |-> busy]
    /\ due' = (screen.busy /\ ~busy)
    /\ UNCHANGED <<busy, shown, pending, chatId, events, turns, chats>>

\* The auto-save effect; a failed save leaves only a warning.
AutoSave ==
    /\ due
    /\ due' = FALSE
    /\ \/ UNCHANGED saved
       \/ /\ chatId # None /\ screen.messages # Blank
          /\ saved' = [saved EXCEPT ![chatId] = screen.messages]
    /\ UNCHANGED <<busy, shown, screen, pending, chatId, events, loads, deleting, crossed, turns>>

-----------------------------------------------------------------------------
(* AgentEvents.                                                            *)

\* onAgentEvent fills the pending bubble, whichever turn the event is of.
PatchPending(turn, text) == IF pending = None THEN shown ELSE Patched(pending, turn, text)

OnAgentEvent(e) ==
    /\ shown' = PatchPending(e.turn, e.text)
    /\ events' = events \ {e}
    /\ UNCHANGED <<busy, pending, chatId, turns, drawn, chats>>

\* A turn of another webview closes; the wildcard subscription sees it too.
OnForeignEvent ==
    /\ shown' = PatchPending(None, "own")
    /\ UNCHANGED <<busy, pending, chatId, events, turns, drawn, chats>>

\* Core NATS delivers at most once.
EventLost(e) ==
    /\ events' = events \ {e}
    /\ UNCHANGED <<busy, shown, pending, chatId, turns, drawn, chats>>

-----------------------------------------------------------------------------
(* Switching chats.                                                        *)

Cleared == chatId' = None /\ shown' = Blank

\* newChat from the menu of the send button, which a chat drawn busy does not
\* show.  A click is rendered at once: an auto-save that was due runs before the
\* render, finds no chat id and saves nothing.
NewChat ==
    /\ ~screen.busy
    /\ Cleared
    /\ screen' = [messages |-> Blank, busy |-> busy]
    /\ due' = FALSE
    /\ UNCHANGED <<busy, pending, events, turns, chats>>

\* loadChatById: read the row, then show it, whatever has happened meanwhile.
OpenChat(c) ==
    /\ saved[c] # None
    /\ Cardinality(loads) < MaxLoads
    /\ loads' = loads \cup {[chat |-> c, content |-> saved[c]]}
    /\ UNCHANGED <<busy, shown, pending, chatId, events, saved, deleting, crossed, turns, drawn>>

\* Mutant: the scrollback is replaced but not the active id.
ChatOpenedKeepingId(l) ==
    /\ loads' = loads \ {l}
    /\ shown' = l.content
    /\ UNCHANGED <<busy, pending, chatId, events, saved, deleting, crossed, turns, drawn>>

ChatOpened(l) ==
    /\ loads' = loads \ {l}
    /\ chatId' = l.chat
    /\ shown' = l.content
    /\ crossed' = IF due /\ l.chat # chatId THEN crossed \cup {l.chat} ELSE crossed
    /\ UNCHANGED <<busy, pending, events, saved, deleting, turns, drawn>>

\* handleDeleteChat: delete the row, then clear the scrollback if the chat was
\* the active one when the deletion was asked for.
DeleteChat(c) ==
    /\ saved[c] # None
    /\ deleting = None
    /\ saved' = [saved EXCEPT ![c] = None]
    /\ deleting' = [chat |-> c, active |-> c = chatId]
    /\ UNCHANGED <<busy, shown, pending, chatId, events, loads, crossed, turns, drawn>>

ChatDeleted ==
    /\ deleting # None
    /\ deleting' = None
    /\ IF deleting.active THEN Cleared ELSE UNCHANGED <<chatId, shown>>
    /\ UNCHANGED <<busy, pending, events, saved, loads, crossed, turns, drawn>>

-----------------------------------------------------------------------------

SendStep(s) == RequestTurn(s) \/ EventTurn(s) \/ TurnReplied(s) \/ TurnTimesOut(s)

Next ==
    \/ \E s \in Sends : Enter(s) \/ Send(s) \/ SendStep(s) \/ \E o \in Outcomes : AgentEnds(s, o)
    \/ Render
    \/ AutoSave
    \/ \E e \in events : OnAgentEvent(e) \/ EventLost(e)
    \/ OnForeignEvent
    \/ NewChat
    \/ \E c \in Chats : OpenChat(c) \/ DeleteChat(c)
    \/ \E l \in loads : ChatOpened(l)
    \/ ChatDeleted

Spec == Init /\ [][Next]_vars

\* The tuning is read from the browser's store, the request has a timeout, and
\* React renders what was set.
FairSpec == Spec /\ WF_vars(Render) /\ \A s \in Sends : WF_vars(SendStep(s))

-----------------------------------------------------------------------------
(* Properties.                                                             *)

\* Once a turn with a text or an error is settled, its bubble shows exactly
\* that wherever it is kept: on the screen, in a saved chat and in a chat being
\* opened.  Late events, events of other turns, chat switches and turns that
\* overlap each other never change it (useChat.ts:323-330, 400-404, 421-439,
\* 478-529).  Not so for a turn that itself overlapped another: the two may share
\* a bubble id, and the save after the first keeps the second's placeholder.
SettledBubbleIsOwn ==
    \A s \in Sends \ overlapped : outcome[s] \in {"own", "error"} =>
        LET Fits(text) == text \in {"absent", outcome[s]}
        IN  /\ Fits(shown[s])
            /\ \A c \in Chats : saved[c] # None => Fits(saved[c][s])
            /\ \A l \in loads : Fits(l.content[s])

\* Chats do not mix: what is shown or saved under a chat id was sent in that
\* chat, unless that chat became the active one between the render that ended a
\* turn and its auto-save, which then files the other chat's messages under it
\* (useChat.ts:421-439, 454-471).
ChatsDoNotMix ==
    \A s \in Sends :
        /\ shown[s] # "absent" => chatId \in crossed \cup {sentIn[s]}
        /\ \A c \in Chats : saved[c] # None /\ saved[c][s] # "absent" =>
               c \in crossed \cup {sentIn[s]}

\* The input does not stay locked: whenever the chat is drawn busy, it is later
\* drawn ready (useChat.ts:232-236, 400-404).
BusyClears == screen.busy ~> ~screen.busy

\* What useChat.ts:95-97 says of pendingIdRef: streaming events update the
\* right entry.  The handler does not compare the event's turnId.
EventsFillOwnBubble == \A s \in Sends : shown[s] # "other"
=============================================================================

-------------------------------- MODULE Composer --------------------------------
(***************************************************************************)
(* The composer of the oos chat column (Chat.tsx) and the view hint it     *)
(* sends along: a keyword match on every keystroke (store/resolver.ts), an *)
(* embedding match 60 ms later (embedder/embedder.ts), the picker and the  *)
(* pill by hand, and chats dropped onto it from the history                *)
(* (ChatHistoryPanel.tsx). All of them come back at their own time.        *)
(*                                                                         *)
(* A text stands for what the resolver tells apart: the domain its words   *)
(* name, and the domain whose aliases are close to it. The model behind    *)
(* the embedder is external.                                               *)
(***************************************************************************)
EXTENDS Naturals, FiniteSets, Sequences, SequencesExt

CONSTANTS Drafts,      \* texts a user can enter; Empty is not among them
          Keyword,     \* resolveText: the domain a text names, or Unknown
          Similar,     \* the domain an embedding of the text finds, or Unknown
          IndexViews,  \* getViews: the views of every domain, in order
          Chats,       \* saved chats
          Question,    \* the first user message of a chat, a draft
          Caption,     \* the title of a chat, a draft
          MaxKeys,     \* bound: changes of the draft
          MaxDrags,    \* bound: drags
          MaxSends     \* bound: sends

Empty == "empty"
Unknown == "unknown"
Untouched == "untouched"

VARIABLES index,      \* resolver.ts ResolverState.kind
          embedder,   \* embedder.ts EmbedderState.kind
          vectors,    \* resolver.ts aliasVectors: none, building, built
          text,       \* Chat: draft
          mode,       \* Chat: forms; ask (or dev); locked: documents, or events without a stream
          manual,     \* Chat: manualView, Untouched if undefined
          auto,       \* Chat: autoView
          views,      \* Chat: resolvedViews
          picking,    \* Chat: pickerOpen
          keys,       \* resolveStampRef, and the bound on keystrokes
          timer,      \* the pending debounce, 0 if none
          resolves,   \* embedding matches under way
          dropping,   \* dropResolveRef: the number of the pending drop, 0 if none
          waiting,    \* sends that await it
          sent,       \* the calls of onSend
          drags,      \* how many drags there were
          dragged,    \* the chat being dragged
          fetches,    \* loadChat of drags under way
          pending     \* pendingDragText: the chat it was taken from

match == <<index, embedder, vectors>>
draft == <<text, mode>>
Asking == mode = "ask"
pill == <<manual, auto, views, picking>>
drag == <<drags, dragged, fetches, pending>>
all == <<match, draft, pill, keys, timer, resolves, dropping, waiting, sent, drag>>

(* ---- resolver.ts ---- *)
(* The named view, else the default, else the first that looks like a      *)
(* list, else the first that does not look like a detail, else the first.  *)
First(vs, P(_)) == LET hits == SelectSeq(vs, P) IN IF hits = <<>> THEN Unknown ELSE hits[1].name
pickListyView(vs) ==
  LET list == First(vs, LAMBDA v : v.shape = "list")
  IN IF list # Unknown THEN list ELSE First(vs, LAMBDA v : v.shape # "detail")

\* The index entries of a domain; the words of a text (containsWord); the domain
\* closest to it (maxCosine).
ViewsOf(d) == IndexViews[d]
Named(t) == Keyword[t]
Closest(t) == Similar[t]

shapeResult(d, t) ==
  LET vs == ViewsOf(d)
      named == First(vs, LAMBDA v : t \in v.namedBy)
      dflt == First(vs, LAMBDA v : v.default)
      listy == pickListyView(vs)
  IN [domain |-> d, views |-> vs,
      suggestion |-> IF vs = <<>> THEN Unknown
                     ELSE IF named # Unknown THEN named
                     ELSE IF dflt # Unknown THEN dflt
                     ELSE IF listy # Unknown THEN listy ELSE vs[1].name]

NoMatch == [domain |-> Unknown, views |-> <<>>, suggestion |-> Unknown]

resolveText(t) ==
  IF index # "ready" \/ Named(t) = Unknown THEN NoMatch ELSE shapeResult(Named(t), t)

(* What an embedding match ends in: the close domain, or the keyword path  *)
(* when the model fails or nothing is close enough.                        *)
Embedded(t) == IF Closest(t) = Unknown THEN resolveText(t) ELSE shapeResult(Closest(t), t)

loadResolverIndex ==
  /\ index # "ready"
  /\ index' \in {"ready", "error"}
  /\ vectors' = IF index' = "ready" THEN "none" ELSE vectors
  /\ UNCHANGED <<embedder, draft, pill, keys, timer, resolves, dropping, waiting, sent, drag>>

(* ---- embedder.ts: one load, retried by a later call after a failure ---- *)
loadEmbedder ==
  /\ \/ embedder \in {"idle", "error"} /\ embedder' = "loading"
     \/ embedder = "loading" /\ embedder' \in {"ready", "error"}
  /\ UNCHANGED <<index, vectors, draft, pill, keys, timer, resolves, dropping, waiting, sent, drag>>

(* ---- Chat: the resolve effect of a new draft or mode ---- *)
Pinned(r) == IF r.suggestion = Unknown THEN UNCHANGED <<auto, views>>
             ELSE auto' = r.suggestion /\ views' = r.views

Retyped(t, ask) ==
  IF ask \/ t = Empty
    THEN /\ auto' = Unknown /\ views' = <<>>
         /\ timer' = 0
         /\ UNCHANGED keys
    ELSE /\ Pinned(resolveText(t))
         /\ keys' = keys + 1
         /\ timer' = keys + 1

Type(t) ==
  /\ keys < MaxKeys /\ text # t /\ mode # "locked"
  /\ text' = t
  /\ Retyped(t, Asking)
  /\ UNCHANGED <<match, mode, manual, picking, resolves, dropping, waiting, sent, drag>>

(* The effect runs again only when ask mode begins or ends. *)
SwitchMode(m) ==
  /\ keys < MaxKeys /\ mode # m
  /\ mode' = m
  /\ IF Asking = (m = "ask") THEN UNCHANGED <<auto, views, keys, timer>> ELSE Retyped(text, m = "ask")
  /\ UNCHANGED <<match, text, manual, picking, resolves, dropping, waiting, sent, drag>>

isReady == embedder = "ready"

Resolving(stamp, drop) ==
  [stamp |-> stamp, drop |-> drop, text |-> text', sync |-> resolveText(text'),
   embed |-> index = "ready" /\ isReady]

(* The debounce is over. *)
Debounced ==
  /\ timer # 0
  /\ timer' = 0
  /\ text' = text
  /\ resolves' = resolves \cup {Resolving(timer, 0)}
  /\ UNCHANGED <<match, mode, pill, keys, dropping, waiting, sent, drag>>

(* ensureAliasVectors: the first match builds, the others await it. *)
ensureAliasVectors ==
  /\ \E r \in resolves : r.embed
  /\ \/ vectors = "none" /\ vectors' = "building"
     \/ vectors = "building" /\ vectors' \in {"built", "none"}
  /\ UNCHANGED <<index, embedder, draft, pill, keys, timer, resolves, dropping, waiting, sent, drag>>

(* Mutant: the stamp is not compared. *)
EmbeddedKeystrokeUnstamped(r) ==
  /\ r \in resolves /\ r.drop = 0 /\ (r.embed => vectors # "building")
  /\ resolves' = resolves \ {r}
  /\ LET res == IF r.embed /\ vectors = "built" THEN Embedded(r.text) ELSE resolveText(r.text)
     IN IF res.domain # Unknown /\ res.domain # r.sync.domain
          THEN Pinned(res) ELSE UNCHANGED <<auto, views>>
  /\ UNCHANGED <<match, draft, manual, picking, keys, timer, dropping, waiting, sent, drag>>

EmbeddedKeystroke(r) ==
  /\ r \in resolves /\ r.drop = 0 /\ (r.embed => vectors # "building")
  /\ resolves' = resolves \ {r}
  /\ LET res == IF r.embed /\ vectors = "built" THEN Embedded(r.text) ELSE resolveText(r.text)
     IN IF r.stamp = keys /\ res.domain # Unknown /\ res.domain # r.sync.domain
          THEN Pinned(res) ELSE UNCHANGED <<auto, views>>
  /\ UNCHANGED <<match, draft, manual, picking, keys, timer, dropping, waiting, sent, drag>>

(* ---- Dragging a chat out of the history ---- *)
HandleDragStart(c) ==
  /\ dragged = Unknown /\ drags < MaxDrags
  /\ drags' = drags + 1
  /\ dragged' = c
  /\ fetches' = fetches \cup {[chat |-> c, no |-> drags]}
  /\ UNCHANGED <<match, draft, pill, keys, timer, resolves, dropping, waiting, sent, pending>>

ChatFetched(f) ==
  /\ f \in fetches
  /\ fetches' = fetches \ {f}
  /\ pending' \in {f.chat, pending}   \* it may be deleted by now, or hold no question
  /\ UNCHANGED <<match, draft, pill, keys, timer, resolves, dropping, waiting, sent, drags, dragged>>

DragEnd ==
  /\ dragged # Unknown
  /\ dragged' = Unknown
  /\ UNCHANGED <<match, draft, pill, keys, timer, resolves, dropping, waiting, sent, drags, fetches, pending>>

(* onDrop: the text replaces the draft; its embedding match runs at once   *)
(* and unstamped, beside the one of the draft's own effect.                *)
OnDrop ==
  /\ dragged # Unknown /\ keys < MaxKeys
  /\ dragged' = Unknown
  /\ pending' = Unknown
  /\ text' = IF pending # Unknown THEN Question[pending] ELSE Caption[dragged]
  /\ Retyped(text', Asking)
  /\ resolves' = resolves \cup {Resolving(0, drags)}
  /\ dropping' = drags
  /\ UNCHANGED <<match, mode, manual, picking, waiting, sent, drags, fetches>>

EmbeddedDrop(r) ==
  /\ r \in resolves /\ r.drop # 0 /\ (r.embed => vectors # "building")
  /\ resolves' = resolves \ {r}
  /\ LET res == IF r.embed /\ vectors = "built" THEN Embedded(r.text) ELSE resolveText(r.text)
         hint == IF res.suggestion # Unknown THEN res.suggestion ELSE r.sync.suggestion
     IN /\ Pinned(res)
        /\ waiting' = {IF w.drop = r.drop THEN [w EXCEPT !.drop = 0, !.hint = hint] ELSE w : w \in waiting}
  /\ dropping' = IF dropping = r.drop THEN 0 ELSE dropping
  /\ UNCHANGED <<match, draft, manual, picking, keys, timer, sent, drag>>

(* ---- The pill and the picker ---- *)
Effective == IF manual = Untouched THEN auto ELSE manual

\* The picker lists the views of the match, and no view at all.
Offered == {views[i].name : i \in 1..Len(views)} \cup {Unknown}

TogglePicker ==
  /\ mode = "forms" /\ views # <<>>
  /\ picking' = ~picking
  /\ UNCHANGED <<match, draft, manual, auto, views, keys, timer, resolves, dropping, waiting, sent, drag>>

SelectView(v) ==
  /\ mode = "forms" /\ picking /\ views # <<>>
  /\ manual' = v /\ picking' = FALSE
  /\ UNCHANGED <<match, draft, auto, views, keys, timer, resolves, dropping, waiting, sent, drag>>

ClearHint ==
  /\ mode = "forms" /\ Effective # Unknown
  /\ manual' = Unknown /\ picking' = FALSE
  /\ UNCHANGED <<match, draft, auto, views, keys, timer, resolves, dropping, waiting, sent, drag>>

(* ---- send ---- *)
(* What goes out: the hint found, else a last keyword match unless the     *)
(* user cleared the pill; in ask mode none.                                *)
Outgoing(w) ==
  [text |-> w.text, ask |-> w.ask,
   hint |-> IF w.ask THEN Unknown
            ELSE IF w.hint = Unknown /\ w.manual # Unknown THEN resolveText(w.text).suggestion
            ELSE w.hint]

Cleared == /\ text' = Empty
           /\ manual' = Untouched /\ picking' = FALSE
           /\ auto' = Unknown /\ views' = <<>>
           /\ timer' = 0

Attempt == [text |-> text, ask |-> Asking, manual |-> manual, hint |-> Effective, drop |-> dropping]

Send ==
  /\ text # Empty /\ mode # "locked" /\ Len(sent) + Cardinality(waiting) < MaxSends
  /\ IF dropping # 0
       THEN /\ waiting' = waiting \cup {Attempt}
            /\ UNCHANGED <<text, pill, timer, sent>>
       ELSE /\ Cleared
            /\ sent' = Append(sent, Outgoing(Attempt))
            /\ UNCHANGED waiting
  /\ UNCHANGED <<match, mode, keys, resolves, dropping, drag>>

(* The awaited drop is resolved: the send goes on with what it captured.   *)
SendAfterDrop(w) ==
  /\ w \in waiting /\ w.drop = 0
  /\ waiting' = waiting \ {w}
  /\ sent' = Append(sent, Outgoing(w))
  /\ Cleared
  /\ UNCHANGED <<match, mode, keys, resolves, dropping, drag>>

Init ==
  /\ index = "loading" /\ embedder = "idle" /\ vectors = "none"
  /\ text = Empty /\ mode = "forms"
  /\ manual = Untouched /\ auto = Unknown /\ views = <<>> /\ picking = FALSE
  /\ keys = 0 /\ timer = 0 /\ resolves = {} /\ dropping = 0 /\ waiting = {}
  /\ sent = <<>>
  /\ drags = 0 /\ dragged = Unknown /\ fetches = {} /\ pending = Unknown

Next ==
  \/ loadResolverIndex
  \/ loadEmbedder
  \/ ensureAliasVectors
  \/ \E t \in Drafts \cup {Empty} : Type(t)
  \/ \E m \in {"forms", "ask", "locked"} : SwitchMode(m)
  \/ Debounced
  \/ \E r \in resolves : EmbeddedKeystroke(r) \/ EmbeddedDrop(r)
  \/ \E c \in Chats : HandleDragStart(c)
  \/ \E f \in fetches : ChatFetched(f)
  \/ DragEnd
  \/ OnDrop
  \/ TogglePicker
  \/ \E v \in Offered : SelectView(v)
  \/ ClearHint
  \/ Send
  \/ \E w \in waiting : SendAfterDrop(w)

Spec == Init /\ [][Next]_all

---------------------------------------------------------------------------------
(* While a draft is being typed no late answer to an earlier keystroke     *)
(* changes the pill: the pill moves only to a view of the text as it is,   *)
(* or of a drop.                                                           *)
PillStep ==
  auto' # auto /\ auto' # Unknown /\ text' # Empty /\ mode' # "ask" =>
    \/ auto' \in {resolveText(text').suggestion, Embedded(text').suggestion}
    \/ \E r \in resolves \ resolves' : r.drop # 0

PillFollowsTheText == [][PillStep]_all
=================================================================================

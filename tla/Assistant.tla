------------------------------ MODULE Assistant ------------------------------
(***************************************************************************)
(* The designer's assistant (apps/oosd/src/mainview): ChatPanel.tsx with   *)
(* the pills of DslPills.tsx, the resolver that recognises domains and a   *)
(* view in the text (embedder/dsl-resolver.ts) and the embedder behind it. *)
(* rpc.chat answers at this commit with an error and never streams, so no  *)
(* token and no end of a turn reaches the panel.                           *)
(*                                                                         *)
(* Keyword[t] and Similar[t] are what the text t says to each path: the    *)
(* ids its words name; the closest domain and view, each with the band its *)
(* score falls into ("low" < EMBED_LOW <= "mid" < EMBED_HIGH <= "high").   *)
(***************************************************************************)
EXTENDS Naturals, FiniteSets

CONSTANTS Drafts, Keyword, Similar, MaxKeys, MaxSends

NoView == "none"
NoIntent == [domains |-> {}, view |-> NoView]
Empty == "empty"                     \* the empty draft

VARIABLES
  index,              \* dsl-resolver: entries null, building or loaded
  model, vectors,     \* the embedder's state, vecCache
  input, timer,       \* the draft and the debounce of resolveDebounced
  resolving,          \* resolveIntent calls that await the embedder
  resolved,           \* resolvedDomainIds, resolvedViewId
  cleared,            \* clearedDomains, and the view when viewCleared
  busy, failed,       \* the panel's busy and error
  turns,              \* sends: the domains to load, the context, the stage
  keys, sends         \* bounds

assistant == << index, model, vectors, input, timer, resolving, resolved, cleared, busy,
                failed, turns, keys, sends >>

resolver == << index, model, vectors >>
pills == << resolving, resolved, cleared >>

Init ==
  /\ index = "building" /\ model = "idle" /\ vectors = FALSE
  /\ input = Empty /\ timer = TRUE
  /\ resolving = {} /\ resolved = NoIntent /\ cleared = {}
  /\ busy = FALSE /\ failed = FALSE /\ turns = {}
  /\ keys = 0 /\ sends = 0

-----------------------------------------------------------------------------
\* initDslResolver: the ids arrive (an unreachable bus yields none), and the
\* model starts loading behind them.
IndexLoaded ==
  /\ index = "building"
  /\ index' \in {"loaded", "empty"}
  /\ model' = "loading"
  /\ UNCHANGED << vectors, input, timer, pills, busy, failed, turns, keys, sends >>

\* loadEmbedder ends; a failed load is not tried again.
ModelLoaded ==
  /\ model = "loading"
  /\ model' \in {"ready", "error"}
  /\ UNCHANGED << index, vectors, input, timer, pills, busy, failed, turns, keys, sends >>

\* The ids the words of the text name, as whole words.
containsWord(t) == Keyword[t]

\* Phase 1.
resolveKeyword(t) == IF index = "loaded" THEN containsWord(t) ELSE NoIntent

\* The aliases closest to the text: the best domain and the best view.
maxCosine(t) == Similar[t]

isReady == model = "ready"

\* The aliases are embedded once, before the first text is compared with them.
ensureVectors == vectors' = TRUE

\* Phase 2: below the lower threshold the words decide, between the two they
\* decide if they name anything.
resolveWithEmbedding(t) ==
  LET s == maxCosine(t)
      kw == resolveKeyword(t)
  IN IF \/ index # "loaded"
        \/ s.dBand = "low" /\ s.vBand = "low"
        \/ s.dBand = "mid" /\ kw.domains # {}
        \/ s.vBand = "mid" /\ kw.view # NoView
     THEN kw
     ELSE [domains |-> IF s.dBand = "low" THEN {} ELSE {s.domain},
           view |-> IF s.vBand = "low" THEN NoView ELSE s.view]

\* resolveIntent once the model is there: its answer, or the words' when embedding
\* throws.
resolveIntent(t) == {resolveWithEmbedding(t), resolveKeyword(t)}

-----------------------------------------------------------------------------
Key ==
  /\ ~busy /\ keys < MaxKeys
  /\ keys' = keys + 1
  /\ \E t \in (Drafts \cup {Empty}) \ {input} : input' = t
  /\ timer' = TRUE
  /\ UNCHANGED << resolver, pills, busy, failed, turns, sends >>

\* resolveDebounced: the empty text has no pills; another is resolved, by its
\* words at once or by the model when it gets there.
Resolve ==
  /\ timer
  /\ timer' = FALSE
  /\ cleared' = {}
  /\ IF input = Empty
     THEN resolved' = NoIntent /\ UNCHANGED resolving
     ELSE IF index = "building"
     THEN resolved' = NoIntent /\ UNCHANGED resolving
     ELSE IF isReady
     THEN resolving' = resolving \cup {[key |-> keys, text |-> input]} /\ UNCHANGED resolved
     ELSE resolved' = resolveKeyword(input) /\ UNCHANGED resolving
  /\ UNCHANGED << resolver, input, busy, failed, turns, keys, sends >>

\* resolveIntent comes back; whichever draft it is for, it becomes the pills.
Resolved ==
  /\ \E r \in resolving :
       /\ resolving' = resolving \ {r}
       /\ resolved' \in resolveIntent(r.text)
  /\ ensureVectors
  /\ UNCHANGED << index, model, input, timer, cleared, busy, failed, turns, keys, sends >>

\* The X of a pill.
visibleDomains == resolved.domains \ cleared
visibleView == IF resolved.view \in cleared THEN NoView ELSE resolved.view

Clear ==
  /\ \E id \in (visibleDomains \cup {visibleView}) \ {NoView} : cleared' = cleared \cup {id}
  /\ UNCHANGED << resolver, input, timer, resolving, resolved, busy, failed, turns, keys, sends >>

-----------------------------------------------------------------------------
\* send: the draft is taken, and the sources of the recognised domains are
\* loaded before the turn is asked for.  shown is what the pills said.
Send ==
  /\ input # Empty /\ ~busy /\ sends < MaxSends
  /\ sends' = sends + 1
  /\ input' = Empty /\ timer' = TRUE
  /\ busy' = TRUE /\ failed' = FALSE
  /\ turns' = turns \cup
       {[n |-> sends, stage |-> "loading", todo |-> resolved.domains, sources |-> {},
         view |-> resolved.view, shown |-> [domains |-> visibleDomains, view |-> visibleView]]}
  /\ UNCHANGED << resolver, pills, keys >>

\* The source, or null for a row or a bus that is gone.
loadDomainSource(d) == {{d}, {}}

LoadSource ==
  /\ \E q \in turns : \E d \in q.todo : \E got \in loadDomainSource(d) :
       /\ q.stage = "loading"
       /\ turns' = (turns \ {q}) \cup
            {[q EXCEPT !.todo = @ \ {d}, !.sources = @ \cup got]}
  /\ UNCHANGED << resolver, input, timer, pills, busy, failed, keys, sends >>

\* rpc.chat is called with the context, a cancelled turn's too.
Ask ==
  /\ \E q \in turns :
       /\ q.stage = "loading" /\ q.todo = {}
       /\ turns' = (turns \ {q}) \cup {[q EXCEPT !.stage = "asked"]}
  /\ UNCHANGED << resolver, input, timer, pills, busy, failed, keys, sends >>

\* It resolves with ok: false; only a rejection would reach the panel's catch.
Answered ==
  /\ \E q \in turns : q.stage = "asked" /\ turns' = turns \ {q}
  /\ UNCHANGED << resolver, input, timer, pills, busy, failed, keys, sends >>

cancel ==
  /\ busy
  /\ busy' = FALSE
  /\ UNCHANGED << resolver, input, timer, pills, failed, turns, keys, sends >>

Next ==
  \/ IndexLoaded \/ ModelLoaded \/ Key \/ Resolve \/ Resolved \/ Clear
  \/ Send \/ LoadSource \/ Ask \/ Answered \/ cancel

Spec == Init /\ [][Next]_assistant

-----------------------------------------------------------------------------
\* "Domain pill: green - shows which domain source will be injected."  "Both carry
\* an X to clear the hint independently": nothing is injected that the pills did
\* not show when the message was sent.
InjectedAsShown ==
  \A q \in turns :
    q.sources \subseteq q.shown.domains /\ q.view \in {NoView, q.shown.view}
=============================================================================

------------------------------- MODULE Preview -------------------------------
(***************************************************************************)
(* The language worker and what the designer's editor pane derives from    *)
(* the source through it: the diagnostics of SourceEditor (src/lang/worker *)
(* /diagnostics-client.ts), the live form of PreviewRenderer.tsx and the   *)
(* chunk of ChunkPanel.tsx.  The three share one worker and one counter of *)
(* request ids (worker.ts); the worker awaits each parse, so its replies   *)
(* leave in any order.  apps/oos carries a port of the worker and of its   *)
(* clients.                                                                *)
(*                                                                         *)
(* A source text is the number of the edit that made it, 0 is the empty    *)
(* text.  The worker throws on the texts in Unmappable.                    *)
(***************************************************************************)
EXTENDS Naturals

CONSTANTS Unmappable, MaxTexts, MaxRequests, MaxSwitches

Nothing == 0

VARIABLES
  pane,       \* EditorPane's tab: only its component is mounted
  text, last, \* the source, and the last text made
  nextId,     \* newRequestId
  jobs,       \* requests the worker has not answered
  valTimer, latest, markers,          \* diagnostics-client: debounce,
                                      \* pendingByModel, the text marked up
  prevTimer, def, failed, mock,       \* PreviewRenderer: debounce, the text of
                                      \* def, errors, the text of domainDef
  domainFetch,                        \* the text whose domain is being fetched
  chunkJob, chunk, chunkBroken,       \* ChunkPanel: the uncancelled request,
                                      \* the text and kind of its state
  switches

surfaces == << pane, text, last, nextId, jobs, valTimer, latest, markers, prevTimer, def,
               failed, mock, domainFetch, chunkJob, chunk, chunkBroken, switches >>

validation == << valTimer, latest, markers >>
form == << prevTimer, def, failed, mock, domainFetch >>
chunks == << chunkJob, chunk, chunkBroken >>

Init ==
  /\ pane = "source"
  /\ text = 0 /\ last = 0
  /\ nextId = 1 /\ jobs = {}
  /\ valTimer = TRUE /\ latest = 0 /\ markers = Nothing
  /\ prevTimer = FALSE /\ def = Nothing /\ failed = FALSE /\ mock = Nothing
  /\ domainFetch = Nothing
  /\ chunkJob = 0 /\ chunk = Nothing /\ chunkBroken = FALSE
  /\ switches = 0

-----------------------------------------------------------------------------
\* WorkerRequest.  Its reply carries the same id and type, and what the worker
\* made of the text.
Request(type, t) == [id |-> nextId, type |-> type, text |-> t]

\* postMessage: a request joins the worker's, under the next id.
Post(type, t) ==
  /\ nextId <= MaxRequests
  /\ nextId' = nextId + 1
  /\ jobs' = jobs \cup {Request(type, t)}

Quiet == UNCHANGED << nextId, jobs >>

\* ChunkPanel's effect: the empty text resets it, another cancels the request
\* under way and starts its own.
ChunkEffect(t) ==
  IF t = 0
  THEN /\ chunk' = Nothing /\ chunkBroken' = FALSE /\ chunkJob' = 0
       /\ Quiet
  ELSE /\ chunkJob' = nextId
       /\ UNCHANGED << chunk, chunkBroken >>
       /\ Post("chunk", t)

\* PreviewRenderer's effect: the empty text resets it, another re-arms the
\* debounce.  A parse already under way is not touched.
FormEffect(t) ==
  /\ prevTimer' = (t # 0)
  /\ IF t = 0
     THEN def' = Nothing /\ mock' = Nothing /\ failed' = FALSE /\ domainFetch' = Nothing
     ELSE UNCHANGED << def, mock, failed, domainFetch >>

\* What a new text means to the component that is mounted.
Effects(t) ==
  CASE pane = "chunk"   -> ChunkEffect(t) /\ UNCHANGED form
    [] pane = "preview" -> FormEffect(t) /\ Quiet /\ UNCHANGED chunks
    [] OTHER            -> Quiet /\ UNCHANGED << form, chunks >>

-----------------------------------------------------------------------------
\* validateModel: the timer of the model starts anew.
validateModel == valTimer' = TRUE

clearMarkers == markers' = Nothing

\* handleChange: a keystroke; validateModel re-arms its debounce.
Type ==
  /\ pane = "source" /\ last < MaxTexts
  /\ last' = last + 1 /\ text' = last + 1
  /\ validateModel
  /\ Quiet
  /\ UNCHANGED << pane, latest, markers, form, chunks, switches >>

\* A row is selected: its text is empty until it is loaded.  The effect of the
\* mounted SourceEditor wipes the markers and validates.
SelectRow ==
  /\ text # 0 /\ last < MaxTexts
  /\ text' = 0
  /\ IF pane = "source" THEN validateModel /\ clearMarkers
                        ELSE UNCHANGED << valTimer, markers >>
  /\ Effects(0)
  /\ UNCHANGED << pane, last, latest, switches >>

\* The row's source arrives, or the chat puts one in.
LoadRow ==
  /\ last < MaxTexts
  /\ last' = last + 1 /\ text' = last + 1
  /\ Effects(last + 1)
  /\ UNCHANGED << pane, validation, switches >>

\* Tabs with keepMounted = false: the component that is left forgets its state,
\* and nothing listens for its replies; the one that is entered starts afresh.
SwitchPane ==
  /\ switches < MaxSwitches
  /\ switches' = switches + 1
  /\ \E p \in {"source", "preview", "chunk"} \ {pane} :
       /\ pane' = p
       /\ valTimer' = (p = "source") /\ latest' = 0 /\ clearMarkers
       /\ prevTimer' = (p = "preview" /\ text # 0)
       /\ def' = Nothing /\ failed' = FALSE /\ mock' = Nothing /\ domainFetch' = Nothing
       /\ chunk' = Nothing /\ chunkBroken' = FALSE
       /\ IF p = "chunk" /\ text # 0
          THEN /\ chunkJob' = nextId
               /\ nextId <= MaxRequests
               /\ nextId' = nextId + 1
               /\ jobs' = {Request("chunk", text)}
          ELSE chunkJob' = 0 /\ jobs' = {} /\ UNCHANGED nextId
  /\ UNCHANGED << text, last >>

-----------------------------------------------------------------------------
\* The debounce of validateModel: dispatch sends the model's text as it is now
\* and becomes the request the model waits for.
Dispatch ==
  /\ valTimer
  /\ valTimer' = FALSE
  /\ latest' = nextId
  /\ Post("validate", text)
  /\ UNCHANGED << pane, text, last, markers, form, chunks, switches >>

\* The debounce of PreviewRenderer: the text goes out.
ParseForm ==
  /\ prevTimer
  /\ prevTimer' = FALSE
  /\ Post("parseView", text)
  /\ UNCHANGED << pane, text, last, validation, def, failed, mock, domainFetch, chunks, switches >>

\* Mutant: a reply is applied whatever was dispatched since.
StaleToo(j) == TRUE

\* "Drop stale replies: only the latest dispatched id wins."
Wanted(j) == j.id = latest

ValidateReply(j) ==
  /\ j.type = "validate"
  /\ markers' = IF Wanted(j) THEN j.text ELSE markers
  /\ UNCHANGED << valTimer, latest, form, chunks >>

\* The parse throws, and postFailure answers in the shape the client waits for.
Throws(j) == j.text \in Unmappable

\* handleParseView: the definition of the text, none after a failure.
ParsedView(j) == IF Throws(j) THEN Nothing ELSE j.text

\* setDef and setErrors with whatever came back: the definition of the text, or
\* none and the worker's failure.  A new definition cancels the fetch of the
\* previous one's domain and starts its own.
FormReply(j) ==
  /\ j.type = "parseView"
  /\ def' = ParsedView(j)
  /\ failed' = Throws(j)
  /\ IF Throws(j)
     THEN mock' = Nothing /\ domainFetch' = Nothing
     ELSE /\ domainFetch' = IF def = j.text THEN domainFetch ELSE j.text
          /\ UNCHANGED mock
  /\ UNCHANGED << prevTimer, validation, chunks >>

\* renderForSource: a cancelled effect drops its result.
ChunkReply(j) ==
  /\ j.type = "chunk"
  /\ IF j.id = chunkJob
     THEN chunk' = j.text /\ chunkBroken' = Throws(j) /\ chunkJob' = 0
     ELSE UNCHANGED chunks
  /\ UNCHANGED << validation, form >>

\* The worker finishes one of its requests, and each client takes the replies of
\* its own type.
WorkerReply ==
  /\ \E j \in jobs :
       /\ jobs' = jobs \ {j}
       /\ \/ ValidateReply(j)
          \/ FormReply(j)
          \/ ChunkReply(j)
  /\ UNCHANGED << pane, text, last, nextId, switches >>

\* handleParseDomain: the domain bound to the view of the text, or none.
ParsedDomain(t) == {Nothing, t}

\* The bound domain arrives and is parsed, or is missing.
DomainReply ==
  /\ domainFetch # Nothing
  /\ domainFetch' = Nothing
  /\ mock' \in ParsedDomain(domainFetch)
  /\ UNCHANGED << pane, text, last, nextId, jobs, validation, prevTimer, def, failed, chunks,
                  switches >>

Next ==
  \/ Type \/ SelectRow \/ LoadRow \/ SwitchPane
  \/ Dispatch \/ ParseForm \/ WorkerReply \/ DomainReply

Spec == Init /\ [][Next]_surfaces

-----------------------------------------------------------------------------
\* The markers under the source never fall back to an older text's: a reply that
\* was overtaken by a newer one is dropped, however the worker reorders them.
SquiggleStep ==
  markers' # Nothing /\ pane' = pane => markers' >= markers

SquigglesNeverGoBack == [][SquiggleStep]_surfaces

\* Once its request is answered the chunk tab shows the chunk of the source in
\* the editor, and not of one that was replaced meanwhile.
ChunkCatchesUp ==
  pane = "chunk" /\ chunkJob = 0 => chunk = text
=============================================================================

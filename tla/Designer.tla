------------------------------ MODULE Designer ------------------------------
(***************************************************************************)
(* The designer's main window (apps/oosd/src/mainview): App.tsx keeps one  *)
(* KindState for the domains and one for the views, IdList and             *)
(* NewItemDialog create and delete rows, EditorPane and SourceEditor edit  *)
(* the selected one, and every operation is a request to oosai through     *)
(* rpc.ts.  No request is stamped: the replies come back in any order,     *)
(* late, as errors, or as errors of requests that were carried out.        *)
(*                                                                         *)
(* A source text is a record: the row (kind, of) it was typed, loaded or   *)
(* created for and a revision: 0 is a stub or an error, 1 what was stored   *)
(* before.                                                                 *)
(***************************************************************************)
EXTENDS Naturals, FiniteSets

CONSTANTS RowIds, PaneTabs, MaxOps, MaxWire, MaxRevisions

Kinds == {"domain", "view"}
Nobody == "nobody"                    \* null, in selected and pendingDelete
EmptyText == [kind |-> "domain", of |-> Nobody, rev |-> 0]
Absent == [kind |-> "view", of |-> Nobody, rev |-> 0]

VARIABLES
  rows,      \* oosai: kind -> id -> the stored source or Absent
  kind,      \* what the sidebar shows: a kind, or "other" for a full panel
  st,        \* kind -> KindState
  saving,
  dialog,    \* NewItemDialog: "closed", "open" or "submitting"
  doomed,    \* IdList's pendingDelete and deleting
  tab,       \* EditorPane's tab
  wire,      \* requests and replies under way
  ops, revs  \* bounds

designer == << rows, kind, st, saving, dialog, doomed, tab,
               wire, ops, revs >>

emptyKindState == [ids |-> {}, selected |-> Nobody, source |-> EmptyText, dirty |-> FALSE]

NotDeleting == [id |-> Nobody, running |-> FALSE]

\* One request: n keeps equal requests apart, then says which continuation of
\* App.tsx the list of ids is awaited by.
Request(n, op, k, i, text, then) ==
  [n |-> n, op |-> op, kind |-> k, id |-> i, text |-> text, then |-> then,
   answered |-> FALSE, ok |-> FALSE, ids |-> {}]

Ask(op, k, i, text, then) == Request(ops, op, k, i, text, then)

Init ==
  /\ rows = [k \in Kinds |-> [i \in RowIds[k] |-> [kind |-> k, of |-> i, rev |-> 1]]]
  /\ kind = "domain"
  /\ st = [k \in Kinds |-> emptyKindState]
  /\ saving = FALSE
  /\ dialog = "closed"
  /\ doomed = NotDeleting
  /\ tab = "source"
  /\ wire = {Request(0, "list", "domain", Nobody, EmptyText, "nothing"),
             Request(1, "list", "view", Nobody, EmptyText, "nothing")}
  /\ ops = 2
  /\ revs = 1

-----------------------------------------------------------------------------
\* The windows of the screen.  A modal covers everything else.

Uncovered == dialog = "closed" /\ doomed.id = Nobody

InEditor == Uncovered /\ kind \in Kinds

active == IF kind = "domain" THEN st["domain"] ELSE st["view"]

\* NewItemDialog's reset effect: the dialog starts afresh when it opens and
\* whenever the selection behind it changes, a submission under way or not.
Behind(d) ==
  LET now == (IF kind' = "domain" THEN st'["domain"] ELSE st'["view"]).selected
  IN dialog' = IF d = "submitting" /\ now # active.selected THEN "open" ELSE d

Send(q) ==
  ops < MaxOps /\ Cardinality(wire) < MaxWire /\ wire' = wire \cup {q} /\ ops' = ops + 1

-----------------------------------------------------------------------------
\* Sidebar: the kind is switched; nothing of either kind's state is touched.
SwitchKind ==
  /\ Uncovered
  /\ \E k \in (Kinds \cup {"other"}) \ {kind} :
       /\ kind' = k
       /\ tab' = IF "other" \in {kind, k} THEN "source" ELSE tab  \* EditorPane remounts
  /\ UNCHANGED st
  /\ Behind(dialog)
  /\ UNCHANGED << rows, saving, doomed, wire, ops, revs >>

\* EditorPane: the tabs of the editor; the preview is offered for a view only.
PickTab ==
  /\ InEditor
  /\ \E v \in PaneTabs \ {tab} :
       (v = "preview" => kind = "view") /\ tab' = v
  /\ UNCHANGED << rows, kind, st, saving, dialog, doomed, wire, ops, revs >>

\* refreshActive, from the refresh icon.
Refresh ==
  /\ InEditor
  /\ Send(Ask("list", kind, Nobody, EmptyText, "nothing"))
  /\ UNCHANGED << rows, kind, st, saving, dialog, doomed, tab, revs >>

\* selectId: the row becomes the selection with an empty text, and is loaded.
Select ==
  /\ InEditor
  /\ \E i \in active.ids :
       /\ Send(Ask("load", kind, i, EmptyText, "nothing"))
       /\ st' = [st EXCEPT ![kind] = [@ EXCEPT !.selected = i, !.source = EmptyText,
                                               !.dirty = FALSE]]
  /\ UNCHANGED kind
  /\ Behind(dialog)
  /\ UNCHANGED << rows, saving, doomed, tab, revs >>

\* handleChange and onSourceChange: a keystroke into the selected row.  The drop
\* of a DSL from the chat goes through the same handler, and also reaches an
\* editor that shows no row.
Type ==
  /\ InEditor /\ tab = "source"
  /\ revs < MaxRevisions
  /\ revs' = revs + 1
  /\ st' = [st EXCEPT ![kind] =
              [@ EXCEPT !.source = [kind |-> kind, of |-> active.selected, rev |-> revs + 1],
                        !.dirty = TRUE]]
  /\ UNCHANGED kind
  /\ Behind(dialog)
  /\ UNCHANGED << rows, saving, doomed, tab, wire, ops >>

\* onSave: the row and the text as they are when the button is pressed.
Save ==
  /\ InEditor /\ tab = "source"
  /\ active.selected # Nobody /\ active.dirty /\ ~saving
  /\ Send(Ask("save", kind, active.selected, active.source, "nothing"))
  /\ saving' = TRUE
  /\ UNCHANGED << rows, kind, st, dialog, doomed, tab, revs >>

\* setOpenDslInEditorHandler, as the assistant's view pill calls it: the view is
\* selected with an empty text that counts as an edit, and nothing is loaded.
OpenDsl ==
  /\ Uncovered /\ ops < MaxOps
  /\ ops' = ops + 1
  /\ kind' = "view"
  /\ tab' = IF kind = "other" THEN "source" ELSE tab
  /\ \E i \in RowIds["view"] :
       st' = [st EXCEPT !["view"] = [@ EXCEPT !.selected = i, !.dirty = TRUE,
                                              !.source = EmptyText]]
  /\ Behind(dialog)
  /\ UNCHANGED << rows, saving, doomed, wire, revs >>

-----------------------------------------------------------------------------
\* IdList: the delete confirmation.

AskDelete ==
  /\ InEditor
  /\ \E i \in active.ids : doomed' = [id |-> i, running |-> FALSE]
  /\ UNCHANGED << rows, kind, st, saving, dialog, tab, wire, ops, revs >>

CancelDelete ==
  /\ doomed.id # Nobody /\ ~doomed.running
  /\ doomed' = NotDeleting
  /\ UNCHANGED << rows, kind, st, saving, dialog, tab, wire, ops, revs >>

ConfirmDelete ==
  /\ doomed.id # Nobody /\ ~doomed.running
  /\ doomed' = [doomed EXCEPT !.running = TRUE]
  /\ Send(Ask("delete", kind, doomed.id, EmptyText, "nothing"))
  /\ UNCHANGED << rows, kind, st, saving, dialog, tab, revs >>

-----------------------------------------------------------------------------
\* NewItemDialog.

OpenNew ==
  /\ InEditor
  /\ dialog' = "open"
  /\ UNCHANGED << rows, kind, st, saving, doomed, tab, wire, ops, revs >>

\* The Cancel button is disabled while submitting; the modal's own close is not.
CloseNew ==
  /\ dialog # "closed"
  /\ dialog' = "closed"
  /\ UNCHANGED << rows, kind, st, saving, doomed, tab, wire, ops, revs >>

\* validate, against the ids as the list shows them
validate(i) == i \notin active.ids

\* stubSource, or the text the editor holds: either is now the new row's.
NewSource(k, i, copy) ==
  IF copy /\ active.source # EmptyText
  THEN [kind |-> k, of |-> i, rev |-> active.source.rev]
  ELSE [kind |-> k, of |-> i, rev |-> 0]

\* handleSubmit and onSubmitNew: the id typed and the template chosen; a copy is
\* offered while a row is selected.
SubmitNew ==
  /\ dialog = "open"
  /\ \E i \in RowIds[kind], copy \in BOOLEAN :
       /\ validate(i)
       /\ copy => active.selected # Nobody
       /\ Send(Ask("insert", kind, i, NewSource(kind, i, copy), "nothing"))
  /\ dialog' = "submitting"
  /\ UNCHANGED << rows, kind, st, saving, doomed, tab, revs >>

-----------------------------------------------------------------------------
\* oosai: a request is carried out and answered; it fails, or it is carried out
\* and the answer is lost, which the caller cannot tell apart.
Perform(q) ==
  CASE q.op \in {"save", "insert"} -> [rows EXCEPT ![q.kind][q.id] = q.text]
    [] q.op = "delete" -> [rows EXCEPT ![q.kind][q.id] = Absent]
    [] OTHER -> rows

Serve ==
  \E q \in wire, ok \in BOOLEAN, done \in BOOLEAN :
    /\ ~q.answered
    /\ ok => done
    /\ q.op \in {"list", "load"} => done = ok
    /\ rows' = IF done THEN Perform(q) ELSE rows
    /\ wire' = (wire \ {q}) \cup
         {[q EXCEPT !.answered = TRUE, !.ok = ok,
                    !.text = IF q.op = "load" /\ ok THEN rows[q.kind][q.id] ELSE @,
                    !.ids = IF q.op = "list" THEN {i \in RowIds[q.kind] : rows[q.kind][i] # Absent}
                            ELSE @]}
    /\ UNCHANGED << kind, st, saving, dialog, doomed, tab, ops, revs >>

\* What follows the await of selectId: the loaded source, an empty one when the
\* row is gone, or the error as a comment.
LoadedSource(q) ==
  IF q.ok THEN IF q.text = Absent THEN EmptyText ELSE q.text
  ELSE [kind |-> q.kind, of |-> q.id, rev |-> 0]

\* Mutant: the reply only fills in the text.
LandedTextOnly(q, s) == [s EXCEPT !.source = LoadedSource(q), !.dirty = FALSE]

Landed(q, s) == [s EXCEPT !.selected = q.id, !.source = LoadedSource(q), !.dirty = FALSE]

LoadReply(q) ==
  /\ q.op = "load"
  /\ wire' = wire \ {q}
  /\ st' = [st EXCEPT ![q.kind] = Landed(q, @)]
  /\ UNCHANGED << kind, ops, saving, doomed >>
  /\ Behind(dialog)

SaveReply(q) ==
  /\ q.op = "save"
  /\ wire' = wire \ {q}
  /\ saving' = FALSE
  /\ st' = IF q.ok THEN [st EXCEPT ![q.kind].dirty = FALSE] ELSE st
  /\ UNCHANGED << kind, ops, doomed >>
  /\ Behind(dialog)

\* The insert and the delete await a refresh of the list before they finish.
ThenRefresh(q) ==
  /\ q.op \in {"insert", "delete"} /\ q.ok
  /\ ops < MaxOps
  /\ wire' = (wire \ {q}) \cup {Ask("list", q.kind, q.id, q.text, q.op)}
  /\ ops' = ops + 1
  /\ UNCHANGED << kind, st, saving, doomed, dialog >>

InsertRefused(q) ==
  /\ q.op = "insert" /\ ~q.ok
  /\ wire' = wire \ {q}
  /\ dialog' = IF dialog = "submitting" THEN "open" ELSE dialog
  /\ UNCHANGED << kind, st, saving, doomed, ops >>

DeleteRefused(q) ==
  /\ q.op = "delete" /\ ~q.ok
  /\ wire' = wire \ {q}
  /\ doomed' = [doomed EXCEPT !.running = FALSE]
  /\ UNCHANGED << kind, st, saving, dialog, ops >>

\* The list came back; a failed one changes nothing.  The insert then selects
\* the new row and closes whatever dialog is open, the delete clears the editor
\* if it still shows the deleted row.
ListReply(q) ==
  /\ q.op = "list"
  /\ wire' = wire \ {q}
  /\ LET s == IF q.ok THEN [st[q.kind] EXCEPT !.ids = q.ids] ELSE st[q.kind]
     IN st' = [st EXCEPT ![q.kind] =
          CASE q.then = "insert" -> [s EXCEPT !.selected = q.id, !.source = q.text, !.dirty = FALSE]
            [] q.then = "delete" /\ s.selected = q.id
                 -> [s EXCEPT !.selected = Nobody, !.source = EmptyText, !.dirty = FALSE]
            [] OTHER -> s]
  /\ doomed' = IF q.then = "delete" THEN NotDeleting ELSE doomed
  /\ UNCHANGED << kind, saving, ops >>
  /\ Behind(IF q.then = "insert" THEN "closed" ELSE dialog)

Reply ==
  /\ \E q \in wire :
       /\ q.answered
       /\ \/ LoadReply(q)
          \/ SaveReply(q)
          \/ ThenRefresh(q)
          \/ InsertRefused(q)
          \/ DeleteRefused(q)
          \/ ListReply(q)
  /\ UNCHANGED << rows, tab, revs >>

Next ==
  \/ SwitchKind \/ PickTab \/ Refresh \/ Select \/ Type \/ Save \/ OpenDsl
  \/ AskDelete \/ CancelDelete \/ ConfirmDelete
  \/ OpenNew \/ CloseNew \/ SubmitNew
  \/ Serve \/ Reply

Spec == Init /\ [][Next]_designer

-----------------------------------------------------------------------------
\* A text never changes rows: what the editor shows under an id, and what oosai
\* stores under it, was loaded, typed or created for that id of that kind,
\* whatever order the unstamped replies arrive in and whichever kind is shown
\* when they do.
TextStaysWithItsRow ==
  \A k \in Kinds :
    /\ st[k].source \notin {EmptyText}
         => st[k].source.kind = k /\ st[k].source.of = st[k].selected
    /\ \A i \in RowIds[k] :
         rows[k][i] \notin {Absent, EmptyText} => rows[k][i].kind = k /\ rows[k][i].of = i
=============================================================================

-------------------------------- MODULE Admin --------------------------------
(***************************************************************************)
(* The designer's full panels (apps/oosd/src/mainview/components): the KV  *)
(* browser, the event types, their assignment to mappings, the event       *)
(* contexts, the users of oosiam, the grammar viewer and the seed cards.   *)
(* Each lists items, selects one, edits its content and writes it back;    *)
(* each awaits its requests without a stamp and shows a busy flag while it *)
(* waits.  A behaviour shows one panel, chosen in Init.                    *)
(*                                                                         *)
(* A content is a record: the item (of) it was read or written for, a key  *)
(* inside it (buckets only) and a revision.                                *)
(***************************************************************************)
EXTENDS Naturals, FiniteSets

CONSTANTS Panels, Items, Fresh, Key, MaxRequests, MaxRevisions

Unselected == "unselected"
NoKey == "-"
Blank == [of |-> Unselected, key |-> NoKey, rev |-> 0]
Stub(i) == [of |-> i, key |-> NoKey, rev |-> 0]

VARIABLES
  panel,
  alive, data,   \* the service: items that exist, their contents
  shown,         \* the list on the screen (the grammar viewer's cache)
  sel,           \* the selected item
  entries,       \* KvStorePanel: the entries on the screen
  edit, dirty,   \* the editor: source, checked types, group draft, value
  busy,          \* the flags that are true
  requests, count, revision

admin == << panel, alive, data, shown, sel, entries, edit, dirty, busy, requests, count,
            revision >>

ContentKey == IF panel = "kv" THEN Key ELSE NoKey

Row(i) == [item |-> i, data |-> data[i]]
ShownItems == {r.item : r \in shown}

Ask(n, op, i, d, flags, then) ==
  [n |-> n, op |-> op, item |-> i, d |-> d, flags |-> flags, then |-> then,
   answered |-> FALSE, ok |-> FALSE, got |-> {}]

\* The effect each panel runs when it is mounted.
Mounted(p) ==
  CASE p = "demo" -> {}
    [] p = "grammar" -> {Ask(0, "load", Fresh, Blank, {"list"}, "nothing")}
    [] OTHER -> {Ask(0, "list", Unselected, Blank, {"list"}, "nothing")}

Init ==
  /\ panel \in Panels
  /\ alive = IF panel \in {"grammar", "demo"} THEN Items ELSE Items \ {Fresh}
  /\ data = [i \in Items |-> IF i \in alive
                             THEN {[of |-> i, key |-> ContentKey, rev |-> 1]} ELSE {}]
  /\ shown = {} /\ entries = {}
  /\ sel = IF panel = "grammar" THEN Fresh ELSE Unselected
  /\ edit = Blank /\ dirty = FALSE
  /\ busy = IF panel = "demo" THEN {} ELSE {"list"}
  /\ requests = Mounted(panel)
  /\ count = 1 /\ revision = 1

-----------------------------------------------------------------------------
\* A request goes out and its flags are raised; its continuation closes over the
\* selection of the moment.
Start(op, i, d, flags) ==
  /\ count < MaxRequests
  /\ count' = count + 1
  /\ requests' = requests \cup
       {Ask(count, op, i, d, flags, IF sel = i THEN "selected" ELSE "nothing")}
  /\ busy' = busy \cup flags

service == << alive, data >>

\* What is edited keeps being the content it was.
Edited ==
  /\ revision < MaxRevisions
  /\ revision' = revision + 1
  /\ edit' = [edit EXCEPT !.rev = revision + 1]

\* loadBuckets, loadTypes, loadMappings, loadUsers from the refresh button, which
\* is off while its flag is up.
Refresh ==
  /\ panel \notin {"grammar", "demo"}
  /\ "list" \notin busy
  /\ Start("list", Unselected, Blank, {"list"})
  /\ UNCHANGED << panel, service, shown, sel, entries, edit, dirty, revision >>

-----------------------------------------------------------------------------
\* KvStorePanel

\* The middle column is there while a bucket is selected, the JSON editor while
\* a key is.
KeyRows == IF panel = "kv" /\ sel # Unselected THEN entries ELSE {}
ValueShown == panel = "kv" /\ edit # Blank

\* selectBucket and loadKeys: the entries of the bucket that was left stay on
\* the screen until the new ones arrive.
SelectBucket ==
  /\ panel = "kv"
  /\ \E b \in ShownItems : sel' = b /\ Start("keys", b, Blank, {"keys"})
  /\ edit' = Blank
  /\ UNCHANGED << panel, service, shown, entries, dirty, revision >>

SelectKey ==
  /\ \E e \in KeyRows : e # edit /\ edit' = e
  /\ UNCHANGED << panel, service, shown, sel, entries, dirty, busy, requests, count, revision >>

\* The value in the JSON editor, which outlives its bucket's deletion.
EditValue ==
  /\ ValueShown
  /\ Edited
  /\ UNCHANGED << panel, service, shown, sel, entries, dirty, busy, requests, count >>

\* onSaveEntry: the value in the editor under the selected bucket and key.
SaveEntry ==
  /\ ValueShown /\ sel # Unselected /\ "save" \notin busy
  /\ Start("put", sel, edit, {"save"})
  /\ UNCHANGED << panel, service, shown, sel, entries, edit, dirty, revision >>

\* The dialogs submit by their button or by the Enter key, which does not look at
\* their flag.
KeyDialog == panel = "kv" /\ sel # Unselected
BucketDialog == panel = "kv"

\* onCreateKey
CreateKey ==
  /\ KeyDialog
  /\ Start("put", sel, [of |-> sel, key |-> Key, rev |-> 0], {"new"})
  /\ UNCHANGED << panel, service, shown, sel, entries, edit, dirty, revision >>

\* onDeleteKey, behind the confirmation.
DoomedKeys == KeyRows

DeleteKey ==
  /\ \E e \in DoomedKeys : Start("delkey", sel, e, {})
  /\ UNCHANGED << panel, service, shown, sel, entries, edit, dirty, revision >>

\* onCreateBucket
CreateBucket ==
  /\ BucketDialog
  /\ Start("insert", Fresh, Stub(Fresh), {"new"})
  /\ UNCHANGED << panel, service, shown, sel, entries, edit, dirty, revision >>

\* onDeleteBucket, behind the confirmation.
DoomedBuckets == IF panel = "kv" THEN ShownItems ELSE {}

DeleteBucket ==
  /\ \E i \in DoomedBuckets : Start("delete", i, Blank, {})
  /\ UNCHANGED << panel, service, shown, sel, entries, edit, dirty, revision >>

-----------------------------------------------------------------------------
\* EventTypesPanel

\* The editor's side is rendered for a selected type.
TypeOpen == panel = "types" /\ sel # Unselected

\* selectType: the selection moves, the source follows; the old one stays in the
\* editor meanwhile.
SelectType ==
  /\ panel = "types"
  /\ \E i \in ShownItems : sel' = i /\ Start("load", i, Blank, {})
  /\ dirty' = FALSE
  /\ UNCHANGED << panel, service, shown, entries, edit, revision >>

EditSource ==
  /\ TypeOpen
  /\ Edited
  /\ dirty' = TRUE
  /\ UNCHANGED << panel, service, shown, sel, entries, busy, requests, count >>

\* handleSave
SaveSource ==
  /\ TypeOpen /\ dirty /\ "save" \notin busy
  /\ Start("put", sel, edit, {"save"})
  /\ UNCHANGED << panel, service, shown, sel, entries, edit, dirty, revision >>

\* handleSaveTags: the other column of the row.
SaveTags ==
  /\ TypeOpen /\ "aside" \notin busy
  /\ Start("aside", sel, Blank, {"aside"})
  /\ UNCHANGED << panel, service, shown, sel, entries, edit, dirty, revision >>

\* The dialog's button and the confirmation's are off while their own request is
\* under way.
TypeDialog == panel = "types" /\ "new" \notin busy
ConfirmsType == TypeOpen /\ "delete" \notin busy

\* handleInsert: refused if the list on the screen has the name.
CreateType ==
  /\ TypeDialog /\ Fresh \notin ShownItems
  /\ Start("insert", Fresh, Stub(Fresh), {"new"})
  /\ UNCHANGED << panel, service, shown, sel, entries, edit, dirty, revision >>

\* handleDelete
DeleteType ==
  /\ ConfirmsType /\ "save" \notin busy
  /\ Start("delete", sel, Blank, {"delete"})
  /\ UNCHANGED << panel, service, shown, sel, entries, edit, dirty, revision >>

-----------------------------------------------------------------------------
\* MappingTypesPanel

MappingRows == IF panel = "mappings" THEN ShownItems ELSE {}

\* selectMapping: the checked types follow; the saving flag is dropped with them.
SelectMapping ==
  /\ count < MaxRequests
  /\ \E i \in MappingRows :
       /\ sel' = i
       /\ requests' = requests \cup {Ask(count, "load", i, Blank, {}, "nothing")}
  /\ count' = count + 1
  /\ busy' = busy \ {"save"}
  /\ UNCHANGED << panel, service, shown, entries, edit, dirty, revision >>

\* The checklist, off while a set is being saved.
Checklist == panel = "mappings" /\ sel # Unselected /\ "save" \notin busy

\* handleToggle: the checked set of the screen with one type flipped is written
\* to the selected mapping at once.
Toggle ==
  /\ Checklist
  /\ Edited
  /\ Start("put", sel, edit', {"save"})
  /\ UNCHANGED << panel, service, shown, sel, entries, dirty >>

-----------------------------------------------------------------------------
\* IamPanel

\* The detail: the selected user if the list on the screen has it.
UserOpen == panel = "iam" /\ sel \in ShownItems

UserRows == IF panel = "iam" THEN shown ELSE {}

\* selectUser: the groups come with the list.
SelectUser ==
  /\ \E r \in UserRows : sel' = r.item /\ edit' \in r.data
  /\ UNCHANGED << panel, service, shown, entries, dirty, busy, requests, count, revision >>

EditGroups ==
  /\ UserOpen
  /\ Edited
  /\ UNCHANGED << panel, service, shown, sel, entries, dirty, busy, requests, count >>

\* onSaveGroups: the draft under the selected user's id.
SaveGroups ==
  /\ UserOpen /\ "save" \notin busy
  /\ Start("put", sel, edit, {"save"})
  /\ UNCHANGED << panel, service, shown, sel, entries, edit, dirty, revision >>

\* onSetPassword
SetPassword ==
  /\ UserOpen /\ "aside" \notin busy
  /\ Start("aside", sel, Blank, {"aside"})
  /\ UNCHANGED << panel, service, shown, sel, entries, edit, dirty, revision >>

\* The dialog for a new user has no key but its button.
UserDialog == panel = "iam" /\ "new" \notin busy

\* onCreate
CreateUser ==
  /\ UserDialog
  /\ Start("insert", Fresh, Stub(Fresh), {"new"})
  /\ UNCHANGED << panel, service, shown, sel, entries, edit, dirty, revision >>

\* onDelete, behind the confirmation.
DoomedUsers == {r.item : r \in UserRows}

DeleteUser ==
  /\ \E i \in DoomedUsers : Start("delete", i, Blank, {})
  /\ UNCHANGED << panel, service, shown, sel, entries, edit, dirty, revision >>

-----------------------------------------------------------------------------
\* EventsPanel: the form for a new context is the editor, shown while no mapping
\* is selected.
FormOpen == panel = "events" /\ sel = Unselected

SelectContext ==
  /\ panel = "events"
  /\ sel' \in ShownItems \ {sel}
  /\ UNCHANGED << panel, service, shown, entries, edit, dirty, busy, requests, count, revision >>

\* startNew
StartNew ==
  /\ panel = "events"
  /\ sel' = Unselected /\ edit' = Blank
  /\ UNCHANGED << panel, service, shown, entries, dirty, busy, requests, count, revision >>

\* setField: the name is typed, the other identifiers are derived from it.
FillForm ==
  /\ FormOpen
  /\ edit' = Stub(Fresh)
  /\ UNCHANGED << panel, service, shown, sel, entries, dirty, busy, requests, count, revision >>

IsFormValid(f) == f.of # Unselected

\* derive: tables, function and channel are named after the form's name.
Derive(f) == f.of

\* buildSql: function, tables, indexes and the mapping row under those names.
BuildSql(f) == Stub(Derive(f))

\* handleExecute
CreateContext ==
  /\ FormOpen /\ IsFormValid(edit) /\ "new" \notin busy
  /\ Start("insert", Derive(edit), BuildSql(edit), {"new"})
  /\ UNCHANGED << panel, service, shown, sel, entries, edit, dirty, revision >>

-----------------------------------------------------------------------------
\* GrammarPanel's effect on a tab: from the cache, or loaded.
SelectTab ==
  /\ panel = "grammar"
  /\ \E i \in Items \ {sel} :
       /\ sel' = i
       /\ IF i \in ShownItems
          THEN /\ edit' = Stub(i)
               /\ UNCHANGED << busy, requests, count >>
          ELSE /\ edit' = Blank
               /\ Start("load", i, Blank, {"list"})
  /\ UNCHANGED << panel, service, shown, entries, dirty, revision >>

\* DemoPanel: one card runs at a time.
CardsEnabled == panel = "demo" /\ busy = {}

RunSeed ==
  /\ CardsEnabled
  /\ \E i \in Items : Start("seed", i, Blank, {i})
  /\ UNCHANGED << panel, service, shown, sel, entries, edit, dirty, revision >>

-----------------------------------------------------------------------------
\* The services carry a request out: a put is an upsert in JetStream and an
\* update elsewhere, an insert of what exists is refused except for a bucket.
Possible(q) == q.op = "insert" => panel = "kv" \/ q.item \notin alive

Alive(q) ==
  CASE q.op = "insert" \/ (q.op = "put" /\ panel = "kv") -> alive \cup {q.item}
    [] q.op = "delete" -> alive \ {q.item}
    [] OTHER -> alive

Data(q) ==
  CASE q.op = "put" /\ q.item \in Alive(q) ->
         [data EXCEPT ![q.item] = {c \in @ : c.key # q.d.key} \cup {q.d}]
    [] q.op = "insert" /\ q.item \notin alive ->
         [data EXCEPT ![q.item] = IF panel = "iam" THEN {q.d} ELSE {}]
    [] q.op = "delete" -> [data EXCEPT ![q.item] = {}]
    [] q.op = "delkey" -> [data EXCEPT ![q.item] = {c \in @ : c.key # q.d.key}]
    [] OTHER -> data

Serve ==
  \E q \in requests, ok \in BOOLEAN :
    /\ ~q.answered
    /\ ok => Possible(q)
    /\ alive' = IF ok THEN Alive(q) ELSE alive
    /\ data' = IF ok THEN Data(q) ELSE data
    /\ requests' = (requests \ {q}) \cup
         {[q EXCEPT !.answered = TRUE, !.ok = ok,
                    !.got = IF q.op = "list" THEN {Row(i) : i \in alive}
                            ELSE IF q.item \in Items THEN {Row(q.item)} ELSE {}]}
    /\ UNCHANGED << panel, shown, sel, entries, edit, dirty, busy, count, revision >>

-----------------------------------------------------------------------------
\* Continuations.

\* Mutant: the flag of the operation stays up when it is refused.
FinishUnlessRefused(q) ==
  /\ requests' = requests \ {q}
  /\ busy' = IF q.ok THEN busy \ q.flags ELSE busy
  /\ UNCHANGED count

\* The finally blocks: what was raised for the request is lowered.
Finish(q) ==
  /\ requests' = requests \ {q}
  /\ busy' = busy \ q.flags
  /\ UNCHANGED count

\* An awaited reload (or second write) inside an operation: its own flag comes
\* on top of the operation's.
Continue(q, op, i, d, flags, then) ==
  /\ requests' = (requests \ {q}) \cup {Ask(count, op, i, d, q.flags \cup flags, then)}
  /\ count' = count + 1
  /\ busy' = busy \cup flags

\* The list: kv and iam keep theirs when the request failed, the others show
\* the empty one that came with the error.
Listed(q) ==
  /\ q.op = "list"
  /\ shown' = IF q.ok THEN q.got ELSE IF panel \in {"kv", "iam"} THEN shown ELSE {}
  /\ CASE q.then = "select" /\ panel = "types" ->
            sel' = q.item /\ edit' = Stub(q.item) /\ dirty' = FALSE
       [] q.then = "select" /\ panel = "iam" ->
            sel' = q.item /\ UNCHANGED << edit, dirty >>
       [] OTHER -> UNCHANGED << sel, edit, dirty >>
  /\ Finish(q)
  /\ UNCHANGED entries

KeysLoaded(q) ==
  /\ q.op = "keys"
  /\ entries' = IF q.ok THEN UNION {r.data : r \in q.got} ELSE entries
  /\ Finish(q)
  /\ UNCHANGED << shown, sel, edit, dirty >>

\* The content: the type's source or a stub, the mapping's types or none, the
\* grammar (kept in the cache) or an error.
ContentLoaded(q) ==
  /\ q.op = "load"
  /\ LET content == IF q.ok THEN UNION {r.data : r \in q.got} ELSE {}
     IN IF panel = "grammar" /\ ~q.ok
        THEN UNCHANGED << edit, shown >>
        ELSE /\ edit' = IF content = {} \/ panel = "grammar" THEN Stub(q.item)
                        ELSE CHOOSE c \in content : TRUE
             /\ shown' = IF panel = "grammar" THEN shown \cup q.got ELSE shown
  /\ Finish(q)
  /\ UNCHANGED << sel, entries, dirty >>

\* A put, refused or done: the entries or the users are reloaded after it.
Put(q) ==
  /\ q.op = "put"
  /\ dirty' = IF q.ok /\ panel = "types" /\ q.then # "stub" THEN FALSE ELSE dirty
  /\ IF q.ok /\ panel = "kv" THEN Continue(q, "keys", q.item, Blank, {"keys"}, "nothing")
     ELSE IF q.ok /\ panel = "iam" THEN Continue(q, "list", q.item, Blank, {"list"}, "nothing")
     ELSE IF q.then = "stub" THEN Continue(q, "list", q.item, Blank, {"list"}, "select")
     ELSE Finish(q)
  /\ edit' = IF q.ok /\ panel = "kv" THEN Blank ELSE edit
  /\ UNCHANGED << shown, sel, entries >>

\* An insert: the event type gets its stub, the others reload their list; the
\* users panel selects the new user, the form for a context is cleared.
Inserted(q) ==
  /\ q.op = "insert"
  /\ IF ~q.ok THEN Finish(q)
     ELSE IF panel = "types" THEN Continue(q, "put", q.item, Stub(q.item), {}, "stub")
     ELSE Continue(q, "list", q.item, Blank, {"list"},
                   IF panel = "iam" THEN "select" ELSE "nothing")
  /\ edit' = IF q.ok /\ panel = "events" THEN Blank ELSE edit
  /\ UNCHANGED << shown, sel, entries, dirty >>

Deleted(q) ==
  /\ q.op = "delete"
  /\ IF q.ok
     THEN /\ Continue(q, "list", q.item, Blank, {"list"}, "nothing")
          /\ IF q.then = "selected" \/ panel = "types"
             THEN /\ sel' = Unselected
                  /\ entries' = {}
                  /\ edit' = IF panel = "types" THEN Blank ELSE edit
                  /\ dirty' = IF panel = "types" THEN FALSE ELSE dirty
             ELSE UNCHANGED << sel, entries, edit, dirty >>
     ELSE Finish(q) /\ UNCHANGED << sel, entries, edit, dirty >>
  /\ UNCHANGED shown

KeyDeleted(q) ==
  /\ q.op = "delkey"
  /\ IF q.ok THEN Continue(q, "keys", q.item, Blank, {"keys"}, "nothing") /\ edit' = Blank
             ELSE Finish(q) /\ UNCHANGED edit
  /\ UNCHANGED << shown, sel, entries, dirty >>

\* Tags, a password, a seed: nothing but the flag.
Done(q) ==
  /\ q.op \in {"aside", "seed"}
  /\ Finish(q)
  /\ UNCHANGED << shown, sel, entries, edit, dirty >>

Reply ==
  /\ \E q \in requests :
       /\ q.answered
       /\ \/ Listed(q)
          \/ KeysLoaded(q)
          \/ ContentLoaded(q)
          \/ Put(q)
          \/ Inserted(q)
          \/ Deleted(q)
          \/ KeyDeleted(q)
          \/ Done(q)
  /\ UNCHANGED << panel, service, revision >>

Next ==
  \/ Refresh \/ Serve \/ Reply
  \/ SelectBucket \/ SelectKey \/ EditValue \/ SaveEntry \/ CreateKey \/ DeleteKey
  \/ CreateBucket \/ DeleteBucket
  \/ SelectType \/ EditSource \/ SaveSource \/ SaveTags \/ CreateType \/ DeleteType
  \/ SelectMapping \/ Toggle
  \/ SelectUser \/ EditGroups \/ SaveGroups \/ SetPassword \/ CreateUser \/ DeleteUser
  \/ SelectContext \/ StartNew \/ FillForm \/ CreateContext
  \/ SelectTab \/ RunSeed

Spec == Init /\ [][Next]_admin

-----------------------------------------------------------------------------
\* A busy flag means a request under way: however operations overlap, are refused
\* or go on to reload a list, none leaves a button spinning (and switched off)
\* with nothing to wait for.
BusyMeansUnderWay == \A f \in busy : \E q \in requests : f \in q.flags
=============================================================================

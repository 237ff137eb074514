------------------------- MODULE SchemaIndexProofs -------------------------
(***************************************************************************)
(* Theorems about SchemaIndex, for every set of processes, commands, rows  *)
(* and texts.                                                              *)
(***************************************************************************)
EXTENDS SchemaIndex, TLAPS

USE DEF Phases, Modes, Pcs

-----------------------------------------------------------------------------
(* Type correctness.                                                       *)

\* A text that parses is a text, and the name it declares is a key.
LEMMA ParsesIsKeyed ==
    ASSUME NEW s \in Sources \cup {None}, Parses(s)
    PROVE  s \in Sources /\ NameOf[s] \in Keys
BY NameOfAssumption DEF Parses

\* The keys a command touches are keys.
LEMMA TouchedKeys ==
    ASSUME NEW id \in Ids, NEW src \in Sources \cup {None}
    PROVE  TouchedBy(id, src) \subseteq Keys
BY KeysAssumption, NameOfAssumption DEF TouchedBy

\* Commands carry what their kind needs: a save a row id and a text, a
\* delete a row id and no text, and a busy slot the process that runs it.
TaskInv ==
    \A t \in Tasks :
        /\ task[t].pc # "free" => task[t].id \in Ids /\ task[t].proc \in Procs
        /\ task[t].pc \in {"save_source", "reembed"} => task[t].src \in Sources
        /\ task[t].pc \in {"delete_source", "delete_chunk"} => task[t].src = None

TypeInv == TypeOK /\ TaskInv

(* Empty tables and no process meet the type invariant. *)
LEMMA TypeInvInit == Init => TypeInv
BY DEF Init, TypeInv, TypeOK, TaskInv, Free

(* A free task slot is typed. *)
LEMMA FreeIsTyped ==
    Free \in [pc : Pcs, id : Ids \cup {None}, src : Sources \cup {None},
              proc : Procs \cup {None}]
BY DEF Free

(* Every statement, message and crash keeps the types. *)
LEMMA TypeInvNext == TypeInv /\ [Next]_vars => TypeInv'
<1> SUFFICES ASSUME TypeInv, [Next]_vars PROVE TypeInv'
  OBVIOUS
<1> USE DEF TypeInv
<1>1. ASSUME NEW p \in Procs,
             BootWithoutPostgres(p) \/ FetchRows(p) \/ FetchRowsFails(p)
      PROVE  TypeInv'
  <2>1. CASE BootWithoutPostgres(p)
    BY <2>1 DEF TypeOK, TaskInv, BootWithoutPostgres
  <2>2. CASE FetchRows(p)
    BY <2>2 DEF TypeOK, TaskInv, FetchRows
  <2>3. CASE FetchRowsFails(p)
    BY <2>3 DEF TypeOK, TaskInv, FetchRowsFails
  <2>. QED BY <1>1, <2>1, <2>2, <2>3
<1>2. ASSUME NEW p \in Procs, SkipRow(p) \/ ListKeys(p) \/ BackfillAborts(p) \/ BackfillDone(p)
      PROVE  TypeInv'
  <2>1. CASE SkipRow(p)
    BY <2>1 DEF TypeOK, TaskInv, SkipRow
  <2>2. CASE ListKeys(p)
    BY <2>2 DEF TypeOK, TaskInv, ListKeys
  <2>3. CASE BackfillAborts(p)
    BY <2>3 DEF TypeOK, TaskInv, BackfillAborts, Failed
  <2>4. CASE BackfillDone(p)
    BY <2>4 DEF TypeOK, TaskInv, BackfillDone
  <2>. QED BY <1>2, <2>1, <2>2, <2>3, <2>4
<1>3. ASSUME NEW p \in Procs, UpsertRow(p) \/ UpsertRowFails(p) PROVE TypeInv'
  <2>1. PICK i \in Ids : /\ Parses(rows[p][i])
                         /\ todo' = [todo EXCEPT ![p] = @ \ {i}]
                         /\ source_keys' = [source_keys EXCEPT ![p] = @ \cup {NameOf[rows[p][i]]}]
                         /\ chunk' = chunk \/ chunk' = [chunk EXCEPT ![NameOf[rows[p][i]]] = rows[p][i]]
                         /\ excused' = excused \/ excused' = excused \cup {NameOf[rows[p][i]]}
    BY <1>3 DEF UpsertRow, UpsertRowFails
  <2>2. rows[p][i] \in Sources /\ NameOf[rows[p][i]] \in Keys
    BY <2>1, ParsesIsKeyed DEF TypeOK
  <2>3. mode' \in [Procs -> Modes]
    BY <1>3 DEF UpsertRow, UpsertRowFails, Disturb, Failed, TypeOK
  <2>4. UNCHANGED <<source, phase, rows, orphans, task, committed, raced>>
    BY <1>3 DEF UpsertRow, UpsertRowFails
  <2>. QED BY <2>1, <2>2, <2>3, <2>4 DEF TypeOK, TaskInv
<1>4. ASSUME NEW p \in Procs, PruneOrphan(p) PROVE TypeInv'
  BY <1>4 DEF TypeOK, TaskInv, PruneOrphan, Disturb
<1>5. ASSUME NEW p \in Procs, Crash(p) PROVE TypeInv'
  <2>1. UNION {Touches(t) : t \in {u \in Tasks : task[u].proc = p /\ task[u].pc = "reembed"}}
           \subseteq Keys
    BY TouchedKeys DEF TypeOK, TaskInv, Touches
  <2>2. excused' \in SUBSET Keys
    BY <1>5, <2>1 DEF Crash, TypeOK
  <2>. QED BY <1>5, <2>2, FreeIsTyped DEF Crash, TypeOK, TaskInv, Free
<1>6. ASSUME NEW t \in Tasks, ReceiveSave(t) \/ ReceiveDelete(t) PROVE TypeInv'
  <2>1. PICK p \in Procs, pc \in {"save_source", "delete_source"}, id \in Ids,
             src \in Sources \cup {None} :
             /\ Spawn(t, p, pc, id, src)
             /\ pc = "save_source" => src \in Sources
             /\ pc = "delete_source" => src = None
    BY <1>6, SavesAssumption DEF ReceiveSave, ReceiveDelete
  <2>2. raced' \in SUBSET Tasks
    BY <2>1 DEF Spawn, TypeOK
  <2>3. task' = [task EXCEPT ![t] = [pc |-> pc, id |-> id, src |-> src, proc |-> p]]
    BY <2>1 DEF Spawn
  <2>4. UNCHANGED <<source, chunk, boot, committed, mode, excused>>
    BY <2>1 DEF Spawn, boot
  <2>. QED BY <2>1, <2>2, <2>3, <2>4 DEF TypeOK, TaskInv, boot
<1>7. ASSUME NEW t \in Tasks, SaveSource(t) \/ DeleteSource(t) PROVE TypeInv'
  <2>1. Touches(t) \subseteq Keys
    BY <1>7, TouchedKeys DEF SaveSource, DeleteSource, TypeOK, TaskInv, Touches
  <2>2. CASE SaveSource(t)
    BY <2>1, <2>2 DEF SaveSource, TypeOK, TaskInv, boot, DisturbAll
  <2>3. CASE DeleteSource(t)
    BY <2>3 DEF DeleteSource, TypeOK, TaskInv, boot, DisturbAll
  <2>. QED BY <1>7, <2>2, <2>3
<1>8. ASSUME NEW t \in Tasks,
             SourceStatementFails(t) \/ ReembedSkipped(t) \/ DeleteChunkFails(t)
      PROVE  TypeInv'
  <2>1. Touches(t) \subseteq Keys
    BY <1>8, TouchedKeys DEF SourceStatementFails, ReembedSkipped, DeleteChunkFails,
                             TypeOK, TaskInv, Touches
  <2>. QED BY <1>8, <2>1, FreeIsTyped DEF SourceStatementFails, ReembedSkipped,
                             DeleteChunkFails, End, TypeOK, TaskInv, Free, table, boot
<1>9. ASSUME NEW t \in Tasks, Reembed(t) \/ DeleteChunk(t) PROVE TypeInv'
  <2>1. CASE Reembed(t)
    <3>1. task[t].src \in Sources /\ NameOf[task[t].src] \in Keys
      BY <2>1, ParsesIsKeyed DEF Reembed, TypeOK
    <3>. QED BY <2>1, <3>1, FreeIsTyped DEF Reembed, End, TypeOK, TaskInv, Free, boot, DisturbAll
  <2>2. CASE DeleteChunk(t)
    BY <2>2, FreeIsTyped, KeysAssumption
    DEF DeleteChunk, End, TypeOK, TaskInv, Free, boot, DisturbAll
  <2>. QED BY <1>9, <2>1, <2>2
<1>10. CASE UNCHANGED vars
  BY <1>10 DEF vars, TypeOK, TaskInv
<1>. QED
  BY <1>1, <1>2, <1>3, <1>4, <1>5, <1>6, <1>7, <1>8, <1>9, <1>10
  DEF Next, BackfillStep, TaskStep

\* The tables, the boot state and the commands keep their types.
THEOREM TypeCorrect == Spec => []TypeOK
<1>1. Spec => []TypeInv
  BY TypeInvInit, TypeInvNext, PTL DEF Spec
<1>. QED BY <1>1, PTL DEF TypeInv

-----------------------------------------------------------------------------
(* The index is derived from stored texts.                                 *)

\* Every chunk, and every text a task or a backfill is about to turn into a
\* chunk, is a stored text; a chunk is filed under the name of its text.
StoredInv ==
    /\ \A i \in Ids : source[i] # None => source[i] \in committed
    /\ \A k \in Keys : chunk[k] # None => chunk[k] \in committed /\ NameOf[chunk[k]] = k
    /\ \A p \in Procs, i \in Ids : rows[p][i] # None => rows[p][i] \in committed
    /\ \A t \in Tasks : task[t].pc = "reembed" => task[t].src \in committed

(* Nothing is carried before the first step. *)
LEMMA StoredInvInit == Init => StoredInv
BY DEF Init, StoredInv, Free

(* What processes and tasks carry stays something that was stored. *)
LEMMA StoredInvNext == TypeInv /\ StoredInv /\ [Next]_vars => StoredInv'
<1> SUFFICES ASSUME TypeInv, StoredInv, [Next]_vars PROVE StoredInv'
  OBVIOUS
<1> USE DEF TypeInv
<1>1. ASSUME NEW p \in Procs,
             \/ BootWithoutPostgres(p) \/ FetchRowsFails(p) \/ SkipRow(p)
             \/ UpsertRowFails(p) \/ ListKeys(p) \/ BackfillAborts(p) \/ BackfillDone(p)
      PROVE  StoredInv'
  <2>1. UNCHANGED <<source, chunk, rows, task, committed>>
    BY <1>1 DEF BootWithoutPostgres, FetchRowsFails, SkipRow, UpsertRowFails, ListKeys,
                BackfillAborts, BackfillDone
  <2>. QED BY <2>1 DEF StoredInv
<1>2. ASSUME NEW p \in Procs, FetchRows(p) PROVE StoredInv'
  BY <1>2 DEF FetchRows, StoredInv, TypeOK
<1>3. ASSUME NEW p \in Procs, UpsertRow(p) PROVE StoredInv'
  <2>1. PICK i \in Ids : /\ Parses(rows[p][i])
                         /\ chunk' = [chunk EXCEPT ![NameOf[rows[p][i]]] = rows[p][i]]
    BY <1>3 DEF UpsertRow
  <2>2. UNCHANGED <<source, rows, task, committed>>
    BY <1>3 DEF UpsertRow
  <2>3. rows[p][i] \in committed
    BY <2>1 DEF StoredInv, Parses
  <2>. QED BY <2>1, <2>2, <2>3 DEF StoredInv, TypeOK
<1>4. ASSUME NEW p \in Procs, PruneOrphan(p) PROVE StoredInv'
  BY <1>4 DEF PruneOrphan, StoredInv, TypeOK
<1>5. ASSUME NEW p \in Procs, Crash(p) PROVE StoredInv'
  BY <1>5 DEF Crash, StoredInv, TypeOK, Free
<1>6. ASSUME NEW t \in Tasks, ReceiveSave(t) \/ ReceiveDelete(t) PROVE StoredInv'
  <2>1. PICK p \in Procs, pc \in {"save_source", "delete_source"}, id \in Ids,
             src \in Sources \cup {None} : Spawn(t, p, pc, id, src)
    BY <1>6, SavesAssumption DEF ReceiveSave, ReceiveDelete
  <2>. QED BY <2>1 DEF Spawn, StoredInv, TypeOK
<1>7. ASSUME NEW t \in Tasks, SaveSource(t) PROVE StoredInv'
  BY <1>7 DEF SaveSource, StoredInv, TypeOK, TaskInv, boot
<1>8. ASSUME NEW t \in Tasks, DeleteSource(t) PROVE StoredInv'
  BY <1>8 DEF DeleteSource, StoredInv, TypeOK, TaskInv, boot
<1>9. ASSUME NEW t \in Tasks,
             SourceStatementFails(t) \/ ReembedSkipped(t) \/ DeleteChunkFails(t)
      PROVE  StoredInv'
  <2>1. /\ UNCHANGED <<source, chunk, rows, committed>>
        /\ task' = [task EXCEPT ![t] = Free]
    BY <1>9 DEF SourceStatementFails, ReembedSkipped, DeleteChunkFails, End, table, boot
  <2>. QED BY <2>1 DEF StoredInv, TypeOK, Free
<1>10. ASSUME NEW t \in Tasks, Reembed(t) PROVE StoredInv'
  BY <1>10 DEF Reembed, End, StoredInv, TypeOK, Free, boot
<1>11. ASSUME NEW t \in Tasks, DeleteChunk(t) PROVE StoredInv'
  BY <1>11 DEF DeleteChunk, End, StoredInv, TypeOK, Free, boot
<1>12. CASE UNCHANGED vars
  BY <1>12 DEF vars, StoredInv
<1>. QED
  BY <1>1, <1>2, <1>3, <1>4, <1>5, <1>6, <1>7, <1>8, <1>9, <1>10, <1>11, <1>12
  DEF Next, BackfillStep, TaskStep

\* Every step of the service is a save, a delete, a derivation from a stored
\* text, a drop, or leaves both tables alone.
LEMMA DerivedStep ==
    TypeInv /\ StoredInv /\ [Next]_vars => [Derived!Next]_<<source, chunk, committed>>
<1> SUFFICES ASSUME TypeInv, StoredInv, [Next]_vars
             PROVE  [Derived!Next]_<<source, chunk, committed>>
  OBVIOUS
<1> USE DEF TypeInv
<1>1. ASSUME NEW p \in Procs, UpsertRow(p) PROVE Derived!Next
  <2>1. PICK i \in Ids : /\ Parses(rows[p][i])
                         /\ chunk' = [chunk EXCEPT ![NameOf[rows[p][i]]] = rows[p][i]]
    BY <1>1 DEF UpsertRow
  <2>2. UNCHANGED <<source, committed>>
    BY <1>1 DEF UpsertRow
  <2>3. rows[p][i] \in committed /\ rows[p][i] \in Sources /\ NameOf[rows[p][i]] \in Keys
    BY <2>1, ParsesIsKeyed DEF StoredInv, Parses, TypeOK
  <2>4. Derived!Derive(NameOf[rows[p][i]], rows[p][i])
    BY <2>1, <2>2, <2>3 DEF Derived!Derive
  <2>. QED BY <2>3, <2>4 DEF Derived!Next
<1>2. ASSUME NEW p \in Procs, PruneOrphan(p) PROVE Derived!Next
  <2>1. PICK k \in Keys : chunk' = [chunk EXCEPT ![k] = None]
    BY <1>2 DEF PruneOrphan, TypeOK
  <2>2. Derived!Drop(k)
    BY <1>2, <2>1 DEF PruneOrphan, Derived!Drop
  <2>. QED BY <2>2 DEF Derived!Next
<1>3. ASSUME NEW t \in Tasks, SaveSource(t) PROVE Derived!Next
  <2>1. task[t].id \in Ids /\ task[t].src \in Sources
    BY <1>3 DEF SaveSource, TaskInv
  <2>2. Derived!Save(task[t].id, task[t].src)
    BY <1>3 DEF SaveSource, Derived!Save
  <2>. QED BY <2>1, <2>2 DEF Derived!Next
<1>4. ASSUME NEW t \in Tasks, DeleteSource(t) PROVE Derived!Next
  <2>1. task[t].id \in Ids
    BY <1>4 DEF DeleteSource, TaskInv
  <2>2. Derived!Delete(task[t].id)
    BY <1>4 DEF DeleteSource, Derived!Delete
  <2>. QED BY <2>1, <2>2 DEF Derived!Next
<1>5. ASSUME NEW t \in Tasks, Reembed(t) PROVE Derived!Next
  <2>1. /\ task[t].src \in committed
        /\ task[t].src \in Sources
        /\ NameOf[task[t].src] \in Keys
    BY <1>5, ParsesIsKeyed DEF Reembed, StoredInv, TypeOK
  <2>2. Derived!Derive(NameOf[task[t].src], task[t].src)
    BY <1>5, <2>1 DEF Reembed, Derived!Derive
  <2>. QED BY <2>1, <2>2 DEF Derived!Next
<1>6. ASSUME NEW t \in Tasks, DeleteChunk(t) PROVE Derived!Next
  <2>1. task[t].id \in Keys
    BY <1>6, KeysAssumption DEF DeleteChunk, TaskInv
  <2>2. Derived!Drop(task[t].id)
    BY <1>6 DEF DeleteChunk, Derived!Drop
  <2>. QED BY <2>1, <2>2 DEF Derived!Next
<1>7. ASSUME NEW p \in Procs,
             \/ BootWithoutPostgres(p) \/ FetchRows(p) \/ FetchRowsFails(p) \/ SkipRow(p)
             \/ UpsertRowFails(p) \/ ListKeys(p) \/ BackfillAborts(p) \/ BackfillDone(p)
             \/ Crash(p)
      PROVE  UNCHANGED <<source, chunk, committed>>
  BY <1>7 DEF BootWithoutPostgres, FetchRows, FetchRowsFails, SkipRow, UpsertRowFails,
              ListKeys, BackfillAborts, BackfillDone, Crash
<1>8. ASSUME NEW t \in Tasks,
             \/ ReceiveSave(t) \/ ReceiveDelete(t) \/ SourceStatementFails(t)
             \/ ReembedSkipped(t) \/ DeleteChunkFails(t)
      PROVE  UNCHANGED <<source, chunk, committed>>
  BY <1>8 DEF ReceiveSave, ReceiveDelete, Spawn, SourceStatementFails, ReembedSkipped,
              DeleteChunkFails, table
<1>9. CASE UNCHANGED vars
  BY <1>9 DEF vars
<1>. QED
  BY <1>1, <1>2, <1>3, <1>4, <1>5, <1>6, <1>7, <1>8, <1>9 DEF Next, BackfillStep, TaskStep

\* The service implements DerivedIndex: whatever the interleaving of commands,
\* boots, crashes and failures, a chunk is a stored text under its own name.
THEOREM ServiceImplementsDerivedIndex == Spec => ImplementsDerivedIndex
<1>1. Init => Derived!Init
  BY DEF Init, Derived!Init
<1>2. Spec => [](TypeInv /\ StoredInv)
  BY TypeInvInit, TypeInvNext, StoredInvInit, StoredInvNext, PTL DEF Spec
<1>. QED BY <1>1, <1>2, DerivedStep, PTL DEF Spec, ImplementsDerivedIndex, Derived!Spec

-----------------------------------------------------------------------------
(* The backfill.                                                           *)

\* The rows the loop of p has gone through.
Done(p, i) == i \in Ids \ todo[p]

\* What holds of a backfill that nobody has disturbed: its snapshot is still
\* the table, the rows behind it come before the rows ahead of it, and every
\* name declared behind it is recorded.
AloneInv(p) ==
    mode[p] # "raced" /\ phase[p] \in {"rows", "prune"} =>
        /\ rows[p] = source
        /\ phase[p] = "prune" => todo[p] = {}
        /\ \A i \in Ids, j \in todo[p] : source[i] # None /\ Done(p, i) => i < j
        /\ \A i \in Ids : Done(p, i) /\ Parses(source[i])
               => NameOf[source[i]] \in source_keys[p]
        /\ phase[p] = "prune" => orphans[p] \cap source_keys[p] = {}

\* What holds, besides, when nothing has failed either: the recorded names are
\* declared, each has the chunk of the last row behind the loop that declares
\* it, and after list_keys every other chunk is an orphan.
ExactInv(p) ==
    mode[p] = "exact" /\ phase[p] \in {"rows", "prune"} =>
        /\ \A k \in source_keys[p] : Live(k)
        /\ \A i \in Ids, k \in Keys :
              /\ Done(p, i)
              /\ Bears(i, k)
              /\ \A j \in Ids : Done(p, j) /\ Bears(j, k) => j <= i
              => chunk[k] = source[i]
        /\ phase[p] = "prune" =>
              \A k \in Keys : chunk[k] # None => k \in source_keys[p] \cup orphans[p]

\* A process that is not up has no backfill to speak of.
DownInv(p) == phase[p] \in {"down", "nodb"} => mode[p] = "raced"

\* What CleanBootReconciles says of one process.
Reconciled(p) ==
    phase[p] = "serving" /\ mode[p] = "exact" =>
        \A k \in Keys :
            /\ chunk[k] # None => Live(k)
            /\ \A i \in Ids : LastBearer(i, k) => chunk[k] = source[i]

BootInv == \A p \in Procs : AloneInv(p) /\ ExactInv(p) /\ DownInv(p) /\ Reconciled(p)

(* No backfill has started. *)
LEMMA BootInvInit == Init => BootInv
BY DEF Init, BootInv, AloneInv, ExactInv, DownInv, Reconciled

\* A step that writes neither table and leaves the boot state of q alone, or
\* writes one and marks q as raced, preserves what is known of q.
LEMMA OthersUndisturbed ==
    ASSUME NEW q \in Procs, BootInv,
           phase'[q] = phase[q],
           \/ /\ UNCHANGED <<source, chunk>>
              /\ rows'[q] = rows[q] /\ todo'[q] = todo[q] /\ orphans'[q] = orphans[q]
              /\ source_keys'[q] = source_keys[q] /\ mode'[q] = mode[q]
           \/ mode'[q] = "raced"
    PROVE  AloneInv(q)' /\ ExactInv(q)' /\ DownInv(q)' /\ Reconciled(q)'
<1>1. CASE mode'[q] = "raced"
  BY <1>1 DEF AloneInv, ExactInv, DownInv, Reconciled
<1>2. CASE /\ UNCHANGED <<source, chunk>>
           /\ rows'[q] = rows[q] /\ todo'[q] = todo[q] /\ orphans'[q] = orphans[q]
           /\ source_keys'[q] = source_keys[q] /\ mode'[q] = mode[q]
  <2>1. AloneInv(q) /\ ExactInv(q) /\ DownInv(q) /\ Reconciled(q)
    BY DEF BootInv
  <2>2. AloneInv(q)'
    BY <1>2, <2>1 DEF AloneInv, Done, Parses
  <2>3. ExactInv(q)'
    BY <1>2, <2>1 DEF ExactInv, Done, Bears, Live, Parses
  <2>4. DownInv(q)' /\ Reconciled(q)'
    BY <1>2, <2>1 DEF DownInv, Reconciled, LastBearer, Bears, Live, Parses
  <2>. QED BY <2>2, <2>3, <2>4
<1>. QED BY <1>1, <1>2


\* What a boot step of p has to establish: the rest follows for the others.
BootInvOf(p) == AloneInv(p) /\ ExactInv(p) /\ DownInv(p) /\ Reconciled(p)

\* The rows that remain after row i come after it.
LEMMA AheadOfRow ==
    ASSUME TypeInv, NEW p \in Procs, NEW i \in Ids, AtRow(p, i)
    PROVE  \A j \in todo[p] \ {i} : i < j
<1>1. todo[p] \subseteq Nat /\ i \in Nat
  BY KeysAssumption DEF TypeInv, TypeOK
<1>2. \A j \in todo[p] : i <= j
  BY DEF AtRow
<1>. QED BY <1>1, <1>2

(* The steps of a backfill that write no chunk, and a crash, keep its invariant. *)
LEMMA BootStepInv ==
    ASSUME TypeInv, BootInv, NEW p \in Procs,
           \/ BootWithoutPostgres(p) \/ FetchRows(p) \/ FetchRowsFails(p)
           \/ SkipRow(p) \/ UpsertRowFails(p) \/ ListKeys(p)
           \/ BackfillAborts(p) \/ BackfillDone(p) \/ Crash(p)
    PROVE  BootInvOf(p)'
<1> USE DEF TypeInv, BootInvOf
<1>0. BootInvOf(p)
  BY DEF BootInv
<1>1. CASE BootWithoutPostgres(p) \/ FetchRowsFails(p)
  <2>1. mode[p] = "raced"
    BY <1>0, <1>1 DEF DownInv, BootWithoutPostgres, FetchRowsFails
  <2>2. mode'[p] = "raced"
    BY <1>1, <2>1 DEF BootWithoutPostgres, FetchRowsFails
  <2>. QED BY <2>2 DEF AloneInv, ExactInv, DownInv, Reconciled
<1>2. CASE FetchRows(p)
  <2>1. /\ phase'[p] = "rows" /\ rows'[p] = source /\ source_keys'[p] = {}
        /\ todo'[p] = {i \in Ids : source[i] # None}
        /\ UNCHANGED <<source, chunk>>
    BY <1>2 DEF FetchRows, TypeOK
  <2>2. \A i \in Ids : Done(p, i)' => source[i] = None
    BY <2>1 DEF Done
  <2>. QED BY <2>1, <2>2 DEF AloneInv, ExactInv, DownInv, Reconciled, Bears, Parses
<1>3. CASE SkipRow(p)
  <2>1. PICK i \in Ids : /\ AtRow(p, i)
                         /\ ~Parses(rows[p][i])
                         /\ todo'[p] = todo[p] \ {i}
    BY <1>3 DEF SkipRow, TypeOK
  <2>2. UNCHANGED <<source, chunk, phase, rows, source_keys, orphans, mode>>
    BY <1>3 DEF SkipRow
  <2>3. ASSUME mode[p] # "raced" PROVE AloneInv(p)'
    <3>1. rows[p] = source /\ phase[p] = "rows" /\ ~Parses(source[i])
      BY <1>0, <2>1, <2>3 DEF AloneInv, AtRow
    <3>2. \A j \in todo'[p] : i < j
      BY <2>1, AheadOfRow
    <3>3. \A j \in Ids : Done(p, j)' <=> Done(p, j) \/ j = i
      BY <2>1 DEF Done
    <3>. QED BY <1>0, <2>1, <2>2, <2>3, <3>1, <3>2, <3>3 DEF AloneInv, Parses
  <2>4. ASSUME mode[p] = "exact" PROVE ExactInv(p)'
    <3>1. rows[p] = source /\ phase[p] = "rows" /\ ~Parses(source[i])
      BY <1>0, <2>1, <2>4 DEF AloneInv, AtRow
    <3>2. \A j \in Ids : Parses(source[j]) => (Done(p, j)' <=> Done(p, j))
      BY <2>1, <3>1 DEF Done
    <3>. QED BY <1>0, <2>2, <2>4, <3>1, <3>2 DEF ExactInv, Bears, Live, Parses
  <2>. QED BY <2>1, <2>2, <2>3, <2>4 DEF AloneInv, ExactInv, DownInv, Reconciled, AtRow
<1>4. CASE UpsertRowFails(p)
  <2>1. PICK i \in Ids : /\ AtRow(p, i)
                         /\ todo'[p] = todo[p] \ {i}
                         /\ source_keys'[p] = source_keys[p] \cup {NameOf[rows[p][i]]}
    BY <1>4 DEF UpsertRowFails, TypeOK
  <2>2. UNCHANGED <<source, chunk, phase, rows, orphans>> /\ mode'[p] # "exact"
    BY <1>4 DEF UpsertRowFails, Failed, TypeOK
  <2>3. ASSUME mode'[p] # "raced" PROVE AloneInv(p)'
    <3>1. mode[p] # "raced"
      BY <1>4, <2>3 DEF UpsertRowFails, Failed, TypeOK
    <3>2. rows[p] = source /\ phase[p] = "rows"
      BY <1>0, <2>1, <3>1 DEF AloneInv, AtRow
    <3>3. \A j \in todo'[p] : i < j
      BY <2>1, AheadOfRow
    <3>4. \A j \in Ids : Done(p, j)' <=> Done(p, j) \/ j = i
      BY <2>1 DEF Done
    <3>. QED BY <1>0, <2>1, <2>2, <3>1, <3>2, <3>3, <3>4 DEF AloneInv, Parses
  <2>. QED BY <2>1, <2>2, <2>3 DEF AloneInv, ExactInv, DownInv, Reconciled, AtRow
<1>5. CASE ListKeys(p)
  <2>1. /\ phase[p] = "rows" /\ phase'[p] = "prune" /\ todo[p] = {}
        /\ orphans'[p] = {k \in Keys : chunk[k] # None} \ source_keys[p]
        /\ UNCHANGED <<source, chunk, rows, todo, source_keys, mode>>
    BY <1>5 DEF ListKeys, TypeOK
  <2>2. AloneInv(p)'
    BY <1>0, <2>1 DEF AloneInv, Done, Parses
  <2>3. ExactInv(p)'
    BY <1>0, <2>1 DEF ExactInv, Done, Bears, Live, Parses
  <2>. QED BY <2>1, <2>2, <2>3 DEF DownInv, Reconciled
<1>6. CASE BackfillAborts(p)
  <2>1. phase'[p] = "serving" /\ mode'[p] # "exact"
    BY <1>6 DEF BackfillAborts, Failed, TypeOK
  <2>. QED BY <2>1 DEF AloneInv, ExactInv, DownInv, Reconciled
<1>7. CASE BackfillDone(p)
  <2>1. /\ phase[p] = "prune" /\ phase'[p] = "serving" /\ orphans[p] = {}
        /\ UNCHANGED <<source, chunk, todo, source_keys, mode>>
    BY <1>7 DEF BackfillDone, TypeOK
  <2>2. ASSUME mode[p] = "exact", NEW k \in Keys
        PROVE  /\ chunk[k] # None => Live(k)
               /\ \A i \in Ids : LastBearer(i, k) => chunk[k] = source[i]
    <3>1. todo[p] = {} /\ \A i \in Ids : Done(p, i)
      BY <1>0, <2>1, <2>2 DEF AloneInv, Done
    <3>. QED BY <1>0, <2>1, <2>2, <3>1 DEF ExactInv, LastBearer
  <2>3. Reconciled(p)'
    BY <2>1, <2>2 DEF Reconciled, LastBearer, Bears, Live, Parses
  <2>. QED BY <2>1, <2>3 DEF AloneInv, ExactInv, DownInv
<1>8. CASE Crash(p)
  <2>1. phase'[p] = "down" /\ mode'[p] = "raced"
    BY <1>8 DEF Crash, TypeOK
  <2>. QED BY <2>1 DEF AloneInv, ExactInv, DownInv, Reconciled
<1>. QED BY <1>1, <1>2, <1>3, <1>4, <1>5, <1>6, <1>7, <1>8

\* An upsert of the backfill loop preserves the invariant of its process: the
\* row it has reached is now the last one behind it that declares the name.
LEMMA UpsertRowInv ==
    ASSUME TypeInv, BootInv, NEW p \in Procs, UpsertRow(p)
    PROVE  BootInvOf(p)'
<1> USE DEF TypeInv, BootInvOf
<1>0. BootInvOf(p)
  BY DEF BootInv
<1>1. PICK i \in Ids : /\ AtRow(p, i)
                       /\ Parses(rows[p][i])
                       /\ todo' = [todo EXCEPT ![p] = @ \ {i}]
                       /\ source_keys' = [source_keys EXCEPT ![p] = @ \cup {NameOf[rows[p][i]]}]
                       /\ chunk' = [chunk EXCEPT ![NameOf[rows[p][i]]] = rows[p][i]]
  BY DEF UpsertRow
<1>2. UNCHANGED <<source, phase, rows, orphans>> /\ mode'[p] = mode[p]
  BY DEF UpsertRow, Disturb, TypeOK
<1>3. phase[p] = "rows"
  BY <1>1 DEF AtRow
<1>4. /\ todo'[p] = todo[p] \ {i}
      /\ source_keys'[p] = source_keys[p] \cup {NameOf[rows[p][i]]}
  BY <1>1 DEF TypeOK
<1>5. \A j \in todo'[p] : i < j
  BY <1>1, <1>4, AheadOfRow
<1>6. \A j \in Ids : Done(p, j)' <=> Done(p, j) \/ j = i
  BY <1>4 DEF Done
<1>7. AloneInv(p)'
  BY <1>0, <1>1, <1>2, <1>3, <1>4, <1>5, <1>6 DEF AloneInv, Parses
<1>8. ASSUME mode[p] = "exact" PROVE ExactInv(p)'
  <2> DEFINE k == NameOf[source[i]]
  <2>1. rows[p] = source /\ Parses(source[i]) /\ k \in Keys /\ Bears(i, k)
    BY <1>0, <1>1, <1>3, <1>8, ParsesIsKeyed DEF AloneInv, TypeOK, Bears
  <2>2. \A j \in Ids : source[j] # None /\ Done(p, j) => j < i
    BY <1>0, <1>1, <1>3, <1>8 DEF AloneInv, AtRow
  <2>3. \A n \in source_keys'[p] : Live(n)'
    BY <1>0, <1>2, <1>3, <1>4, <1>8, <2>1 DEF ExactInv, Live, Bears, Parses
  <2>4. ASSUME NEW j \in Ids, NEW n \in Keys, Done(p, j)', Bears(j, n),
               \A h \in Ids : Done(p, h)' /\ Bears(h, n) => h <= j
        PROVE  chunk'[n] = source[j]
    <3>1. CASE n = k
      <4>1. i <= j
        BY <1>6, <2>1, <2>4, <3>1
      <4>2. j = i
        <5>1. i \in Nat /\ j \in Nat
          BY KeysAssumption
        <5>2. Done(p, j) => j < i
          BY <2>2, <2>4 DEF Bears, Parses
        <5>. QED BY <1>6, <2>4, <4>1, <5>1, <5>2
      <4>. QED BY <1>1, <2>1, <3>1, <4>2 DEF TypeOK
    <3>2. CASE n # k
      <4>1. j # i
        BY <2>4, <3>2 DEF Bears
      <4>2. Done(p, j)
        BY <1>6, <2>4, <4>1
      <4>3. chunk[n] = source[j]
        BY <1>0, <1>3, <1>6, <1>8, <2>4, <4>2 DEF ExactInv
      <4>. QED BY <1>1, <2>1, <3>2, <4>3 DEF TypeOK
    <3>. QED BY <3>1, <3>2
  <2>. QED BY <1>2, <1>3, <2>3, <2>4 DEF ExactInv, Bears, Parses
<1>. QED BY <1>2, <1>3, <1>7, <1>8 DEF ExactInv, DownInv, Reconciled

\* A delete of the prune loop preserves the invariant of its process: an
\* orphan of an undisturbed backfill is declared by no row.
LEMMA PruneOrphanInv ==
    ASSUME TypeInv, BootInv, NEW p \in Procs, PruneOrphan(p)
    PROVE  BootInvOf(p)'
<1> USE DEF TypeInv, BootInvOf
<1>0. BootInvOf(p)
  BY DEF BootInv
<1>1. PICK k \in orphans[p] : /\ orphans' = [orphans EXCEPT ![p] = @ \ {k}]
                              /\ chunk' = [chunk EXCEPT ![k] = None]
  BY DEF PruneOrphan
<1>2. /\ phase[p] = "prune"
      /\ UNCHANGED <<source, phase, rows, todo, source_keys>>
      /\ mode'[p] = mode[p]
  BY DEF PruneOrphan, Disturb, TypeOK
<1>3. orphans'[p] = orphans[p] \ {k}
  BY <1>1 DEF TypeOK
<1>4. AloneInv(p)'
  BY <1>0, <1>2, <1>3 DEF AloneInv, Done, Parses
<1>5. ASSUME mode[p] = "exact" PROVE ExactInv(p)'
  <2>1. \A i \in Ids, n \in Keys : Bears(i, n) => n # k
    BY <1>0, <1>2, <1>5 DEF AloneInv, Done, Bears
  <2>2. \A n \in Keys : n # k => chunk'[n] = chunk[n]
    BY <1>1 DEF TypeOK
  <2>3. chunk'[k] = None
    BY <1>1 DEF TypeOK
  <2>. QED BY <1>0, <1>2, <1>3, <1>5, <2>1, <2>2, <2>3
           DEF ExactInv, Done, Bears, Live, Parses
<1>. QED BY <1>2, <1>4, <1>5 DEF ExactInv, DownInv, Reconciled

(* Every step keeps the invariant of every backfill. *)
LEMMA BootInvNext == TypeInv /\ BootInv /\ [Next]_vars => BootInv'
<1> SUFFICES ASSUME TypeInv, BootInv, [Next]_vars, NEW q \in Procs
             PROVE  BootInvOf(q)'
  BY DEF BootInv, BootInvOf
<1> USE DEF TypeInv
<1>1. ASSUME NEW p \in Procs,
             \/ BootWithoutPostgres(p) \/ FetchRows(p) \/ FetchRowsFails(p)
             \/ SkipRow(p) \/ UpsertRowFails(p) \/ ListKeys(p)
             \/ BackfillAborts(p) \/ BackfillDone(p) \/ Crash(p)
      PROVE  BootInvOf(q)'
  <2>1. CASE q = p
    BY <1>1, <2>1, BootStepInv
  <2>2. CASE q # p
    <3>1. /\ UNCHANGED <<source, chunk>>
          /\ phase'[q] = phase[q] /\ rows'[q] = rows[q] /\ todo'[q] = todo[q]
          /\ orphans'[q] = orphans[q] /\ source_keys'[q] = source_keys[q]
          /\ mode'[q] = mode[q]
      BY <1>1, <2>2 DEF BootWithoutPostgres, FetchRows, FetchRowsFails, SkipRow,
                        UpsertRowFails, ListKeys, BackfillAborts, BackfillDone, Crash,
                        Failed, TypeOK
    <3>. QED BY <3>1, OthersUndisturbed DEF BootInvOf
  <2>. QED BY <2>1, <2>2
<1>2. ASSUME NEW p \in Procs, UpsertRow(p) \/ PruneOrphan(p) PROVE BootInvOf(q)'
  <2>1. CASE q = p
    BY <1>2, <2>1, UpsertRowInv, PruneOrphanInv
  <2>2. CASE q # p
    <3>1. phase' = phase /\ mode'[q] = "raced"
      BY <1>2, <2>2 DEF UpsertRow, PruneOrphan, Disturb
    <3>. QED BY <3>1, OthersUndisturbed DEF BootInvOf
  <2>. QED BY <2>1, <2>2
<1>3. ASSUME NEW t \in Tasks,
             SaveSource(t) \/ Reembed(t) \/ DeleteSource(t) \/ DeleteChunk(t)
      PROVE  BootInvOf(q)'
  <2>1. phase' = phase /\ mode'[q] = "raced"
    BY <1>3 DEF SaveSource, Reembed, DeleteSource, DeleteChunk, DisturbAll, boot
  <2>. QED BY <2>1, OthersUndisturbed DEF BootInvOf
<1>4. ASSUME NEW t \in Tasks,
             \/ ReceiveSave(t) \/ ReceiveDelete(t) \/ SourceStatementFails(t)
             \/ ReembedSkipped(t) \/ DeleteChunkFails(t)
      PROVE  BootInvOf(q)'
  <2>1. UNCHANGED <<source, chunk, phase, rows, todo, source_keys, orphans, mode>>
    BY <1>4 DEF ReceiveSave, ReceiveDelete, Spawn, SourceStatementFails, ReembedSkipped,
                DeleteChunkFails, table, boot
  <2>. QED BY <2>1, OthersUndisturbed DEF BootInvOf
<1>5. CASE UNCHANGED vars
  BY <1>5, OthersUndisturbed DEF BootInvOf, vars
<1>. QED
  BY <1>1, <1>2, <1>3, <1>4, <1>5 DEF Next, BackfillStep, TaskStep

(* The invariant of the backfills holds in every behaviour. *)
LEMMA BootInvAlways == Spec => [](TypeInv /\ BootInv)
BY TypeInvInit, TypeInvNext, BootInvInit, BootInvNext, PTL DEF Spec

\* A backfill that ran alone and without a failure makes the schema table the
\* image of the source table, for any rows, names, texts and processes.
THEOREM CleanBootTheorem == Spec => []CleanBootReconciles
<1>1. BootInv => CleanBootReconciles
  BY DEF BootInv, Reconciled, CleanBootReconciles
<1>. QED BY <1>1, BootInvAlways, PTL

\* The chunk of a declared name is dropped only by a delete command or by the
\* prune loop of a backfill that another writer has overtaken.
THEOREM LiveChunkTheorem == Spec => LiveChunkKept
<1> DEFINE Kept ==
      \A k \in Keys :
          chunk[k] # None /\ chunk'[k] = None /\ Live(k) =>
              \/ \E t \in Tasks : task[t].pc = "delete_chunk" /\ task[t].id = k
              \/ \E p \in Procs : phase[p] = "prune" /\ mode[p] = "raced"
<1>1. ASSUME TypeInv, BootInv, [Next]_vars PROVE Kept
  <2> SUFFICES ASSUME NEW k \in Keys, chunk[k] # None, chunk'[k] = None, Live(k)
               PROVE  \/ \E t \in Tasks : task[t].pc = "delete_chunk" /\ task[t].id = k
                      \/ \E p \in Procs : phase[p] = "prune" /\ mode[p] = "raced"
    OBVIOUS
  <2> USE <1>1 DEF TypeInv
  <2>1. ASSUME NEW p \in Procs, PruneOrphan(p)
        PROVE  phase[p] = "prune" /\ mode[p] = "raced"
    <3>1. k \in orphans[p] /\ phase[p] = "prune"
      BY <2>1 DEF PruneOrphan, TypeOK
    <3>2. ~(mode[p] # "raced")
      BY <3>1 DEF BootInv, AloneInv, Done, Live, Bears
    <3>. QED BY <3>1, <3>2
  <2>2. ASSUME NEW p \in Procs, UpsertRow(p) PROVE FALSE
    BY <2>2, NoneAssumption, ParsesIsKeyed DEF UpsertRow, TypeOK, Parses
  <2>3. ASSUME NEW t \in Tasks, Reembed(t) PROVE FALSE
    BY <2>3, NoneAssumption, ParsesIsKeyed DEF Reembed, TypeOK, Parses
  <2>4. ASSUME NEW t \in Tasks, DeleteChunk(t)
        PROVE  task[t].pc = "delete_chunk" /\ task[t].id = k
    BY <2>4 DEF DeleteChunk, TypeOK
  <2>5. ASSUME chunk' = chunk PROVE FALSE
    BY <2>5
  <2>6. \/ \E p \in Procs : PruneOrphan(p) \/ UpsertRow(p)
        \/ \E t \in Tasks : Reembed(t) \/ DeleteChunk(t)
        \/ chunk' = chunk
    BY DEF Next, BackfillStep, TaskStep, vars, BootWithoutPostgres, FetchRows,
           FetchRowsFails, SkipRow, UpsertRowFails, ListKeys, BackfillAborts,
           BackfillDone, Crash, ReceiveSave, ReceiveDelete, Spawn, SaveSource,
           SourceStatementFails, ReembedSkipped, DeleteSource, DeleteChunkFails, table
  <2>. QED BY <2>1, <2>2, <2>3, <2>4, <2>5, <2>6
<1>2. TypeInv /\ BootInv /\ [Next]_vars => [Kept]_vars
  BY <1>1
<1>3. Spec => [][Kept]_vars
  BY <1>2, BootInvAlways, PTL DEF Spec
<1>. QED BY <1>3 DEF LiveChunkKept

-----------------------------------------------------------------------------
(* The excuses.                                                            *)

\* Two commands in flight on one row or one schema row are both known to race.
Rivals(t, u) == /\ t # u /\ Busy(t) /\ Busy(u)
                /\ task[t].id = task[u].id \/ Touches(t) \cap Touches(u) # {}
RivalInv == \A t, u \in Tasks : Rivals(t, u) => t \in raced

\* A save that did not race still has its own text in the row it saved.
CurrentInv == \A t \in Tasks : task[t].pc = "reembed" /\ t \notin raced
                  => source[task[t].id] = task[t].src

\* A name two rows declare is excused.
SharedInv == \A k \in Keys : Shared(k) => k \in excused

ExcuseInv == RivalInv /\ CurrentInv /\ SharedInv /\ SearchableUnlessExcused

(* No row is stored, so none lacks its chunk. *)
LEMMA ExcuseInvInit == Init => ExcuseInv
BY DEF Init, ExcuseInv, RivalInv, Rivals, CurrentInv, SharedInv, SearchableUnlessExcused,
       Busy, Free

\* A task that ends, or a crash that ends several, leaves the others as they were.
LEMMA EndKeepsRivals ==
    ASSUME TypeInv, RivalInv, CurrentInv, NEW T \in SUBSET Tasks, source' = source,
           task' = [t \in Tasks |-> IF t \in T THEN Free ELSE task[t]],
           raced' = raced \ T
    PROVE  RivalInv' /\ CurrentInv'
<1>1. \A t \in Tasks : t \notin T => task'[t] = task[t]
  OBVIOUS
<1>2. \A t \in T : task'[t].pc = "free"
  BY DEF Free
<1>3. RivalInv'
  BY <1>1, <1>2 DEF RivalInv, Rivals, Busy, Touches
<1>4. CurrentInv'
  BY <1>1, <1>2 DEF CurrentInv
<1>. QED BY <1>3, <1>4

\* The same, for one task.
LEMMA EndOneKeepsRivals ==
    ASSUME TypeInv, RivalInv, CurrentInv, NEW t \in Tasks, source' = source, End(t)
    PROVE  RivalInv' /\ CurrentInv'
<1>1. /\ task' = [u \in Tasks |-> IF u \in {t} THEN Free ELSE task[u]]
      /\ raced' = raced \ {t}
  BY DEF End, TypeInv, TypeOK
<1>. QED BY <1>1, EndKeepsRivals

\* Steps that touch neither the commands nor the source rows.
LEMMA IdleKeepsRivals ==
    ASSUME RivalInv, CurrentInv, UNCHANGED <<source, task, raced>>
    PROVE  RivalInv' /\ CurrentInv'
BY DEF RivalInv, Rivals, CurrentInv, Busy, Touches

\* No other task in flight on the row of t has an unraced claim on it.
LEMMA RowWriteKeepsRivals ==
    ASSUME TypeInv, RivalInv, CurrentInv, NEW t \in Tasks, Busy(t), raced' = raced,
           NEW pc \in Pcs \ {"free"}, NEW s \in Sources \cup {None},
           task' = [task EXCEPT ![t].pc = pc],
           source' = [source EXCEPT ![task[t].id] = s],
           pc = "reembed" => s = task[t].src
    PROVE  RivalInv' /\ CurrentInv'
<1> USE DEF TypeInv
<1>1. \A u \in Tasks : /\ task'[u].id = task[u].id /\ task'[u].src = task[u].src
                       /\ u # t => task'[u] = task[u]
                       /\ Busy(u)' <=> Busy(u)
  BY DEF TypeOK, Busy
<1>2. task'[t].pc = pc /\ task[t].id \in Ids
  BY DEF TypeOK, TaskInv, Busy
<1>3. RivalInv'
  BY <1>1 DEF RivalInv, Rivals, Touches
<1>4. ASSUME NEW u \in Tasks, task'[u].pc = "reembed", u \notin raced
      PROVE  source'[task'[u].id] = task'[u].src
  <2>1. CASE u = t
    BY <1>1, <1>2, <1>4, <2>1 DEF TypeOK
  <2>2. CASE u # t
    <3>1. task[u].pc = "reembed" /\ Busy(u)
      BY <1>1, <1>4, <2>2 DEF Busy
    <3>2. task[u].id # task[t].id
      BY <1>4, <2>2, <3>1 DEF RivalInv, Rivals
    <3>3. task[u].id \in Ids
      BY <3>1 DEF TaskInv
    <3>. QED BY <1>1, <1>2, <1>4, <3>1, <3>2, <3>3 DEF CurrentInv, TypeOK
  <2>. QED BY <2>1, <2>2
<1>. QED BY <1>3, <1>4 DEF CurrentInv

\* Steps that leave the rows, the commands and the schema table alone.
LEMMA IdleKeepsExcuses ==
    ASSUME ExcuseInv, UNCHANGED <<source, chunk, task, raced, excused>>
    PROVE  ExcuseInv'
<1>1. RivalInv' /\ CurrentInv'
  BY IdleKeepsRivals DEF ExcuseInv
<1>2. SharedInv' /\ SearchableUnlessExcused'
  BY DEF ExcuseInv, SharedInv, SearchableUnlessExcused, Shared, Bears, Parses, Touches
<1>. QED BY <1>1, <1>2 DEF ExcuseInv

\* A chunk written for name k either is the text of the only row that declares
\* k, or k is excused: then the index still keeps its promise for every name.
LEMMA ChunkWriteKeepsPromise ==
    ASSUME TypeInv, SharedInv, SearchableUnlessExcused, source' = source, NEW k \in Keys,
           NEW s \in Sources \cup {None}, chunk' = [chunk EXCEPT ![k] = s],
           excused \subseteq excused' \cup {k},
           \A n \in Keys : Shared(n) => n \in excused',
           k \in excused' \/ \A i \in Ids : Bears(i, k) => source[i] = s,
           \A n \in Keys \ {k}, t \in Tasks :
               task[t].pc = "reembed" /\ n \in Touches(t) =>
                   task'[t] = task[t] \/ n \in excused'
    PROVE  SharedInv' /\ SearchableUnlessExcused'
<1>1. SharedInv'
  BY DEF SharedInv, Shared, Bears, Parses
<1>2. ASSUME NEW i \in Ids, NEW n \in Keys \ excused', Bears(i, n)',
             ~(\E t \in Tasks : task'[t].pc = "reembed" /\ n \in Touches(t)')
      PROVE  chunk'[n] = source'[i]
  <2>1. Bears(i, n)
    BY <1>2 DEF Bears, Parses
  <2>2. CASE n = k
    BY <1>2, <2>1, <2>2 DEF TypeInv, TypeOK
  <2>3. CASE n # k
    <3>1. n \notin excused
      BY <1>2, <2>3
    <3>2. ~(\E t \in Tasks : task[t].pc = "reembed" /\ n \in Touches(t))
      BY <1>2, <2>3 DEF Touches
    <3>. QED BY <2>1, <2>3, <3>1, <3>2 DEF SearchableUnlessExcused, TypeInv, TypeOK
  <2>. QED BY <2>2, <2>3
<1>. QED BY <1>1, <1>2 DEF SearchableUnlessExcused

(* A backfill step takes away no chunk that is not excused. *)
LEMMA BackfillKeepsExcuses ==
    ASSUME TypeInv, BootInv, ExcuseInv, NEW p \in Procs,
           UpsertRow(p) \/ PruneOrphan(p) \/ BackfillDone(p)
    PROVE  ExcuseInv'
<1> USE DEF TypeInv
<1>1. CASE UpsertRow(p)
  <2>1. PICK i \in Ids :
          /\ AtRow(p, i)
          /\ Parses(rows[p][i])
          /\ chunk' = [chunk EXCEPT ![NameOf[rows[p][i]]] = rows[p][i]]
          /\ excused' = IF mode[p] = "raced" THEN excused \cup {NameOf[rows[p][i]]} ELSE excused
    BY <1>1 DEF UpsertRow
  <2> DEFINE k == NameOf[rows[p][i]]
  <2>2. UNCHANGED <<source, task, raced>>
    BY <1>1 DEF UpsertRow
  <2>3. rows[p][i] \in Sources /\ k \in Keys
    BY <2>1, ParsesIsKeyed DEF TypeOK
  <2>4. ASSUME k \notin excused', NEW j \in Ids, Bears(j, k) PROVE source[j] = rows[p][i]
    <3>1. mode[p] # "raced" /\ k \notin excused
      BY <2>1, <2>4
    <3>2. rows[p] = source
      BY <2>1, <3>1 DEF BootInv, AloneInv, AtRow
    <3>3. Bears(i, k)
      BY <2>1, <3>2 DEF Bears
    <3>4. j = i
      BY <2>3, <2>4, <3>1, <3>3 DEF ExcuseInv, SharedInv, Shared
    <3>. QED BY <3>2, <3>4
  <2>5. SharedInv' /\ SearchableUnlessExcused'
    <3>1. excused \subseteq excused' /\ \A n \in Keys : Shared(n) => n \in excused'
      BY <2>1 DEF ExcuseInv, SharedInv
    <3>2. SharedInv /\ SearchableUnlessExcused
      BY DEF ExcuseInv
    <3> HIDE DEF k
    <3>3. chunk' = [chunk EXCEPT ![k] = rows[p][i]]
      BY <2>1 DEF k
    <3>. QED BY <2>2, <2>3, <2>4, <3>1, <3>2, <3>3, ChunkWriteKeepsPromise
  <2>. QED BY <2>2, <2>5, IdleKeepsRivals DEF ExcuseInv
<1>2. CASE PruneOrphan(p)
  <2>1. PICK k \in Keys : /\ chunk' = [chunk EXCEPT ![k] = None]
                          /\ excused' = IF Live(k) THEN excused \cup {k} ELSE excused
    BY <1>2 DEF PruneOrphan, TypeOK
  <2>2. UNCHANGED <<source, task, raced>>
    BY <1>2 DEF PruneOrphan
  <2>3. excused \subseteq excused' /\ \A n \in Keys : Shared(n) => n \in excused'
    BY <2>1 DEF ExcuseInv, SharedInv
  <2>4. k \in excused' \/ \A i \in Ids : Bears(i, k) => source[i] = None
    BY <2>1 DEF Live
  <2>5. SharedInv /\ SearchableUnlessExcused
    BY DEF ExcuseInv
  <2>6. SharedInv' /\ SearchableUnlessExcused'
    BY <2>1, <2>2, <2>3, <2>4, <2>5, ChunkWriteKeepsPromise
  <2>. QED BY <2>2, <2>6, IdleKeepsRivals DEF ExcuseInv
<1>3. CASE BackfillDone(p)
  <2>1. UNCHANGED <<source, chunk, task, raced, mode>>
    BY <1>3 DEF BackfillDone
  <2>2. CASE mode[p] # "exact"
    BY <1>3, <2>1, <2>2, IdleKeepsExcuses DEF BackfillDone
  <2>3. CASE mode[p] = "exact"
    <3>1. excused' = {k \in Keys : Shared(k)}
      BY <1>3, <2>3 DEF BackfillDone
    <3>2. ASSUME NEW i \in Ids, NEW k \in Keys, Bears(i, k), ~Shared(k)
          PROVE  chunk[k] = source[i]
      <4>1. i \in Nat
        BY KeysAssumption
      <4>2. LastBearer(i, k)
        BY <3>2, <4>1 DEF LastBearer, Shared
      <4>3. Reconciled(p)'
        BY <1>3, BootStepInv DEF BootInvOf
      <4>4. phase'[p] = "serving" /\ mode'[p] = "exact"
        BY <1>3, <2>3 DEF BackfillDone, TypeOK
      <4>5. LastBearer(i, k)'
        BY <2>1, <4>2 DEF LastBearer, Bears, Parses
      <4>. QED BY <2>1, <4>3, <4>4, <4>5 DEF Reconciled
    <3>3. SharedInv'
      BY <2>1, <3>1 DEF SharedInv, Shared, Bears, Parses
    <3>4. SearchableUnlessExcused'
      BY <2>1, <3>1, <3>2 DEF SearchableUnlessExcused, Bears, Parses
    <3>. QED BY <2>1, <3>3, <3>4, IdleKeepsRivals DEF ExcuseInv
  <2>. QED BY <2>2, <2>3
<1>. QED BY <1>1, <1>2, <1>3

\* A spawned command is marked as racing with the ones it meets, and they with it.
LEMMA SpawnKeepsExcuses ==
    ASSUME TypeInv, ExcuseInv, NEW t \in Tasks, NEW p \in Procs,
           NEW pc \in {"save_source", "delete_source"}, NEW id \in Ids,
           NEW src \in Sources \cup {None}, Spawn(t, p, pc, id, src)
    PROVE  ExcuseInv'
<1> USE DEF TypeInv
<1> DEFINE rivals == {u \in Tasks : /\ Busy(u)
                                    /\ \/ task[u].id = id
                                       \/ Touches(u) \cap TouchedBy(id, src) # {}}
<1>1. /\ ~Busy(t)
      /\ task' = [task EXCEPT ![t] = [pc |-> pc, id |-> id, src |-> src, proc |-> p]]
      /\ raced' = raced \cup rivals \cup (IF rivals = {} THEN {} ELSE {t})
      /\ UNCHANGED <<source, chunk, excused>>
  BY DEF Spawn
<1>2. /\ \A u \in Tasks : u # t => task'[u] = task[u]
      /\ task'[t].pc = pc /\ task'[t].id = id /\ task'[t].src = src
  BY <1>1 DEF TypeOK
<1>3. RivalInv'
  <2> SUFFICES ASSUME NEW u \in Tasks, NEW v \in Tasks, Rivals(u, v)' PROVE u \in raced'
    BY DEF RivalInv
  <2>1. CASE u # t /\ v # t
    <3>1. Rivals(u, v)
      BY <1>2, <2>1 DEF Rivals, Busy, Touches
    <3>. QED BY <1>1, <3>1 DEF ExcuseInv, RivalInv
  <2>2. CASE u = t /\ v # t
    <3>1. v \in rivals
      BY <1>2, <2>2 DEF Rivals, Busy, Touches
    <3>. QED BY <1>1, <2>2, <3>1
  <2>3. CASE u # t /\ v = t
    <3>1. u \in rivals
      BY <1>2, <2>3 DEF Rivals, Busy, Touches
    <3>. QED BY <1>1, <3>1
  <2>4. u # v
    BY DEF Rivals
  <2>. QED BY <2>1, <2>2, <2>3, <2>4
<1>4. \A u \in Tasks : task'[u].pc = "reembed" <=> task[u].pc = "reembed"
  BY <1>1, <1>2 DEF Busy
<1>5. \A u \in Tasks : task'[u].pc = "reembed" => task'[u] = task[u]
  BY <1>2
<1>6. CurrentInv'
  BY <1>1, <1>4, <1>5 DEF ExcuseInv, CurrentInv
<1>7. SharedInv' /\ SearchableUnlessExcused'
  BY <1>1, <1>4, <1>5 DEF ExcuseInv, SharedInv, SearchableUnlessExcused, Shared, Bears,
                          Parses, Touches
<1>. QED BY <1>3, <1>6, <1>7 DEF ExcuseInv

\* The writes of the source row.
LEMMA RowWriteKeepsExcuses ==
    ASSUME TypeInv, ExcuseInv, NEW t \in Tasks, SaveSource(t) \/ DeleteSource(t)
    PROVE  ExcuseInv'
<1> USE DEF TypeInv
<1>1. CASE SaveSource(t)
  <2> DEFINE id == task[t].id
             src == task[t].src
  <2>1. id \in Ids /\ src \in Sources /\ Busy(t)
    BY <1>1 DEF SaveSource, TaskInv, Busy
  <2>2. /\ source' = [source EXCEPT ![id] = src]
        /\ task' = [task EXCEPT ![t].pc = "reembed"]
        /\ UNCHANGED <<chunk, raced>>
        /\ excused' = excused \cup {k \in Touches(t) : \E j \in Ids \ {id} : Bears(j, k)}
    BY <1>1 DEF SaveSource
  <2>3. RivalInv' /\ CurrentInv'
    BY <2>1, <2>2, RowWriteKeepsRivals DEF ExcuseInv
  <2>4. \A j \in Ids \ {id} : source'[j] = source[j]
    BY <2>2 DEF TypeOK
  <2>5. source'[id] = src
    BY <2>1, <2>2 DEF TypeOK
  <2>6. \A i \in Ids, k \in Keys : i = id /\ Bears(i, k)' => k \in Touches(t)
    BY <2>1, <2>5, NoneAssumption DEF Bears, Parses, Touches, TouchedBy
  <2>7. SharedInv'
    <3> SUFFICES ASSUME NEW k \in Keys, NEW i \in Ids, NEW j \in Ids, i # j,
                        Bears(i, k)', Bears(j, k)'
                 PROVE  k \in excused'
      BY DEF SharedInv, Shared
    <3>1. CASE i # id /\ j # id
      BY <2>2, <2>4, <3>1 DEF ExcuseInv, SharedInv, Shared, Bears, Parses
    <3>2. CASE i = id
      <4>1. Bears(j, k) /\ j \in Ids \ {id}
        BY <2>4, <3>2 DEF Bears, Parses
      <4>. QED BY <2>2, <2>6, <3>2, <4>1
    <3>3. CASE j = id
      <4>1. Bears(i, k) /\ i \in Ids \ {id}
        BY <2>4, <3>3 DEF Bears, Parses
      <4>. QED BY <2>2, <2>6, <3>3, <4>1
    <3>. QED BY <3>1, <3>2, <3>3
  <2>8. \A u \in Tasks : /\ Touches(u)' = Touches(u)
                         /\ task[u].pc = "reembed" => task'[u].pc = "reembed"
    BY <2>2 DEF TypeOK, Touches
  <2>9. task'[t].pc = "reembed"
    BY <2>2 DEF TypeOK
  <2>10. SearchableUnlessExcused'
    <3> SUFFICES ASSUME NEW i \in Ids, NEW k \in Keys \ excused', Bears(i, k)',
                        ~(\E u \in Tasks : task'[u].pc = "reembed" /\ k \in Touches(u)')
                 PROVE  chunk'[k] = source'[i]
      BY DEF SearchableUnlessExcused
    <3>1. i # id
      BY <2>6, <2>8, <2>9
    <3>2. Bears(i, k) /\ k \notin excused
      BY <2>2, <2>4, <3>1 DEF Bears, Parses
    <3>3. ~(\E u \in Tasks : task[u].pc = "reembed" /\ k \in Touches(u))
      BY <2>8
    <3>. QED BY <2>2, <2>4, <3>1, <3>2, <3>3 DEF ExcuseInv, SearchableUnlessExcused
  <2>. QED BY <2>3, <2>7, <2>10 DEF ExcuseInv
<1>2. CASE DeleteSource(t)
  <2> DEFINE id == task[t].id
  <2>1. id \in Ids /\ Busy(t)
    BY <1>2 DEF DeleteSource, TaskInv, Busy
  <2>2. /\ source' = [source EXCEPT ![id] = None]
        /\ task' = [task EXCEPT ![t].pc = "delete_chunk"]
        /\ UNCHANGED <<chunk, raced, excused>>
    BY <1>2 DEF DeleteSource
  <2>3. RivalInv' /\ CurrentInv'
    BY <2>1, <2>2, RowWriteKeepsRivals DEF ExcuseInv
  <2>4. \A j \in Ids \ {id} : source'[j] = source[j]
    BY <2>2 DEF TypeOK
  <2>5. \A i \in Ids, k \in Keys : Bears(i, k)' => Bears(i, k) /\ source'[i] = source[i]
    BY <2>1, <2>2, <2>4 DEF Bears, Parses, TypeOK
  <2>6. SharedInv'
    BY <2>2, <2>5 DEF ExcuseInv, SharedInv, Shared
  <2>7. \A u \in Tasks : /\ Touches(u)' = Touches(u)
                         /\ task[u].pc = "reembed" => task'[u].pc = "reembed"
    BY <1>2, <2>2 DEF DeleteSource, TypeOK, Touches
  <2>8. SearchableUnlessExcused'
    BY <2>2, <2>5, <2>7 DEF ExcuseInv, SearchableUnlessExcused
  <2>. QED BY <2>3, <2>6, <2>8 DEF ExcuseInv
<1>. QED BY <1>1, <1>2

\* The writes of the schema row, and the commands that end without one.
LEMMA TaskEndKeepsExcuses ==
    ASSUME TypeInv, ExcuseInv, NEW t \in Tasks,
           \/ Reembed(t) \/ DeleteChunk(t) \/ ReembedSkipped(t)
           \/ SourceStatementFails(t) \/ DeleteChunkFails(t)
    PROVE  ExcuseInv'
<1> USE DEF TypeInv
<1>1. End(t) /\ source' = source
  BY DEF Reembed, DeleteChunk, ReembedSkipped, SourceStatementFails, DeleteChunkFails, table
<1>2. RivalInv' /\ CurrentInv'
  BY <1>1, EndOneKeepsRivals DEF ExcuseInv
<1>3. /\ \A u \in Tasks : u # t => task'[u] = task[u]
      /\ task'[t].pc = "free"
  BY <1>1 DEF End, TypeOK, Free
<1>4. SharedInv /\ SearchableUnlessExcused
  BY DEF ExcuseInv
<1>5. CASE Reembed(t)
  <2> DEFINE k == NameOf[task[t].src]
             src == task[t].src
  <2>1. src \in Sources /\ k \in Keys /\ task[t].pc = "reembed"
    BY <1>5, ParsesIsKeyed DEF Reembed, TypeOK
  <2>2. /\ chunk' = [chunk EXCEPT ![k] = src]
        /\ excused' = IF t \in raced \/ Shared(k) THEN excused \cup {k} ELSE excused \ {k}
    BY <1>5 DEF Reembed
  <2>3. Touches(t) = {k}
    BY <2>1, NoneAssumption DEF Touches, TouchedBy
  <2>4. ASSUME k \notin excused', NEW i \in Ids, Bears(i, k) PROVE source[i] = src
    <3>1. t \notin raced /\ ~Shared(k)
      BY <2>2, <2>4
    <3>2. task[t].id \in Ids /\ source[task[t].id] = src
      BY <2>1, <3>1 DEF ExcuseInv, CurrentInv, TaskInv
    <3>3. Bears(task[t].id, k)
      BY <1>5, <3>2 DEF Bears, Reembed
    <3>4. i = task[t].id
      BY <2>4, <3>1, <3>2, <3>3 DEF Shared
    <3>. QED BY <3>2, <3>4
  <2>5. /\ excused \subseteq excused' \cup {k}
        /\ \A n \in Keys : Shared(n) => n \in excused'
    BY <1>4, <2>2 DEF SharedInv
  <2>6. \A n \in Keys \ {k}, u \in Tasks :
           task[u].pc = "reembed" /\ n \in Touches(u) => task'[u] = task[u] \/ n \in excused'
    BY <1>3, <2>3
  <2>7. SharedInv' /\ SearchableUnlessExcused'
    <3> HIDE DEF k, src
    <3>. QED BY <1>1, <1>4, <2>1, <2>2, <2>4, <2>5, <2>6, ChunkWriteKeepsPromise
  <2>. QED BY <1>2, <2>7 DEF ExcuseInv
<1>6. CASE DeleteChunk(t)
  <2> DEFINE k == task[t].id
  <2>1. k \in Keys /\ task[t].pc = "delete_chunk"
    BY <1>6, KeysAssumption DEF DeleteChunk, TaskInv
  <2>2. /\ chunk' = [chunk EXCEPT ![k] = None]
        /\ excused' = IF Live(k) THEN excused \cup {k} ELSE excused
    BY <1>6 DEF DeleteChunk
  <2>3. excused \subseteq excused' /\ \A n \in Keys : Shared(n) => n \in excused'
    BY <1>4, <2>2 DEF SharedInv
  <2>4. k \in excused' \/ \A i \in Ids : Bears(i, k) => source[i] = None
    BY <2>2 DEF Live
  <2>5. \A u \in Tasks : task[u].pc = "reembed" => task'[u] = task[u]
    BY <1>3, <2>1
  <2>6. SharedInv' /\ SearchableUnlessExcused'
    <3> HIDE DEF k
    <3>. QED BY <1>1, <1>4, <2>1, <2>2, <2>3, <2>4, <2>5, ChunkWriteKeepsPromise
  <2>. QED BY <1>2, <2>6 DEF ExcuseInv
<1>7. CASE ReembedSkipped(t) \/ SourceStatementFails(t) \/ DeleteChunkFails(t)
  <2>1. /\ chunk' = chunk /\ excused \subseteq excused'
        /\ task[t].pc = "reembed" => Touches(t) \subseteq excused'
    BY <1>7 DEF ReembedSkipped, SourceStatementFails, DeleteChunkFails, table
  <2>2. SharedInv'
    BY <1>1, <1>4, <2>1 DEF SharedInv, Shared, Bears, Parses
  <2>3. SearchableUnlessExcused'
    BY <1>1, <1>3, <1>4, <2>1 DEF SearchableUnlessExcused, Bears, Parses, Touches
  <2>. QED BY <1>2, <2>2, <2>3 DEF ExcuseInv
<1>. QED BY <1>5, <1>6, <1>7

\* A crash between the two writes of a save excuses the name.
LEMMA CrashKeepsExcuses ==
    ASSUME TypeInv, ExcuseInv, NEW p \in Procs, Crash(p)
    PROVE  ExcuseInv'
<1> USE DEF TypeInv
<1> DEFINE T == {t \in Tasks : task[t].proc = p}
<1>1. /\ task' = [t \in Tasks |-> IF t \in T THEN Free ELSE task[t]]
      /\ raced' = raced \ T
      /\ UNCHANGED <<source, chunk>>
      /\ excused \subseteq excused'
      /\ \A t \in T : task[t].pc = "reembed" => Touches(t) \subseteq excused'
  BY DEF Crash, TypeOK
<1>2. RivalInv' /\ CurrentInv'
  <2> HIDE DEF T
  <2>1. T \in SUBSET Tasks
    BY DEF T
  <2>. QED BY <1>1, <2>1, EndKeepsRivals DEF ExcuseInv
<1>3. SharedInv'
  BY <1>1 DEF ExcuseInv, SharedInv, Shared, Bears, Parses
<1>4. \A t \in Tasks : t \notin T => task'[t] = task[t]
  BY <1>1
<1>5. SearchableUnlessExcused'
  BY <1>1, <1>4 DEF ExcuseInv, SearchableUnlessExcused, Bears, Parses, Touches
<1>. QED BY <1>2, <1>3, <1>5 DEF ExcuseInv

(* Every step keeps a parsed, unexcused row searchable. *)
LEMMA ExcuseInvNext == TypeInv /\ BootInv /\ ExcuseInv /\ [Next]_vars => ExcuseInv'
<1> SUFFICES ASSUME TypeInv, BootInv, ExcuseInv, [Next]_vars PROVE ExcuseInv'
  OBVIOUS
<1>1. ASSUME NEW p \in Procs,
             \/ BootWithoutPostgres(p) \/ FetchRows(p) \/ FetchRowsFails(p) \/ SkipRow(p)
             \/ UpsertRowFails(p) \/ ListKeys(p) \/ BackfillAborts(p)
      PROVE  ExcuseInv'
  <2>1. UNCHANGED <<source, chunk, task, raced, excused>>
    BY <1>1 DEF BootWithoutPostgres, FetchRows, FetchRowsFails, SkipRow, UpsertRowFails,
                ListKeys, BackfillAborts
  <2>. QED BY <2>1, IdleKeepsExcuses
<1>2. ASSUME NEW p \in Procs, UpsertRow(p) \/ PruneOrphan(p) \/ BackfillDone(p)
      PROVE  ExcuseInv'
  BY <1>2, BackfillKeepsExcuses
<1>3. ASSUME NEW p \in Procs, Crash(p) PROVE ExcuseInv'
  BY <1>3, CrashKeepsExcuses
<1>4. ASSUME NEW t \in Tasks, ReceiveSave(t) PROVE ExcuseInv'
  <2>1. PICK p \in Procs, save \in Saves : Spawn(t, p, "save_source", save[1], save[2])
    BY <1>4 DEF ReceiveSave
  <2>2. save[1] \in Ids /\ save[2] \in Sources \cup {None}
    BY SavesAssumption
  <2>. QED BY <2>1, <2>2, SpawnKeepsExcuses
<1>5. ASSUME NEW t \in Tasks, ReceiveDelete(t) PROVE ExcuseInv'
  BY <1>5, SpawnKeepsExcuses DEF ReceiveDelete
<1>6. ASSUME NEW t \in Tasks, SaveSource(t) \/ DeleteSource(t) PROVE ExcuseInv'
  BY <1>6, RowWriteKeepsExcuses
<1>7. ASSUME NEW t \in Tasks,
             \/ Reembed(t) \/ DeleteChunk(t) \/ ReembedSkipped(t)
             \/ SourceStatementFails(t) \/ DeleteChunkFails(t)
      PROVE  ExcuseInv'
  BY <1>7, TaskEndKeepsExcuses
<1>8. CASE UNCHANGED vars
  BY <1>8, IdleKeepsExcuses DEF vars
<1>. QED
  BY <1>1, <1>2, <1>3, <1>4, <1>5, <1>6, <1>7, <1>8 DEF Next, BackfillStep, TaskStep

\* An edit is searchable once its save is answered unless one of the recorded
\* excuses applies to its name: there is no other way to a stale index.
THEOREM SearchableTheorem == Spec => []SearchableUnlessExcused
<1>1. Spec => []ExcuseInv
  BY BootInvAlways, ExcuseInvInit, ExcuseInvNext, PTL DEF Spec
<1>. QED BY <1>1, PTL DEF ExcuseInv
=============================================================================

---------------------------- MODULE SchemaIndex ----------------------------
(***************************************************************************)
(* The schema index that oosai derives from the DSL source rows.           *)
(*                                                                         *)
(* oosd stores the text of a domain (or view) in a source table, one row   *)
(* per id.  oosai derives from every text that parses one chunk with its   *)
(* embedding, and stores it in a schema table under the NAME the text      *)
(* declares, which need not be the id of the row.  Two paths write the     *)
(* schema table:                                                           *)
(*   - the save and delete commands, one tokio task per message, served    *)
(*     by every oosai process of the queue group "oosai-cmd";              *)
(*   - the backfill a process runs at boot, before it serves commands.     *)
(* The module models one of the two (source table, schema table) pairs,    *)
(* oos.domain -> oos.oos_domain_schema or oos.view -> oos.oos_view_schema: *)
(* the code of the two is the same up to the parser and the table names.   *)
(*                                                                         *)
(* Every shared step is one SQL statement; everything a task does between  *)
(* two of them (parse, render, embed) is local and is folded into the      *)
(* statement that follows.  A chunk is identified by the text it was       *)
(* rendered from.  Ids and names are strings; they are numbers here so     *)
(* that "ORDER BY id" has a meaning.                                       *)
(***************************************************************************)
EXTENDS Integers, FiniteSets

CONSTANTS
    Keys,      \* the strings that occur as a row id or as a declared name
    Ids,       \* the ids of source rows
    Sources,   \* the texts that are ever saved
    NameOf,    \* NameOf[s]: the name text s declares, None if it does not parse
    Saves,     \* the save commands <<id, text>> oosd may send
    Procs,     \* the oosai processes
    Tasks,     \* slots for commands in flight; bounds their number at one time
    None

ASSUME KeysAssumption == Keys \subseteq Nat /\ Ids \subseteq Keys
ASSUME NoneAssumption == None \notin Keys /\ None \notin Sources /\ None \notin Procs
ASSUME NameOfAssumption == NameOf \in [Sources -> Keys \cup {None}]
ASSUME SavesAssumption == Saves \subseteq Ids \X Sources

VARIABLES
    source,       \* the source table: id -> text
    chunk,        \* the schema table: name -> the text its chunk was rendered from
    phase,        \* where each process is: see Phases
    rows,         \* the rows the process's backfill fetched
    todo,         \* the ids of those rows it has not yet gone through
    source_keys,  \* the names it has seen in them
    orphans,      \* the schema keys it found without a source and still has to delete
    task,         \* the command each slot is executing
    \* History variables: they record what happened and never guard a step.
    committed,    \* every text that was ever stored in a source row
    mode,         \* how undisturbed each process's backfill was: see Modes
    raced,        \* the tasks that had a rival in flight: see Spawn
    excused       \* the names for which the index is excused from being current

table == <<source, chunk>>
boot == <<phase, rows, todo, source_keys, orphans>>
vars == <<source, chunk, phase, rows, todo, source_keys, orphans, task,
          committed, mode, raced, excused>>

\* "nodb": up, but Postgres was unreachable at boot, so commands are not served.
Phases == {"down", "rows", "prune", "serving", "nodb"}

\* "exact": no other writer and no failure since the rows were fetched;
\* "alone": no other writer, but an embed or a statement failed;
\* "raced": some other task or process wrote to a table since.
Modes == {"exact", "alone", "raced"}

Pcs == {"free", "save_source", "reembed", "delete_source", "delete_chunk"}

Free == [pc |-> "free", id |-> None, src |-> None, proc |-> None]

TypeOK ==
    /\ source \in [Ids -> Sources \cup {None}]
    /\ chunk \in [Keys -> Sources \cup {None}]
    /\ phase \in [Procs -> Phases]
    /\ rows \in [Procs -> [Ids -> Sources \cup {None}]]
    /\ todo \in [Procs -> SUBSET Ids]
    /\ source_keys \in [Procs -> SUBSET Keys]
    /\ orphans \in [Procs -> SUBSET Keys]
    /\ task \in [Tasks -> [pc : Pcs, id : Ids \cup {None},
                           src : Sources \cup {None}, proc : Procs \cup {None}]]
    /\ committed \in SUBSET Sources
    /\ mode \in [Procs -> Modes]
    /\ raced \in SUBSET Tasks
    /\ excused \in SUBSET Keys

-----------------------------------------------------------------------------
(* Rows, names and the keys a command works on.                            *)

Parses(s) == s # None /\ NameOf[s] # None

\* Row i holds a text that parses and declares the name k.
Bears(i, k) == Parses(source[i]) /\ NameOf[source[i]] = k

\* The last row, in the order of ids, that declares k.
LastBearer(i, k) == Bears(i, k) /\ \A j \in Ids : Bears(j, k) => j <= i

Live(k) == \E i \in Ids : Bears(i, k)

\* Two rows declare the name k, so that they share one schema row.
Shared(k) == \E i, j \in Ids : i # j /\ Bears(i, k) /\ Bears(j, k)

\* The schema row a command writes: a save the one named by its text, a
\* delete the one named like the row it deletes.
TouchedBy(id, src) == IF src = None THEN {id} ELSE {NameOf[src]} \ {None}
Touches(t) == TouchedBy(task[t].id, task[t].src)

Busy(t) == task[t].pc # "free"

\* Another process's backfill is disturbed by a write it did not make.
Disturb(p) == [q \in Procs |-> IF q = p THEN mode[q] ELSE "raced"]
DisturbAll == [q \in Procs |-> "raced"]

\* The mode of a process after one of its own steps has failed.
Failed(p) == [mode EXCEPT ![p] = IF @ = "raced" THEN "raced" ELSE "alone"]

-----------------------------------------------------------------------------
(* Initially the seeds may have filled the source table; no chunk exists.  *)

Init ==
    /\ source \in [Ids -> Sources \cup {None}]
    /\ chunk = [k \in Keys |-> None]
    /\ phase = [p \in Procs |-> "down"]
    /\ rows = [p \in Procs |-> [i \in Ids |-> None]]
    /\ todo = [p \in Procs |-> {}]
    /\ source_keys = [p \in Procs |-> {}]
    /\ orphans = [p \in Procs |-> {}]
    /\ task = [t \in Tasks |-> Free]
    /\ committed = {source[i] : i \in Ids} \ {None}
    /\ mode = [p \in Procs |-> "raced"]
    /\ raced = {}
    /\ excused = Keys

-----------------------------------------------------------------------------
(* Boot: connect, backfill, then serve.                                    *)

\* Postgres cannot be reached: no backfill and no command handler.
BootWithoutPostgres(p) ==
    /\ phase[p] = "down"
    /\ phase' = [phase EXCEPT ![p] = "nodb"]
    /\ UNCHANGED <<source, chunk, rows, todo, source_keys, orphans, task,
                   committed, mode, raced, excused>>

\* The SELECT over the source table: one snapshot for the whole backfill.
FetchRows(p) ==
    /\ phase[p] = "down"
    /\ phase' = [phase EXCEPT ![p] = "rows"]
    /\ rows' = [rows EXCEPT ![p] = source]
    /\ todo' = [todo EXCEPT ![p] = {i \in Ids : source[i] # None}]
    /\ source_keys' = [source_keys EXCEPT ![p] = {}]
    /\ mode' = [mode EXCEPT ![p] = "exact"]
    /\ UNCHANGED <<source, chunk, orphans, task, committed, raced, excused>>

\* The SELECT fails: the backfill is skipped and the process serves anyway.
FetchRowsFails(p) ==
    /\ phase[p] = "down"
    /\ phase' = [phase EXCEPT ![p] = "serving"]
    /\ UNCHANGED <<source, chunk, rows, todo, source_keys, orphans, task,
                   committed, mode, raced, excused>>

\* The row the loop has reached: rows come in the order of their ids.
AtRow(p, i) ==
    /\ phase[p] = "rows"
    /\ i \in todo[p]
    /\ \A j \in todo[p] : i <= j

\* Mutant of SkipRow: the loop does not get past a row that does not parse.
SkipRowStalls(p) ==
    \E i \in Ids :
        /\ AtRow(p, i)
        /\ ~Parses(rows[p][i])
        /\ UNCHANGED vars

\* A row that does not parse is skipped, and its name is not recorded.
SkipRow(p) ==
    \E i \in Ids :
        /\ AtRow(p, i)
        /\ ~Parses(rows[p][i])
        /\ todo' = [todo EXCEPT ![p] = @ \ {i}]
        /\ UNCHANGED <<source, chunk, phase, rows, source_keys, orphans, task,
                       committed, mode, raced, excused>>

\* Mutant of UpsertRow: the name of an embedded row is not recorded.
UpsertRowUnrecorded(p) ==
    \E i \in Ids :
        /\ AtRow(p, i)
        /\ Parses(rows[p][i])
        /\ todo' = [todo EXCEPT ![p] = @ \ {i}]
        /\ chunk' = [chunk EXCEPT ![NameOf[rows[p][i]]] = rows[p][i]]
        /\ mode' = Disturb(p)
        /\ UNCHANGED <<source, phase, rows, source_keys, orphans, task, committed,
                       raced, excused>>

\* The row parses and is embedded: its name is recorded, its chunk stored.
UpsertRow(p) ==
    \E i \in Ids :
        /\ AtRow(p, i)
        /\ Parses(rows[p][i])
        /\ LET k == NameOf[rows[p][i]] IN
           /\ todo' = [todo EXCEPT ![p] = @ \ {i}]
           /\ source_keys' = [source_keys EXCEPT ![p] = @ \cup {k}]
           /\ chunk' = [chunk EXCEPT ![k] = rows[p][i]]
           /\ excused' = IF mode[p] = "raced" THEN excused \cup {k} ELSE excused
        /\ mode' = Disturb(p)
        /\ UNCHANGED <<source, phase, rows, orphans, task, committed, raced>>

\* Mutant of UpsertRowFails: the name is recorded only once the row is embedded.
UpsertRowFailsUnrecorded(p) ==
    \E i \in Ids :
        /\ AtRow(p, i)
        /\ Parses(rows[p][i])
        /\ todo' = [todo EXCEPT ![p] = @ \ {i}]
        /\ mode' = Failed(p)
        /\ UNCHANGED <<source, chunk, phase, rows, source_keys, orphans, task,
                       committed, raced, excused>>

\* The embed call or the upsert fails: logged, but the name stays recorded.
UpsertRowFails(p) ==
    \E i \in Ids :
        /\ AtRow(p, i)
        /\ Parses(rows[p][i])
        /\ todo' = [todo EXCEPT ![p] = @ \ {i}]
        /\ source_keys' = [source_keys EXCEPT ![p] = @ \cup {NameOf[rows[p][i]]}]
        /\ mode' = Failed(p)
        /\ UNCHANGED <<source, chunk, phase, rows, orphans, task, committed,
                       raced, excused>>

\* list_keys: the stored keys without a recorded name are the orphans.
ListKeys(p) ==
    /\ phase[p] = "rows"
    /\ todo[p] = {}
    /\ phase' = [phase EXCEPT ![p] = "prune"]
    /\ orphans' = [orphans EXCEPT ![p] =
                      {k \in Keys : chunk[k] # None} \ source_keys[p]]
    /\ UNCHANGED <<source, chunk, rows, todo, source_keys, task, committed,
                   mode, raced, excused>>

\* One DELETE of the prune loop.
PruneOrphan(p) ==
    \E k \in orphans[p] :
        /\ phase[p] = "prune"
        /\ orphans' = [orphans EXCEPT ![p] = @ \ {k}]
        /\ chunk' = [chunk EXCEPT ![k] = None]
        /\ excused' = IF Live(k) THEN excused \cup {k} ELSE excused
        /\ mode' = Disturb(p)
        /\ UNCHANGED <<source, phase, rows, todo, source_keys, task, committed,
                       raced>>

\* list_keys or a DELETE fails: the rest of the backfill is abandoned.
BackfillAborts(p) ==
    /\ \/ phase[p] = "rows" /\ todo[p] = {}
       \/ phase[p] = "prune" /\ orphans[p] # {}
    /\ phase' = [phase EXCEPT ![p] = "serving"]
    /\ orphans' = [orphans EXCEPT ![p] = {}]
    /\ mode' = Failed(p)
    /\ UNCHANGED <<source, chunk, rows, todo, source_keys, task, committed,
                   raced, excused>>

\* The backfill is complete and the command subjects are subscribed.
BackfillDone(p) ==
    /\ phase[p] = "prune"
    /\ orphans[p] = {}
    /\ phase' = [phase EXCEPT ![p] = "serving"]
    /\ excused' = IF mode[p] = "exact" THEN {k \in Keys : Shared(k)} ELSE excused
    /\ UNCHANGED <<source, chunk, rows, todo, source_keys, orphans, task,
                   committed, mode, raced>>

\* The process is stopped or dies; what its tasks had not done is lost.
Crash(p) ==
    /\ phase[p] # "down"
    /\ phase' = [phase EXCEPT ![p] = "down"]
    /\ rows' = [rows EXCEPT ![p] = [i \in Ids |-> None]]
    /\ todo' = [todo EXCEPT ![p] = {}]
    /\ source_keys' = [source_keys EXCEPT ![p] = {}]
    /\ orphans' = [orphans EXCEPT ![p] = {}]
    /\ task' = [t \in Tasks |-> IF task[t].proc = p THEN Free ELSE task[t]]
    /\ mode' = [mode EXCEPT ![p] = "raced"]
    /\ raced' = {t \in raced : task[t].proc # p}
    /\ excused' = excused \cup
                    UNION {Touches(t) : t \in {u \in Tasks :
                              task[u].proc = p /\ task[u].pc = "reembed"}}
    /\ UNCHANGED <<source, chunk, committed>>

-----------------------------------------------------------------------------
(* Commands: NATS hands each to one serving process, which spawns a task.  *)

\* A command races with those in flight on the same row or the same schema row.
Spawn(t, p, pc, id, src) ==
    /\ phase[p] = "serving"
    /\ ~Busy(t)
    /\ task' = [task EXCEPT ![t] = [pc |-> pc, id |-> id, src |-> src, proc |-> p]]
    /\ LET rivals == {u \in Tasks : /\ Busy(u)
                                   /\ \/ task[u].id = id
                                      \/ Touches(u) \cap TouchedBy(id, src) # {}}
       IN  raced' = raced \cup rivals \cup (IF rivals = {} THEN {} ELSE {t})
    /\ UNCHANGED <<source, chunk, phase, rows, todo, source_keys, orphans,
                   committed, mode, excused>>

ReceiveSave(t) ==
    \E p \in Procs, save \in Saves : Spawn(t, p, "save_source", save[1], save[2])

ReceiveDelete(t) ==
    \E p \in Procs, id \in Ids : Spawn(t, p, "delete_source", id, None)

\* The task replies and ends.
End(t) ==
    /\ task' = [task EXCEPT ![t] = Free]
    /\ raced' = raced \ {t}

\* save_source: the upsert of the source row.
SaveSource(t) ==
    /\ task[t].pc = "save_source"
    /\ source' = [source EXCEPT ![task[t].id] = task[t].src]
    /\ committed' = committed \cup {task[t].src}
    /\ task' = [task EXCEPT ![t].pc = "reembed"]
    /\ mode' = DisturbAll
    /\ excused' = excused \cup
                    {k \in Touches(t) : \E j \in Ids \ {task[t].id} : Bears(j, k)}
    /\ UNCHANGED <<chunk, boot, raced>>

\* Mutant of SourceStatementFails: a failed save_source does not end the save.
SaveGoesOnAfterError(t) ==
    /\ task[t].pc \in {"save_source", "delete_source"}
    /\ task' = [task EXCEPT ![t].pc =
                    IF @ = "save_source" THEN "reembed" ELSE "delete_chunk"]
    /\ UNCHANGED <<table, boot, committed, mode, raced, excused>>

\* A database error before the row is written is replied, ok: false.
SourceStatementFails(t) ==
    /\ task[t].pc \in {"save_source", "delete_source"}
    /\ End(t)
    /\ UNCHANGED <<table, boot, committed, mode, excused>>

\* Mutant of Reembed: the chunk is stored under the id of the row.
ReembedUnderId(t) ==
    /\ task[t].pc = "reembed"
    /\ Parses(task[t].src)
    /\ LET k == NameOf[task[t].src] IN
       /\ chunk' = [chunk EXCEPT ![task[t].id] = task[t].src]
       /\ excused' = IF t \in raced \/ Shared(k)
                     THEN excused \cup {k} ELSE excused \ {k}
    /\ mode' = DisturbAll
    /\ End(t)
    /\ UNCHANGED <<source, boot, committed>>

\* reembed: parse, render, embed and upsert the chunk under the name.
Reembed(t) ==
    /\ task[t].pc = "reembed"
    /\ Parses(task[t].src)
    /\ LET k == NameOf[task[t].src] IN
       /\ chunk' = [chunk EXCEPT ![k] = task[t].src]
       /\ excused' = IF t \in raced \/ Shared(k)
                     THEN excused \cup {k} ELSE excused \ {k}
    /\ mode' = DisturbAll
    /\ End(t)
    /\ UNCHANGED <<source, boot, committed>>

\* Mutant of ReembedSkipped: a text that does not parse is not given up on.
ReembedSkippedIfParsed(t) ==
    /\ task[t].pc = "reembed"
    /\ Parses(task[t].src)
    /\ excused' = excused \cup Touches(t)
    /\ End(t)
    /\ UNCHANGED <<table, boot, committed, mode>>

\* The text does not parse, or embed or upsert fails: the save still replies ok.
ReembedSkipped(t) ==
    /\ task[t].pc = "reembed"
    /\ excused' = excused \cup Touches(t)
    /\ End(t)
    /\ UNCHANGED <<table, boot, committed, mode>>

\* delete_source.
DeleteSource(t) ==
    /\ task[t].pc = "delete_source"
    /\ source' = [source EXCEPT ![task[t].id] = None]
    /\ task' = [task EXCEPT ![t].pc = "delete_chunk"]
    /\ mode' = DisturbAll
    /\ UNCHANGED <<chunk, boot, committed, raced, excused>>

\* delete_chunk: the schema row whose key equals the id of the source row.
DeleteChunk(t) ==
    /\ task[t].pc = "delete_chunk"
    /\ chunk' = [chunk EXCEPT ![task[t].id] = None]
    /\ excused' = IF Live(task[t].id) THEN excused \cup {task[t].id} ELSE excused
    /\ mode' = DisturbAll
    /\ End(t)
    /\ UNCHANGED <<source, boot, committed>>

\* The second statement of a delete fails: replied as an error, the row is gone.
DeleteChunkFails(t) ==
    /\ task[t].pc = "delete_chunk"
    /\ End(t)
    /\ UNCHANGED <<table, boot, committed, mode, excused>>

-----------------------------------------------------------------------------

BackfillStep(p) ==
    \/ SkipRow(p)
    \/ UpsertRow(p)
    \/ UpsertRowFails(p)
    \/ ListKeys(p)
    \/ PruneOrphan(p)
    \/ BackfillAborts(p)
    \/ BackfillDone(p)

TaskStep(t) ==
    \/ SaveSource(t)
    \/ SourceStatementFails(t)
    \/ Reembed(t)
    \/ ReembedSkipped(t)
    \/ DeleteSource(t)
    \/ DeleteChunk(t)
    \/ DeleteChunkFails(t)

Next ==
    \/ \E p \in Procs :
          \/ BootWithoutPostgres(p)
          \/ FetchRows(p)
          \/ FetchRowsFails(p)
          \/ BackfillStep(p)
          \/ Crash(p)
    \/ \E t \in Tasks :
          \/ ReceiveSave(t)
          \/ ReceiveDelete(t)
          \/ TaskStep(t)

\* tokio polls every spawned task and the boot sequence, and every SQL
\* statement and HTTP call in them returns or times out.
Fairness ==
    /\ \A p \in Procs : WF_vars(BackfillStep(p))
    /\ \A t \in Tasks : WF_vars(TaskStep(t))

Spec == Init /\ [][Next]_vars
FairSpec == Spec /\ Fairness

-----------------------------------------------------------------------------
(* Properties.                                                             *)

\* A backfill during which nobody else wrote and nothing failed leaves the
\* schema table the exact image of the source table (run_domains, run_views:
\* "re-embeds, and prunes schema rows whose source domain is gone"): no chunk
\* without a row that declares its name, and for every declared name the chunk
\* of the last row, in the order of ids, that declares it.
CleanBootReconciles ==
    \A p \in Procs : phase[p] = "serving" /\ mode[p] = "exact" =>
        \A k \in Keys :
            /\ chunk[k] # None => Live(k)
            /\ \A i \in Ids : LastBearer(i, k) => chunk[k] = source[i]

\* The chunk of a name that a source row declares is only ever dropped by a
\* delete command for the row with that id, or by the prune loop of a process
\* whose snapshot of the rows has been overtaken by another writer.  A failed
\* embed or a failed statement during the backfill never drops it: run_domains
\* records the name before it embeds.
LiveChunkKept ==
    [][\A k \in Keys :
          chunk[k] # None /\ chunk'[k] = None /\ Live(k) =>
              \/ \E t \in Tasks : task[t].pc = "delete_chunk" /\ task[t].id = k
              \/ \E p \in Procs : phase[p] = "prune" /\ mode[p] = "raced"]_vars

\* An edit in oosd is searchable without an oosai restart (domain.save):
\* every row that parses has its current text in the index once its save is
\* answered, unless the name is excused.  The excuses, each recorded where it
\* happens, are all there are: the chunk was last written by one of two saves
\* or deletes in flight together on the row or the name; two rows declare the name; the
\* embed, the chunk upsert or the process failed between the two writes of the
\* save; a delete dropped the chunk of a row with another id; a backfill worked
\* from an overtaken snapshot; or no clean boot has indexed a seeded row yet.
SearchableUnlessExcused ==
    \A i \in Ids, k \in Keys \ excused :
        Bears(i, k) /\ ~(\E t \in Tasks : task[t].pc = "reembed" /\ k \in Touches(t))
            => chunk[k] = source[i]

\* Source rows and chunks change only as DerivedIndex allows: a search never
\* returns a text that was not stored, nor one filed under another name.
Derived == INSTANCE DerivedIndex WITH
    source <- source, chunk <- chunk, committed <- committed
ImplementsDerivedIndex == Derived!Spec

\* Every command taken from the queue is answered, unless its process dies:
\* an embed that fails or a text that does not parse never leaves a save open.
CommandAnswered == \A t \in Tasks : Busy(t) ~> ~Busy(t)

\* Every boot gets to serving commands, unless the process dies first: a row
\* that does not parse, a failed embed or a failed statement never stalls it.
BackfillEnds ==
    \A p \in Procs : phase[p] \in {"rows", "prune"} ~> phase[p] \in {"serving", "down"}
=============================================================================

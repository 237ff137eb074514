----------------------------- MODULE EventStore -----------------------------
(***************************************************************************)
(* oosmem keeps its memory of events in two append-only files: events.bin  *)
(* with the records, events.idx with one entry per record.  append_event   *)
(* writes and fsyncs the one, then the other, and only then puts the event *)
(* into RAM and answers; load re-reads the files after a restart and       *)
(* repairs the tail of events.bin that events.idx does not cover.          *)
(*                                                                         *)
(* A file is a sequence of cells.  A cell holds a whole record or Torn,    *)
(* bytes that do not make a record: the rest of a short write, or of a     *)
(* longer record that was overwritten.  Offsets are cell numbers.          *)
(* durable is the part of each file that fsync has put on the disk: when   *)
(* the power fails, any longer prefix may be all that is left.             *)
(*                                                                         *)
(* Left out: what a record says beyond its stream (vectors, refs, times),  *)
(* the search over it, and meta.bin, which load does not use.              *)
(***************************************************************************)
EXTENDS Integers, Sequences, FiniteSets

CONSTANTS
    Reqs,       \* append requests; a client's retry is a request of its own
    Streams,    \* stream ids
    StreamOf,   \* the stream a request appends to
    Torn, None

ASSUME StreamOfAssumption == StreamOf \in [Reqs -> Streams]
ASSUME TornAssumption == /\ Torn \notin [id : Nat, req : Reqs]
                         /\ Torn \notin [id : Nat, pos : Nat]
ASSUME NoneAssumption == None \notin [id : Nat, req : Reqs]

VARIABLES
    events, idx,             \* the files, as the running system reads them
    durable,                 \* how many cells of each an fsync has secured
    phase,                   \* "down", "repair", "up", or "refused" by open_or_create
    events_bytes, idx_bytes, \* the lengths the process believes in
    pc, cur,                 \* where append_event is, and the record it writes
    by_id, by_stream, next_event_id,  \* the graph in RAM
    status,                  \* what the client of a request was told
    acked,                   \* history: records whose append was answered ok
    known,                   \* history: records a reader could get from by_id
    hurt                     \* history: "power" failed, an idx write was cut "short"

files == <<events, idx, durable>>
sizes == <<events_bytes, idx_bytes>>
ram   == <<by_id, by_stream, next_event_id>>
vars  == <<files, phase, sizes, pc, cur, ram, status, acked, known, hurt>>

Records == [id : Nat, req : Reqs]
Entries == [id : Nat, pos : Nat]

Upto(s, n) == SubSeq(s, 1, n)
Least(m, n) == IF m < n THEN m ELSE n

-----------------------------------------------------------------------------
(* The graph in RAM.                                                       *)

\* What the maps hold once the entries es of the idx were absorbed in order:
\* for one id, by_id keeps the last record and by_stream lists each of them.
\* by_stream is kept as one list; the ids of stream s are its elements of s.
ById(es, evs) ==
    [i \in {es[k].id : k \in 1..Len(es)} |->
        LET k == CHOOSE k \in 1..Len(es) :
                    /\ es[k].id = i
                    /\ \A j \in 1..Len(es) : es[j].id = i => j <= k
        IN  evs[es[k].pos].req]

ByStream(es, evs) ==
    [k \in 1..Len(es) |-> [id |-> es[k].id, stream |-> StreamOf[evs[es[k].pos].req]]]

\* Mutant: the id is taken from meta.bin, which no snapshot has updated.
NextIdFromMeta(es) == 1

\* max_id + 1 of load.
NextId(es) ==
    LET ids == {0} \cup {es[k].id : k \in 1..Len(es)}
    IN  (CHOOSE m \in ids : \A i \in ids : i <= m) + 1

\* absorb of one more event.
Absorb(rec) ==
    /\ by_id' = [i \in DOMAIN by_id \cup {rec.id} |-> IF i = rec.id THEN rec.req ELSE by_id[i]]
    /\ by_stream' = Append(by_stream, [id |-> rec.id, stream |-> StreamOf[rec.req]])

\* The process ends, with all it held in RAM.
ProcessGone ==
    /\ phase' = "down"
    /\ events_bytes' = 0 /\ idx_bytes' = 0
    /\ pc' = "idle" /\ cur' = None
    /\ by_id' = <<>> /\ by_stream' = <<>> /\ next_event_id' = 1
    /\ UNCHANGED <<status, acked, known>>

-----------------------------------------------------------------------------
(* Starting up: open_or_create, load, repair_idx.                          *)

CoveredEnd == IF idx_bytes = 0 THEN 0 ELSE idx[idx_bytes].pos

\* Mutant: an off-by-one in the comparison.
AheadOrEqual(n) == n > 0 /\ (n >= Len(events) \/ events[n] = Torn)

\* The last entry points past the records that are there.  A torn cell is
\* shorter than the record the entry was written for.
Ahead(n) == n > 0 /\ (n > Len(events) \/ events[n] = Torn)

\* open_or_create takes the lengths of the files; an idx whose size is no
\* multiple of the entry size, or that reaches past events.bin, is refused.
Open ==
    /\ phase = "down"
    /\ events_bytes' = Len(events) /\ idx_bytes' = Len(idx)
    /\ LET misaligned == Len(idx) > 0 /\ idx[Len(idx)] = Torn
           covered == IF Len(idx) = 0 THEN 0 ELSE idx[Len(idx)].pos
       IN  phase' = IF misaligned \/ Ahead(covered) THEN "refused" ELSE "repair"
    /\ UNCHANGED <<files, pc, cur, ram, status, acked, known, hurt>>

TailRecord == events[CoveredEnd + 1]

\* The entry of one more record of the tail is written and fsynced.
RepairRecord ==
    /\ phase = "repair"
    /\ CoveredEnd < events_bytes
    /\ TailRecord # Torn
    /\ idx' = Append(idx, [id |-> TailRecord.id, pos |-> CoveredEnd + 1])
    /\ durable' = [durable EXCEPT !.idx = Len(idx')]
    /\ idx_bytes' = idx_bytes + 1
    /\ UNCHANGED <<events, events_bytes, phase, pc, cur, ram, status, acked, known, hurt>>

\* A tail record that does not decode is cut off, with all that follows.
RepairTruncate ==
    /\ phase = "repair"
    /\ CoveredEnd < events_bytes
    /\ TailRecord = Torn
    /\ events' = Upto(events, CoveredEnd)
    /\ durable' = [durable EXCEPT !.events = CoveredEnd]
    /\ events_bytes' = CoveredEnd
    /\ UNCHANGED <<idx, idx_bytes, phase, pc, cur, ram, status, acked, known, hurt>>

\* A write of the repair fails, or the process dies inside it: load returns
\* the error and the process exits.  The entry is cut short, or whole but not
\* fsynced; the truncation is done but not fsynced.
RepairFails ==
    /\ phase = "repair"
    /\ CoveredEnd < events_bytes
    /\ \/ /\ TailRecord # Torn
          /\ \E cell \in {Torn, [id |-> TailRecord.id, pos |-> CoveredEnd + 1]} :
                /\ idx' = Append(idx, cell)
                /\ hurt' = hurt \cup (IF cell = Torn THEN {"short"} ELSE {})
          /\ UNCHANGED <<events, durable>>
       \/ /\ TailRecord = Torn
          /\ events' = Upto(events, CoveredEnd)
          /\ durable' = [durable EXCEPT !.events = Least(@, CoveredEnd)]
          /\ UNCHANGED <<idx, hurt>>
    /\ ProcessGone

\* Every entry of the idx is read and absorbed; the service subscribes.
LoadDone ==
    /\ phase = "repair"
    /\ CoveredEnd = events_bytes
    /\ by_id' = ById(idx, events)
    /\ by_stream' = ByStream(idx, events)
    /\ next_event_id' = NextId(idx)
    /\ known' = known \cup {[id |-> i, req |-> by_id'[i]] : i \in DOMAIN by_id'}
    /\ phase' = "up"
    /\ UNCHANGED <<files, sizes, pc, cur, status, acked, hurt>>

-----------------------------------------------------------------------------
(* append_event, under the store's mutex from the first line to the last.  *)

\* The handler refuses a request (no stream, an unknown trace) or the record
\* cannot be encoded: nothing was written.
RejectAppend(r) ==
    /\ phase = "up" /\ pc = "idle" /\ status[r] = "new"
    /\ status' = [status EXCEPT ![r] = "failed"]
    /\ UNCHANGED <<files, phase, sizes, pc, cur, ram, acked, known, hurt>>

BeginAppend(r) ==
    /\ phase = "up" /\ pc = "idle" /\ status[r] = "new"
    /\ cur' = [id |-> next_event_id, req |-> r]
    /\ pc' = "write_events"
    /\ status' = [status EXCEPT ![r] = "sent"]
    /\ UNCHANGED <<files, phase, sizes, ram, acked, known, hurt>>

\* write_all_at(events_bytes).  Bytes of an earlier, failed append may lie
\* beyond it; if they reach further than the new record, their rest stays.
WriteEvents ==
    /\ pc = "write_events"
    /\ \E rest \in {<<>>} \cup (IF Len(events) > events_bytes THEN {<<Torn>>} ELSE {}) :
          events' = Append(Upto(events, events_bytes), cur) \o rest
    /\ durable' = [durable EXCEPT !.events = Least(@, events_bytes)]
    /\ pc' = "sync_events"
    /\ UNCHANGED <<idx, phase, sizes, cur, ram, status, acked, known, hurt>>

\* Mutant: without the fsync between the two files.
SyncEventsSkipped ==
    /\ pc = "sync_events"
    /\ events_bytes' = events_bytes + 1
    /\ pc' = "write_idx"
    /\ UNCHANGED <<files, idx_bytes, phase, cur, ram, status, acked, known, hurt>>

\* The fsync that sits between the writes of the two files.
SyncEvents ==
    /\ pc = "sync_events"
    /\ durable' = [durable EXCEPT !.events = Len(events)]
    /\ events_bytes' = events_bytes + 1
    /\ pc' = "write_idx"
    /\ UNCHANGED <<events, idx, idx_bytes, phase, cur, ram, status, acked, known, hurt>>

WriteIdx ==
    /\ pc = "write_idx"
    /\ idx' = Append(Upto(idx, idx_bytes), [id |-> cur.id, pos |-> events_bytes])
    /\ durable' = [durable EXCEPT !.idx = Least(@, idx_bytes)]
    /\ pc' = "sync_idx"
    /\ UNCHANGED <<events, phase, sizes, cur, ram, status, acked, known, hurt>>

\* Mutant: the next id is not advanced.
SyncIdxIdKept ==
    /\ pc = "sync_idx"
    /\ durable' = [durable EXCEPT !.idx = Len(idx)]
    /\ idx_bytes' = idx_bytes + 1
    /\ Absorb(cur)
    /\ status' = [status EXCEPT ![cur.req] = "acked"]
    /\ acked' = acked \cup {cur}
    /\ known' = known \cup {cur}
    /\ pc' = "idle" /\ cur' = None
    /\ UNCHANGED <<events, idx, events_bytes, next_event_id, phase, hurt>>

\* The second fsync; the event goes into RAM and the client gets its id.
SyncIdx ==
    /\ pc = "sync_idx"
    /\ durable' = [durable EXCEPT !.idx = Len(idx)]
    /\ idx_bytes' = idx_bytes + 1
    /\ Absorb(cur)
    /\ next_event_id' = cur.id + 1
    /\ status' = [status EXCEPT ![cur.req] = "acked"]
    /\ acked' = acked \cup {cur}
    /\ known' = known \cup {cur}
    /\ pc' = "idle" /\ cur' = None
    /\ UNCHANGED <<events, idx, events_bytes, phase, hurt>>

\* The ? after each of the four calls: the client gets the error, RAM and the
\* counts stay.  A failed write may have put part of its bytes on file; an
\* entry that is overwritten in place is written whole or not at all.
AppendFails ==
    /\ \/ /\ pc = "write_events"
          /\ events' \in {events, Append(Upto(events, events_bytes), Torn)}
          /\ durable' = [durable EXCEPT !.events = Least(@, events_bytes)]
          /\ UNCHANGED <<idx, hurt>>
       \/ /\ pc = "write_idx"
          /\ \/ UNCHANGED <<idx, hurt>>
             \/ /\ Len(idx) = idx_bytes
                /\ idx' = Append(idx, Torn)
                /\ hurt' = hurt \cup {"short"}
          /\ UNCHANGED <<events, durable>>
       \/ /\ pc \in {"sync_events", "sync_idx"}
          /\ UNCHANGED <<files, hurt>>
    /\ status' = [status EXCEPT ![cur.req] = "failed"]
    /\ pc' = "idle" /\ cur' = None
    /\ UNCHANGED <<phase, sizes, ram, acked, known>>

-----------------------------------------------------------------------------
(* The process and the machine.                                            *)

\* The process ends, by SIGTERM, SIGKILL or a panic, at any step; what it
\* wrote stays in the files.
Kill ==
    /\ phase \in {"repair", "up"}
    /\ ProcessGone
    /\ UNCHANGED <<files, hurt>>

\* What may be left of the cells of a file of which n are durable.
Survivors(file, n) ==
    {Upto(file, m) : m \in n..Len(file)}
        \cup {Append(Upto(file, m), Torn) : m \in n..(Len(file) - 1)}

PowerLoss ==
    /\ phase # "refused"
    /\ ProcessGone
    /\ events' \in Survivors(events, durable.events)
    /\ idx' \in Survivors(idx, durable.idx)
    /\ durable' = [events |-> Len(events'), idx |-> Len(idx')]
    /\ hurt' = hurt \cup {"power"}

-----------------------------------------------------------------------------
Init ==
    /\ events = <<>> /\ idx = <<>>
    /\ durable = [events |-> 0, idx |-> 0]
    /\ phase = "down"
    /\ events_bytes = 0 /\ idx_bytes = 0
    /\ pc = "idle" /\ cur = None
    /\ by_id = <<>> /\ by_stream = <<>> /\ next_event_id = 1
    /\ status = [r \in Reqs |-> "new"]
    /\ acked = {} /\ known = {}
    /\ hurt = {}

Next ==
    \/ Open \/ RepairRecord \/ RepairTruncate \/ RepairFails \/ LoadDone
    \/ \E r \in Reqs : RejectAppend(r) \/ BeginAppend(r)
    \/ WriteEvents \/ SyncEvents \/ WriteIdx \/ SyncIdx \/ AppendFails
    \/ Kill \/ PowerLoss

Spec == Init /\ [][Next]_vars

-----------------------------------------------------------------------------
(* Properties.                                                             *)

\* Every variable has its type, an append is only ever under way in a process
\* that has loaded its store, and the next id is above every id in RAM.
TypeOK ==
    /\ events \in Seq(Records \cup {Torn})
    /\ idx \in Seq(Entries \cup {Torn})
    /\ durable \in [events : 0..Len(events), idx : 0..Len(idx)]
    /\ phase \in {"down", "repair", "up", "refused"}
    /\ events_bytes \in Nat /\ idx_bytes \in Nat
    /\ pc \in {"idle", "write_events", "sync_events", "write_idx", "sync_idx"}
    /\ cur \in Records \cup {None}
    /\ pc # "idle" => phase = "up" /\ cur # None
    /\ next_event_id \in Nat \ {0}
    /\ by_id \in UNION {[D -> Reqs] : D \in SUBSET (1..(next_event_id - 1))}
    /\ by_stream \in Seq([id : Nat, stream : Streams])
    /\ status \in [Reqs -> {"new", "sent", "acked", "failed"}]
    /\ acked \subseteq Records /\ known \subseteq Records
    /\ hurt \subseteq {"power", "short"}

\* An append that was answered is on the disk for good: its record and an
\* entry for it lie in what fsync has secured, and no later entry carries its
\* id.  So no failed append, restart, repair or power failure takes it away.
AckedSurvives ==
    \A a \in acked :
        \E i \in 1..durable.idx :
            /\ idx[i] # Torn
            /\ idx[i].id = a.id
            /\ idx[i].pos <= durable.events
            /\ events[idx[i].pos] = a
            /\ \A j \in 1..Len(idx) : idx[j] # Torn /\ idx[j].id = a.id => j = i

\* Whenever the service serves, an answered append is the event its id
\* denotes, and the listings of the streams hold the id once, in its stream.
AckedServed ==
    phase = "up" =>
        \A a \in acked :
            /\ a.id \in DOMAIN by_id
            /\ by_id[a.id] = a.req
            /\ {by_stream[k].stream : k \in {n \in 1..Len(by_stream) : by_stream[n].id = a.id}}
                    = {StreamOf[a.req]}
            /\ Cardinality({n \in 1..Len(by_stream) : by_stream[n].id = a.id}) = 1

\* As long as the power holds, an id that readers have seen denotes the same
\* event for ever, although the id of a failed append is given out again and
\* load adopts records whose append failed.
IdDenotesOneEvent ==
    "power" \notin hurt => \A a, b \in known : a.id = b.id => a = b

\* Short of a power failure and of an idx write that was cut short, a store
\* can always be opened again, whatever step the process died in.
KilledStoreReopens ==
    phase = "refused" => hurt # {}

\* Whatever a crash leaves, load repairs it: open_or_create does not refuse
\* a store that this program has written.
CrashIsRepaired ==
    phase # "refused"
=============================================================================

-------------------------- MODULE EventStoreProofs --------------------------
(***************************************************************************)
(* Proofs about EventStore for any set of requests and streams, and so for *)
(* files of any length and any number of crashes.                          *)
(***************************************************************************)
EXTENDS EventStore, FiniteSetTheorems, SequenceTheorems, WellFoundedInduction, TLAPS

-----------------------------------------------------------------------------
(* The inductive invariant.                                                *)

\* Cell i of the idx holds an entry, cell q of events.bin a record.
EntryAt(i) == i \in 1..Len(idx) /\ idx[i] # Torn
RecordAt(q) == q \in 1..Len(events) /\ events[q] # Torn

\* Entry i leads to the record in cell q.
Leads(i, q) == EntryAt(i) /\ RecordAt(q) /\ idx[i].pos = q

\* Bytes that are no record lie at the very end of a file.
TornInv ==
    /\ \A i \in 1..Len(idx) : idx[i] = Torn => i = Len(idx)
    /\ \A q \in 1..Len(events) : events[q] = Torn => q = Len(events)

\* Ids and positions count from 1.
PositiveInv ==
    /\ \A i \in Nat : EntryAt(i) => idx[i].id > 0 /\ idx[i].pos > 0
    /\ \A q \in Nat : RecordAt(q) => events[q].id > 0

\* The entries go forward in events.bin and never back to a smaller id.
OrderInv ==
    \A i, j \in Nat : EntryAt(i) /\ EntryAt(j) /\ i < j =>
        idx[i].id <= idx[j].id /\ idx[i].pos < idx[j].pos

\* An entry leads to a record of its own id, if it leads to a record.
OwnInv ==
    \A i, q \in Nat : Leads(i, q) => events[q].id = idx[i].id

\* The records never go back to a smaller id.
RisingInv ==
    \A p, q \in Nat : RecordAt(p) /\ RecordAt(q) /\ p < q => events[p].id <= events[q].id

\* While load repairs, the process knows the files as they are, and no entry
\* leads past the records.
RepairInv ==
    phase = "repair" =>
        /\ Len(idx) = idx_bytes /\ Len(events) = events_bytes
        /\ \A i \in 1..idx_bytes : \E q \in Nat : Leads(i, q)

\* While the service runs, the parts it counts are whole, at most one entry of
\* a failed append lies behind them, and a record that no counted entry covers
\* has the id that is to be given out next.
UpInv ==
    phase = "up" =>
        /\ events_bytes <= Len(events)
        /\ idx_bytes <= Len(idx) /\ Len(idx) <= idx_bytes + 1
        /\ \A q \in 1..events_bytes : events[q] # Torn
        /\ \A i \in 1..idx_bytes : idx[i] # Torn /\ idx[i].id < next_event_id
        /\ \A i \in Nat : EntryAt(i) => idx[i].pos <= events_bytes
        /\ \A i \in Nat : EntryAt(i) /\ i > idx_bytes => idx[i].id = next_event_id
        /\ \A q \in Nat : RecordAt(q) => events[q].id <= next_event_id
        /\ \A q \in Nat : RecordAt(q) /\ (\A i \in 1..idx_bytes : idx[i].pos < q)
                            => events[q].id = next_event_id

\* Where the append under way is with the two files.
AppendInv ==
    /\ pc # "idle" => cur.id = next_event_id
    /\ pc = "sync_events" =>
        /\ events_bytes + 1 <= Len(events) /\ events[events_bytes + 1] = cur
        /\ \A q \in Nat : RecordAt(q) => q <= events_bytes + 1
    /\ pc \in {"write_idx", "sync_idx"} =>
        /\ events_bytes > 0 /\ events[events_bytes] = cur
        /\ events_bytes <= durable.events
        /\ \A q \in Nat : RecordAt(q) => q <= events_bytes
    /\ pc = "write_idx" =>
        \A i \in Nat : EntryAt(i) => idx[i].pos < events_bytes
    /\ pc = "sync_idx" =>
        /\ Len(idx) = idx_bytes + 1
        /\ idx[idx_bytes + 1] = [id |-> cur.id, pos |-> events_bytes]
        /\ \A i \in 1..idx_bytes : idx[i].pos < events_bytes

\* Entry i and cell p are the last to carry the id of the record a.
Placed(a, i, p) ==
    /\ Leads(i, p) /\ idx[i].id = a.id /\ events[p] = a
    /\ \A j \in Nat : EntryAt(j) /\ i < j => a.id < idx[j].id
    /\ \A q \in Nat : RecordAt(q) /\ p < q => a.id < events[q].id

\* An answered append is placed, durably, and is the first to carry its id.
AckAt(a) ==
    \E i \in 1..durable.idx, p \in 1..durable.events :
        /\ Placed(a, i, p)
        /\ \A j \in Nat : EntryAt(j) /\ j < i => idx[j].id < a.id
        /\ phase = "up" => i <= idx_bytes
AckInv == \A a \in acked : AckAt(a)

\* While the power holds, so is, if not durably, whatever readers have seen.
KnownAt(a) ==
    \E i, p \in Nat : Placed(a, i, p) /\ (phase = "up" => i <= idx_bytes)
KnownInv == "power" \notin hurt => \A a \in known : KnownAt(a)

\* While the power holds, a record behind an entry of the same id is either
\* behind all entries or has an entry itself: load will take it up.
HoleInv ==
    "power" \notin hurt =>
        \A i, q \in Nat :
            EntryAt(i) /\ RecordAt(q) /\ idx[i].pos < q /\ events[q].id = idx[i].id =>
                \/ \A j \in Nat : EntryAt(j) => idx[j].pos < q
                \/ \E j \in Nat : EntryAt(j) /\ idx[j].pos = q

\* Without a power failure or a short write the idx is whole and covered.
CleanInv ==
    hurt = {} => \A i \in 1..Len(idx) : \E q \in Nat : Leads(i, q)

\* The maps in RAM are what the counted entries say.
RamInv ==
    phase = "up" =>
        /\ \A x \in Nat : x \in DOMAIN by_id <=> \E k \in 1..idx_bytes : idx[k].id = x
        /\ \A k \in 1..idx_bytes :
              (\A j \in 1..idx_bytes : idx[j].id = idx[k].id => j <= k)
                 => by_id[idx[k].id] = events[idx[k].pos].req
        /\ Len(by_stream) = idx_bytes
        /\ \A k \in 1..idx_bytes :
              by_stream[k] = [id |-> idx[k].id, stream |-> StreamOf[events[idx[k].pos].req]]

FilesInv == TornInv /\ PositiveInv /\ OrderInv /\ OwnInv /\ RisingInv

Inv ==
    /\ TypeOK
    /\ FilesInv
    /\ RepairInv
    /\ UpInv
    /\ AppendInv
    /\ AckInv
    /\ KnownInv
    /\ HoleInv
    /\ CleanInv
    /\ RamInv
    /\ KilledStoreReopens

\* The types, of the files and of the rest.
FileTypes ==
    /\ events \in Seq(Records \cup {Torn})
    /\ idx \in Seq(Entries \cup {Torn})
    /\ durable \in [events : 0..Len(events), idx : 0..Len(idx)]
    /\ hurt \subseteq {"power", "short"}
ProcessTypes ==
    /\ phase \in {"down", "repair", "up", "refused"}
    /\ events_bytes \in Nat /\ idx_bytes \in Nat
    /\ pc \in {"idle", "write_events", "sync_events", "write_idx", "sync_idx"}
    /\ cur \in Records \cup {None}
    /\ pc # "idle" => phase = "up" /\ cur # None
RamTypes ==
    /\ next_event_id \in Nat \ {0}
    /\ by_id \in UNION {[D -> Reqs] : D \in SUBSET (1..(next_event_id - 1))}
    /\ by_stream \in Seq([id : Nat, stream : Streams])
ClientTypes ==
    /\ status \in [Reqs -> {"new", "sent", "acked", "failed"}]
    /\ acked \subseteq Records /\ known \subseteq Records

-----------------------------------------------------------------------------
(* Numbers and sequences.                                                  *)

\* A set of numbers up to n that is not empty has a greatest element.
LEMMA Greatest ==
    ASSUME NEW n \in Nat, NEW S \in SUBSET (0..n), S # {}
    PROVE  \E m \in S : \A k \in S : k <= m
<1> DEFINE R == {ss \in Nat \X Nat : ss[1] < ss[2]}
           T == {n - k : k \in S}
<1>1. IsWellFoundedOn(R, Nat)
  BY NatLessThanWellFounded DEF OpToRel
<1>2. T \in SUBSET Nat /\ T # {}
  <2>1. \A k \in S : n - k \in Nat
    OBVIOUS
  <2>2. QED
    BY <2>1
<1>3. \A x, y \in Nat : y < x => <<y, x>> \in R
  OBVIOUS
<1> HIDE DEF R
<1>4. PICK t \in T : \A y \in T : ~(<<y, t>> \in R)
  <2> HIDE DEF T
  <2>1. QED
    BY <1>1, <1>2, WFMin
<1>5. PICK m \in S : t = n - m
  BY <1>4
<1>6. ASSUME NEW k \in S PROVE k <= m
  <2>1. n - k \in T /\ n - k \in Nat /\ t \in Nat
    BY <1>2
  <2>2. ~(n - k < t)
    BY <1>3, <1>4, <2>1
  <2>3. QED
    BY <1>5, <2>1, <2>2
<1>7. QED
  BY <1>6

\* What Upto keeps.
LEMMA UptoKeeps ==
    ASSUME NEW S, NEW s \in Seq(S), NEW n \in Nat, n <= Len(s)
    PROVE  /\ Upto(s, n) \in Seq(S)
           /\ Len(Upto(s, n)) = n
           /\ \A k \in 1..n : Upto(s, n)[k] = s[k]
<1>1. Len(s) \in Nat
  OBVIOUS
<1>2. \A k \in 1..n : s[k] \in S
  BY <1>1
<1>3. Upto(s, n) = [k \in 1..n |-> s[k]]
  BY <1>1 DEF Upto
<1>4. QED
  BY <1>2, <1>3

\* Upto and one more cell.
LEMMA UptoAppend ==
    ASSUME NEW S, NEW s \in Seq(S), NEW n \in Nat, n <= Len(s), NEW c \in S
    PROVE  /\ Append(Upto(s, n), c) \in Seq(S)
           /\ Len(Append(Upto(s, n), c)) = n + 1
           /\ \A k \in 1..n : Append(Upto(s, n), c)[k] = s[k]
           /\ Append(Upto(s, n), c)[n + 1] = c
<1> DEFINE u == Upto(s, n)
<1>1. u \in Seq(S) /\ Len(u) = n /\ \A k \in 1..n : u[k] = s[k]
  BY UptoKeeps
<1> HIDE DEF u
<1>2. /\ Append(u, c) \in Seq(S)
      /\ Len(Append(u, c)) = n + 1
      /\ \A k \in 1..n : Append(u, c)[k] = u[k]
      /\ Append(u, c)[n + 1] = c
  BY <1>1
<1>3. QED
  BY <1>1, <1>2 DEF u

\* A sequence and one more cell.
LEMMA AppendKeeps ==
    ASSUME NEW S, NEW s \in Seq(S), NEW c \in S
    PROVE  /\ Append(s, c) \in Seq(S)
           /\ Len(Append(s, c)) = Len(s) + 1
           /\ \A k \in 1..Len(s) : Append(s, c)[k] = s[k]
           /\ Append(s, c)[Len(s) + 1] = c
           /\ Len(s) \in Nat
<1>1. QED
  OBVIOUS

\* The numbers in the two files and in durable.
LEMMA Numbers ==
    ASSUME TypeOK
    PROVE  /\ Len(idx) \in Nat /\ Len(events) \in Nat
           /\ events_bytes \in Nat /\ idx_bytes \in Nat /\ next_event_id \in Nat
           /\ next_event_id > 0
           /\ \A i \in Nat : EntryAt(i) => idx[i] \in Entries /\ idx[i].id \in Nat /\ idx[i].pos \in Nat
           /\ \A q \in Nat : RecordAt(q) => events[q] \in Records /\ events[q].id \in Nat
           /\ durable.events \in Nat /\ durable.events <= Len(events)
           /\ durable.idx \in Nat /\ durable.idx <= Len(idx)
           /\ pc # "idle" => cur \in Records /\ cur.id \in Nat /\ cur.req \in Reqs
<1>1. /\ idx \in Seq(Entries \cup {Torn}) /\ events \in Seq(Records \cup {Torn})
      /\ events_bytes \in Nat /\ idx_bytes \in Nat
      /\ next_event_id \in Nat \ {0}
      /\ durable \in [events : 0..Len(events), idx : 0..Len(idx)]
      /\ cur \in Records \cup {None}
      /\ pc # "idle" => cur # None
  BY DEF TypeOK
<1>2. Len(idx) \in Nat /\ Len(events) \in Nat
  BY <1>1
<1>3. \A i \in Nat : EntryAt(i) => idx[i] \in Entries
  BY <1>1 DEF EntryAt
<1>4. \A q \in Nat : RecordAt(q) => events[q] \in Records
  BY <1>1 DEF RecordAt
<1>5. /\ durable.events \in Nat /\ durable.events <= Len(events)
      /\ durable.idx \in Nat /\ durable.idx <= Len(idx)
  BY <1>1, <1>2
<1>6. \A e \in Entries : e.id \in Nat /\ e.pos \in Nat
  BY DEF Entries
<1>7. \A e \in Records : e.id \in Nat /\ e.req \in Reqs
  BY DEF Records
<1>8. QED
  BY <1>1, <1>2, <1>3, <1>4, <1>5, <1>6, <1>7

-----------------------------------------------------------------------------
(* How the invariants of the files survive a change of the files.          *)

\* Cells are lost, none is new.
LEMMA FewerCells ==
    ASSUME PositiveInv, OrderInv, OwnInv, RisingInv,
           \A i \in Nat : EntryAt(i)' => EntryAt(i) /\ idx'[i] = idx[i],
           \A q \in Nat : RecordAt(q)' => RecordAt(q) /\ events'[q] = events[q]
    PROVE  PositiveInv' /\ OrderInv' /\ OwnInv' /\ RisingInv'
<1>1. PositiveInv'
  BY DEF PositiveInv
<1>2. OrderInv'
  BY DEF OrderInv
<1>3. OwnInv'
  BY DEF OwnInv, Leads
<1>4. RisingInv'
  BY DEF RisingInv
<1>5. QED
  BY <1>1, <1>2, <1>3, <1>4

\* One entry is new, at the end of the idx, for a record of events.bin.
LEMMA NewEntry ==
    ASSUME TypeOK, PositiveInv, OrderInv, OwnInv, RisingInv,
           NEW n \in Nat, NEW e \in Entries, e.id > 0, e.pos > 0,
           \A i \in Nat : EntryAt(i) /\ i < n => idx[i].pos < e.pos /\ idx[i].id <= e.id,
           RecordAt(e.pos), events[e.pos].id = e.id,
           events' = events,
           \A i \in Nat : EntryAt(i)' => \/ EntryAt(i) /\ idx'[i] = idx[i] /\ i < n
                                         \/ i = n /\ idx'[i] = e
    PROVE  PositiveInv' /\ OrderInv' /\ OwnInv' /\ RisingInv'
<1>1. \A q \in Nat : RecordAt(q)' <=> RecordAt(q)
  BY DEF RecordAt
<1>2. PositiveInv'
  BY <1>1 DEF PositiveInv
<1>3. OrderInv'
  <2> SUFFICES ASSUME NEW i \in Nat, NEW j \in Nat, EntryAt(i)', EntryAt(j)', i < j
               PROVE  idx'[i].id <= idx'[j].id /\ idx'[i].pos < idx'[j].pos
    BY DEF OrderInv
  <2>1. EntryAt(i) /\ idx'[i] = idx[i] /\ i < n
    <3>1. j <= n
      OBVIOUS
    <3>2. i # n
      BY <3>1
    <3>3. QED
      BY <3>2
  <2>2. CASE j = n /\ idx'[j] = e
    BY <2>1, <2>2
  <2>3. CASE EntryAt(j) /\ idx'[j] = idx[j]
    BY <2>1, <2>3 DEF OrderInv
  <2>4. QED
    BY <2>2, <2>3
<1>4. OwnInv'
  BY <1>1 DEF OwnInv, Leads
<1>5. RisingInv'
  BY <1>1 DEF RisingInv
<1>6. QED
  BY <1>2, <1>3, <1>4, <1>5

\* What lies behind the record of an entry has no smaller id.
LEMMA After ==
    ASSUME TypeOK, FilesInv, NEW i \in Nat, NEW q \in Nat,
           EntryAt(i), RecordAt(q), idx[i].pos < q
    PROVE  idx[i].id <= events[q].id
<1> DEFINE p == idx[i].pos
<1>1. p \in Nat /\ p > 0 /\ Len(events) \in Nat
  BY Numbers DEF FilesInv, PositiveInv
<1>2. p \in 1..Len(events) /\ p # Len(events)
  BY <1>1 DEF RecordAt
<1>3. RecordAt(p)
  BY <1>2 DEF FilesInv, TornInv, RecordAt
<1>4. events[p].id = idx[i].id
  BY <1>1, <1>3 DEF FilesInv, OwnInv, Leads
<1>5. events[p].id <= events[q].id
  BY <1>1, <1>3 DEF FilesInv, RisingInv
<1>6. QED
  BY <1>4, <1>5

\* A placed record stays placed when its two cells are kept and every new cell
\* behind them has a greater id.
LEMMA PlacedKept ==
    ASSUME NEW a, NEW i \in Nat, NEW p \in Nat, Placed(a, i, p),
           EntryAt(i)', idx'[i] = idx[i], RecordAt(p)', events'[p] = events[p],
           \A j \in Nat : EntryAt(j)' /\ i < j =>
               (EntryAt(j) /\ idx'[j] = idx[j]) \/ a.id < idx'[j].id,
           \A q \in Nat : RecordAt(q)' /\ p < q =>
               (RecordAt(q) /\ events'[q] = events[q]) \/ a.id < events'[q].id
    PROVE  Placed(a, i, p)'
<1>1. Leads(i, p)' /\ idx'[i].id = a.id /\ events'[p] = a
  BY DEF Placed, Leads
<1>2. \A j \in Nat : EntryAt(j)' /\ i < j => a.id < idx'[j].id
  BY DEF Placed
<1>3. \A q \in Nat : RecordAt(q)' /\ p < q => a.id < events'[q].id
  BY DEF Placed
<1>4. QED
  BY <1>1, <1>2, <1>3 DEF Placed

\* A new entry n for cell p, behind the cells of all other entries, fills the
\* hole at p and leaves one only where there was none to fill.
LEMMA HoleFilled ==
    ASSUME NEW n \in Nat, NEW p \in Nat, events' = events,
           EntryAt(n)', idx'[n].pos = p,
           \A i \in Nat : EntryAt(i)' => \/ EntryAt(i) /\ idx'[i] = idx[i]
                                         \/ idx'[i].pos = p,
           \A i \in Nat : EntryAt(i) => idx[i].pos \in Nat,
           \A i \in Nat : EntryAt(i) /\ EntryAt(i)' /\ idx'[i] = idx[i] => idx[i].pos < p,
           \A i, q \in Nat :
              EntryAt(i) /\ EntryAt(i)' /\ idx'[i] = idx[i] /\ RecordAt(q) /\ q < p
                /\ idx[i].pos < q /\ events[q].id = idx[i].id /\ "power" \notin hurt'
              => \E j \in Nat : EntryAt(j)' /\ idx'[j].pos = q
    PROVE  HoleInv'
<1> SUFFICES ASSUME "power" \notin hurt', NEW i \in Nat, NEW q \in Nat,
                    EntryAt(i)', RecordAt(q)', idx'[i].pos < q, events'[q].id = idx'[i].id
             PROVE  \/ \A j \in Nat : EntryAt(j)' => idx'[j].pos < q
                    \/ \E j \in Nat : EntryAt(j)' /\ idx'[j].pos = q
  BY DEF HoleInv
<1>1. RecordAt(q)
  BY DEF RecordAt
<1>2. CASE q = p
  BY <1>2
<1>3. CASE q > p
  <2>1. ASSUME NEW j \in Nat, EntryAt(j)' PROVE idx'[j].pos < q
    <3>1. CASE EntryAt(j) /\ idx'[j] = idx[j]
      <4>1. idx[j].pos < p /\ idx[j].pos \in Nat
        BY <2>1, <3>1
      <4>2. QED
        BY <1>3, <3>1, <4>1
    <3>2. CASE idx'[j].pos = p
      BY <1>3, <3>2
    <3>3. QED
      BY <2>1, <3>1, <3>2
  <2>2. QED
    BY <2>1
<1>4. CASE q < p
  <2>1. idx'[i].pos # p
    BY <1>4
  <2>2. EntryAt(i) /\ idx'[i] = idx[i]
    BY <2>1
  <2>3. QED
    BY <1>1, <1>4, <2>2
<1>5. QED
  BY <1>2, <1>3, <1>4

\* What was answered or seen carries over a step that keeps it placed.
LEMMA Carry ==
    ASSUME TypeOK, AckInv, KnownInv, hurt \subseteq hurt',
           durable'.idx \in Nat, durable'.events \in Nat,
           \A a \in acked \cup known : \A i, p \in Nat :
              Placed(a, i, p) /\ (phase = "up" => i <= idx_bytes) =>
                 /\ Placed(a, i, p)' /\ (phase' = "up" => i <= idx_bytes')
                 /\ i <= durable.idx => i <= durable'.idx
                 /\ p <= durable.events => p <= durable'.events,
           \A i, j \in Nat :
              EntryAt(i) /\ (phase = "up" => i <= idx_bytes) /\ EntryAt(j)' /\ j < i =>
                 EntryAt(j) /\ idx'[j] = idx[j]
    PROVE  /\ \A a \in acked : AckAt(a)'
           /\ "power" \notin hurt' => \A a \in known : KnownAt(a)'
<1>1. \A a \in acked : AckAt(a)'
  <2> SUFFICES ASSUME NEW a \in acked
               PROVE  \E i \in 1..durable'.idx, p \in 1..durable'.events :
                         /\ Placed(a, i, p)'
                         /\ \A j \in Nat : EntryAt(j)' /\ j < i => idx'[j].id < a.id
                         /\ phase' = "up" => i <= idx_bytes'
    BY DEF AckAt
  <2>1. PICK i \in 1..durable.idx, p \in 1..durable.events :
            /\ Placed(a, i, p)
            /\ \A j \in Nat : EntryAt(j) /\ j < i => idx[j].id < a.id
            /\ phase = "up" => i <= idx_bytes
    BY DEF AckInv, AckAt
  <2>2. i \in Nat /\ p \in Nat /\ i <= durable.idx /\ p <= durable.events /\ i > 0 /\ p > 0
    BY Numbers
  <2>3. i \in 1..durable'.idx /\ p \in 1..durable'.events
    BY <2>1, <2>2
  <2>4. Placed(a, i, p)' /\ (phase' = "up" => i <= idx_bytes')
    BY <2>1, <2>2
  <2>5. \A j \in Nat : EntryAt(j)' /\ j < i => idx'[j].id < a.id
    BY <2>1, <2>2 DEF Placed, Leads
  <2>6. QED
    BY <2>3, <2>4, <2>5
<1>2. "power" \notin hurt' => \A a \in known : KnownAt(a)'
  BY DEF KnownInv, KnownAt
<1>3. QED
  BY <1>1, <1>2

\* A step that leaves the files alone, and counts no fewer entries, keeps the
\* invariants that are about the files only.
LEMMA SameFiles ==
    ASSUME Inv, events' = events, idx' = idx, hurt' = hurt,
           durable'.idx \in Nat, durable'.events \in Nat,
           durable.idx <= durable'.idx, durable.events <= durable'.events,
           idx_bytes' \in Nat,
           phase' = "up" => /\ phase = "up" => idx_bytes <= idx_bytes'
                            /\ phase # "up" => Len(idx) <= idx_bytes'
    PROVE  /\ FilesInv' /\ HoleInv' /\ CleanInv'
           /\ \A a \in acked : AckAt(a)'
           /\ "power" \notin hurt => \A a \in known : KnownAt(a)'
<1>1. TypeOK
  BY DEF Inv
<1>2. \A i \in Nat : (EntryAt(i)' <=> EntryAt(i)) /\ (RecordAt(i)' <=> RecordAt(i))
  BY DEF EntryAt, RecordAt
<1>3. FilesInv'
  BY <1>2 DEF Inv, FilesInv, TornInv, PositiveInv, OrderInv, OwnInv, RisingInv, Leads
<1>4. HoleInv'
  BY <1>2 DEF Inv, HoleInv
<1>5. CleanInv'
  <2>1. \A i \in 1..Len(idx), q \in Nat : Leads(i, q) => Leads(i, q)'
    BY DEF Leads, EntryAt, RecordAt
  <2>2. QED
    BY <2>1 DEF Inv, CleanInv
<1>6. /\ \A a \in acked : AckAt(a)'
      /\ "power" \notin hurt => \A a \in known : KnownAt(a)'
  <2>1. \A a \in acked \cup known : \A i, p \in Nat : Placed(a, i, p) => Placed(a, i, p)'
    BY <1>2 DEF Placed, Leads
  <2>2. \A i, p \in Nat : Leads(i, p) => i <= Len(idx)
    BY <1>1, Numbers DEF Leads, EntryAt
  <2>3. \A a \in acked \cup known : \A i, p \in Nat :
            Placed(a, i, p) /\ (phase = "up" => i <= idx_bytes) =>
               (phase' = "up" => i <= idx_bytes')
    <3>1. \A a \in acked \cup known : \A i, p \in Nat : Placed(a, i, p) => i <= Len(idx)
      BY <2>2 DEF Placed
    <3>2. Len(idx) \in Nat /\ idx_bytes \in Nat
      BY <1>1, Numbers
    <3>3. CASE phase' = "up" /\ phase = "up"
      BY <3>2, <3>3
    <3>4. CASE phase' = "up" /\ phase # "up"
      <4>1. Len(idx) <= idx_bytes' /\ idx_bytes' \in Nat
        BY <3>4
      <4>2. QED
        BY <3>1, <3>2, <3>4, <4>1
    <3>5. QED
      BY <3>3, <3>4
  <2>4. /\ durable.idx \in Nat /\ durable.events \in Nat
    BY <1>1, Numbers
  <2>5. \A a \in acked \cup known : \A i, p \in Nat :
              Placed(a, i, p) /\ (phase = "up" => i <= idx_bytes) =>
                 /\ Placed(a, i, p)' /\ (phase' = "up" => i <= idx_bytes')
                 /\ i <= durable.idx => i <= durable'.idx
                 /\ p <= durable.events => p <= durable'.events
    BY <2>1, <2>3, <2>4
  <2>6. \A i, j \in Nat :
              EntryAt(i) /\ (phase = "up" => i <= idx_bytes) /\ EntryAt(j)' /\ j < i =>
                 EntryAt(j) /\ idx'[j] = idx[j]
    BY <1>2
  <2>7. QED
    BY <1>1, <2>5, <2>6, Carry DEF Inv
<1>7. QED
  BY <1>3, <1>4, <1>5, <1>6

\* The maps in RAM stay right while the counted cells stay.
LEMMA RamKept ==
    ASSUME TypeOK, PositiveInv, RamInv, UpInv, phase = "up", phase' = "up",
           UNCHANGED <<by_id, by_stream, idx_bytes>>,
           \A k \in 1..idx_bytes : idx'[k] = idx[k],
           \A q \in 1..events_bytes : events'[q] = events[q]
    PROVE  RamInv'
<1>1. \A k \in 1..idx_bytes : idx[k].pos \in 1..events_bytes
  <2>1. \A k \in 1..idx_bytes : k \in Nat /\ EntryAt(k)
    BY Numbers DEF UpInv, EntryAt
  <2>2. QED
    BY <2>1, Numbers DEF PositiveInv, UpInv
<1>2. \A x \in Nat : x \in DOMAIN by_id' <=> \E k \in 1..idx_bytes' : idx'[k].id = x
  BY DEF RamInv
<1>3. \A k \in 1..idx_bytes : events'[idx[k].pos] = events[idx[k].pos]
  BY <1>1
<1>4. \A k \in 1..idx_bytes' :
         (\A j \in 1..idx_bytes' : idx'[j].id = idx'[k].id => j <= k)
            => by_id'[idx'[k].id] = events'[idx'[k].pos].req
  BY <1>3 DEF RamInv
<1>5. \A k \in 1..idx_bytes' :
         by_stream'[k] = [id |-> idx'[k].id, stream |-> StreamOf[events'[idx'[k].pos].req]]
  BY <1>3 DEF RamInv
<1>6. QED
  BY <1>2, <1>4, <1>5 DEF RamInv

(* The type invariant, split into the parts the steps change together. *)
LEMMA TypeParts == TypeOK <=> FileTypes /\ ProcessTypes /\ RamTypes /\ ClientTypes
<1>1. QED
  BY DEF TypeOK, FileTypes, ProcessTypes, RamTypes, ClientTypes

-----------------------------------------------------------------------------
(* The process ends.                                                       *)

\* Empty maps.
LEMMA EmptyRam ==
    ASSUME by_id = <<>>, by_stream = <<>>, next_event_id = 1
    PROVE  RamTypes
<1>1. by_id \in [{} -> Reqs]
  OBVIOUS
<1>2. {} \in SUBSET (1..(next_event_id - 1))
  OBVIOUS
<1>3. by_id \in UNION {[D -> Reqs] : D \in SUBSET (1..(next_event_id - 1))}
  BY <1>1, <1>2
<1>4. next_event_id \in Nat \ {0} /\ by_stream \in Seq([id : Nat, stream : Streams])
  OBVIOUS
<1>5. QED
  BY <1>3, <1>4 DEF RamTypes

\* Nothing is claimed about the RAM of a process that is gone.
LEMMA GoneKeeps ==
    ASSUME TypeOK, ProcessGone
    PROVE  /\ ProcessTypes' /\ RamTypes' /\ ClientTypes'
           /\ RepairInv' /\ UpInv' /\ AppendInv' /\ RamInv' /\ KilledStoreReopens'
<1>1. ProcessTypes'
  BY DEF ProcessGone, ProcessTypes
<1>2. RamTypes'
  <2>1. {} \in SUBSET (1..(1 - 1)) /\ <<>> \in [{} -> Reqs]
    OBVIOUS
  <2>2. <<>> \in UNION {[D -> Reqs] : D \in SUBSET (1..(1 - 1))}
    BY <2>1
  <2>3. QED
    BY <2>2 DEF ProcessGone, RamTypes
<1>3. ClientTypes'
  BY DEF ProcessGone, ClientTypes, TypeOK
<1>4. RepairInv' /\ UpInv' /\ AppendInv' /\ RamInv' /\ KilledStoreReopens'
  BY DEF ProcessGone, RepairInv, UpInv, AppendInv, RamInv, KilledStoreReopens
<1>5. QED
  BY <1>1, <1>2, <1>3, <1>4

(* An empty data directory meets the invariant. *)
LEMMA InitInv == Init => Inv
<1> SUFFICES ASSUME Init PROVE Inv
  OBVIOUS
<1>1. \A i \in Nat : ~EntryAt(i) /\ ~RecordAt(i)
  BY DEF Init, EntryAt, RecordAt
<1>2. FilesInv /\ HoleInv
  BY <1>1 DEF Init, FilesInv, TornInv, PositiveInv, OrderInv, OwnInv, RisingInv, Leads, HoleInv
<1>3. /\ RepairInv /\ UpInv /\ AppendInv /\ RamInv /\ KilledStoreReopens
      /\ AckInv /\ KnownInv
  BY DEF Init, RepairInv, UpInv, AppendInv, RamInv, KilledStoreReopens, AckInv, KnownInv
<1>4. CleanInv
  BY DEF Init, CleanInv
<1>5. RamTypes
  BY EmptyRam DEF Init
<1>6. FileTypes
  BY DEF Init, FileTypes
<1>7. ProcessTypes /\ ClientTypes
  BY DEF Init, ProcessTypes, ClientTypes
<1>8. QED
  BY <1>2, <1>3, <1>4, <1>5, <1>6, <1>7, TypeParts DEF Inv

\* A killed process leaves the files as they are.
LEMMA KillStep ==
    ASSUME Inv, Kill
    PROVE  Inv'
<1>1. TypeOK /\ ProcessGone /\ UNCHANGED <<events, idx, durable, hurt>>
  BY DEF Inv, Kill, files
<1>2. /\ ProcessTypes' /\ RamTypes' /\ ClientTypes'
      /\ RepairInv' /\ UpInv' /\ AppendInv' /\ RamInv' /\ KilledStoreReopens'
  BY <1>1, GoneKeeps
<1>3. FileTypes'
  BY <1>1 DEF TypeOK, FileTypes
<1>4. TypeOK'
  BY <1>2, <1>3 DEF TypeOK, FileTypes, ProcessTypes, RamTypes, ClientTypes
<1>5. /\ FilesInv' /\ HoleInv' /\ CleanInv'
      /\ \A a \in acked : AckAt(a)'
      /\ "power" \notin hurt => \A a \in known : KnownAt(a)'
  <2>1. /\ durable'.idx \in Nat /\ durable'.events \in Nat
        /\ durable.idx <= durable'.idx /\ durable.events <= durable'.events
    BY <1>1, Numbers
  <2>2. idx_bytes' \in Nat /\ phase' # "up"
    BY <1>1 DEF ProcessGone
  <2>3. QED
    BY <1>1, <2>1, <2>2, SameFiles
<1>6. AckInv' /\ KnownInv'
  BY <1>1, <1>5 DEF AckInv, KnownInv, ProcessGone
<1>7. QED
  BY <1>2, <1>4, <1>5, <1>6 DEF Inv

\* What a power failure leaves of a file: the durable cells, perhaps more of
\* them, and nothing new but torn bytes at the end.
LEMMA SurvivorCells ==
    ASSUME NEW S, Torn \in S, NEW s \in Seq(S), NEW n \in Nat, n <= Len(s),
           \A k \in 1..Len(s) : s[k] = Torn => k = Len(s),
           NEW t \in Survivors(s, n)
    PROVE  /\ t \in Seq(S) /\ Len(t) \in Nat /\ n <= Len(t)
           /\ \A k \in 1..Len(t) : t[k] = Torn => k = Len(t)
           /\ \A k \in 1..Len(t) : t[k] # Torn => k \in 1..Len(s) /\ t[k] = s[k]
           /\ \A k \in 1..n : t[k] = s[k]
<1>1. Len(s) \in Nat
  OBVIOUS
<1>2. CASE \E m \in n..Len(s) : t = Upto(s, m)
  <2>1. PICK m \in n..Len(s) : t = Upto(s, m)
    BY <1>2
  <2>2. t \in Seq(S) /\ Len(t) = m /\ \A k \in 1..m : t[k] = s[k]
    BY <1>1, <2>1, UptoKeeps
  <2>3. QED
    BY <1>1, <2>2
<1>3. CASE \E m \in n..(Len(s) - 1) : t = Append(Upto(s, m), Torn)
  <2>1. PICK m \in n..(Len(s) - 1) : t = Append(Upto(s, m), Torn)
    BY <1>3
  <2>2. m \in Nat /\ m <= Len(s) - 1 /\ n <= m
    BY <1>1
  <2>3. /\ t \in Seq(S) /\ Len(t) = m + 1
        /\ \A k \in 1..m : t[k] = s[k]
        /\ t[m + 1] = Torn
    BY <1>1, <2>1, <2>2, UptoAppend
  <2>4. \A k \in 1..Len(t) : k = m + 1 \/ k \in 1..m
    BY <2>2, <2>3
  <2>5. QED
    BY <1>1, <2>2, <2>3, <2>4
<1>4. QED
  BY <1>2, <1>3 DEF Survivors

\* A power failure takes only what fsync has not secured.
LEMMA PowerLossStep ==
    ASSUME Inv, PowerLoss
    PROVE  Inv'
<1>1. /\ TypeOK /\ TornInv /\ ProcessGone
      /\ events' \in Survivors(events, durable.events)
      /\ idx' \in Survivors(idx, durable.idx)
      /\ durable' = [events |-> Len(events'), idx |-> Len(idx')]
      /\ hurt' = hurt \cup {"power"}
      /\ acked' = acked
  BY DEF Inv, FilesInv, PowerLoss, ProcessGone
<1>2. /\ ProcessTypes' /\ RamTypes' /\ ClientTypes'
      /\ RepairInv' /\ UpInv' /\ AppendInv' /\ RamInv' /\ KilledStoreReopens'
  BY <1>1, GoneKeeps
<1>3. /\ durable.events \in Nat /\ durable.events <= Len(events)
      /\ durable.idx \in Nat /\ durable.idx <= Len(idx)
  BY <1>1, Numbers
<1>4. /\ events' \in Seq(Records \cup {Torn}) /\ Len(events') \in Nat
      /\ durable.events <= Len(events')
      /\ \A k \in 1..Len(events') : events'[k] = Torn => k = Len(events')
      /\ \A k \in 1..Len(events') : events'[k] # Torn =>
            k \in 1..Len(events) /\ events'[k] = events[k]
      /\ \A k \in 1..durable.events : events'[k] = events[k]
  <2> DEFINE C == Records \cup {Torn}
  <2>1. events \in Seq(C) /\ Torn \in C
    BY <1>1 DEF TypeOK
  <2>2. \A k \in 1..Len(events) : events[k] = Torn => k = Len(events)
    BY <1>1 DEF TornInv
  <2> DEFINE t == events'
  <2>3. t \in Survivors(events, durable.events)
    BY <1>1
  <2> HIDE DEF t, C
  <2>4. /\ t \in Seq(C) /\ Len(t) \in Nat /\ durable.events <= Len(t)
        /\ \A k \in 1..Len(t) : t[k] = Torn => k = Len(t)
        /\ \A k \in 1..Len(t) : t[k] # Torn => k \in 1..Len(events) /\ t[k] = events[k]
        /\ \A k \in 1..durable.events : t[k] = events[k]
    BY <1>3, <2>1, <2>2, <2>3, SurvivorCells
  <2>5. QED
    BY <2>4 DEF t, C
<1>5. /\ idx' \in Seq(Entries \cup {Torn}) /\ Len(idx') \in Nat
      /\ durable.idx <= Len(idx')
      /\ \A k \in 1..Len(idx') : idx'[k] = Torn => k = Len(idx')
      /\ \A k \in 1..Len(idx') : idx'[k] # Torn => k \in 1..Len(idx) /\ idx'[k] = idx[k]
      /\ \A k \in 1..durable.idx : idx'[k] = idx[k]
  <2> DEFINE C == Entries \cup {Torn}
  <2>1. idx \in Seq(C) /\ Torn \in C
    BY <1>1 DEF TypeOK
  <2>2. \A k \in 1..Len(idx) : idx[k] = Torn => k = Len(idx)
    BY <1>1 DEF TornInv
  <2> DEFINE t == idx'
  <2>3. t \in Survivors(idx, durable.idx)
    BY <1>1
  <2> HIDE DEF t, C
  <2>4. /\ t \in Seq(C) /\ Len(t) \in Nat /\ durable.idx <= Len(t)
        /\ \A k \in 1..Len(t) : t[k] = Torn => k = Len(t)
        /\ \A k \in 1..Len(t) : t[k] # Torn => k \in 1..Len(idx) /\ t[k] = idx[k]
        /\ \A k \in 1..durable.idx : t[k] = idx[k]
    BY <1>3, <2>1, <2>2, <2>3, SurvivorCells
  <2>5. QED
    BY <2>4 DEF t, C
<1>6. \A i \in Nat : EntryAt(i)' => EntryAt(i) /\ idx'[i] = idx[i]
  BY <1>5 DEF EntryAt
<1>7. \A q \in Nat : RecordAt(q)' => RecordAt(q) /\ events'[q] = events[q]
  BY <1>4 DEF RecordAt
<1>8. FilesInv'
  <2>1. TornInv'
    BY <1>4, <1>5 DEF TornInv
  <2>2. PositiveInv' /\ OrderInv' /\ OwnInv' /\ RisingInv'
    BY <1>6, <1>7, FewerCells DEF Inv, FilesInv
  <2>3. QED
    BY <2>1, <2>2 DEF FilesInv
<1>9. KnownInv' /\ HoleInv' /\ CleanInv'
  BY <1>1 DEF KnownInv, HoleInv, CleanInv
<1>10. TypeOK'
  <2>1. durable' \in [events : 0..Len(events'), idx : 0..Len(idx')]
    BY <1>1, <1>4, <1>5
  <2>2. hurt' \subseteq {"power", "short"}
    BY <1>1 DEF TypeOK
  <2>3. FileTypes'
    BY <1>4, <1>5, <2>1, <2>2 DEF FileTypes
  <2>4. QED
    BY <1>2, <2>3 DEF TypeOK, FileTypes, ProcessTypes, RamTypes, ClientTypes
<1>11. AckInv'
  <2> SUFFICES ASSUME NEW a \in acked PROVE AckAt(a)'
    BY <1>1 DEF AckInv
  <2>1. PICK i \in 1..durable.idx, p \in 1..durable.events :
            /\ Placed(a, i, p)
            /\ \A j \in Nat : EntryAt(j) /\ j < i => idx[j].id < a.id
            /\ phase = "up" => i <= idx_bytes
    BY DEF Inv, AckInv, AckAt
  <2>2. i \in Nat /\ p \in Nat
    BY <1>3
  <2>3. i \in 1..durable'.idx /\ p \in 1..durable'.events
    BY <1>1, <1>3, <1>4, <1>5
  <2>4. EntryAt(i)' /\ idx'[i] = idx[i] /\ RecordAt(p)' /\ events'[p] = events[p]
    <3>1. EntryAt(i) /\ RecordAt(p)
      BY <2>1 DEF Placed, Leads
    <3>2. QED
      BY <1>3, <1>4, <1>5, <3>1 DEF EntryAt, RecordAt
  <2>5. Placed(a, i, p)'
    BY <1>6, <1>7, <2>1, <2>2, <2>4, PlacedKept
  <2>6. \A j \in Nat : EntryAt(j)' /\ j < i => idx'[j].id < a.id
    BY <1>6, <2>1
  <2>7. phase' # "up"
    BY <1>1 DEF ProcessGone
  <2>8. QED
    BY <2>3, <2>5, <2>6, <2>7 DEF AckAt
<1>12. QED
  BY <1>2, <1>8, <1>9, <1>10, <1>11 DEF Inv

-----------------------------------------------------------------------------
(* Starting up.                                                            *)

\* open_or_create lets through only an idx every entry of which leads to a
\* record, although it looks at the last entry only.
LEMMA OpenStep ==
    ASSUME Inv, Open
    PROVE  Inv'
<1> DEFINE misaligned == Len(idx) > 0 /\ idx[Len(idx)] = Torn
           covered == IF Len(idx) = 0 THEN 0 ELSE idx[Len(idx)].pos
<1>1. /\ TypeOK /\ phase = "down"
      /\ events_bytes' = Len(events) /\ idx_bytes' = Len(idx)
      /\ phase' = IF misaligned \/ Ahead(covered) THEN "refused" ELSE "repair"
      /\ UNCHANGED <<events, idx, durable, pc, cur, by_id, by_stream, next_event_id,
                     status, acked, known, hurt>>
  BY DEF Inv, Open, files, ram
<1>2. Len(idx) \in Nat /\ Len(events) \in Nat /\ pc = "idle"
  BY <1>1, Numbers DEF TypeOK
<1>3. TypeOK'
  <2>1. FileTypes' /\ RamTypes' /\ ClientTypes'
    BY <1>1 DEF TypeOK, FileTypes, RamTypes, ClientTypes
  <2>2. ProcessTypes'
    BY <1>1, <1>2 DEF TypeOK, ProcessTypes
  <2>3. QED
    BY <2>1, <2>2 DEF TypeOK, FileTypes, ProcessTypes, RamTypes, ClientTypes
<1>4. ASSUME ~misaligned, ~Ahead(covered), NEW i \in 1..Len(idx)
      PROVE  \E q \in Nat : Leads(i, q)
  <2> DEFINE n == Len(idx)
  <2>1. n \in Nat /\ n > 0 /\ i \in Nat /\ n # 0
    BY <1>2
  <2>2. EntryAt(n)
    BY <1>2, <1>4, <2>1 DEF EntryAt
  <2>3. /\ covered = idx[n].pos /\ idx[n].pos \in Nat /\ idx[n].pos > 0
    BY <1>1, <2>1, <2>2, Numbers DEF Inv, FilesInv, PositiveInv
  <2>4. RecordAt(idx[n].pos)
    BY <1>2, <1>4, <2>3 DEF Ahead, RecordAt
  <2>5. EntryAt(i)
    <3>1. CASE i = n
      BY <2>2, <3>1
    <3>2. CASE i # n
      BY <3>2 DEF Inv, FilesInv, TornInv, EntryAt
    <3>3. QED
      BY <3>1, <3>2
  <2>6. idx[i].pos \in Nat /\ idx[i].pos > 0
    BY <1>1, <2>1, <2>5, Numbers DEF Inv, FilesInv, PositiveInv
  <2>7. RecordAt(idx[i].pos)
    <3>1. CASE i = n
      BY <2>4, <3>1
    <3>2. CASE i # n
      <4>1. i < n
        BY <1>2, <3>2
      <4>2. idx[i].pos < idx[n].pos
        BY <2>1, <2>2, <2>5, <4>1 DEF Inv, FilesInv, OrderInv
      <4>3. idx[n].pos <= Len(events)
        BY <2>4 DEF RecordAt
      <4>4. idx[i].pos \in 1..Len(events) /\ idx[i].pos # Len(events)
        BY <1>2, <2>3, <2>6, <4>2, <4>3
      <4>5. QED
        BY <4>4 DEF Inv, FilesInv, TornInv, RecordAt
    <3>3. QED
      BY <3>1, <3>2
  <2>8. QED
    BY <2>5, <2>6, <2>7 DEF Leads
<1>5. \A i \in 1..Len(idx), q \in Nat : Leads(i, q) => Leads(i, q)'
  BY <1>1 DEF Leads, EntryAt, RecordAt
<1>6. RepairInv'
  <2> SUFFICES ASSUME phase' = "repair"
               PROVE  \A i \in 1..Len(idx) : \E q \in Nat : Leads(i, q)'
    BY <1>1 DEF RepairInv
  <2>1. ~misaligned /\ ~Ahead(covered)
    BY <1>1
  <2>2. QED
    BY <1>4, <1>5, <2>1
<1>7. KilledStoreReopens'
  <2> SUFFICES ASSUME hurt = {} PROVE ~misaligned /\ ~Ahead(covered)
    BY <1>1 DEF KilledStoreReopens
  <2>1. CASE Len(idx) = 0
    BY <2>1 DEF Ahead
  <2>2. CASE Len(idx) # 0
    <3>1. PICK q \in Nat : Leads(Len(idx), q)
      BY <1>2, <2>2 DEF Inv, CleanInv
    <3>2. idx[Len(idx)] # Torn /\ covered = q /\ q \in 1..Len(events) /\ events[q] # Torn
      BY <2>2, <3>1 DEF Leads, EntryAt, RecordAt
    <3>3. QED
      BY <1>2, <3>2 DEF Ahead
  <2>3. QED
    BY <2>1, <2>2
<1>8. UpInv' /\ AppendInv' /\ RamInv'
  BY <1>1, <1>2 DEF UpInv, AppendInv, RamInv
<1>9. /\ FilesInv' /\ HoleInv' /\ CleanInv'
      /\ \A a \in acked : AckAt(a)'
      /\ "power" \notin hurt => \A a \in known : KnownAt(a)'
  <2>1. /\ durable'.idx \in Nat /\ durable'.events \in Nat
        /\ durable.idx <= durable'.idx /\ durable.events <= durable'.events
    BY <1>1, Numbers
  <2>2. idx_bytes' \in Nat /\ phase' # "up"
    BY <1>1, <1>2
  <2>3. QED
    BY <1>1, <2>1, <2>2, SameFiles
<1>10. AckInv' /\ KnownInv'
  BY <1>1, <1>9 DEF AckInv, KnownInv
<1>11. QED
  BY <1>3, <1>6, <1>7, <1>8, <1>9, <1>10 DEF Inv

\* How far the idx reaches while load repairs.
LEMMA Covered ==
    ASSUME Inv, phase = "repair"
    PROVE  /\ CoveredEnd \in Nat /\ CoveredEnd <= Len(events)
           /\ Len(idx) = idx_bytes /\ Len(events) = events_bytes
           /\ \A i \in 1..Len(idx) : EntryAt(i) /\ idx[i].pos \in Nat /\ idx[i].pos <= CoveredEnd
           /\ \A q \in 1..CoveredEnd : RecordAt(q)
           /\ idx_bytes # 0 => Leads(idx_bytes, CoveredEnd)
<1>1. TypeOK /\ FilesInv /\ RepairInv
  BY DEF Inv
<1>2. /\ Len(idx) \in Nat /\ Len(events) \in Nat
      /\ Len(idx) = idx_bytes /\ Len(events) = events_bytes
      /\ \A i \in 1..Len(idx) : \E q \in Nat : Leads(i, q)
  BY <1>1, Numbers DEF RepairInv
<1>3. CASE idx_bytes = 0
  BY <1>2, <1>3 DEF CoveredEnd
<1>4. CASE idx_bytes # 0
  <2> DEFINE n == idx_bytes
  <2>1. n \in Nat /\ n \in 1..Len(idx) /\ CoveredEnd = idx[n].pos
    BY <1>2, <1>4 DEF CoveredEnd
  <2>2. PICK p \in Nat : Leads(n, p)
    BY <1>2, <2>1
  <2>3. CoveredEnd = p /\ RecordAt(p) /\ EntryAt(n) /\ p \in 1..Len(events)
    BY <2>1, <2>2 DEF Leads, RecordAt
  <2>4. ASSUME NEW i \in 1..Len(idx)
        PROVE  EntryAt(i) /\ idx[i].pos \in Nat /\ idx[i].pos <= CoveredEnd
    <3>1. i \in Nat /\ EntryAt(i)
      BY <1>2 DEF Leads
    <3>2. idx[i].pos \in Nat
      BY <1>1, <3>1, Numbers
    <3>3. CASE i = n
      <4>1. idx[i].pos = CoveredEnd
        BY <2>1, <3>3
      <4>2. QED
        BY <3>1, <3>2, <4>1
    <3>4. CASE i < n
      <4>1. idx[i].pos < idx[n].pos
        BY <1>1, <2>1, <2>3, <3>1, <3>4 DEF FilesInv, OrderInv
      <4>2. QED
        BY <2>1, <2>3, <3>1, <3>2, <4>1
    <3>5. QED
      BY <1>2, <2>1, <3>3, <3>4
  <2>5. ASSUME NEW q \in 1..CoveredEnd PROVE RecordAt(q)
    <3>1. CASE q = p
      BY <2>3, <3>1
    <3>2. CASE q # p
      <4>1. q \in 1..Len(events) /\ q # Len(events)
        BY <1>2, <2>3, <3>2
      <4>2. QED
        BY <1>1, <4>1 DEF FilesInv, TornInv, RecordAt
    <3>3. QED
      BY <3>1, <3>2
  <2>6. QED
    BY <1>2, <2>2, <2>3, <2>4, <2>5
<1>5. QED
  BY <1>3, <1>4

\* The entry of the first tail record at the end of the idx.
LEMMA TailEntry ==
    ASSUME Inv, phase = "repair", CoveredEnd < events_bytes, TailRecord # Torn,
           idx' = Append(idx, [id |-> TailRecord.id, pos |-> CoveredEnd + 1]),
           events' = events, hurt' = hurt,
           durable'.events = durable.events,
           durable'.idx \in Nat, durable.idx <= durable'.idx,
           phase' # "up"
    PROVE  /\ idx' \in Seq(Entries \cup {Torn}) /\ Len(idx') = Len(idx) + 1
           /\ FilesInv' /\ HoleInv' /\ CleanInv'
           /\ \A i \in 1..Len(idx') : \E q \in Nat : Leads(i, q)'
           /\ \A a \in acked : AckAt(a)'
           /\ "power" \notin hurt => \A a \in known : KnownAt(a)'
<1>1. /\ TypeOK /\ FilesInv /\ AckInv /\ KnownInv /\ HoleInv
      /\ Len(idx) \in Nat /\ Len(events) \in Nat
      /\ durable.events \in Nat /\ durable.idx \in Nat
  BY Numbers DEF Inv
<1>2. /\ CoveredEnd \in Nat /\ CoveredEnd <= Len(events) /\ Len(events) = events_bytes
      /\ \A i \in 1..Len(idx) : EntryAt(i) /\ idx[i].pos \in Nat /\ idx[i].pos <= CoveredEnd
  BY Covered
<1> PICK n \in Nat, p \in Nat : n = Len(idx) + 1 /\ p = CoveredEnd + 1
  BY <1>1, <1>2
<1> PICK e : e = [id |-> TailRecord.id, pos |-> p]
  OBVIOUS
<1>3. /\ n \in Nat /\ p \in Nat /\ p \in 1..Len(events) /\ RecordAt(p)
      /\ events[p] = TailRecord
  BY <1>1, <1>2 DEF RecordAt, TailRecord
<1>4. /\ e \in Entries /\ e.pos = p /\ e.id = events[p].id /\ e.pos > 0 /\ e.id > 0
      /\ e # Torn /\ e.id \in Nat
  <2>1. events[p].id \in Nat /\ events[p].id > 0
    BY <1>1, <1>3, Numbers DEF FilesInv, PositiveInv
  <2>2. e \in Entries
    BY <1>2, <1>3, <2>1 DEF Entries
  <2>3. QED
    BY <1>2, <1>3, <2>1, <2>2, TornAssumption DEF Entries
<1>5. /\ idx' \in Seq(Entries \cup {Torn}) /\ Len(idx') = n
      /\ \A k \in 1..Len(idx) : idx'[k] = idx[k]
      /\ idx'[n] = e
  <2> DEFINE C == Entries \cup {Torn}
  <2>1. idx \in Seq(C) /\ e \in C /\ idx' = Append(idx, e)
    BY <1>1, <1>4 DEF TypeOK
  <2> HIDE DEF C
  <2>2. /\ idx' \in Seq(C) /\ Len(idx') = Len(idx) + 1
        /\ \A k \in 1..Len(idx) : idx'[k] = idx[k]
        /\ idx'[Len(idx) + 1] = e
    BY <2>1, AppendKeeps
  <2>3. QED
    BY <2>2 DEF C
<1>6. \A i \in Nat : EntryAt(i) => i < n /\ i \in 1..Len(idx)
  BY <1>1 DEF EntryAt
<1>7. \A i \in Nat : EntryAt(i)' <=> \/ EntryAt(i) /\ idx'[i] = idx[i] /\ i < n
                                     \/ i = n /\ idx'[i] = e
  <2>1. \A i \in 1..n : i \in 1..Len(idx) \/ i = n
    BY <1>1
  <2>2. n \in 1..n
    BY <1>3
  <2>3. QED
    BY <1>1, <1>2, <1>4, <1>5, <1>6, <2>1, <2>2 DEF EntryAt
<1>8. \A q \in Nat : RecordAt(q)' <=> RecordAt(q)
  BY DEF RecordAt
<1>9. \A i \in Nat : EntryAt(i) => idx[i].pos < p /\ idx[i].pos \in Nat
  BY <1>2, <1>6
<1>10. \A i \in Nat : EntryAt(i) => idx[i].id <= e.id /\ idx[i].id \in Nat
  BY <1>1, <1>3, <1>4, <1>9, After, Numbers
<1>11. FilesInv'
  <2>1. PositiveInv' /\ OrderInv' /\ OwnInv' /\ RisingInv'
    <3>1. PositiveInv /\ OrderInv /\ OwnInv /\ RisingInv
      BY <1>1 DEF FilesInv
    <3>2. \A i \in Nat : EntryAt(i) /\ i < n => idx[i].pos < e.pos /\ idx[i].id <= e.id
      BY <1>4, <1>9, <1>10
    <3>3. RecordAt(e.pos) /\ events[e.pos].id = e.id
      BY <1>3, <1>4
    <3>4. e \in Entries /\ e.id > 0 /\ e.pos > 0
      BY <1>4
    <3>5. \A i \in Nat : EntryAt(i)' => \/ EntryAt(i) /\ idx'[i] = idx[i] /\ i < n
                                        \/ i = n /\ idx'[i] = e
      BY <1>7
    <3>6. TypeOK
      BY <1>1
    <3>7. QED
      BY <3>1, <3>2, <3>3, <3>4, <3>5, <3>6, NewEntry
  <2>2. TornInv'
    <3>1. \A i \in 1..Len(idx') : idx'[i] # Torn
      <4>1. \A i \in 1..Len(idx') : i \in 1..Len(idx) \/ i = n
        BY <1>1, <1>5
      <4>2. QED
        BY <1>2, <1>4, <1>5, <4>1 DEF EntryAt
    <3>2. QED
      BY <1>1, <3>1 DEF FilesInv, TornInv
  <2>3. QED
    BY <2>1, <2>2 DEF FilesInv
<1>12. \A i \in 1..Len(idx') : \E q \in Nat : Leads(i, q)'
  <2> SUFFICES ASSUME NEW i \in 1..Len(idx') PROVE \E q \in Nat : Leads(i, q)'
    OBVIOUS
  <2>1. CASE i = n
    <3>1. EntryAt(n)' /\ RecordAt(p)' /\ idx'[n].pos = p
      BY <1>3, <1>4, <1>5, <1>7, <1>8
    <3>2. QED
      BY <1>3, <2>1, <3>1 DEF Leads
  <2>2. CASE i \in 1..Len(idx)
    <3>1. PICK q \in Nat : Leads(i, q)
      BY <2>2 DEF Inv, RepairInv
    <3>2. Leads(i, q)'
      BY <1>5, <1>6, <1>7, <1>8, <2>2, <3>1 DEF Leads
    <3>3. QED
      BY <3>2
  <2>3. QED
    BY <1>1, <1>5, <2>1, <2>2
<1>13. CleanInv'
  BY <1>12 DEF CleanInv
<1>14. HoleInv'
  <2>1. ASSUME NEW i \in Nat, NEW q \in Nat, EntryAt(i), RecordAt(q), q < p,
               idx[i].pos < q, events[q].id = idx[i].id, "power" \notin hurt
        PROVE  \E j \in Nat : EntryAt(j)' /\ idx'[j].pos = q
    <3>1. \/ \A j \in Nat : EntryAt(j) => idx[j].pos < q
          \/ \E j \in Nat : EntryAt(j) /\ idx[j].pos = q
      BY <1>1, <2>1 DEF HoleInv
    <3>2. q <= CoveredEnd /\ Len(idx) # 0 /\ Len(idx) = idx_bytes
      BY <1>1, <1>2, <1>6, <2>1, Covered
    <3>3. EntryAt(idx_bytes) /\ idx[idx_bytes].pos = CoveredEnd /\ idx_bytes \in Nat
      BY <1>1, <3>2, Covered DEF Leads
    <3>4. PICK j \in Nat : EntryAt(j) /\ idx[j].pos = q
      <4>1. ~(CoveredEnd < q)
        BY <1>2, <3>2
      <4>2. QED
        BY <3>1, <3>3, <4>1
    <3>5. EntryAt(j)' /\ idx'[j].pos = q
      BY <1>5, <1>6, <1>7, <3>4
    <3>6. QED
      BY <3>5
  <2>2. EntryAt(n)' /\ idx'[n].pos = p
    BY <1>4, <1>5, <1>7
  <2>3. \A i \in Nat : EntryAt(i)' => (EntryAt(i) /\ idx'[i] = idx[i]) \/ idx'[i].pos = p
    BY <1>4, <1>7
  <2>4. \A i \in Nat : EntryAt(i) => idx[i].pos \in Nat
    BY <1>9
  <2>5. \A i \in Nat : EntryAt(i) /\ EntryAt(i)' /\ idx'[i] = idx[i] => idx[i].pos < p
    BY <1>9
  <2>6. \A i, q \in Nat :
              EntryAt(i) /\ EntryAt(i)' /\ idx'[i] = idx[i] /\ RecordAt(q) /\ q < p
                /\ idx[i].pos < q /\ events[q].id = idx[i].id /\ "power" \notin hurt'
              => \E j \in Nat : EntryAt(j)' /\ idx'[j].pos = q
    <3> SUFFICES ASSUME NEW i \in Nat, NEW q \in Nat, EntryAt(i), RecordAt(q), q < p,
                        idx[i].pos < q, events[q].id = idx[i].id, "power" \notin hurt
                 PROVE  \E j \in Nat : EntryAt(j)' /\ idx'[j].pos = q
      OBVIOUS
    <3>1. QED
      BY <2>1
  <2>7. QED
    BY <2>2, <2>3, <2>4, <2>5, <2>6, HoleFilled, ZenonT(120)
<1>15. /\ \A a \in acked : AckAt(a)'
       /\ "power" \notin hurt => \A a \in known : KnownAt(a)'
  <2>1. ASSUME NEW a \in acked \cup known, NEW i \in Nat, NEW r \in Nat, Placed(a, i, r)
        PROVE  Placed(a, i, r)'
    <3>1. EntryAt(i) /\ RecordAt(r) /\ idx[i].pos = r
      BY <2>1 DEF Placed, Leads
    <3>2. EntryAt(i)' /\ idx'[i] = idx[i] /\ RecordAt(r)' /\ events'[r] = events[r]
      BY <1>5, <1>6, <1>7, <1>8, <3>1
    <3>3. r < p
      BY <1>9, <3>1
    <3>4. a.id < e.id
      BY <1>3, <1>4, <2>1, <3>3 DEF Placed
    <3>5. \A j \in Nat : EntryAt(j)' /\ i < j =>
               (EntryAt(j) /\ idx'[j] = idx[j]) \/ a.id < idx'[j].id
      BY <1>7, <3>4
    <3>6. \A q \in Nat : RecordAt(q)' /\ r < q =>
               (RecordAt(q) /\ events'[q] = events[q]) \/ a.id < events'[q].id
      BY <1>8
    <3>7. QED
      BY <2>1, <3>2, <3>5, <3>6, PlacedKept
  <2>2. \A a \in acked \cup known : \A i, r \in Nat :
              Placed(a, i, r) /\ (phase = "up" => i <= idx_bytes) =>
                 /\ Placed(a, i, r)' /\ (phase' = "up" => i <= idx_bytes')
                 /\ i <= durable.idx => i <= durable'.idx
                 /\ r <= durable.events => r <= durable'.events
    BY <1>1, <2>1
  <2>3. \A i, j \in Nat :
              EntryAt(i) /\ (phase = "up" => i <= idx_bytes) /\ EntryAt(j)' /\ j < i =>
                 EntryAt(j) /\ idx'[j] = idx[j]
    BY <1>6, <1>7
  <2>4. QED
    BY <1>1, <2>2, <2>3, Carry
<1>16. QED
  BY <1>5, <1>11, <1>12, <1>13, <1>14, <1>15

\* An entry of the repair is written and fsynced.
LEMMA RepairRecordStep ==
    ASSUME Inv, RepairRecord
    PROVE  Inv'
<1>1. /\ TypeOK /\ phase = "repair" /\ CoveredEnd < events_bytes /\ TailRecord # Torn
      /\ idx' = Append(idx, [id |-> TailRecord.id, pos |-> CoveredEnd + 1])
      /\ durable' = [durable EXCEPT !.idx = Len(idx')]
      /\ idx_bytes' = idx_bytes + 1
      /\ UNCHANGED <<events, events_bytes, phase, pc, cur, by_id, by_stream, next_event_id,
                     status, acked, known, hurt>>
  BY DEF Inv, RepairRecord, ram
<1>2. /\ Len(idx) = idx_bytes /\ Len(events) = events_bytes
      /\ Len(idx) \in Nat /\ Len(events) \in Nat /\ pc = "idle"
      /\ durable \in [events : 0..Len(events), idx : 0..Len(idx)]
      /\ durable.idx \in Nat /\ durable.idx <= Len(idx)
  BY <1>1, Numbers DEF Inv, RepairInv, TypeOK
<1>3. Len(idx') = Len(idx) + 1
  BY <1>1, <1>2 DEF TypeOK
<1>4. durable'.events = durable.events /\ durable'.idx = Len(idx) + 1
  BY <1>1, <1>2, <1>3
<1>5. /\ idx' \in Seq(Entries \cup {Torn})
      /\ FilesInv' /\ HoleInv' /\ CleanInv'
      /\ \A i \in 1..Len(idx') : \E q \in Nat : Leads(i, q)'
      /\ \A a \in acked : AckAt(a)'
      /\ "power" \notin hurt => \A a \in known : KnownAt(a)'
  <2>1. durable'.idx \in Nat /\ durable.idx <= durable'.idx /\ phase' # "up"
    BY <1>1, <1>2, <1>4
  <2>2. QED
    BY <1>1, <1>4, <2>1, TailEntry
<1>6. TypeOK'
  <2>1. durable' \in [events : 0..Len(events'), idx : 0..Len(idx')]
    BY <1>1, <1>2, <1>3
  <2>2. FileTypes'
    BY <1>1, <1>5, <2>1 DEF TypeOK, FileTypes
  <2>3. ProcessTypes' /\ RamTypes' /\ ClientTypes'
    BY <1>1, <1>2 DEF TypeOK, ProcessTypes, RamTypes, ClientTypes
  <2>4. QED
    BY <2>2, <2>3 DEF TypeOK, FileTypes, ProcessTypes, RamTypes, ClientTypes
<1>7. RepairInv'
  BY <1>1, <1>2, <1>3, <1>5 DEF RepairInv
<1>8. UpInv' /\ AppendInv' /\ RamInv' /\ KilledStoreReopens'
  BY <1>1, <1>2 DEF UpInv, AppendInv, RamInv, KilledStoreReopens
<1>9. AckInv' /\ KnownInv'
  BY <1>1, <1>5 DEF AckInv, KnownInv
<1>10. QED
  BY <1>5, <1>6, <1>7, <1>8, <1>9 DEF Inv

\* The tail is cut off behind the last record that an entry covers.
LEMMA TailCut ==
    ASSUME Inv, phase = "repair", events' = Upto(events, CoveredEnd),
           idx' = idx, hurt' = hurt,
           durable'.idx = durable.idx, durable'.events \in Nat,
           durable.events <= durable'.events \/ CoveredEnd <= durable'.events,
           phase' # "up"
    PROVE  /\ events' \in Seq(Records \cup {Torn}) /\ Len(events') = CoveredEnd
           /\ FilesInv' /\ HoleInv' /\ CleanInv'
           /\ \A i \in 1..Len(idx') : \E q \in Nat : Leads(i, q)'
           /\ \A a \in acked : AckAt(a)'
           /\ "power" \notin hurt => \A a \in known : KnownAt(a)'
<1>1. /\ TypeOK /\ FilesInv /\ AckInv /\ KnownInv /\ HoleInv
      /\ Len(idx) \in Nat /\ Len(events) \in Nat
      /\ durable.events \in Nat /\ durable.idx \in Nat
  BY Numbers DEF Inv
<1>2. /\ CoveredEnd \in Nat /\ CoveredEnd <= Len(events)
      /\ \A i \in 1..Len(idx) : EntryAt(i) /\ idx[i].pos \in Nat /\ idx[i].pos <= CoveredEnd
      /\ \A q \in 1..CoveredEnd : RecordAt(q)
  BY Covered
<1>3. /\ events' \in Seq(Records \cup {Torn}) /\ Len(events') = CoveredEnd
      /\ \A k \in 1..CoveredEnd : events'[k] = events[k]
  <2> DEFINE C == Records \cup {Torn}
  <2>1. events \in Seq(C)
    BY <1>1 DEF TypeOK
  <2> HIDE DEF C
  <2>2. /\ events' \in Seq(C) /\ Len(events') = CoveredEnd
        /\ \A k \in 1..CoveredEnd : events'[k] = events[k]
    BY <1>2, <2>1, UptoKeeps
  <2>3. QED
    BY <2>2 DEF C
<1>4. \A q \in Nat : RecordAt(q)' <=> RecordAt(q) /\ q <= CoveredEnd
  BY <1>1, <1>2, <1>3 DEF RecordAt
<1>5. \A q \in Nat : RecordAt(q)' => RecordAt(q) /\ events'[q] = events[q]
  BY <1>3, <1>4 DEF RecordAt
<1>6. \A i \in Nat : (EntryAt(i)' <=> EntryAt(i)) /\ idx'[i] = idx[i]
  BY DEF EntryAt
<1>7. \A i \in Nat : EntryAt(i) => i \in 1..Len(idx) /\ idx[i].pos <= CoveredEnd
  BY <1>2 DEF EntryAt
<1>8. FilesInv'
  <2>1. PositiveInv' /\ OrderInv' /\ OwnInv' /\ RisingInv'
    BY <1>1, <1>5, <1>6, FewerCells DEF FilesInv
  <2>2. TornInv'
    <3>1. \A q \in 1..Len(events') : events'[q] # Torn
      BY <1>2, <1>3 DEF RecordAt
    <3>2. QED
      BY <1>1, <3>1 DEF FilesInv, TornInv
  <2>3. QED
    BY <2>1, <2>2 DEF FilesInv
<1>9. \A i, q \in Nat : Leads(i, q) => Leads(i, q)'
  BY <1>4, <1>6, <1>7 DEF Leads
<1>10. \A i \in 1..Len(idx') : \E q \in Nat : Leads(i, q)'
  <2>1. \A i \in 1..Len(idx) : i \in Nat /\ \E q \in Nat : Leads(i, q)
    BY <1>1 DEF Inv, RepairInv
  <2>2. QED
    BY <1>9, <2>1
<1>11. CleanInv'
  BY <1>10 DEF CleanInv
<1>12. HoleInv'
  BY <1>1, <1>5, <1>6 DEF HoleInv
<1>13. /\ \A a \in acked : AckAt(a)'
       /\ "power" \notin hurt => \A a \in known : KnownAt(a)'
  <2>1. \A a \in acked \cup known : \A i, p \in Nat : Placed(a, i, p) => Placed(a, i, p)'
    BY <1>5, <1>6, <1>9 DEF Placed, Leads
  <2>2. \A a \in acked \cup known : \A i, p \in Nat : Placed(a, i, p) => p <= CoveredEnd
    BY <1>7 DEF Placed, Leads
  <2>3. \A p \in Nat : p <= CoveredEnd /\ p <= durable.events => p <= durable'.events
    BY <1>1, <1>2
  <2>4. \A a \in acked \cup known : \A i, p \in Nat :
              Placed(a, i, p) /\ (phase = "up" => i <= idx_bytes) =>
                 /\ Placed(a, i, p)' /\ (phase' = "up" => i <= idx_bytes')
                 /\ i <= durable.idx => i <= durable'.idx
                 /\ p <= durable.events => p <= durable'.events
    BY <2>1, <2>2, <2>3
  <2>5. \A i, j \in Nat :
              EntryAt(i) /\ (phase = "up" => i <= idx_bytes) /\ EntryAt(j)' /\ j < i =>
                 EntryAt(j) /\ idx'[j] = idx[j]
    BY <1>6
  <2>6. durable'.idx \in Nat /\ durable'.events \in Nat /\ hurt \subseteq hurt'
    BY <1>1
  <2>7. QED
    BY <1>1, <2>4, <2>5, <2>6, Carry
<1>14. QED
  BY <1>3, <1>8, <1>10, <1>11, <1>12, <1>13

\* The truncation of the repair, fsynced.
LEMMA RepairTruncateStep ==
    ASSUME Inv, RepairTruncate
    PROVE  Inv'
<1>1. /\ TypeOK /\ phase = "repair"
      /\ events' = Upto(events, CoveredEnd)
      /\ durable' = [durable EXCEPT !.events = CoveredEnd]
      /\ events_bytes' = CoveredEnd
      /\ UNCHANGED <<idx, idx_bytes, phase, pc, cur, by_id, by_stream, next_event_id,
                     status, acked, known, hurt>>
  BY DEF Inv, RepairTruncate, ram
<1>2. /\ CoveredEnd \in Nat /\ Len(idx) = idx_bytes /\ Len(idx) \in Nat
      /\ durable \in [events : 0..Len(events), idx : 0..Len(idx)] /\ pc = "idle"
  BY <1>1, Covered, Numbers DEF TypeOK
<1>3. durable'.idx = durable.idx /\ durable'.events = CoveredEnd
  BY <1>1, <1>2
<1>4. /\ events' \in Seq(Records \cup {Torn}) /\ Len(events') = CoveredEnd
      /\ FilesInv' /\ HoleInv' /\ CleanInv'
      /\ \A i \in 1..Len(idx') : \E q \in Nat : Leads(i, q)'
      /\ \A a \in acked : AckAt(a)'
      /\ "power" \notin hurt => \A a \in known : KnownAt(a)'
  <2>1. durable'.events \in Nat /\ CoveredEnd <= durable'.events /\ phase' # "up"
    BY <1>1, <1>2, <1>3
  <2>2. QED
    BY <1>1, <1>3, <2>1, TailCut
<1>5. TypeOK'
  <2>1. durable' \in [events : 0..Len(events'), idx : 0..Len(idx')]
    BY <1>1, <1>2, <1>4
  <2>2. FileTypes'
    BY <1>1, <1>4, <2>1 DEF TypeOK, FileTypes
  <2>3. ProcessTypes' /\ RamTypes' /\ ClientTypes'
    BY <1>1, <1>2 DEF TypeOK, ProcessTypes, RamTypes, ClientTypes
  <2>4. QED
    BY <2>2, <2>3 DEF TypeOK, FileTypes, ProcessTypes, RamTypes, ClientTypes
<1>6. RepairInv'
  BY <1>1, <1>2, <1>4 DEF RepairInv
<1>7. UpInv' /\ AppendInv' /\ RamInv' /\ KilledStoreReopens'
  BY <1>1, <1>2 DEF UpInv, AppendInv, RamInv, KilledStoreReopens
<1>8. AckInv' /\ KnownInv'
  BY <1>1, <1>4 DEF AckInv, KnownInv
<1>9. QED
  BY <1>4, <1>5, <1>6, <1>7, <1>8 DEF Inv

\* An entry that is cut short adds no entry.
LEMMA TornEntry ==
    ASSUME Inv, \A i \in 1..Len(idx) : idx[i] # Torn,
           idx' = Append(idx, Torn), events' = events, durable' = durable,
           hurt' = hurt \cup {"short"},
           phase' = "up" => phase = "up" /\ idx_bytes' = idx_bytes
    PROVE  /\ idx' \in Seq(Entries \cup {Torn}) /\ Len(idx') = Len(idx) + 1
           /\ \A k \in 1..Len(idx) : idx'[k] = idx[k]
           /\ \A i \in Nat : EntryAt(i)' <=> EntryAt(i)
           /\ FilesInv' /\ HoleInv' /\ CleanInv'
           /\ \A a \in acked : AckAt(a)'
           /\ "power" \notin hurt => \A a \in known : KnownAt(a)'
<1>1. /\ TypeOK /\ FilesInv /\ AckInv /\ KnownInv /\ HoleInv
      /\ Len(idx) \in Nat
      /\ durable.events \in Nat /\ durable.idx \in Nat
  BY Numbers DEF Inv
<1>2. /\ idx' \in Seq(Entries \cup {Torn}) /\ Len(idx') = Len(idx) + 1
      /\ \A k \in 1..Len(idx) : idx'[k] = idx[k]
      /\ idx'[Len(idx) + 1] = Torn
  <2> DEFINE C == Entries \cup {Torn}
  <2>1. idx \in Seq(C) /\ Torn \in C
    BY <1>1 DEF TypeOK
  <2> HIDE DEF C
  <2>2. /\ idx' \in Seq(C) /\ Len(idx') = Len(idx) + 1
        /\ \A k \in 1..Len(idx) : idx'[k] = idx[k]
        /\ idx'[Len(idx) + 1] = Torn
    BY <2>1, AppendKeeps
  <2>3. QED
    BY <2>2 DEF C
<1>3. \A i \in 1..Len(idx') : i \in 1..Len(idx) \/ i = Len(idx) + 1
  BY <1>1, <1>2
<1>4. \A i \in Nat : /\ EntryAt(i)' <=> EntryAt(i)
                     /\ EntryAt(i) => idx'[i] = idx[i]
  <2>1. \A i \in 1..Len(idx) : i \in 1..Len(idx')
    BY <1>1, <1>2
  <2>2. QED
    BY <1>2, <1>3, <2>1 DEF EntryAt
<1>5. \A q \in Nat : RecordAt(q)' <=> RecordAt(q)
  BY DEF RecordAt
<1>6. FilesInv'
  <2>1. PositiveInv' /\ OrderInv' /\ OwnInv' /\ RisingInv'
    BY <1>1, <1>4, <1>5, FewerCells DEF FilesInv
  <2>2. TornInv'
    <3>1. \A i \in 1..Len(idx') : idx'[i] = Torn => i = Len(idx')
      BY <1>2, <1>3
    <3>2. QED
      BY <1>1, <3>1 DEF FilesInv, TornInv
  <2>3. QED
    BY <2>1, <2>2 DEF FilesInv
<1>7. CleanInv'
  BY DEF CleanInv
<1>8. HoleInv'
  <2>1. "power" \notin hurt' => "power" \notin hurt
    OBVIOUS
  <2>2. SUFFICES ASSUME "power" \notin hurt', NEW i \in Nat, NEW q \in Nat, EntryAt(i)',
                        RecordAt(q)', idx'[i].pos < q, events'[q].id = idx'[i].id
                 PROVE  \/ \A j \in Nat : EntryAt(j)' => idx'[j].pos < q
                        \/ \E j \in Nat : EntryAt(j)' /\ idx'[j].pos = q
    BY DEF HoleInv
  <2>3. \/ \A j \in Nat : EntryAt(j) => idx[j].pos < q
        \/ \E j \in Nat : EntryAt(j) /\ idx[j].pos = q
    <3>1. EntryAt(i) /\ RecordAt(q) /\ idx[i].pos < q /\ events[q].id = idx[i].id
      BY <1>4, <1>5, <2>2
    <3>2. QED
      BY <1>1, <2>1, <2>2, <3>1 DEF HoleInv
  <2>4. QED
    BY <1>4, <2>3
<1>9. /\ \A a \in acked : AckAt(a)'
      /\ "power" \notin hurt => \A a \in known : KnownAt(a)'
  <2>1. \A a \in acked \cup known : \A i, p \in Nat : Placed(a, i, p) => Placed(a, i, p)'
    BY <1>4, <1>5 DEF Placed, Leads
  <2>2. \A a \in acked \cup known : \A i, p \in Nat :
              Placed(a, i, p) /\ (phase = "up" => i <= idx_bytes) =>
                 /\ Placed(a, i, p)' /\ (phase' = "up" => i <= idx_bytes')
                 /\ i <= durable.idx => i <= durable'.idx
                 /\ p <= durable.events => p <= durable'.events
    BY <2>1
  <2>3. \A i, j \in Nat :
              EntryAt(i) /\ (phase = "up" => i <= idx_bytes) /\ EntryAt(j)' /\ j < i =>
                 EntryAt(j) /\ idx'[j] = idx[j]
    BY <1>4
  <2>4. /\ \A a \in acked : AckAt(a)'
        /\ "power" \notin hurt' => \A a \in known : KnownAt(a)'
    <3>1. durable'.idx \in Nat /\ durable'.events \in Nat /\ hurt \subseteq hurt'
      BY <1>1
    <3>2. QED
      BY <1>1, <2>2, <2>3, <3>1, Carry
  <2>5. "power" \notin hurt => "power" \notin hurt'
    OBVIOUS
  <2>6. QED
    BY <2>4, <2>5
<1>10. QED
  BY <1>2, <1>4, <1>6, <1>7, <1>8, <1>9

\* A write of the repair fails, and the process with it.
LEMMA RepairFailsStep ==
    ASSUME Inv, RepairFails
    PROVE  Inv'
<1>1. /\ TypeOK /\ phase = "repair" /\ CoveredEnd < events_bytes /\ ProcessGone
      /\ phase' # "up" /\ acked' = acked /\ known' = known
  BY DEF Inv, RepairFails, ProcessGone
<1>2. /\ ProcessTypes' /\ RamTypes' /\ ClientTypes'
      /\ RepairInv' /\ UpInv' /\ AppendInv' /\ RamInv' /\ KilledStoreReopens'
  BY <1>1, GoneKeeps
<1>3. /\ CoveredEnd \in Nat /\ Len(idx) \in Nat /\ Len(events) \in Nat
      /\ CoveredEnd <= Len(events)
      /\ \A i \in 1..Len(idx) : EntryAt(i)
      /\ durable \in [events : 0..Len(events), idx : 0..Len(idx)]
      /\ durable.events \in Nat /\ durable.idx \in Nat /\ durable.idx <= Len(idx)
      /\ durable.events <= Len(events)
  BY <1>1, Covered, Numbers DEF TypeOK
<1>4. /\ FileTypes'
      /\ FilesInv' /\ HoleInv' /\ CleanInv'
      /\ \A a \in acked : AckAt(a)'
      /\ "power" \notin hurt => \A a \in known : KnownAt(a)'
      /\ hurt \subseteq hurt'
  <2>1. CASE /\ TailRecord # Torn
             /\ idx' = Append(idx, Torn)
             /\ hurt' = hurt \cup {"short"}
             /\ UNCHANGED <<events, durable>>
    <3>1. /\ idx' \in Seq(Entries \cup {Torn}) /\ Len(idx') = Len(idx) + 1
          /\ FilesInv' /\ HoleInv' /\ CleanInv'
          /\ \A a \in acked : AckAt(a)'
          /\ "power" \notin hurt => \A a \in known : KnownAt(a)'
      BY <1>1, <1>3, <2>1, TornEntry DEF EntryAt
    <3>2. durable' \in [events : 0..Len(events'), idx : 0..Len(idx')]
      BY <1>3, <2>1, <3>1
    <3>3. FileTypes'
      BY <1>1, <2>1, <3>1, <3>2 DEF TypeOK, FileTypes
    <3>4. QED
      BY <2>1, <3>1, <3>3
  <2>2. CASE /\ TailRecord # Torn
             /\ idx' = Append(idx, [id |-> TailRecord.id, pos |-> CoveredEnd + 1])
             /\ hurt' = hurt
             /\ UNCHANGED <<events, durable>>
    <3>1. /\ idx' \in Seq(Entries \cup {Torn}) /\ Len(idx') = Len(idx) + 1
          /\ FilesInv' /\ HoleInv' /\ CleanInv'
          /\ \A a \in acked : AckAt(a)'
          /\ "power" \notin hurt => \A a \in known : KnownAt(a)'
      BY <1>1, <1>3, <2>2, TailEntry
    <3>2. durable' \in [events : 0..Len(events'), idx : 0..Len(idx')]
      BY <1>3, <2>2, <3>1
    <3>3. FileTypes'
      BY <1>1, <2>2, <3>1, <3>2 DEF TypeOK, FileTypes
    <3>4. QED
      BY <2>2, <3>1, <3>3
  <2>3. CASE /\ TailRecord = Torn
             /\ events' = Upto(events, CoveredEnd)
             /\ durable' = [durable EXCEPT !.events = Least(durable.events, CoveredEnd)]
             /\ UNCHANGED <<idx, hurt>>
    <3> DEFINE d == Least(durable.events, CoveredEnd)
    <3>1. d \in Nat /\ d <= CoveredEnd /\ (durable.events <= d \/ CoveredEnd <= d)
      BY <1>3 DEF Least
    <3> HIDE DEF d
    <3>2. durable'.idx = durable.idx /\ durable'.events = d
      BY <1>3, <2>3 DEF d
    <3>3. /\ events' \in Seq(Records \cup {Torn}) /\ Len(events') = CoveredEnd
          /\ FilesInv' /\ HoleInv' /\ CleanInv'
          /\ \A a \in acked : AckAt(a)'
          /\ "power" \notin hurt => \A a \in known : KnownAt(a)'
      BY <1>1, <2>3, <3>1, <3>2, TailCut
    <3>4. durable' \in [events : 0..Len(events'), idx : 0..Len(idx')]
      BY <1>3, <2>3, <3>1, <3>3 DEF d
    <3>5. FileTypes'
      BY <1>1, <2>3, <3>3, <3>4 DEF TypeOK, FileTypes
    <3>6. QED
      BY <2>3, <3>3, <3>5
  <2>4. QED
    <3>1. \/ /\ TailRecord # Torn
             /\ \E cell \in {Torn, [id |-> TailRecord.id, pos |-> CoveredEnd + 1]} :
                   /\ idx' = Append(idx, cell)
                   /\ hurt' = hurt \cup (IF cell = Torn THEN {"short"} ELSE {})
             /\ UNCHANGED <<events, durable>>
          \/ /\ TailRecord = Torn
             /\ events' = Upto(events, CoveredEnd)
             /\ durable' = [durable EXCEPT !.events = Least(durable.events, CoveredEnd)]
             /\ UNCHANGED <<idx, hurt>>
      BY DEF RepairFails
    <3>2. ASSUME TailRecord # Torn
          PROVE  [id |-> TailRecord.id, pos |-> CoveredEnd + 1] # Torn
      <4>1. RecordAt(CoveredEnd + 1) /\ events[CoveredEnd + 1] = TailRecord
        BY <1>1, <1>3, <3>2, Covered DEF RecordAt, TailRecord
      <4>2. TailRecord.id \in Nat
        BY <1>1, <1>3, <4>1, Numbers
      <4>3. [id |-> TailRecord.id, pos |-> CoveredEnd + 1] \in [id : Nat, pos : Nat]
        BY <1>3, <4>2
      <4>4. QED
        BY <4>3, TornAssumption
    <3>3. QED
      BY <2>1, <2>2, <2>3, <3>1, <3>2
<1>5. TypeOK'
  BY <1>2, <1>4 DEF TypeOK, FileTypes, ProcessTypes, RamTypes, ClientTypes
<1>6. AckInv' /\ KnownInv'
  BY <1>1, <1>4 DEF AckInv, KnownInv
<1>7. QED
  BY <1>2, <1>4, <1>5, <1>6 DEF Inv

-----------------------------------------------------------------------------
(* The load.                                                               *)

\* Entry c is the last of the idx to carry the id x.
LastEntry(x, c) ==
    /\ c \in 1..Len(idx) /\ idx[c].id = x
    /\ \A j \in 1..Len(idx) : idx[j].id = x => j <= c

\* An id that has entries has a last one, and by_id follows it.
LEMMA ByIdLast ==
    ASSUME TypeOK, NEW k \in 1..Len(idx)
    PROVE  \E c \in Nat :
              /\ LastEntry(idx[k].id, c)
              /\ idx[k].id \in DOMAIN ById(idx, events)
              /\ ById(idx, events)[idx[k].id] = events[idx[c].pos].req
<1> DEFINE x == idx[k].id
           K == {j \in 1..Len(idx) : idx[j].id = x}
           c == CHOOSE j \in 1..Len(idx) :
                    /\ idx[j].id = x
                    /\ \A l \in 1..Len(idx) : idx[l].id = x => l <= j
<1>1. Len(idx) \in Nat
  BY Numbers
<1>2. \E j \in K : \A l \in K : l <= j
  <2>1. K \in SUBSET (0..Len(idx)) /\ K # {}
    BY <1>1
  <2> HIDE DEF K
  <2>2. QED
    BY <1>1, <2>1, Greatest
<1>3. \E j \in 1..Len(idx) : idx[j].id = x /\ \A l \in 1..Len(idx) : idx[l].id = x => l <= j
  BY <1>2
<1>4. /\ c \in 1..Len(idx) /\ idx[c].id = x
      /\ \A l \in 1..Len(idx) : idx[l].id = x => l <= c
  BY <1>3
<1>5. /\ x \in DOMAIN ById(idx, events)
      /\ ById(idx, events)[x] = events[idx[c].pos].req
  BY DEF ById
<1> HIDE DEF c
<1>6. c \in Nat
  BY <1>1, <1>4
<1>7. QED
  BY <1>4, <1>5, <1>6 DEF LastEntry

\* Two last entries of an id are one.
LEMMA LastEntryUnique ==
    ASSUME TypeOK, NEW x, NEW b, NEW c, LastEntry(x, b), LastEntry(x, c)
    PROVE  b = c
<1>1. Len(idx) \in Nat
  BY Numbers
<1>2. b \in 1..Len(idx) /\ c \in 1..Len(idx) /\ b <= c /\ c <= b
  BY DEF LastEntry
<1>3. QED
  BY <1>1, <1>2

\* The maps that load builds have their types.
LEMMA ByIdType ==
    ASSUME Inv, phase = "repair", NEW n \in Nat,
           \A k \in 1..Len(idx) : idx[k].id \in 1..n
    PROVE  /\ ById(idx, events) \in UNION {[D -> Reqs] : D \in SUBSET (1..n)}
           /\ \A x \in DOMAIN ById(idx, events) : \E k \in 1..Len(idx) : idx[k].id = x
           /\ ByStream(idx, events) \in Seq([id : Nat, stream : Streams])
           /\ Len(ByStream(idx, events)) = Len(idx)
           /\ \A k \in 1..Len(idx) : ByStream(idx, events)[k]
                  = [id |-> idx[k].id, stream |-> StreamOf[events[idx[k].pos].req]]
<1> DEFINE D == {idx[k].id : k \in 1..Len(idx)}
           f == ById(idx, events)
           g == ByStream(idx, events)
<1>1. TypeOK /\ Len(idx) \in Nat
  BY Numbers DEF Inv
<1>2. \A k \in 1..Len(idx) : events[idx[k].pos].req \in Reqs
  <2>1. \A k \in 1..Len(idx) : \E q \in Nat : RecordAt(q) /\ idx[k].pos = q
    BY Covered DEF Inv, RepairInv, Leads
  <2>2. \A q \in Nat : RecordAt(q) => events[q].req \in Reqs
    BY <1>1, Numbers DEF Records
  <2>3. QED
    BY <2>1, <2>2
<1>3. DOMAIN f = D /\ f = [x \in D |-> f[x]]
  BY DEF ById
<1>4. ASSUME NEW x \in D PROVE f[x] \in Reqs
  <2>1. PICK k \in 1..Len(idx) : idx[k].id = x
    OBVIOUS
  <2>2. PICK c \in Nat : LastEntry(idx[k].id, c) /\ f[idx[k].id] = events[idx[c].pos].req
    BY <1>1, ByIdLast
  <2>3. QED
    BY <1>2, <2>1, <2>2 DEF LastEntry
<1>5. D \in SUBSET (1..n)
  OBVIOUS
<1>6. f \in [D -> Reqs]
  BY <1>3, <1>4
<1>7. f \in UNION {[E -> Reqs] : E \in SUBSET (1..n)}
  <2> HIDE DEF D, f
  <2>1. QED
    BY <1>5, <1>6
<1>8. g = [k \in 1..Len(idx) |-> [id |-> idx[k].id, stream |-> StreamOf[events[idx[k].pos].req]]]
  BY DEF ByStream
<1>9. \A k \in 1..Len(idx) :
         [id |-> idx[k].id, stream |-> StreamOf[events[idx[k].pos].req]]
            \in [id : Nat, stream : Streams]
  BY <1>2, StreamOfAssumption
<1>10. g \in Seq([id : Nat, stream : Streams]) /\ Len(g) = Len(idx)
  BY <1>1, <1>8, <1>9
<1>11. \A x \in DOMAIN f : \E k \in 1..Len(idx) : idx[k].id = x
  BY <1>3
<1>12. QED
  BY <1>7, <1>8, <1>10, <1>11

\* max_id + 1 is above every id of the idx, and at 1 for an empty one.
LEMMA NextIdAbove ==
    ASSUME Inv, phase = "repair"
    PROVE  /\ NextId(idx) \in Nat /\ NextId(idx) > 0
           /\ \A k \in 1..Len(idx) : idx[k].id \in 1..(NextId(idx) - 1)
<1> DEFINE ids == {0} \cup {idx[k].id : k \in 1..Len(idx)}
           m == CHOOSE m \in ids : \A i \in ids : i <= m
<1>1. TypeOK /\ FilesInv /\ Len(idx) \in Nat /\ Len(idx) = idx_bytes
  BY Numbers, Covered DEF Inv
<1>2. \A k \in 1..Len(idx) : k \in Nat /\ EntryAt(k)
  BY <1>1, Covered
<1>3. \A k \in 1..Len(idx) : idx[k].id \in Nat /\ idx[k].id > 0
  BY <1>1, <1>2, Numbers DEF FilesInv, PositiveInv
<1>4. \E t \in ids : \A i \in ids : i <= t
  <2>1. CASE Len(idx) = 0
    BY <2>1
  <2>2. CASE Len(idx) # 0
    <3> DEFINE n == Len(idx)
    <3>1. n \in 1..Len(idx)
      BY <1>1, <2>2
    <3>2. \A k \in 1..Len(idx) : idx[k].id <= idx[n].id
      <4> SUFFICES ASSUME NEW k \in 1..Len(idx) PROVE idx[k].id <= idx[n].id
        OBVIOUS
      <4>1. CASE k = n
        BY <1>3, <3>1, <4>1
      <4>2. CASE k < n
        BY <1>1, <1>2, <3>1, <4>2 DEF FilesInv, OrderInv
      <4>3. QED
        BY <1>1, <4>1, <4>2
    <3>3. 0 <= idx[n].id
      BY <1>3, <3>1
    <3>4. \A i \in ids : i <= idx[n].id
      BY <3>2, <3>3
    <3>5. idx[n].id \in ids
      BY <3>1
    <3>6. QED
      BY <3>4, <3>5
  <2>3. QED
    BY <2>1, <2>2
<1>5. m \in ids /\ \A i \in ids : i <= m
  BY <1>4
<1>6. NextId(idx) = m + 1
  BY DEF NextId
<1> HIDE DEF m
<1>7. m \in Nat
  BY <1>3, <1>5
<1>8. \A k \in 1..Len(idx) : idx[k].id <= m
  BY <1>5
<1>9. QED
  BY <1>3, <1>6, <1>7, <1>8

\* What load takes up is the last of its id, in the idx and in events.bin.
LEMMA LoadedPlaced ==
    ASSUME Inv, phase = "repair", CoveredEnd = events_bytes, "power" \notin hurt,
           NEW x, NEW c \in Nat, LastEntry(x, c), x \in Nat,
           NEW a \in Records, a.id = x, a.req = events[idx[c].pos].req
    PROVE  \E p \in Nat : Placed(a, c, p)
<1>1. TypeOK /\ FilesInv /\ HoleInv /\ Len(idx) \in Nat /\ Len(events) \in Nat
  BY Numbers DEF Inv
<1>2. /\ \A i \in 1..Len(idx) : EntryAt(i) /\ idx[i].pos \in Nat
      /\ Len(idx) = idx_bytes /\ Len(events) = CoveredEnd
      /\ idx_bytes # 0 => Leads(idx_bytes, CoveredEnd)
  BY Covered
<1>3. c \in 1..Len(idx) /\ idx[c].id = x
  BY DEF LastEntry
<1>4. PICK p \in Nat : Leads(c, p)
  BY <1>2, <1>3 DEF Inv, RepairInv
<1>5. EntryAt(c) /\ RecordAt(p) /\ idx[c].pos = p
  BY <1>4 DEF Leads
<1>6. events[p] = a
  <2>1. events[p].id = x /\ events[p] \in Records
    BY <1>1, <1>3, <1>4, <1>5, Numbers DEF FilesInv, OwnInv
  <2>2. events[p].req = a.req
    BY <1>5
  <2>3. \A r, s \in Records : r.id = s.id /\ r.req = s.req => r = s
    BY DEF Records
  <2>4. QED
    BY <2>1, <2>2, <2>3
<1>7. ASSUME NEW j \in Nat, EntryAt(j), c < j PROVE x < idx[j].id
  <2>1. j \in 1..Len(idx)
    BY <1>7 DEF EntryAt
  <2>2. idx[j].id # x
    BY <1>7, <2>1 DEF LastEntry
  <2>3. x <= idx[j].id /\ idx[j].id \in Nat
    BY <1>1, <1>3, <1>5, <1>7, Numbers DEF FilesInv, OrderInv
  <2>4. QED
    BY <2>2, <2>3
<1>8. ASSUME NEW q \in Nat, RecordAt(q), p < q PROVE x < events[q].id
  <2>1. x <= events[q].id /\ events[q].id \in Nat
    BY <1>1, <1>3, <1>5, <1>8, After, Numbers
  <2>2. events[q].id # x
    <3> SUFFICES ASSUME events[q].id = x PROVE FALSE
      OBVIOUS
    <3>1. \/ \A j \in Nat : EntryAt(j) => idx[j].pos < q
          \/ \E j \in Nat : EntryAt(j) /\ idx[j].pos = q
      BY <1>1, <1>3, <1>5, <1>8 DEF HoleInv
    <3>2. idx_bytes \in Nat /\ EntryAt(idx_bytes) /\ idx[idx_bytes].pos = CoveredEnd
      BY <1>1, <1>2, <1>3 DEF Leads
    <3>3. q <= CoveredEnd
      BY <1>2, <1>8 DEF RecordAt
    <3>4. ~(CoveredEnd < q)
      BY <1>1, <1>2, <3>3
    <3>5. PICK j \in Nat : EntryAt(j) /\ idx[j].pos = q
      BY <3>1, <3>2, <3>4
    <3>6. Leads(j, q)
      BY <1>8, <3>5 DEF Leads
    <3>7. idx[j].id = x
      BY <1>1, <3>6 DEF FilesInv, OwnInv
    <3>8. j <= c
      BY <3>5, <3>7 DEF LastEntry, EntryAt
    <3>9. idx[j].pos <= p
      <4>1. CASE j = c
        BY <1>5, <4>1
      <4>2. CASE j < c
        <5>1. idx[j].pos < idx[c].pos
          BY <1>1, <1>5, <3>5, <4>2 DEF FilesInv, OrderInv
        <5>2. QED
          BY <1>5, <3>5, <5>1
      <4>3. QED
        BY <3>8, <4>1, <4>2
    <3>10. QED
      BY <1>8, <3>5, <3>9
  <2>3. QED
    BY <2>1, <2>2
<1>9. QED
  BY <1>3, <1>4, <1>6, <1>7, <1>8 DEF Placed

\* The load absorbs the idx and the service starts.
LEMMA LoadDoneStep ==
    ASSUME Inv, LoadDone
    PROVE  Inv'
<1>1. /\ TypeOK /\ FilesInv /\ phase = "repair" /\ CoveredEnd = events_bytes
      /\ by_id' = ById(idx, events)
      /\ by_stream' = ByStream(idx, events)
      /\ next_event_id' = NextId(idx)
      /\ known' = known \cup {[id |-> i, req |-> by_id'[i]] : i \in DOMAIN by_id'}
      /\ phase' = "up"
      /\ UNCHANGED <<events, idx, durable, events_bytes, idx_bytes, pc, cur, status, acked, hurt>>
  BY DEF Inv, LoadDone, files, sizes
<1>2. /\ Len(idx) \in Nat /\ Len(events) \in Nat /\ pc = "idle"
      /\ Len(idx) = idx_bytes /\ Len(events) = events_bytes
      /\ \A i \in 1..Len(idx) : EntryAt(i) /\ idx[i].pos \in Nat /\ idx[i].pos <= events_bytes
      /\ \A q \in 1..events_bytes : RecordAt(q)
      /\ idx_bytes # 0 => Leads(idx_bytes, events_bytes)
  BY <1>1, Covered, Numbers DEF TypeOK
<1>3. /\ next_event_id' \in Nat /\ next_event_id' > 0
      /\ \A k \in 1..Len(idx) : idx[k].id \in 1..(next_event_id' - 1)
  BY <1>1, NextIdAbove
<1>4. /\ by_id' \in UNION {[D -> Reqs] : D \in SUBSET (1..(next_event_id' - 1))}
      /\ \A x \in DOMAIN by_id' : \E k \in 1..Len(idx) : idx[k].id = x
      /\ by_stream' \in Seq([id : Nat, stream : Streams])
      /\ Len(by_stream') = Len(idx)
      /\ \A k \in 1..Len(idx) : by_stream'[k]
             = [id |-> idx[k].id, stream |-> StreamOf[events[idx[k].pos].req]]
  <2> DEFINE n == next_event_id' - 1
  <2>1. n \in Nat /\ \A k \in 1..Len(idx) : idx[k].id \in 1..n
    <3>1. \A m \in Nat : m > 0 => m - 1 \in Nat
      OBVIOUS
    <3>2. n \in Nat
      <4>1. next_event_id' \in Nat /\ next_event_id' > 0
        BY <1>3
      <4>2. QED
        BY <3>1, <4>1
    <3>3. QED
      BY <1>3, <3>2
  <2> HIDE DEF n
  <2>2. /\ ById(idx, events) \in UNION {[D -> Reqs] : D \in SUBSET (1..n)}
        /\ \A x \in DOMAIN ById(idx, events) : \E k \in 1..Len(idx) : idx[k].id = x
        /\ ByStream(idx, events) \in Seq([id : Nat, stream : Streams])
        /\ Len(ByStream(idx, events)) = Len(idx)
        /\ \A k \in 1..Len(idx) : ByStream(idx, events)[k]
               = [id |-> idx[k].id, stream |-> StreamOf[events[idx[k].pos].req]]
    BY <1>1, <2>1, ByIdType
  <2>3. QED
    BY <1>1, <2>2 DEF n
<1>5. \A x \in DOMAIN by_id' : x \in Nat /\ by_id'[x] \in Reqs
  <2>1. \A x \in DOMAIN by_id' : x \in Nat
    BY <1>3, <1>4
  <2>2. \A x \in DOMAIN by_id' : by_id'[x] \in Reqs
    BY <1>4
  <2>3. QED
    BY <2>1, <2>2
<1>6. TypeOK'
  <2>1. FileTypes' /\ ProcessTypes'
    BY <1>1, <1>2 DEF TypeOK, FileTypes, ProcessTypes
  <2>2. RamTypes'
    <3>1. next_event_id' \in Nat \ {0}
      BY <1>3
    <3>2. QED
      BY <1>4, <3>1 DEF RamTypes
  <2>3. known' \subseteq Records
    <3>1. \A x \in DOMAIN by_id' : [id |-> x, req |-> by_id'[x]] \in Records
      BY <1>5 DEF Records
    <3>2. QED
      BY <1>1, <3>1 DEF TypeOK
  <2>4. ClientTypes'
    BY <1>1, <2>3 DEF TypeOK, ClientTypes
  <2>5. QED
    BY <2>1, <2>2, <2>4 DEF TypeOK, FileTypes, ProcessTypes, RamTypes, ClientTypes
<1>7. /\ FilesInv' /\ HoleInv' /\ CleanInv'
      /\ \A a \in acked : AckAt(a)'
      /\ "power" \notin hurt => \A a \in known : KnownAt(a)'
  <2>1. /\ durable'.idx \in Nat /\ durable'.events \in Nat
        /\ durable.idx <= durable'.idx /\ durable.events <= durable'.events
    BY <1>1, Numbers
  <2>2. idx_bytes' \in Nat /\ phase # "up" /\ Len(idx) <= idx_bytes'
    BY <1>1, <1>2
  <2>3. QED
    BY <1>1, <2>1, <2>2, SameFiles
<1>8. \A i \in Nat : (EntryAt(i)' <=> EntryAt(i)) /\ (RecordAt(i)' <=> RecordAt(i))
  BY <1>1 DEF EntryAt, RecordAt
<1>9. AckInv'
  BY <1>1, <1>7 DEF AckInv
<1>10. KnownInv'
  <2>1. SUFFICES ASSUME "power" \notin hurt, NEW x \in DOMAIN by_id', NEW a,
                        a = [id |-> x, req |-> by_id'[x]]
                 PROVE  KnownAt(a)'
    BY <1>1, <1>7 DEF KnownInv
  <2>2. a \in Records /\ a.id = x /\ a.req = by_id'[x] /\ x \in Nat
    BY <1>5, <2>1 DEF Records
  <2>3. PICK k \in 1..Len(idx) : idx[k].id = x
    BY <1>4
  <2>4. PICK c \in Nat : LastEntry(x, c) /\ by_id'[x] = events[idx[c].pos].req
    BY <1>1, <2>3, ByIdLast
  <2>5. PICK p \in Nat : Placed(a, c, p)
    BY <1>1, <2>1, <2>2, <2>4, LoadedPlaced
  <2>6. Placed(a, c, p)'
    BY <1>1, <1>8, <2>5 DEF Placed, Leads
  <2>7. c <= idx_bytes'
    BY <1>1, <1>2, <2>4 DEF LastEntry
  <2>8. QED
    BY <2>6, <2>7 DEF KnownAt
<1>11. RepairInv' /\ AppendInv' /\ KilledStoreReopens'
  BY <1>1, <1>2 DEF RepairInv, AppendInv, KilledStoreReopens
<1>12. RamInv'
  <2>1. ASSUME NEW k \in 1..idx_bytes, \A j \in 1..idx_bytes : idx[j].id = idx[k].id => j <= k
        PROVE  by_id'[idx[k].id] = events[idx[k].pos].req
    <3>1. PICK c \in Nat : LastEntry(idx[k].id, c) /\ by_id'[idx[k].id] = events[idx[c].pos].req
      BY <1>1, <1>2, ByIdLast
    <3>2. LastEntry(idx[k].id, k)
      BY <1>2, <2>1 DEF LastEntry
    <3>3. c = k
      BY <1>1, <3>1, <3>2, LastEntryUnique
    <3>4. QED
      BY <3>1, <3>3
  <2>2. \A x \in Nat : x \in DOMAIN by_id' <=> \E k \in 1..idx_bytes : idx[k].id = x
    <3>1. \A k \in 1..Len(idx) : idx[k].id \in DOMAIN by_id'
      BY <1>1, ByIdLast
    <3>2. QED
      BY <1>2, <1>4, <3>1
  <2>3. QED
    BY <1>1, <1>2, <1>4, <2>1, <2>2 DEF RamInv
<1>13. UpInv'
  <2>1. events_bytes <= Len(events) /\ idx_bytes <= Len(idx) /\ Len(idx) <= idx_bytes + 1
    BY <1>2
  <2>2. /\ \A q \in 1..events_bytes : events[q] # Torn
        /\ \A i \in 1..idx_bytes : idx[i] # Torn /\ idx[i].id < next_event_id'
    BY <1>2, <1>3 DEF EntryAt, RecordAt
  <2>3. \A i \in Nat : EntryAt(i) => idx[i].pos <= events_bytes /\ i <= idx_bytes
    BY <1>2 DEF EntryAt
  <2>4. ASSUME NEW q \in Nat, RecordAt(q)
        PROVE  /\ events[q].id <= next_event_id'
               /\ ~(\A i \in 1..idx_bytes : idx[i].pos < q)
    <3>1. q \in 1..events_bytes
      BY <1>2, <2>4 DEF RecordAt
    <3>2. idx_bytes # 0
      <4>1. CoveredEnd > 0
        BY <1>1, <1>2, <3>1
      <4>2. QED
        BY <4>1 DEF CoveredEnd
    <3>3. /\ Leads(idx_bytes, events_bytes) /\ idx_bytes \in 1..Len(idx)
          /\ idx_bytes \in Nat /\ events_bytes \in Nat
      BY <1>2, <3>2
    <3>4. RecordAt(events_bytes) /\ idx[idx_bytes].pos = events_bytes
      BY <3>3 DEF Leads
    <3>5. events[events_bytes].id = idx[idx_bytes].id
      BY <1>1, <3>3 DEF FilesInv, OwnInv
    <3>6. events[q].id <= events[events_bytes].id /\ events[q].id \in Nat
      <4>1. events[q].id \in Nat
        BY <1>1, <2>4, Numbers
      <4>2. CASE q = events_bytes
        BY <4>1, <4>2
      <4>3. CASE q < events_bytes
        BY <1>1, <2>4, <3>3, <3>4, <4>1, <4>3 DEF FilesInv, RisingInv
      <4>4. QED
        BY <3>1, <3>3, <4>2, <4>3
    <3>7. idx[idx_bytes].id \in 1..(next_event_id' - 1)
      BY <1>3, <3>3
    <3>8. events[q].id <= next_event_id'
      BY <1>3, <3>5, <3>6, <3>7
    <3>9. ~(idx[idx_bytes].pos < q)
      BY <3>1, <3>3, <3>4
    <3>10. QED
      BY <1>2, <3>3, <3>8, <3>9
  <2>5. \A i \in Nat : EntryAt(i) => ~(i > idx_bytes)
    BY <1>2, <2>3
  <2>6. QED
    BY <1>1, <1>8, <2>1, <2>2, <2>3, <2>4, <2>5 DEF UpInv
<1>14. QED
  BY <1>6, <1>7, <1>9, <1>10, <1>11, <1>12, <1>13 DEF Inv

-----------------------------------------------------------------------------
(* The append.                                                             *)

\* A request is refused, or its append begins: nothing is written yet.
LEMMA BeginStep ==
    ASSUME Inv, NEW r \in Reqs, RejectAppend(r) \/ BeginAppend(r)
    PROVE  Inv'
<1>1. /\ TypeOK /\ phase = "up" /\ pc = "idle"
      /\ UNCHANGED <<events, idx, durable, phase, events_bytes, idx_bytes, by_id, by_stream,
                     next_event_id, acked, known, hurt>>
  BY DEF Inv, RejectAppend, BeginAppend, files, sizes, ram
<1>2. TypeOK'
  <2>1. FileTypes' /\ RamTypes'
    BY <1>1 DEF TypeOK, FileTypes, RamTypes
  <2>2. ClientTypes'
    BY <1>1 DEF TypeOK, ClientTypes, RejectAppend, BeginAppend
  <2>3. ProcessTypes'
    <3>1. CASE RejectAppend(r)
      BY <1>1, <3>1 DEF TypeOK, ProcessTypes, RejectAppend
    <3>2. CASE BeginAppend(r)
      <4>1. cur' \in Records
        BY <1>1, <3>2, Numbers DEF BeginAppend, Records
      <4>2. cur' # None
        BY <4>1, NoneAssumption DEF Records
      <4>3. QED
        BY <1>1, <3>2, <4>1, <4>2 DEF TypeOK, ProcessTypes, BeginAppend
    <3>3. QED
      BY <3>1, <3>2
  <2>4. QED
    BY <2>1, <2>2, <2>3 DEF TypeOK, FileTypes, ProcessTypes, RamTypes, ClientTypes
<1>3. /\ FilesInv' /\ HoleInv' /\ CleanInv'
      /\ \A a \in acked : AckAt(a)'
      /\ "power" \notin hurt => \A a \in known : KnownAt(a)'
  <2>1. /\ durable'.idx \in Nat /\ durable'.events \in Nat
        /\ durable.idx <= durable'.idx /\ durable.events <= durable'.events
        /\ idx_bytes' \in Nat /\ idx_bytes <= idx_bytes'
    BY <1>1, Numbers
  <2>2. QED
    BY <1>1, <2>1, SameFiles
<1>4. AckInv' /\ KnownInv'
  BY <1>1, <1>3 DEF AckInv, KnownInv
<1>5. \A i \in Nat : (EntryAt(i)' <=> EntryAt(i)) /\ (RecordAt(i)' <=> RecordAt(i))
  BY <1>1 DEF EntryAt, RecordAt
<1>6. UpInv'
  BY <1>1, <1>5 DEF Inv, UpInv
<1>7. RepairInv' /\ KilledStoreReopens' /\ RamInv'
  BY <1>1 DEF Inv, RepairInv, KilledStoreReopens, RamInv
<1>8. AppendInv'
  BY <1>1 DEF AppendInv, RejectAppend, BeginAppend
<1>9. QED
  BY <1>2, <1>3, <1>4, <1>6, <1>7, <1>8 DEF Inv

\* Whatever is written behind the counted part of events.bin disturbs nothing
\* that an entry leads to.
LEMMA EventsBehind ==
    ASSUME Inv, phase = "up", phase' = "up",
           UNCHANGED <<idx, events_bytes, idx_bytes, by_id, by_stream, next_event_id, hurt>>,
           Len(events') \in Nat, events_bytes <= Len(events'),
           \A q \in 1..events_bytes : events'[q] = events[q],
           \A q \in 1..Len(events') : events'[q] = Torn => q = Len(events'),
           \A q \in Nat : RecordAt(q)' /\ events_bytes < q =>
              \/ RecordAt(q) /\ events'[q] = events[q] /\ events' = events
              \/ q = events_bytes + 1 /\ events'[q] = cur /\ cur \in Records
                                      /\ cur.id = next_event_id,
           durable'.idx = durable.idx,
           durable'.events = Least(durable.events, events_bytes) \/ durable' = durable
    PROVE  /\ FilesInv' /\ HoleInv' /\ CleanInv' /\ UpInv' /\ RamInv'
           /\ \A a \in acked : AckAt(a)'
           /\ "power" \notin hurt => \A a \in known : KnownAt(a)'
<1> PICK n \in Nat : n = events_bytes + 1
  BY Numbers DEF Inv
<1>1. /\ TypeOK /\ FilesInv /\ AckInv /\ KnownInv /\ HoleInv /\ UpInv /\ RamInv
      /\ Len(idx) \in Nat /\ Len(events) \in Nat
      /\ events_bytes \in Nat /\ idx_bytes \in Nat /\ next_event_id \in Nat
      /\ next_event_id > 0
      /\ durable.events \in Nat /\ durable.idx \in Nat
  BY Numbers DEF Inv
<1>2. /\ events_bytes <= Len(events)
      /\ \A q \in 1..events_bytes : events[q] # Torn
      /\ \A i \in 1..idx_bytes : idx[i] # Torn /\ idx[i].id < next_event_id
      /\ idx_bytes <= Len(idx) /\ Len(idx) <= idx_bytes + 1
      /\ \A i \in Nat : EntryAt(i) => idx[i].pos <= events_bytes
      /\ \A i \in Nat : EntryAt(i) /\ i > idx_bytes => idx[i].id = next_event_id
      /\ \A q \in Nat : RecordAt(q) => events[q].id <= next_event_id
  BY <1>1 DEF UpInv
<1>3. \A q \in 1..events_bytes : RecordAt(q) /\ RecordAt(q)'
  BY <1>1, <1>2 DEF RecordAt
<1>4. \A i \in Nat : EntryAt(i)' <=> EntryAt(i)
  BY DEF EntryAt
<1>5. \A i \in Nat : EntryAt(i) =>
         idx[i].pos \in 1..events_bytes /\ idx[i].pos < n /\ idx[i].pos \in Nat
  BY <1>1, <1>2, Numbers DEF FilesInv, PositiveInv
<1>6. \A q \in Nat : RecordAt(q)' => \/ RecordAt(q) /\ events'[q] = events[q]
                                     \/ q = n /\ events'[q] = cur /\ cur \in Records
                                              /\ cur.id = next_event_id
  <2> SUFFICES ASSUME NEW q \in Nat, RecordAt(q)'
               PROVE  \/ RecordAt(q) /\ events'[q] = events[q]
                      \/ q = n /\ events'[q] = cur /\ cur \in Records /\ cur.id = next_event_id
    OBVIOUS
  <2>1. CASE events_bytes < q
    BY <2>1
  <2>2. CASE q <= events_bytes
    <3>1. q \in 1..events_bytes
      BY <1>1, <2>2 DEF RecordAt
    <3>2. QED
      BY <1>3, <3>1
  <2>3. QED
    BY <1>1, <2>1, <2>2
<1>7. FilesInv'
  <2>1. TornInv'
    BY <1>1 DEF FilesInv, TornInv
  <2>2. PositiveInv' /\ OrderInv' /\ OwnInv'
    <3>1. PositiveInv'
      BY <1>1, <1>4, <1>6 DEF FilesInv, PositiveInv
    <3>2. OrderInv'
      BY <1>1, <1>4 DEF FilesInv, OrderInv
    <3>3. OwnInv'
      <4>1. \A i, q \in Nat : Leads(i, q)' => Leads(i, q) /\ events'[q] = events[q]
        BY <1>3, <1>4, <1>5 DEF Leads
      <4>2. QED
        BY <1>1, <4>1 DEF FilesInv, OwnInv
    <3>4. QED
      BY <3>1, <3>2, <3>3
  <2>3. RisingInv'
    <3> SUFFICES ASSUME NEW p \in Nat, NEW q \in Nat, RecordAt(p)', RecordAt(q)', p < q
                 PROVE  events'[p].id <= events'[q].id
      BY DEF RisingInv
    <3>1. CASE events' = events
      <4>1. RecordAt(p) /\ RecordAt(q)
        BY <3>1 DEF RecordAt
      <4>2. QED
        BY <1>1, <3>1, <4>1 DEF FilesInv, RisingInv
    <3>2. CASE events' # events
      <4>1. p \in 1..events_bytes
        <5>1. q <= events_bytes + 1
          BY <1>1, <3>2
        <5>2. QED
          BY <1>1, <5>1 DEF RecordAt
      <4>2. RecordAt(p) /\ events'[p] = events[p]
        BY <1>3, <4>1
      <4>3. CASE RecordAt(q) /\ events'[q] = events[q]
        BY <1>1, <4>2, <4>3 DEF FilesInv, RisingInv
      <4>4. CASE events'[q] = cur /\ cur.id = next_event_id
        BY <1>2, <4>2, <4>4
      <4>5. QED
        BY <1>6, <4>3, <4>4
    <3>3. QED
      BY <3>1, <3>2
  <2>4. QED
    BY <2>1, <2>2, <2>3 DEF FilesInv
<1>8. \A i, q \in Nat : Leads(i, q) => Leads(i, q)' /\ events'[q] = events[q]
  BY <1>3, <1>4, <1>5 DEF Leads
<1>9. CleanInv'
  <2>1. \A i \in 1..Len(idx) : i \in Nat
    BY <1>1
  <2>2. QED
    BY <1>8, <2>1 DEF Inv, CleanInv
<1>10. HoleInv'
  <2> SUFFICES ASSUME "power" \notin hurt, NEW i \in Nat, NEW q \in Nat, EntryAt(i),
                      RecordAt(q)', idx[i].pos < q, events'[q].id = idx[i].id
               PROVE  \/ \A j \in Nat : EntryAt(j) => idx[j].pos < q
                      \/ \E j \in Nat : EntryAt(j) /\ idx[j].pos = q
    BY <1>4 DEF HoleInv
  <2>1. CASE RecordAt(q) /\ events'[q] = events[q]
    BY <1>1, <2>1 DEF HoleInv
  <2>2. CASE q = n
    BY <1>5, <2>2
  <2>3. QED
    BY <1>6, <2>1, <2>2
<1>11. UpInv'
  <2>1. \A q \in 1..events_bytes : events'[q] # Torn
    BY <1>2
  <2>2. \A q \in Nat : RecordAt(q)' => events'[q].id <= next_event_id
    BY <1>1, <1>2, <1>6
  <2>3. \A q \in Nat : RecordAt(q)' /\ (\A i \in 1..idx_bytes : idx[i].pos < q)
                          => events'[q].id = next_event_id
    BY <1>1, <1>6 DEF UpInv
  <2>4. QED
    BY <1>2, <1>4, <2>1, <2>2, <2>3 DEF UpInv
<1>12. RamInv'
  BY <1>1, RamKept DEF FilesInv
<1>13. /\ \A a \in acked : AckAt(a)'
       /\ "power" \notin hurt => \A a \in known : KnownAt(a)'
  <2>1. ASSUME NEW a \in acked \cup known, NEW i \in Nat, NEW p \in Nat,
               Placed(a, i, p), i <= idx_bytes
        PROVE  Placed(a, i, p)' /\ p <= events_bytes
    <3>1. EntryAt(i) /\ RecordAt(p) /\ idx[i].pos = p /\ idx[i].id = a.id /\ Leads(i, p)
      BY <2>1 DEF Placed, Leads
    <3>2. EntryAt(i)' /\ idx'[i] = idx[i] /\ RecordAt(p)' /\ events'[p] = events[p]
      BY <1>4, <1>8, <3>1 DEF Leads
    <3>3. a.id < next_event_id
      <4>1. i \in 1..idx_bytes
        BY <1>1, <2>1, <3>1 DEF EntryAt
      <4>2. QED
        BY <1>2, <3>1, <4>1
    <3>4. \A j \in Nat : EntryAt(j)' /\ i < j =>
               (EntryAt(j) /\ idx'[j] = idx[j]) \/ a.id < idx'[j].id
      BY <1>4
    <3>5. \A q \in Nat : RecordAt(q)' /\ p < q =>
               (RecordAt(q) /\ events'[q] = events[q]) \/ a.id < events'[q].id
      BY <1>6, <3>3
    <3>6. Placed(a, i, p)'
      BY <2>1, <3>2, <3>4, <3>5, PlacedKept
    <3>7. QED
      BY <1>5, <3>1, <3>6
  <2>2. durable'.events \in Nat
    BY <1>1 DEF Least
  <2>3. \A p \in Nat : p <= events_bytes /\ p <= durable.events => p <= durable'.events
    BY <1>1 DEF Least
  <2>4. \A a \in acked \cup known : \A i, p \in Nat :
              Placed(a, i, p) /\ (phase = "up" => i <= idx_bytes) =>
                 /\ Placed(a, i, p)' /\ (phase' = "up" => i <= idx_bytes')
                 /\ i <= durable.idx => i <= durable'.idx
                 /\ p <= durable.events => p <= durable'.events
    BY <2>1, <2>3
  <2>5. \A i, j \in Nat :
              EntryAt(i) /\ (phase = "up" => i <= idx_bytes) /\ EntryAt(j)' /\ j < i =>
                 EntryAt(j) /\ idx'[j] = idx[j]
    BY <1>4
  <2>6. durable'.idx \in Nat /\ hurt \subseteq hurt'
    BY <1>1
  <2>7. QED
    BY <1>1, <2>2, <2>4, <2>5, <2>6, Carry
<1>14. QED
  BY <1>7, <1>9, <1>10, <1>11, <1>12, <1>13

\* The record is written behind the counted part of events.bin.
LEMMA WriteEventsStep ==
    ASSUME Inv, WriteEvents
    PROVE  Inv'
<1>1. /\ TypeOK /\ pc = "write_events" /\ pc' = "sync_events"
      /\ durable' = [durable EXCEPT !.events = Least(durable.events, events_bytes)]
      /\ UNCHANGED <<idx, phase, events_bytes, idx_bytes, cur, by_id, by_stream,
                     next_event_id, status, acked, known, hurt>>
  BY DEF Inv, WriteEvents, sizes, ram
<1>2. /\ phase = "up" /\ cur.id = next_event_id /\ cur \in Records /\ cur # Torn
      /\ events_bytes \in Nat /\ Len(events) \in Nat /\ events_bytes <= Len(events)
      /\ durable.events \in Nat /\ durable.idx \in Nat
      /\ \A q \in 1..events_bytes : events[q] # Torn
  <2>1. cur \in Records /\ phase = "up"
    BY <1>1, Numbers DEF TypeOK
  <2>2. cur # Torn
    BY <2>1, TornAssumption DEF Records
  <2>3. QED
    BY <1>1, <2>1, <2>2, Numbers DEF Inv, AppendInv, UpInv
<1>3. /\ events' \in Seq(Records \cup {Torn})
      /\ Len(events') \in {events_bytes + 1, events_bytes + 2}
      /\ \A q \in 1..events_bytes : events'[q] = events[q]
      /\ events'[events_bytes + 1] = cur
      /\ Len(events') = events_bytes + 2 => events'[events_bytes + 2] = Torn
  <2> DEFINE C == Records \cup {Torn}
             u == Append(Upto(events, events_bytes), cur)
  <2>1. events \in Seq(C) /\ cur \in C /\ Torn \in C
    BY <1>1, <1>2 DEF TypeOK
  <2>2. events' = u \o <<>> \/ events' = u \o <<Torn>>
    BY DEF WriteEvents
  <2> HIDE DEF C
  <2>3. /\ u \in Seq(C) /\ Len(u) = events_bytes + 1
        /\ \A q \in 1..events_bytes : u[q] = events[q]
        /\ u[events_bytes + 1] = cur
    BY <1>2, <2>1, UptoAppend
  <2> HIDE DEF u
  <2>4. CASE events' = u \o <<>>
    <3>1. events' = u
      BY <2>3, <2>4
    <3>2. QED
      BY <1>2, <2>3, <3>1 DEF C
  <2>5. CASE events' = u \o <<Torn>>
    <3>1. events' = Append(u, Torn)
      BY <2>1, <2>3, <2>5, AppendIsConcat
    <3>2. /\ events' \in Seq(C) /\ Len(events') = Len(u) + 1
          /\ \A q \in 1..Len(u) : events'[q] = u[q]
          /\ events'[Len(u) + 1] = Torn
      BY <2>1, <2>3, <3>1, AppendKeeps
    <3>3. events_bytes + 1 \in 1..Len(u) /\ \A q \in 1..events_bytes : q \in 1..Len(u)
      BY <1>2, <2>3
    <3>4. Len(events') = events_bytes + 2 /\ events'[events_bytes + 2] = Torn
      BY <1>2, <2>3, <3>2
    <3>5. QED
      BY <2>3, <3>2, <3>3, <3>4 DEF C
  <2>6. QED
    BY <2>2, <2>4, <2>5
<1>4. /\ Len(events') \in Nat /\ events_bytes + 1 <= Len(events')
      /\ \A q \in 1..Len(events') :
            q \in 1..events_bytes \/ q = events_bytes + 1 \/ (q = events_bytes + 2 /\ q = Len(events'))
  BY <1>2, <1>3
<1>5. \A q \in Nat : RecordAt(q)' => q <= events_bytes + 1
  <2>1. \A q \in Nat : q <= events_bytes => q <= events_bytes + 1
    BY <1>2
  <2>2. QED
    BY <1>2, <1>3, <1>4, <2>1 DEF RecordAt
<1>6. durable'.idx = durable.idx /\ durable'.events = Least(durable.events, events_bytes)
  BY <1>1 DEF TypeOK
<1>7. /\ FilesInv' /\ HoleInv' /\ CleanInv' /\ UpInv' /\ RamInv'
      /\ \A a \in acked : AckAt(a)'
      /\ "power" \notin hurt => \A a \in known : KnownAt(a)'
  <2>1. \A q \in 1..Len(events') : events'[q] = Torn => q = Len(events')
    BY <1>2, <1>3, <1>4
  <2>2. \A q \in Nat : RecordAt(q)' /\ events_bytes < q =>
              \/ RecordAt(q) /\ events'[q] = events[q] /\ events' = events
              \/ q = events_bytes + 1 /\ events'[q] = cur /\ cur \in Records
                                      /\ cur.id = next_event_id
    <3>1. \A q \in Nat : q <= events_bytes + 1 /\ events_bytes < q => q = events_bytes + 1
      BY <1>2
    <3>2. QED
      BY <1>2, <1>3, <1>5, <3>1
  <2>3. events_bytes <= Len(events') /\ phase' = "up"
    BY <1>1, <1>2, <1>4
  <2>4. QED
    BY <1>1, <1>2, <1>3, <1>4, <1>6, <2>1, <2>2, <2>3, EventsBehind
<1>8. TypeOK'
  <2>1. durable' \in [events : 0..Len(events'), idx : 0..Len(idx')]
    <3>1. Least(durable.events, events_bytes) \in 0..Len(events')
      BY <1>2, <1>4 DEF Least
    <3>2. QED
      BY <1>1, <3>1 DEF TypeOK
  <2>2. FileTypes'
    BY <1>1, <1>3, <2>1 DEF TypeOK, FileTypes
  <2>3. ProcessTypes' /\ RamTypes' /\ ClientTypes'
    BY <1>1, <1>2 DEF TypeOK, ProcessTypes, RamTypes, ClientTypes
  <2>4. QED
    BY <2>2, <2>3 DEF TypeOK, FileTypes, ProcessTypes, RamTypes, ClientTypes
<1>9. AppendInv'
  BY <1>1, <1>2, <1>3, <1>4, <1>5 DEF AppendInv
<1>10. RepairInv' /\ KilledStoreReopens' /\ AckInv' /\ KnownInv'
  BY <1>1, <1>2, <1>7 DEF RepairInv, KilledStoreReopens, AckInv, KnownInv
<1>11. QED
  BY <1>7, <1>8, <1>9, <1>10 DEF Inv

\* The fsync of events.bin: one more cell of it counts.
LEMMA SyncEventsStep ==
    ASSUME Inv, SyncEvents
    PROVE  Inv'
<1>1. /\ TypeOK /\ pc = "sync_events" /\ pc' = "write_idx"
      /\ durable' = [durable EXCEPT !.events = Len(events)]
      /\ events_bytes' = events_bytes + 1
      /\ UNCHANGED <<events, idx, phase, idx_bytes, cur, by_id, by_stream,
                     next_event_id, status, acked, known, hurt>>
  BY DEF Inv, SyncEvents, ram
<1>2. /\ phase = "up" /\ cur.id = next_event_id /\ cur \in Records /\ cur # Torn
      /\ events_bytes \in Nat /\ Len(events) \in Nat /\ events_bytes + 1 <= Len(events)
      /\ idx_bytes \in Nat
      /\ durable.events \in Nat /\ durable.idx \in Nat /\ durable.events <= Len(events)
      /\ events[events_bytes + 1] = cur
      /\ \A q \in Nat : RecordAt(q) => q <= events_bytes + 1
  <2>1. cur \in Records /\ phase = "up"
    BY <1>1, Numbers DEF TypeOK
  <2>2. cur # Torn
    BY <2>1, TornAssumption DEF Records
  <2>3. QED
    BY <1>1, <2>1, <2>2, Numbers DEF Inv, AppendInv
<1>3. durable'.idx = durable.idx /\ durable'.events = Len(events)
  BY <1>1 DEF TypeOK
<1>4. /\ FilesInv' /\ HoleInv' /\ CleanInv'
      /\ \A a \in acked : AckAt(a)'
      /\ "power" \notin hurt => \A a \in known : KnownAt(a)'
  BY <1>1, <1>2, <1>3, SameFiles
<1>5. \A i \in Nat : (EntryAt(i)' <=> EntryAt(i)) /\ (RecordAt(i)' <=> RecordAt(i))
  BY <1>1 DEF EntryAt, RecordAt
<1>6. \A i \in Nat : EntryAt(i) => idx[i].pos < events_bytes + 1
  <2>1. \A i \in Nat : EntryAt(i) => idx[i].pos <= events_bytes /\ idx[i].pos \in Nat
    BY <1>1, <1>2, Numbers DEF Inv, UpInv
  <2>2. QED
    BY <1>2, <2>1
<1>7. UpInv'
  <2>1. \A q \in 1..(events_bytes + 1) : events[q] # Torn
    <3>1. \A q \in 1..(events_bytes + 1) : q \in 1..events_bytes \/ q = events_bytes + 1
      BY <1>2
    <3>2. QED
      BY <1>2, <3>1 DEF Inv, UpInv
  <2>2. \A i \in Nat : EntryAt(i) => idx[i].pos <= events_bytes + 1
    BY <1>1, <1>2, <1>6, Numbers
  <2>3. /\ idx_bytes <= Len(idx) /\ Len(idx) <= idx_bytes + 1
        /\ \A i \in 1..idx_bytes : idx[i] # Torn /\ idx[i].id < next_event_id
        /\ \A i \in Nat : EntryAt(i) /\ i > idx_bytes => idx[i].id = next_event_id
        /\ \A q \in Nat : RecordAt(q) => events[q].id <= next_event_id
        /\ \A q \in Nat : RecordAt(q) /\ (\A i \in 1..idx_bytes : idx[i].pos < q)
                            => events[q].id = next_event_id
    BY <1>2 DEF Inv, UpInv
  <2>4. QED
    BY <1>1, <1>2, <1>5, <2>1, <2>2, <2>3 DEF UpInv
<1>8. RamInv'
  BY <1>1, <1>2, RamKept DEF Inv, FilesInv
<1>9. TypeOK'
  <2>1. durable' \in [events : 0..Len(events'), idx : 0..Len(idx')]
    <3>1. Len(events) \in 0..Len(events)
      BY <1>2
    <3>2. QED
      BY <1>1, <3>1 DEF TypeOK
  <2>2. FileTypes'
    BY <1>1, <2>1 DEF TypeOK, FileTypes
  <2>3. ProcessTypes' /\ RamTypes' /\ ClientTypes'
    BY <1>1, <1>2 DEF TypeOK, ProcessTypes, RamTypes, ClientTypes
  <2>4. QED
    BY <2>2, <2>3 DEF TypeOK, FileTypes, ProcessTypes, RamTypes, ClientTypes
<1>10. AppendInv'
  <2>1. /\ events_bytes + 1 > 0 /\ events_bytes + 1 <= durable'.events
    BY <1>2, <1>3
  <2>2. QED
    BY <1>1, <1>2, <1>5, <1>6, <2>1 DEF AppendInv
<1>11. RepairInv' /\ KilledStoreReopens' /\ AckInv' /\ KnownInv'
  BY <1>1, <1>2, <1>4 DEF RepairInv, KilledStoreReopens, AckInv, KnownInv
<1>12. QED
  BY <1>4, <1>7, <1>8, <1>9, <1>10, <1>11 DEF Inv

\* The entry is written behind the counted entries, over what a failed append
\* may have left there.
LEMMA WriteIdxStep ==
    ASSUME Inv, WriteIdx
    PROVE  Inv'
<1>1. /\ TypeOK /\ pc = "write_idx" /\ pc' = "sync_idx"
      /\ idx' = Append(Upto(idx, idx_bytes), [id |-> cur.id, pos |-> events_bytes])
      /\ durable' = [durable EXCEPT !.idx = Least(durable.idx, idx_bytes)]
      /\ UNCHANGED <<events, phase, events_bytes, idx_bytes, cur, by_id, by_stream,
                     next_event_id, status, acked, known, hurt>>
  BY DEF Inv, WriteIdx, sizes, ram
<1>2. /\ phase = "up" /\ cur.id = next_event_id /\ cur \in Records /\ cur # Torn
      /\ events_bytes \in Nat /\ Len(events) \in Nat /\ Len(idx) \in Nat /\ idx_bytes \in Nat
      /\ next_event_id \in Nat /\ next_event_id > 0
      /\ durable.events \in Nat /\ durable.idx \in Nat
      /\ FilesInv /\ UpInv /\ HoleInv /\ AckInv /\ KnownInv /\ RamInv
      /\ idx_bytes <= Len(idx) /\ events_bytes <= Len(events)
      /\ events_bytes > 0 /\ events[events_bytes] = cur /\ events_bytes <= durable.events
      /\ \A q \in Nat : RecordAt(q) => q <= events_bytes
      /\ \A i \in Nat : EntryAt(i) => idx[i].pos < events_bytes
  <2>1. cur \in Records /\ phase = "up"
    BY <1>1, Numbers DEF TypeOK
  <2>2. cur # Torn
    BY <2>1, TornAssumption DEF Records
  <2>3. QED
    BY <1>1, <2>1, <2>2, Numbers DEF Inv, AppendInv, UpInv
<1> PICK n \in Nat, p \in Nat : n = idx_bytes + 1 /\ p = events_bytes
  BY <1>2
<1> PICK e : e = [id |-> cur.id, pos |-> p]
  OBVIOUS
<1>3. RecordAt(p) /\ events[p] = cur
  BY <1>2 DEF RecordAt
<1>4. /\ e \in Entries /\ e.pos = p /\ e.id = next_event_id /\ e.pos > 0 /\ e.id > 0 /\ e # Torn
  <2>1. e \in Entries
    BY <1>2 DEF Entries
  <2>2. QED
    BY <1>2, <2>1, TornAssumption DEF Entries
<1>5. /\ idx' \in Seq(Entries \cup {Torn}) /\ Len(idx') = n
      /\ \A k \in 1..idx_bytes : idx'[k] = idx[k]
      /\ idx'[n] = e
  <2> DEFINE C == Entries \cup {Torn}
  <2>1. idx \in Seq(C) /\ e \in C /\ idx' = Append(Upto(idx, idx_bytes), e)
    BY <1>1, <1>4 DEF TypeOK
  <2> HIDE DEF C
  <2>2. /\ idx' \in Seq(C) /\ Len(idx') = idx_bytes + 1
        /\ \A k \in 1..idx_bytes : idx'[k] = idx[k]
        /\ idx'[idx_bytes + 1] = e
    BY <1>2, <2>1, UptoAppend
  <2>3. QED
    BY <2>2 DEF C
<1>6. \A i \in 1..idx_bytes : /\ i \in Nat /\ i < n /\ EntryAt(i)
                              /\ idx[i].id \in Nat /\ idx[i].id < next_event_id
                              /\ idx[i].pos \in Nat /\ idx[i].pos < p
  <2>1. \A i \in 1..idx_bytes : i \in Nat /\ i < n /\ EntryAt(i) /\ idx[i].id < next_event_id
    BY <1>2 DEF UpInv, EntryAt
  <2>2. QED
    BY <1>1, <1>2, <2>1, Numbers
<1>7. \A i \in Nat : EntryAt(i)' <=> i \in 1..idx_bytes \/ i = n
  <2>1. \A i \in 1..n : i \in 1..idx_bytes \/ i = n
    BY <1>2
  <2>2. n \in 1..n /\ \A i \in 1..idx_bytes : i \in 1..n
    BY <1>2
  <2>3. QED
    BY <1>4, <1>5, <1>6, <2>1, <2>2 DEF EntryAt
<1>8. \A i \in Nat : EntryAt(i)' => \/ EntryAt(i) /\ idx'[i] = idx[i] /\ i < n
                                    \/ i = n /\ idx'[i] = e
  BY <1>5, <1>6, <1>7
<1>9. \A q \in Nat : RecordAt(q)' <=> RecordAt(q)
  BY <1>1 DEF RecordAt
<1>10. \A i \in Nat : EntryAt(i) /\ i < n => i \in 1..idx_bytes
  BY <1>2 DEF EntryAt
<1>11. FilesInv'
  <2>1. PositiveInv' /\ OrderInv' /\ OwnInv' /\ RisingInv'
    <3>1. PositiveInv /\ OrderInv /\ OwnInv /\ RisingInv /\ TypeOK /\ events' = events
      BY <1>1, <1>2 DEF FilesInv
    <3>2. \A i \in Nat : EntryAt(i) /\ i < n => idx[i].pos < e.pos /\ idx[i].id <= e.id
      BY <1>2, <1>4, <1>6, <1>10
    <3>3. RecordAt(e.pos) /\ events[e.pos].id = e.id
      BY <1>2, <1>3, <1>4
    <3>4. e \in Entries /\ e.id > 0 /\ e.pos > 0
      BY <1>4
    <3>5. QED
      BY <1>8, <3>1, <3>2, <3>3, <3>4, NewEntry
  <2>2. TornInv'
    <3>1. \A i \in 1..Len(idx') : idx'[i] # Torn
      <4>1. \A i \in 1..Len(idx') : i \in 1..idx_bytes \/ i = n
        BY <1>2, <1>5
      <4>2. QED
        BY <1>4, <1>5, <1>6, <4>1 DEF EntryAt
    <3>2. QED
      BY <1>1, <1>2, <3>1 DEF FilesInv, TornInv
  <2>3. QED
    BY <2>1, <2>2 DEF FilesInv
<1>12. CleanInv'
  <2> SUFFICES ASSUME hurt = {}, NEW i \in 1..Len(idx') PROVE \E q \in Nat : Leads(i, q)'
    BY <1>1 DEF CleanInv
  <2>1. CASE i = n
    <3>1. EntryAt(n)' /\ RecordAt(p)' /\ idx'[n].pos = p
      BY <1>3, <1>4, <1>5, <1>7, <1>9
    <3>2. QED
      BY <2>1, <3>1 DEF Leads
  <2>2. CASE i \in 1..idx_bytes
    <3>1. PICK q \in Nat : Leads(i, q)
      <4>1. i \in 1..Len(idx)
        BY <1>2, <2>2
      <4>2. QED
        BY <4>1 DEF Inv, CleanInv
    <3>2. Leads(i, q)'
      BY <1>5, <1>6, <1>7, <1>9, <2>2, <3>1 DEF Leads
    <3>3. QED
      BY <3>2
  <2>3. QED
    BY <1>2, <1>5, <2>1, <2>2
<1>13. HoleInv'
  <2>1. EntryAt(n)' /\ idx'[n].pos = p
    BY <1>4, <1>5, <1>7
  <2>2. \A i \in Nat : EntryAt(i)' => (EntryAt(i) /\ idx'[i] = idx[i]) \/ idx'[i].pos = p
    BY <1>4, <1>8
  <2>3. \A i \in Nat : EntryAt(i) => idx[i].pos \in Nat
    BY <1>1, Numbers
  <2>4. \A i \in Nat : EntryAt(i) /\ EntryAt(i)' /\ idx'[i] = idx[i] => idx[i].pos < p
    BY <1>2
  <2>5. \A i, q \in Nat :
              EntryAt(i) /\ EntryAt(i)' /\ idx'[i] = idx[i] /\ RecordAt(q) /\ q < p
                /\ idx[i].pos < q /\ events[q].id = idx[i].id /\ "power" \notin hurt'
              => \E j \in Nat : EntryAt(j)' /\ idx'[j].pos = q
    <3> SUFFICES ASSUME NEW i \in Nat, NEW q \in Nat, EntryAt(i), EntryAt(i)',
                        idx'[i] = idx[i], RecordAt(q), q < p,
                        idx[i].pos < q, events[q].id = idx[i].id, "power" \notin hurt
                 PROVE  \E j \in Nat : EntryAt(j)' /\ idx'[j].pos = q
      BY <1>1
    <3>1. i \in 1..idx_bytes
      BY <1>4, <1>5, <1>7, <2>4
    <3>2. events[q].id < next_event_id /\ events[q].id # next_event_id
      BY <1>2, <1>6, <3>1
    <3>3. ~ \A j \in 1..idx_bytes : idx[j].pos < q
      BY <1>2, <3>2 DEF UpInv
    <3>4. PICK j \in Nat : EntryAt(j) /\ idx[j].pos = q
      BY <1>2, <1>6, <3>3 DEF HoleInv
    <3>5. j <= idx_bytes
      <4>1. idx[j].id = events[q].id
        BY <1>2, <3>4 DEF FilesInv, OwnInv, Leads
      <4>2. ~(j > idx_bytes)
        BY <1>2, <3>2, <3>4, <4>1 DEF UpInv
      <4>3. QED
        BY <1>2, <4>2
    <3>6. j \in 1..idx_bytes
      BY <1>2, <3>4, <3>5 DEF EntryAt
    <3>7. QED
      BY <1>5, <1>7, <3>4, <3>6
  <2>6. events' = events
    BY <1>1
  <2>7. QED
    BY <2>1, <2>2, <2>3, <2>4, <2>5, <2>6, HoleFilled, ZenonT(120)
<1>14. durable'.idx = Least(durable.idx, idx_bytes) /\ durable'.events = durable.events
  BY <1>1 DEF TypeOK
<1>15. /\ \A a \in acked : AckAt(a)'
       /\ "power" \notin hurt => \A a \in known : KnownAt(a)'
  <2>1. ASSUME NEW a \in acked \cup known, NEW i \in Nat, NEW r \in Nat,
               Placed(a, i, r), i <= idx_bytes
        PROVE  Placed(a, i, r)'
    <3>1. EntryAt(i) /\ RecordAt(r) /\ idx[i].pos = r /\ idx[i].id = a.id
      BY <2>1 DEF Placed, Leads
    <3>2. i \in 1..idx_bytes
      BY <1>2, <2>1, <3>1 DEF EntryAt
    <3>3. EntryAt(i)' /\ idx'[i] = idx[i] /\ RecordAt(r)' /\ events'[r] = events[r]
      BY <1>1, <1>5, <1>7, <1>9, <3>1, <3>2
    <3>4. a.id < e.id
      BY <1>4, <1>6, <3>1, <3>2
    <3>5. \A j \in Nat : EntryAt(j)' /\ i < j =>
               (EntryAt(j) /\ idx'[j] = idx[j]) \/ a.id < idx'[j].id
      BY <1>8, <3>4
    <3>6. \A q \in Nat : RecordAt(q)' /\ r < q =>
               (RecordAt(q) /\ events'[q] = events[q]) \/ a.id < events'[q].id
      BY <1>1, <1>9
    <3>7. QED
      BY <2>1, <3>3, <3>5, <3>6, PlacedKept
  <2>2. /\ durable'.idx \in Nat /\ durable'.events \in Nat
        /\ \A i \in Nat : i <= idx_bytes /\ i <= durable.idx => i <= durable'.idx
    BY <1>2, <1>14 DEF Least
  <2>3. \A a \in acked \cup known : \A i, r \in Nat :
              Placed(a, i, r) /\ (phase = "up" => i <= idx_bytes) =>
                 /\ Placed(a, i, r)' /\ (phase' = "up" => i <= idx_bytes')
                 /\ i <= durable.idx => i <= durable'.idx
                 /\ r <= durable.events => r <= durable'.events
    BY <1>1, <1>2, <1>14, <2>1, <2>2
  <2>4. \A i, j \in Nat :
              EntryAt(i) /\ (phase = "up" => i <= idx_bytes) /\ EntryAt(j)' /\ j < i =>
                 EntryAt(j) /\ idx'[j] = idx[j]
    <3>1. \A i, j \in Nat : i <= idx_bytes /\ j < i => j # n
      BY <1>2
    <3>2. QED
      BY <1>2, <1>8, <3>1
  <2>5. hurt \subseteq hurt'
    BY <1>1
  <2>6. QED
    BY <1>1, <1>2, <2>2, <2>3, <2>4, <2>5, Carry
<1>16. UpInv'
  <2>1. idx_bytes <= Len(idx') /\ Len(idx') <= idx_bytes + 1
    BY <1>2, <1>5
  <2>2. \A i \in 1..idx_bytes : idx'[i] # Torn /\ idx'[i].id < next_event_id
    BY <1>5, <1>6 DEF EntryAt
  <2>3. \A i \in Nat : EntryAt(i)' => idx'[i].pos <= events_bytes
    <3>1. \A i \in 1..idx_bytes : idx'[i].pos <= events_bytes
      BY <1>2, <1>5, <1>6
    <3>2. idx'[n].pos <= events_bytes
      BY <1>2, <1>4, <1>5
    <3>3. QED
      BY <1>7, <3>1, <3>2
  <2>4. \A i \in Nat : EntryAt(i)' /\ i > idx_bytes => idx'[i].id = next_event_id
    <3>1. \A i \in 1..idx_bytes : ~(i > idx_bytes)
      BY <1>2
    <3>2. QED
      BY <1>4, <1>5, <1>7, <3>1
  <2>5. \A q \in Nat : RecordAt(q) /\ (\A i \in 1..idx_bytes : idx'[i].pos < q)
                            => events[q].id = next_event_id
    BY <1>2, <1>5 DEF UpInv
  <2>6. /\ events_bytes <= Len(events)
        /\ \A q \in 1..events_bytes : events[q] # Torn
        /\ \A q \in Nat : RecordAt(q) => events[q].id <= next_event_id
    BY <1>2 DEF UpInv
  <2>7. QED
    BY <1>1, <1>9, <2>1, <2>2, <2>3, <2>4, <2>5, <2>6 DEF UpInv
<1>17. RamInv'
  BY <1>1, <1>2, <1>5, RamKept DEF FilesInv
<1>18. TypeOK'
  <2>1. durable' \in [events : 0..Len(events'), idx : 0..Len(idx')]
    <3>1. Least(durable.idx, idx_bytes) \in 0..Len(idx')
      BY <1>2, <1>5 DEF Least
    <3>2. QED
      BY <1>1, <3>1 DEF TypeOK
  <2>2. FileTypes'
    BY <1>1, <1>5, <2>1 DEF TypeOK, FileTypes
  <2>3. ProcessTypes' /\ RamTypes' /\ ClientTypes'
    BY <1>1, <1>2 DEF TypeOK, ProcessTypes, RamTypes, ClientTypes
  <2>4. QED
    BY <2>2, <2>3 DEF TypeOK, FileTypes, ProcessTypes, RamTypes, ClientTypes
<1>19. AppendInv'
  <2>1. /\ Len(idx') = idx_bytes + 1
        /\ idx'[idx_bytes + 1] = [id |-> cur.id, pos |-> events_bytes]
        /\ \A i \in 1..idx_bytes : idx'[i].pos < events_bytes
    BY <1>5, <1>6
  <2>2. QED
    BY <1>1, <1>2, <1>9, <1>14, <2>1 DEF AppendInv
<1>20. RepairInv' /\ KilledStoreReopens' /\ AckInv' /\ KnownInv'
  BY <1>1, <1>2, <1>15 DEF RepairInv, KilledStoreReopens, AckInv, KnownInv
<1>21. QED
  BY <1>11, <1>12, <1>13, <1>16, <1>17, <1>18, <1>19, <1>20 DEF Inv

\* One more entry is absorbed into the maps.
LEMMA Absorbed ==
    ASSUME Inv, phase = "up", phase' = "up", UNCHANGED <<events, idx>>,
           idx_bytes' = idx_bytes + 1, Len(idx) = idx_bytes + 1,
           NEW n \in Nat, n = idx_bytes + 1,
           cur \in Records, cur.id = next_event_id,
           idx[n] # Torn, idx[n].id = cur.id, events[idx[n].pos] = cur,
           next_event_id' = cur.id + 1,
           Absorb(cur)
    PROVE  RamInv' /\ RamTypes'
<1>1. /\ TypeOK /\ idx_bytes \in Nat /\ next_event_id \in Nat /\ next_event_id > 0
      /\ cur.req \in Reqs
  BY Numbers DEF Inv, Records
<1>2. /\ by_id' = [i \in DOMAIN by_id \cup {cur.id} |-> IF i = cur.id THEN cur.req ELSE by_id[i]]
      /\ by_stream' = Append(by_stream, [id |-> cur.id, stream |-> StreamOf[cur.req]])
  BY DEF Absorb
<1>3. \A k \in 1..idx_bytes' : k \in 1..idx_bytes \/ k = n
  BY <1>1
<1>4. n \in 1..idx_bytes' /\ \A k \in 1..idx_bytes : k \in 1..idx_bytes' /\ k < n /\ k \in Nat
  BY <1>1
<1>5. \A k \in 1..idx_bytes : idx[k].id < cur.id /\ idx[k].id \in Nat
  <2>1. \A k \in 1..idx_bytes : EntryAt(k) /\ idx[k].id < cur.id
    BY <1>1 DEF Inv, UpInv, EntryAt
  <2>2. QED
    BY <1>1, <1>4, <2>1, Numbers
<1>6. \A x \in Nat : x \in DOMAIN by_id' <=> \E k \in 1..idx_bytes' : idx'[k].id = x
  <2>1. \A x \in Nat : x \in DOMAIN by_id' <=> x \in DOMAIN by_id \/ x = cur.id
    BY <1>2
  <2>2. \A x \in Nat : x \in DOMAIN by_id <=> \E k \in 1..idx_bytes : idx[k].id = x
    BY DEF Inv, RamInv
  <2>3. QED
    BY <1>3, <1>4, <2>1, <2>2
<1>7. \A k \in 1..idx_bytes' :
         (\A j \in 1..idx_bytes' : idx'[j].id = idx'[k].id => j <= k)
            => by_id'[idx'[k].id] = events'[idx'[k].pos].req
  <2> SUFFICES ASSUME NEW k \in 1..idx_bytes',
                      \A j \in 1..idx_bytes' : idx[j].id = idx[k].id => j <= k
               PROVE  by_id'[idx[k].id] = events[idx[k].pos].req
    OBVIOUS
  <2>1. CASE k = n
    BY <1>2, <2>1
  <2>2. CASE k \in 1..idx_bytes
    <3>1. by_id[idx[k].id] = events[idx[k].pos].req
      BY <1>4, <2>2 DEF Inv, RamInv
    <3>2. idx[k].id \in DOMAIN by_id
      BY <1>5, <2>2 DEF Inv, RamInv
    <3>3. idx[k].id # cur.id
      BY <1>1, <1>5, <2>2
    <3>4. QED
      BY <1>2, <3>1, <3>2, <3>3
  <2>3. QED
    BY <1>3, <2>1, <2>2
<1>8. by_stream \in Seq([id : Nat, stream : Streams]) /\ Len(by_stream) = idx_bytes
  BY DEF Inv, TypeOK, RamInv
<1>9. [id |-> cur.id, stream |-> StreamOf[cur.req]] \in [id : Nat, stream : Streams]
  BY <1>1, StreamOfAssumption
<1>10. /\ by_stream' \in Seq([id : Nat, stream : Streams])
       /\ Len(by_stream') = idx_bytes'
       /\ \A k \in 1..idx_bytes : by_stream'[k] = by_stream[k]
       /\ by_stream'[n] = [id |-> cur.id, stream |-> StreamOf[cur.req]]
  <2> DEFINE S == [id : Nat, stream : Streams]
             c == [id |-> cur.id, stream |-> StreamOf[cur.req]]
  <2>1. by_stream \in Seq(S) /\ c \in S /\ by_stream' = Append(by_stream, c)
    BY <1>2, <1>8, <1>9
  <2> HIDE DEF S, c
  <2>2. /\ by_stream' \in Seq(S) /\ Len(by_stream') = Len(by_stream) + 1
        /\ \A k \in 1..Len(by_stream) : by_stream'[k] = by_stream[k]
        /\ by_stream'[Len(by_stream) + 1] = c
    BY <2>1, AppendKeeps
  <2>3. QED
    BY <1>8, <2>2 DEF S, c
<1>11. \A k \in 1..idx_bytes' :
         by_stream'[k] = [id |-> idx'[k].id, stream |-> StreamOf[events'[idx'[k].pos].req]]
  <2>1. \A k \in 1..idx_bytes :
         by_stream[k] = [id |-> idx[k].id, stream |-> StreamOf[events[idx[k].pos].req]]
    BY DEF Inv, RamInv
  <2>2. QED
    BY <1>3, <1>10, <2>1
<1>12. RamInv'
  BY <1>6, <1>7, <1>10, <1>11 DEF RamInv
<1>13. by_id' \in UNION {[D -> Reqs] : D \in SUBSET (1..(next_event_id' - 1))}
  <2>1. PICK D \in SUBSET (1..(next_event_id - 1)) : by_id \in [D -> Reqs]
    BY <1>1 DEF TypeOK
  <2> DEFINE E == D \cup {cur.id}
  <2>2. E \in SUBSET (1..(next_event_id' - 1))
    BY <1>1
  <2>3. by_id' \in [E -> Reqs]
    BY <1>1, <1>2, <2>1
  <2>4. QED
    BY <2>2, <2>3
<1>14. next_event_id' \in Nat \ {0}
  BY <1>1
<1>15. QED
  BY <1>10, <1>12, <1>13, <1>14 DEF RamTypes

\* The fsync of the idx: the event is absorbed and its client gets the id.
LEMMA SyncIdxStep ==
    ASSUME Inv, SyncIdx
    PROVE  Inv'
<1>1. /\ TypeOK /\ pc = "sync_idx" /\ pc' = "idle" /\ cur' = None
      /\ durable' = [durable EXCEPT !.idx = Len(idx)]
      /\ idx_bytes' = idx_bytes + 1
      /\ Absorb(cur) /\ next_event_id' = cur.id + 1
      /\ status' = [status EXCEPT ![cur.req] = "acked"]
      /\ acked' = acked \cup {cur} /\ known' = known \cup {cur}
      /\ UNCHANGED <<events, idx, events_bytes, phase, hurt>>
  BY DEF Inv, SyncIdx
<1>2. /\ phase = "up" /\ cur.id = next_event_id /\ cur \in Records /\ cur # Torn
      /\ cur.req \in Reqs
      /\ events_bytes \in Nat /\ Len(events) \in Nat /\ Len(idx) \in Nat /\ idx_bytes \in Nat
      /\ next_event_id \in Nat /\ next_event_id > 0
      /\ durable.events \in Nat /\ durable.idx \in Nat /\ durable.idx <= Len(idx)
      /\ UpInv /\ events_bytes <= Len(events)
      /\ events_bytes > 0 /\ events[events_bytes] = cur /\ events_bytes <= durable.events
      /\ \A q \in Nat : RecordAt(q) => q <= events_bytes
      /\ Len(idx) = idx_bytes + 1
      /\ idx[idx_bytes + 1] = [id |-> cur.id, pos |-> events_bytes]
  <2>1. cur \in Records /\ phase = "up" /\ cur.req \in Reqs
    BY <1>1, Numbers DEF TypeOK
  <2>2. cur # Torn
    BY <2>1, TornAssumption DEF Records
  <2>3. QED
    BY <1>1, <2>1, <2>2, Numbers DEF Inv, AppendInv, UpInv
<1> PICK n \in Nat, p \in Nat : n = idx_bytes + 1 /\ p = events_bytes
  BY <1>2
<1>3. /\ idx[n] # Torn /\ idx[n].id = cur.id /\ idx[n].pos = p /\ events[p] = cur
      /\ EntryAt(n) /\ RecordAt(p)
  <2>1. idx[n] = [id |-> cur.id, pos |-> p] /\ idx[n] \in [id : Nat, pos : Nat]
    BY <1>2
  <2>2. idx[n] # Torn
    BY <2>1, TornAssumption
  <2>3. n \in 1..Len(idx) /\ p \in 1..Len(events)
    BY <1>2
  <2>4. QED
    BY <1>2, <2>1, <2>2, <2>3 DEF EntryAt, RecordAt
<1>4. durable'.idx = Len(idx) /\ durable'.events = durable.events
  BY <1>1 DEF TypeOK
<1>5. /\ FilesInv' /\ HoleInv' /\ CleanInv'
      /\ \A a \in acked : AckAt(a)'
      /\ "power" \notin hurt => \A a \in known : KnownAt(a)'
  BY <1>1, <1>2, <1>4, SameFiles
<1>6. RamInv' /\ RamTypes'
  <2>1. phase' = "up" /\ events[idx[n].pos] = cur
    BY <1>1, <1>2, <1>3
  <2>2. QED
    BY <1>1, <1>2, <1>3, <2>1, Absorbed
<1>7. \A i \in Nat : (EntryAt(i)' <=> EntryAt(i)) /\ (RecordAt(i)' <=> RecordAt(i))
  BY <1>1 DEF EntryAt, RecordAt
<1>8. /\ \A k \in 1..idx_bytes' : k \in 1..idx_bytes \/ k = n
      /\ n \in 1..idx_bytes'
      /\ \A i \in Nat : EntryAt(i) => i <= n
      /\ \A i \in Nat : EntryAt(i) /\ i < n => i \in 1..idx_bytes
  BY <1>1, <1>2 DEF EntryAt
<1>9. UpInv'
  <2>1. \A i \in 1..idx_bytes' : idx[i] # Torn /\ idx[i].id < next_event_id'
    <3>1. \A i \in 1..idx_bytes : EntryAt(i) /\ i \in Nat /\ idx[i].id < next_event_id
      BY <1>2 DEF UpInv, EntryAt
    <3>2. \A i \in 1..idx_bytes : idx[i].id \in Nat
      BY <1>1, <3>1, Numbers
    <3>3. next_event_id' = next_event_id + 1
      BY <1>1, <1>2
    <3>4. \A i \in 1..idx_bytes : idx[i].id < next_event_id'
      BY <1>2, <3>1, <3>2, <3>3
    <3>5. idx[n].id < next_event_id'
      BY <1>2, <1>3, <3>3
    <3>6. QED
      BY <1>3, <1>8, <3>1, <3>4, <3>5 DEF EntryAt
  <2>2. \A i \in Nat : EntryAt(i) => ~(i > idx_bytes')
    BY <1>1, <1>2, <1>8
  <2>3. \A q \in Nat : RecordAt(q) => events[q].id <= next_event_id'
    BY <1>1, <1>2, Numbers DEF UpInv
  <2>4. \A q \in Nat : RecordAt(q) => ~ \A i \in 1..idx_bytes' : idx[i].pos < q
    <3>1. \A q \in Nat : RecordAt(q) => ~(p < q)
      BY <1>2
    <3>2. QED
      BY <1>3, <1>8, <3>1
  <2>5. idx_bytes' <= Len(idx) /\ Len(idx) <= idx_bytes' + 1
    BY <1>1, <1>2
  <2>6. /\ \A q \in 1..events_bytes : events[q] # Torn
        /\ \A i \in Nat : EntryAt(i) => idx[i].pos <= events_bytes
    BY <1>2 DEF UpInv
  <2>7. QED
    BY <1>1, <1>2, <1>7, <2>1, <2>2, <2>3, <2>4, <2>5, <2>6 DEF UpInv
<1> PICK a : a = cur
  OBVIOUS
<1>10. Placed(a, n, p)' /\ \A j \in Nat : EntryAt(j)' /\ j < n => idx'[j].id < a.id
  <2>1. Leads(n, p)' /\ idx'[n].id = a.id /\ events'[p] = a
    BY <1>1, <1>3, <1>7 DEF Leads
  <2>2. \A j \in Nat : EntryAt(j)' => ~(n < j)
    BY <1>7, <1>8
  <2>3. \A q \in Nat : RecordAt(q)' => ~(p < q)
    BY <1>2, <1>7
  <2>4. \A j \in 1..idx_bytes : idx[j].id < a.id
    BY <1>2 DEF UpInv
  <2>5. QED
    BY <1>1, <1>7, <1>8, <2>1, <2>2, <2>3, <2>4 DEF Placed
<1>11. AckAt(a)' /\ KnownAt(a)'
  <2>1. n \in 1..durable'.idx /\ p \in 1..durable'.events /\ n <= idx_bytes'
    BY <1>1, <1>2, <1>4
  <2>2. QED
    BY <1>10, <2>1 DEF AckAt, KnownAt
<1>12. AckInv' /\ KnownInv'
  BY <1>1, <1>5, <1>11 DEF AckInv, KnownInv
<1>13. TypeOK'
  <2>1. durable' \in [events : 0..Len(events'), idx : 0..Len(idx')]
    <3>1. Len(idx) \in 0..Len(idx)
      BY <1>2
    <3>2. QED
      BY <1>1, <3>1 DEF TypeOK
  <2>2. FileTypes'
    BY <1>1, <2>1 DEF TypeOK, FileTypes
  <2>3. ProcessTypes'
    BY <1>1, <1>2 DEF TypeOK, ProcessTypes
  <2>4. ClientTypes'
    BY <1>1, <1>2 DEF TypeOK, ClientTypes
  <2>5. QED
    BY <1>6, <2>2, <2>3, <2>4 DEF TypeOK, FileTypes, ProcessTypes, RamTypes, ClientTypes
<1>14. RepairInv' /\ KilledStoreReopens' /\ AppendInv'
  BY <1>1, <1>2 DEF RepairInv, KilledStoreReopens, AppendInv
<1>15. QED
  BY <1>5, <1>6, <1>9, <1>12, <1>13, <1>14 DEF Inv

\* A call of append_event fails; what it wrote lies behind the counted parts.
LEMMA AppendFailsStep ==
    ASSUME Inv, AppendFails
    PROVE  Inv'
<1>1. /\ TypeOK /\ pc # "idle" /\ pc' = "idle" /\ cur' = None
      /\ status' = [status EXCEPT ![cur.req] = "failed"]
      /\ UNCHANGED <<phase, events_bytes, idx_bytes, by_id, by_stream, next_event_id,
                     acked, known>>
  BY DEF Inv, AppendFails, sizes, ram
<1>2. /\ phase = "up" /\ cur.req \in Reqs
      /\ events_bytes \in Nat /\ Len(events) \in Nat /\ Len(idx) \in Nat /\ idx_bytes \in Nat
      /\ durable.events \in Nat /\ durable.idx \in Nat
      /\ FilesInv /\ UpInv /\ RamInv
      /\ events_bytes <= Len(events)
      /\ durable \in [events : 0..Len(events), idx : 0..Len(idx)]
  BY <1>1, Numbers DEF Inv, UpInv, TypeOK
<1>3. ASSUME FileTypes', FilesInv', HoleInv', CleanInv', UpInv', RamInv',
             \A a \in acked : AckAt(a)',
             "power" \notin hurt' => \A a \in known : KnownAt(a)'
      PROVE  Inv'
  <2>1. ProcessTypes' /\ RamTypes'
    BY <1>1 DEF TypeOK, ProcessTypes, RamTypes
  <2>2. ClientTypes'
    BY <1>1, <1>2 DEF TypeOK, ClientTypes
  <2>3. TypeOK'
    BY <1>3, <2>1, <2>2 DEF TypeOK, FileTypes, ProcessTypes, RamTypes, ClientTypes
  <2>4. RepairInv' /\ KilledStoreReopens' /\ AppendInv' /\ AckInv' /\ KnownInv'
    BY <1>1, <1>2, <1>3 DEF RepairInv, KilledStoreReopens, AppendInv, AckInv, KnownInv
  <2>5. QED
    BY <1>3, <2>3, <2>4 DEF Inv
<1>4. CASE /\ events' \in {events, Append(Upto(events, events_bytes), Torn)}
           /\ durable' = [durable EXCEPT !.events = Least(durable.events, events_bytes)]
           /\ UNCHANGED <<idx, hurt>>
  <2>1. durable'.events = Least(durable.events, events_bytes) /\ durable'.idx = durable.idx
    BY <1>2, <1>4
  <2>2. /\ events' \in Seq(Records \cup {Torn}) /\ Len(events') \in Nat
        /\ events_bytes <= Len(events')
        /\ \A q \in 1..events_bytes : events'[q] = events[q]
        /\ \A q \in 1..Len(events') : events'[q] = Torn => q = Len(events')
        /\ \A q \in Nat : RecordAt(q)' /\ events_bytes < q =>
              RecordAt(q) /\ events'[q] = events[q] /\ events' = events
    <3>1. CASE events' = events
      BY <1>1, <1>2, <3>1 DEF TypeOK, FilesInv, TornInv, RecordAt
    <3>2. CASE events' = Append(Upto(events, events_bytes), Torn)
      <4> DEFINE C == Records \cup {Torn}
      <4>1. events \in Seq(C) /\ Torn \in C
        BY <1>1 DEF TypeOK
      <4> HIDE DEF C
      <4>2. /\ events' \in Seq(C) /\ Len(events') = events_bytes + 1
            /\ \A q \in 1..events_bytes : events'[q] = events[q]
            /\ events'[events_bytes + 1] = Torn
        BY <1>2, <3>2, <4>1, UptoAppend
      <4>3. \A q \in 1..Len(events') : q \in 1..events_bytes \/ q = events_bytes + 1
        BY <1>2, <4>2
      <4>4. \A q \in 1..events_bytes : events[q] # Torn
        BY <1>2 DEF UpInv
      <4>5. \A q \in Nat : RecordAt(q)' => ~(events_bytes < q)
        <5>1. \A q \in 1..events_bytes : ~(events_bytes < q)
          BY <1>2
        <5>2. QED
          BY <4>2, <4>3, <5>1 DEF RecordAt
      <4>6. Len(events') \in Nat /\ events_bytes <= Len(events')
        BY <1>2, <4>2
      <4>7. QED
        BY <4>2, <4>3, <4>4, <4>5, <4>6 DEF C
    <3>3. QED
      BY <1>4, <3>1, <3>2
  <2>3. /\ FilesInv' /\ HoleInv' /\ CleanInv' /\ UpInv' /\ RamInv'
        /\ \A a \in acked : AckAt(a)'
        /\ "power" \notin hurt => \A a \in known : KnownAt(a)'
    <3>1. phase' = "up"
      BY <1>1, <1>2
    <3>2. QED
      BY <1>1, <1>2, <1>4, <2>1, <2>2, <3>1, EventsBehind
  <2>4. FileTypes'
    <3>1. Least(durable.events, events_bytes) \in 0..Len(events')
      BY <1>2, <2>2 DEF Least
    <3>2. durable' \in [events : 0..Len(events'), idx : 0..Len(idx')]
      BY <1>2, <1>4, <3>1
    <3>3. QED
      BY <1>1, <1>4, <2>2, <3>2 DEF TypeOK, FileTypes
  <2>5. QED
    BY <1>3, <1>4, <2>3, <2>4
<1>5. CASE UNCHANGED <<events, idx, durable, hurt>>
  <2>1. /\ FilesInv' /\ HoleInv' /\ CleanInv'
        /\ \A a \in acked : AckAt(a)'
        /\ "power" \notin hurt => \A a \in known : KnownAt(a)'
    <3>1. /\ durable'.idx \in Nat /\ durable'.events \in Nat
          /\ durable.idx <= durable'.idx /\ durable.events <= durable'.events
          /\ idx_bytes' \in Nat /\ idx_bytes <= idx_bytes'
      BY <1>1, <1>2, <1>5
    <3>2. QED
      BY <1>1, <1>2, <1>5, <3>1, SameFiles
  <2>2. \A i \in Nat : (EntryAt(i)' <=> EntryAt(i)) /\ (RecordAt(i)' <=> RecordAt(i))
    BY <1>5 DEF EntryAt, RecordAt
  <2>3. UpInv'
    BY <1>1, <1>2, <1>5, <2>2 DEF UpInv
  <2>4. RamInv'
    BY <1>1, <1>2, <1>5 DEF RamInv
  <2>5. FileTypes'
    BY <1>1, <1>5 DEF TypeOK, FileTypes
  <2>6. QED
    BY <1>3, <1>5, <2>1, <2>3, <2>4, <2>5
<1>6. CASE /\ Len(idx) = idx_bytes
           /\ idx' = Append(idx, Torn)
           /\ hurt' = hurt \cup {"short"}
           /\ UNCHANGED <<events, durable>>
  <2>1. /\ idx' \in Seq(Entries \cup {Torn}) /\ Len(idx') = Len(idx) + 1
        /\ \A k \in 1..Len(idx) : idx'[k] = idx[k]
        /\ \A i \in Nat : EntryAt(i)' <=> EntryAt(i)
        /\ FilesInv' /\ HoleInv' /\ CleanInv'
        /\ \A a \in acked : AckAt(a)'
        /\ "power" \notin hurt => \A a \in known : KnownAt(a)'
    <3>1. \A i \in 1..Len(idx) : idx[i] # Torn
      BY <1>2, <1>6 DEF UpInv
    <3>2. QED
      BY <1>1, <1>2, <1>6, <3>1, TornEntry
  <2>2. \A q \in Nat : RecordAt(q)' <=> RecordAt(q)
    BY <1>6 DEF RecordAt
  <2>3. UpInv'
    <3>1. idx_bytes <= Len(idx') /\ Len(idx') <= idx_bytes + 1
      BY <1>2, <1>6, <2>1
    <3>2. \A i \in Nat : EntryAt(i) => idx'[i] = idx[i]
      BY <2>1 DEF EntryAt
    <3>3. /\ events_bytes <= Len(events)
          /\ \A q \in 1..events_bytes : events[q] # Torn
          /\ \A i \in 1..idx_bytes : idx'[i] # Torn /\ idx'[i].id < next_event_id
          /\ \A i \in Nat : EntryAt(i)' => idx'[i].pos <= events_bytes
          /\ \A i \in Nat : EntryAt(i)' /\ i > idx_bytes => idx'[i].id = next_event_id
          /\ \A q \in Nat : RecordAt(q)' => events[q].id <= next_event_id
      BY <1>2, <1>6, <2>1, <2>2, <3>2 DEF UpInv
    <3>4. \A q \in Nat : RecordAt(q)' /\ (\A i \in 1..idx_bytes : idx'[i].pos < q)
                            => events[q].id = next_event_id
      BY <1>2, <1>6, <2>1, <2>2 DEF UpInv
    <3>5. QED
      BY <1>1, <1>6, <3>1, <3>3, <3>4 DEF UpInv
  <2>4. RamInv'
    BY <1>1, <1>2, <1>6, <2>1, RamKept DEF FilesInv
  <2>5. FileTypes'
    <3>1. durable' \in [events : 0..Len(events'), idx : 0..Len(idx')]
      BY <1>2, <1>6, <2>1
    <3>2. QED
      BY <1>1, <1>6, <2>1, <3>1 DEF TypeOK, FileTypes
  <2>6. QED
    BY <1>3, <1>6, <2>1, <2>3, <2>4, <2>5
<1>7. QED
  BY <1>4, <1>5, <1>6 DEF AppendFails, files

-----------------------------------------------------------------------------
(* The theorems.                                                           *)

(* The invariant is inductive: one case per file operation, failure and crash. *)
LEMMA InvStep == Inv /\ [Next]_vars => Inv'
<1> SUFFICES ASSUME Inv, [Next]_vars PROVE Inv'
  OBVIOUS
<1>1. CASE Open
  BY <1>1, OpenStep
<1>2. CASE RepairRecord
  BY <1>2, RepairRecordStep
<1>3. CASE RepairTruncate
  BY <1>3, RepairTruncateStep
<1>4. CASE RepairFails
  BY <1>4, RepairFailsStep
<1>5. CASE LoadDone
  BY <1>5, LoadDoneStep
<1>6. ASSUME NEW r \in Reqs, RejectAppend(r) \/ BeginAppend(r) PROVE Inv'
  BY <1>6, BeginStep
<1>7. CASE WriteEvents
  BY <1>7, WriteEventsStep
<1>8. CASE SyncEvents
  BY <1>8, SyncEventsStep
<1>9. CASE WriteIdx
  BY <1>9, WriteIdxStep
<1>10. CASE SyncIdx
  BY <1>10, SyncIdxStep
<1>11. CASE AppendFails
  BY <1>11, AppendFailsStep
<1>12. CASE Kill
  BY <1>12, KillStep
<1>13. CASE PowerLoss
  BY <1>13, PowerLossStep
<1>14. CASE UNCHANGED vars
  <2>1. UNCHANGED <<events, idx, durable, phase, events_bytes, idx_bytes, pc, cur, by_id,
                    by_stream, next_event_id, status, acked, known, hurt>>
    BY <1>14 DEF vars, files, sizes, ram
  <2>2. TypeOK' /\ FilesInv' /\ RepairInv' /\ UpInv' /\ AppendInv'
    BY <2>1 DEF Inv, TypeOK, FilesInv, TornInv, PositiveInv, OrderInv, OwnInv, RisingInv,
                RepairInv, UpInv, AppendInv, Leads, EntryAt, RecordAt
  <2>3. AckInv' /\ KnownInv'
    BY <2>1 DEF Inv, AckInv, AckAt, KnownInv, KnownAt, Placed, Leads, EntryAt, RecordAt
  <2>4. HoleInv'
    BY <2>1 DEF Inv, HoleInv, Leads, EntryAt, RecordAt
  <2>5. CleanInv' /\ KilledStoreReopens'
    BY <2>1 DEF Inv, CleanInv, KilledStoreReopens, Leads, EntryAt, RecordAt
  <2>6. RamInv'
    BY <2>1 DEF Inv, RamInv, Leads, EntryAt, RecordAt
  <2>7. QED
    BY <2>2, <2>3, <2>4, <2>5, <2>6 DEF Inv
<1>15. QED
  BY <1>1, <1>2, <1>3, <1>4, <1>5, <1>6, <1>7, <1>8, <1>9, <1>10, <1>11, <1>12, <1>13, <1>14
     DEF Next

(* The invariant of the store holds in every behaviour. *)
LEMMA InvHolds == Spec => []Inv
<1>1. QED
  BY InitInv, InvStep, PTL DEF Spec

\* The variables of oosmem keep their types, an append is only under way in a
\* process that has loaded its store, and next_event_id is above every id in
\* RAM: the id append_event gives out is never one that by_id already holds.
THEOREM TypeCorrect == Spec => []TypeOK
<1>1. Inv => TypeOK
  BY DEF Inv
<1>2. QED
  BY <1>1, InvHolds, PTL

\* However often the process is killed, the power fails, a write is cut short
\* or load repairs: an append that append_event answered has its record and
\* its entry in the fsynced part of the two files, and no other entry of the
\* idx carries its id.
THEOREM SurvivalTheorem == Spec => []AckedSurvives
<1>1. ASSUME Inv PROVE AckedSurvives
  <2>1. ASSUME NEW a \in acked
        PROVE  \E i \in 1..durable.idx :
                  /\ idx[i] # Torn
                  /\ idx[i].id = a.id
                  /\ idx[i].pos <= durable.events
                  /\ events[idx[i].pos] = a
                  /\ \A j \in 1..Len(idx) : idx[j] # Torn /\ idx[j].id = a.id => j = i
    <3>1. PICK i \in 1..durable.idx, p \in 1..durable.events :
              /\ Placed(a, i, p)
              /\ \A j \in Nat : EntryAt(j) /\ j < i => idx[j].id < a.id
      BY <1>1, <2>1 DEF Inv, AckInv, AckAt
    <3>2. durable.idx \in Nat /\ durable.events \in Nat /\ Len(idx) \in Nat
      BY <1>1, Numbers DEF Inv
    <3>3. EntryAt(i) /\ idx[i].pos = p /\ idx[i].id = a.id /\ events[p] = a
      BY <3>1 DEF Placed, Leads
    <3>4. ASSUME NEW j \in 1..Len(idx), idx[j] # Torn, idx[j].id = a.id PROVE j = i
      <4>1. j \in Nat /\ EntryAt(j) /\ i \in Nat
        BY <3>2, <3>4 DEF EntryAt
      <4>2. a.id \in Nat
        BY <1>1, <3>4, <4>1, Numbers DEF Inv
      <4>3. ~(j < i) /\ ~(i < j)
        BY <3>1, <3>4, <4>1, <4>2 DEF Placed
      <4>4. QED
        BY <4>1, <4>3
    <3>5. p <= durable.events
      BY <3>2
    <3>6. QED
      BY <3>3, <3>4, <3>5 DEF EntryAt
  <2>2. QED
    BY <2>1 DEF AckedSurvives
<1>2. QED
  BY <1>1, InvHolds, PTL

\* Whenever oosmem serves, after any number of restarts, get_event gives for
\* the id of an answered append the event that was appended, and the listing
\* of its stream holds that id exactly once.
THEOREM ServiceTheorem == Spec => []AckedServed
<1>1. ASSUME Inv PROVE AckedServed
  <2>1. ASSUME phase = "up", NEW a \in acked
        PROVE  /\ a.id \in DOMAIN by_id
               /\ by_id[a.id] = a.req
               /\ {by_stream[k].stream : k \in {n \in 1..Len(by_stream) : by_stream[n].id = a.id}}
                      = {StreamOf[a.req]}
               /\ Cardinality({n \in 1..Len(by_stream) : by_stream[n].id = a.id}) = 1
    <3>1. PICK i \in 1..durable.idx, p \in 1..durable.events :
              /\ Placed(a, i, p)
              /\ \A j \in Nat : EntryAt(j) /\ j < i => idx[j].id < a.id
              /\ i <= idx_bytes
      BY <1>1, <2>1 DEF Inv, AckInv, AckAt
    <3>2. durable.idx \in Nat /\ durable.events \in Nat /\ Len(idx) \in Nat /\ idx_bytes \in Nat
      BY <1>1, Numbers DEF Inv
    <3>3. EntryAt(i) /\ idx[i].pos = p /\ idx[i].id = a.id /\ events[p] = a
      BY <3>1 DEF Placed, Leads
    <3>4. i \in 1..idx_bytes /\ i \in Nat
      BY <3>1, <3>2
    <3>5. a.id \in Nat
      BY <1>1, <3>3, <3>4, Numbers DEF Inv
    <3>6. ASSUME NEW j \in 1..idx_bytes, idx[j].id = a.id PROVE j = i
      <4>1. j \in Nat /\ EntryAt(j)
        BY <1>1, <2>1, <3>2 DEF Inv, UpInv, EntryAt
      <4>2. ~(j < i) /\ ~(i < j)
        BY <3>1, <3>4, <3>5, <3>6, <4>1 DEF Placed
      <4>3. QED
        BY <3>4, <4>1, <4>2
    <3>7. a.id \in DOMAIN by_id
      BY <1>1, <2>1, <3>3, <3>4, <3>5 DEF Inv, RamInv
    <3>8. by_id[a.id] = a.req
      <4>1. \A j \in 1..idx_bytes : idx[j].id = idx[i].id => j <= i
        BY <3>3, <3>4, <3>6
      <4>2. by_id[idx[i].id] = events[idx[i].pos].req
        BY <1>1, <2>1, <3>4, <4>1 DEF Inv, RamInv
      <4>3. QED
        BY <3>3, <4>2
    <3>9. /\ Len(by_stream) = idx_bytes
          /\ \A k \in 1..idx_bytes : by_stream[k].id = idx[k].id
          /\ by_stream[i].stream = StreamOf[a.req]
      BY <1>1, <2>1, <3>3, <3>4 DEF Inv, RamInv
    <3>10. {n \in 1..Len(by_stream) : by_stream[n].id = a.id} = {i}
      BY <3>3, <3>4, <3>6, <3>9
    <3>11. Cardinality({i}) = 1
      BY FS_Singleton
    <3>12. {by_stream[k].stream : k \in {i}} = {StreamOf[a.req]}
      BY <3>9
    <3>13. QED
      BY <3>7, <3>8, <3>10, <3>11, <3>12
  <2>2. QED
    BY <2>1 DEF AckedServed
<1>2. QED
  BY <1>1, InvHolds, PTL

\* While the power holds, load and append_event never let a reader see two
\* events under one id, although append_event gives the id of a failed append
\* out again and repair_idx adopts the record such an append has left.
THEOREM IdTheorem == Spec => []IdDenotesOneEvent
<1>1. ASSUME Inv PROVE IdDenotesOneEvent
  <2>1. ASSUME "power" \notin hurt, NEW a \in known, NEW b \in known, a.id = b.id
        PROVE  a = b
    <3>1. PICK i \in Nat, p \in Nat : Placed(a, i, p)
      BY <1>1, <2>1 DEF Inv, KnownInv, KnownAt
    <3>2. PICK j \in Nat, q \in Nat : Placed(b, j, q)
      BY <1>1, <2>1 DEF Inv, KnownInv, KnownAt
    <3>3. /\ EntryAt(i) /\ idx[i].pos = p /\ idx[i].id = a.id /\ events[p] = a
          /\ EntryAt(j) /\ idx[j].pos = q /\ idx[j].id = b.id /\ events[q] = b
      BY <3>1, <3>2 DEF Placed, Leads
    <3>4. idx[i].id \in Nat /\ idx[j].id \in Nat
      BY <1>1, <3>3, Numbers DEF Inv
    <3>5. ~(i < j) /\ ~(j < i)
      BY <2>1, <3>1, <3>2, <3>3, <3>4 DEF Placed
    <3>6. i = j
      BY <3>5
    <3>7. QED
      BY <3>3, <3>6
  <2>2. QED
    BY <2>1 DEF IdDenotesOneEvent
<1>2. QED
  BY <1>1, InvHolds, PTL

\* open_or_create refuses a store only after a power failure or an idx write
\* that was cut short: a process that was killed, at whatever step, and
\* however often, comes up again.
THEOREM ReopenTheorem == Spec => []KilledStoreReopens
<1>1. Inv => KilledStoreReopens
  BY DEF Inv
<1>2. QED
  BY <1>1, InvHolds, PTL

=============================================================================

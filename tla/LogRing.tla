--------------------------------- MODULE LogRing ---------------------------------
(***************************************************************************)
(* The ring of log records of the oos webview: frames of *.log from the    *)
(* bus (rpc.ts wireBusPush) become rows of a Dexie table                   *)
(* (store/log-store.ts), which the logs tab lists (LogsContent.tsx).       *)
(***************************************************************************)
EXTENDS Integers, FiniteSets

CONSTANTS MAX_LOG_ROWS, \* log-store.ts
          Limit,        \* LogsContent.tsx: getRecentLogs(200)
          MaxLogs,      \* bound: log records
          MaxClears     \* bound: clears

VARIABLES logRows,   \* the table logs: the ids of its records
          nextLog,   \* its autoincrement key
          appends,   \* appendLog under way: id of the record, stage, what it read
          failed,    \* whether an append failed since the last record came
          entries,   \* LogsContent: entries
          mounted,   \* whether the logs tab is shown
          clears     \* how many clears there were

ring == <<logRows, nextLog, appends, failed, entries, mounted, clears>>

(* appendLog is four transactions, and the frames of the bus do not wait   *)
(* for one another. The list of the logs tab is read again by every        *)
(* notify and by the poll; a read that fails is the empty list.            *)
getRecentLogs(rows) == {i \in rows : Cardinality({j \in rows : j > i}) < Limit}
Read(rows) == entries' \in IF mounted THEN {getRecentLogs(rows), {}} ELSE {entries}

(* An add that fails leaves nothing but a notify, as Poll is.              *)
logsAdd ==
  /\ nextLog < MaxLogs
  /\ nextLog' = nextLog + 1
  /\ logRows' = logRows \cup {nextLog}
  /\ appends' = appends \cup {[id |-> nextLog, stage |-> "added", overflow |-> 0, oldest |-> {}]}
  /\ failed' = FALSE
  /\ UNCHANGED <<mounted, clears, entries>>

Rows == Cardinality(logRows)
Overflow(n) == n - MAX_LOG_ROWS

logsCount(a) ==
  /\ a.stage = "added"
  /\ IF Rows > MAX_LOG_ROWS
       THEN /\ appends' = (appends \ {a}) \cup {[a EXCEPT !.stage = "counted", !.overflow = Overflow(Rows)]}
            /\ UNCHANGED entries
       ELSE appends' = appends \ {a} /\ Read(logRows)
  /\ UNCHANGED <<mounted, clears, logRows, nextLog, failed>>

(* The keys of the first records, as many as were counted too many.        *)
Oldest(n) == {K \in SUBSET logRows : /\ Cardinality(K) = IF n < Rows THEN n ELSE Rows
                                     /\ \A i \in K, j \in logRows \ K : i < j}

primaryKeys(a) ==
  /\ a.stage = "counted"
  /\ \E K \in Oldest(a.overflow) :
       appends' = (appends \ {a}) \cup {[a EXCEPT !.stage = "keys", !.oldest = K]}
  /\ UNCHANGED <<mounted, clears, logRows, nextLog, failed, entries>>

bulkDelete(a) ==
  /\ a.stage = "keys"
  /\ logRows' = logRows \ a.oldest
  /\ appends' = appends \ {a}
  /\ Read(logRows')
  /\ UNCHANGED <<mounted, clears, nextLog, failed>>

(* A transaction of the append fails: the rest of it is not done.          *)
AppendFails(a) ==
  /\ appends' = appends \ {a}
  /\ failed' = TRUE
  /\ Read(logRows)
  /\ UNCHANGED <<mounted, clears, logRows, nextLog>>

clearLogs ==
  /\ mounted /\ clears < MaxClears /\ clears' = clears + 1
  /\ logRows' \in {{}, logRows} /\ entries' = {}
  /\ UNCHANGED <<mounted, nextLog, appends, failed>>

Poll ==
  /\ mounted /\ Read(logRows)
  /\ UNCHANGED <<mounted, clears, logRows, nextLog, appends, failed>>

ToggleLogs ==
  /\ mounted' = ~mounted
  /\ entries' \in IF mounted' THEN {getRecentLogs(logRows), {}} ELSE {{}}
  /\ UNCHANGED <<logRows, nextLog, appends, failed, clears>>

Init ==
  /\ logRows = {} /\ nextLog = 0 /\ appends = {} /\ failed = FALSE /\ entries = {}
  /\ mounted = FALSE /\ clears = 0

Next ==
  \/ logsAdd \/ clearLogs \/ Poll \/ ToggleLogs
  \/ \E a \in appends : logsCount(a) \/ primaryKeys(a) \/ bulkDelete(a) \/ AppendFails(a)

Spec == Init /\ [][Next]_ring

(* When no append is under way, and none failed since the last record      *)
(* came, the ring holds at most MAX_LOG_ROWS records, however the counts   *)
(* and deletions of concurrent appends fell together ("Upper bound on      *)
(* retained rows", log-store.ts): the next append makes up for one that    *)
(* failed.                                                                 *)
RingBounded == appends = {} /\ ~failed => Cardinality(logRows) <= MAX_LOG_ROWS
================================================================================

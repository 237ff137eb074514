---------------------------- MODULE DomainCache ----------------------------
(***************************************************************************)
(* oosgql's DomainStore: the parsed oos.domain rows every data request is  *)
(* checked against.  load_all fills it at boot, before the command         *)
(* subjects and before the oos.domain.changed subscription exist; from     *)
(* then on one task reloads the rows the messages name, one at a time.     *)
(* oos.cmd.data.mutate looks its domain up in the cache, applies the role  *)
(* gate and runs one SQL statement.                                        *)
(*                                                                         *)
(* The rows are written by oosai (SchemaIndex); here a write is one commit *)
(* and rows[id] keeps every version the row has had.  A SELECT and the use *)
(* of its result are two steps.  Reads (query, permissions, the source     *)
(* passthroughs) change nothing and are not actions.                       *)
(***************************************************************************)
EXTENDS Integers, Sequences, FiniteSetsExt

CONSTANTS
    Ids,          \* row ids of oos.domain, ordered as the BTreeMap orders them
    Defs,         \* parsed definitions
    NameOf,       \* NameOf[d]: the name the definition declares
    PermissionsOf,  \* PermissionsOf[d]: its entries [role, actions], in order
    Reqs,         \* mutate requests
    ReqOf,        \* ReqOf[r] = [domain, role, action]
    Bad,          \* a source that does not parse
    None,
    MaxVersions,  \* bound on the commits to one row
    MaxInbox      \* bound on the messages waiting in the subscription

ASSUME IdsAssumption == Ids \subseteq Nat /\ IsFiniteSet(Ids)
ASSUME SourcesAssumption ==
    /\ Bad \notin Defs
    /\ None \notin Defs \cup {Bad}
    /\ None \notin [id : Ids, source : Defs \cup {Bad, None}]
    /\ "idle" \notin Defs /\ "refused" \notin Defs
ASSUME BoundsAssumption == MaxVersions \in Nat /\ MaxInbox \in Nat

VARIABLES
    rows,     \* rows[id]: the versions the row has had, None for no row
    phase,    \* "down", "loading", "loaded", "serving" or "ready"
    pool,     \* whether this process has a Postgres pool
    scan,     \* the result of load_all's SELECT, None when there is none
    cache,    \* DomainStore.cache: id -> definition, None when absent
    inbox,    \* oos.domain.changed messages delivered and not yet taken
    reload,   \* the load_one in progress: [id, source]
    told,     \* history: the newest version a delivered message announced
    failed,   \* history: rows whose last load ended in a database error
    gate      \* gate[r]: "idle", "refused", or the definition it runs under

vars == <<rows, phase, pool, scan, cache, inbox, reload, told, failed, gate>>

Sources == Defs \cup {Bad, None}

Latest(id) == rows[id][Len(rows[id])]

\* parse_domain, and no definition for a row that is gone.
Parsed(source) == IF source \in Defs THEN source ELSE None

EmptyCache == [id \in Ids |-> None]

TypeOK ==
    /\ rows \in [Ids -> Seq(Sources)]
    /\ \A id \in Ids : Len(rows[id]) \in 1..(MaxVersions + 1)
    /\ phase \in {"down", "loading", "loaded", "serving", "ready"}
    /\ pool \in BOOLEAN
    /\ scan = None \/ scan \in [Ids -> Sources]
    /\ cache \in [Ids -> Defs \cup {None}]
    /\ inbox \in Seq(Ids)
    /\ reload = None \/ reload \in [id : Ids, source : Sources]
    /\ told \in [Ids -> 0..(MaxVersions + 1)]
    /\ failed \in SUBSET Ids
    /\ gate \in [Reqs -> Defs \cup {"idle", "refused"}]

Init ==
    /\ rows \in [Ids -> {<<s>> : s \in Sources}]
    /\ phase = "down"
    /\ pool = FALSE
    /\ scan = None
    /\ cache = EmptyCache
    /\ inbox = <<>>
    /\ reload = None
    /\ told = [id \in Ids |-> 0]
    /\ failed = {}
    /\ gate = [r \in Reqs |-> "idle"]

-----------------------------------------------------------------------------
(* The rows, written by oosai.                                             *)

\* domain.save or domain.delete commits.  Nothing is published.
Commit(id, source) ==
    /\ Len(rows[id]) <= MaxVersions
    /\ source # Latest(id)
    /\ rows' = [rows EXCEPT ![id] = Append(@, source)]
    /\ UNCHANGED <<phase, pool, scan, cache, inbox, reload, told, failed, gate>>

\* External: somebody publishes the id on oos.domain.changed, as operators
\* can.  Core NATS delivers it at most once, and only to a subscription that
\* is live: the message may be lost.
Publish(id) ==
    /\ phase = "ready"
    /\ Len(inbox) < MaxInbox
    /\ inbox' = Append(inbox, id)
    /\ told' = [told EXCEPT ![id] = Len(rows[id])]
    /\ UNCHANGED <<rows, phase, pool, scan, cache, reload, failed, gate>>

-----------------------------------------------------------------------------
(* Boot.                                                                   *)

\* The pool is opened, or the service goes on without one.
Boot ==
    /\ phase = "down"
    /\ phase' = "loading"
    /\ pool' \in BOOLEAN
    /\ UNCHANGED <<rows, scan, cache, inbox, reload, told, failed, gate>>

\* load_all: the SELECT over the whole table.
LoadAllSelect ==
    /\ phase = "loading"
    /\ pool
    /\ scan = None
    /\ scan' = [id \in Ids |-> Latest(id)]
    /\ UNCHANGED <<rows, phase, pool, cache, inbox, reload, told, failed, gate>>

\* load_all: the cache is replaced by what parsed.
LoadAllApply ==
    /\ scan # None
    /\ cache' = [id \in Ids |-> Parsed(scan[id])]
    /\ scan' = None
    /\ phase' = "loaded"
    /\ UNCHANGED <<rows, pool, inbox, reload, told, failed, gate>>

\* No pool, or the SELECT fails: boot goes on with an empty cache.
LoadAllSkipped ==
    /\ phase = "loading"
    /\ scan = None
    /\ phase' = "loaded"
    /\ failed' = IF pool THEN Ids ELSE {}
    /\ UNCHANGED <<rows, pool, scan, cache, inbox, reload, told, gate>>

\* command_handler::serve: requests are answered from here on.
ServeCommands ==
    /\ phase = "loaded"
    /\ phase' = "serving"
    /\ UNCHANGED <<rows, pool, scan, cache, inbox, reload, told, failed, gate>>

\* notify::start: only now is oos.domain.changed subscribed.
StartNotify ==
    /\ phase = "serving"
    /\ phase' = "ready"
    /\ UNCHANGED <<rows, pool, scan, cache, inbox, reload, told, failed, gate>>

\* The process stops; its cache, its messages and its requests are gone.
Stop ==
    /\ phase # "down"
    /\ phase' = "down"
    /\ pool' = FALSE
    /\ scan' = None
    /\ cache' = EmptyCache
    /\ inbox' = <<>>
    /\ reload' = None
    /\ told' = [id \in Ids |-> 0]
    /\ failed' = {}
    /\ gate' = [r \in Reqs |-> IF gate[r] \in Defs THEN "refused" ELSE gate[r]]
    /\ UNCHANGED rows

-----------------------------------------------------------------------------
(* The notify task: messages in order, one reload at a time.               *)

\* load_one: the SELECT of the row the next message names.
ReloadSelect ==
    /\ pool
    /\ reload = None
    /\ inbox # <<>>
    /\ reload' = [id |-> Head(inbox), source |-> Latest(Head(inbox))]
    /\ inbox' = Tail(inbox)
    /\ UNCHANGED <<rows, phase, pool, scan, cache, told, failed, gate>>

\* Mutant: a row that no longer parses keeps its cached definition.
ReloadApplyKeeps ==
    /\ reload # None
    /\ cache' = IF reload.source \in Defs
                THEN [cache EXCEPT ![reload.id] = reload.source] ELSE cache
    /\ failed' = failed \ {reload.id}
    /\ reload' = None
    /\ UNCHANGED <<rows, phase, pool, scan, inbox, told, gate>>

\* load_one: the definition is replaced, or evicted when the row is gone or
\* does not parse.
ReloadApply ==
    /\ reload # None
    /\ cache' = [cache EXCEPT ![reload.id] = Parsed(reload.source)]
    /\ failed' = failed \ {reload.id}
    /\ reload' = None
    /\ UNCHANGED <<rows, phase, pool, scan, inbox, told, gate>>

\* load_one fails: the error is logged and the message is spent.
ReloadFails ==
    /\ pool
    /\ reload = None
    /\ inbox # <<>>
    /\ inbox' = Tail(inbox)
    /\ failed' = failed \cup {Head(inbox)}
    /\ UNCHANGED <<rows, phase, pool, scan, cache, reload, told, gate>>

\* load_one without a pool does nothing.
ReloadNothing ==
    /\ ~pool
    /\ inbox # <<>>
    /\ inbox' = Tail(inbox)
    /\ UNCHANGED <<rows, phase, pool, scan, cache, reload, told, failed, gate>>

-----------------------------------------------------------------------------
(* oos.cmd.data.mutate.                                                    *)

\* DomainStore::get: the first cached definition of that name, in id order.
Named(name) == {id \in Ids : cache[id] # None /\ NameOf[cache[id]] = name}
Get(name) == IF Named(name) = {} THEN None ELSE cache[Min(Named(name))]

\* Mutant: any entry of the role that grants the action decides.
IsActionAllowedByAny(d, role, action) ==
    \E k \in DOMAIN PermissionsOf[d] :
        PermissionsOf[d][k].role = role /\ action \in PermissionsOf[d][k].actions

\* The first entry of the role decides; no entry means no.
IsActionAllowed(d, role, action) ==
    LET own == {k \in DOMAIN PermissionsOf[d] : PermissionsOf[d][k].role = role}
    IN  own # {} /\ action \in PermissionsOf[d][Min(own)].actions

Serving == phase \in {"serving", "ready"}

\* mutate up to its SQL statement: lookup, role gate, pool.
MutateAccepted(r) ==
    LET d == Get(ReqOf[r].domain)
    IN  /\ d # None
        /\ ReqOf[r].role # ""
        /\ IsActionAllowed(d, ReqOf[r].role, ReqOf[r].action)
        /\ pool

Mutate(r) ==
    /\ Serving
    /\ gate[r] = "idle"
    /\ gate' = [gate EXCEPT ![r] = IF MutateAccepted(r) THEN Get(ReqOf[r].domain)
                                                         ELSE "refused"]
    /\ UNCHANGED <<rows, phase, pool, scan, cache, inbox, reload, told, failed>>

\* The statement has run, or failed; the reply goes out and the same webview
\* may ask again.
MutateDone(r) ==
    /\ gate[r] \in Defs \cup {"refused"}
    /\ gate' = [gate EXCEPT ![r] = "idle"]
    /\ UNCHANGED <<rows, phase, pool, scan, cache, inbox, reload, told, failed>>

-----------------------------------------------------------------------------

BootStep == Boot \/ LoadAllSelect \/ LoadAllApply \/ LoadAllSkipped \/ ServeCommands \/ StartNotify
NotifyStep == ReloadSelect \/ ReloadApply \/ ReloadFails \/ ReloadNothing

Next ==
    \/ \E id \in Ids, s \in Sources : Commit(id, s)
    \/ \E id \in Ids : Publish(id)
    \/ BootStep
    \/ Stop
    \/ NotifyStep
    \/ \E r \in Reqs : Mutate(r) \/ MutateDone(r)

Spec == Init /\ [][Next]_vars

-----------------------------------------------------------------------------
(* Properties.                                                             *)

\* Every delivered message about the row has been worked off, and the database
\* answered.
Settled(id) ==
    /\ pool
    /\ \A k \in DOMAIN inbox : inbox[k] # id
    /\ reload # None => reload.id # id
    /\ id \notin failed

\* Once the messages about a row are worked off, the cache holds the row as it
\* was at the last message or at a later commit, never an older version, and
\* nothing for a row that was gone or did not parse (domain_store.rs:60-88).
AnnouncedVersionCached ==
    \A id \in Ids : phase = "ready" /\ Settled(id) /\ told[id] > 0 =>
        \E v \in told[id]..Len(rows[id]) : cache[id] = Parsed(rows[id][v])

\* A statement is run only under a definition some row really had, granting
\* the action to the role by its first entry for that role; and not under one
\* that a worked-off message had already replaced (data.rs:111-142, 382-389).
PermissionNotOutdated ==
    [][\A r \in Reqs : gate'[r] \in Defs /\ gate[r] \notin Defs =>
          \E id \in Ids :
             \E v \in (IF Settled(id) /\ told[id] > 0 THEN told[id] ELSE 1)..Len(rows[id]) :
                LET d == rows[id][v]
                    own == {k \in DOMAIN PermissionsOf[d] :
                               PermissionsOf[d][k].role = ReqOf[r].role}
                IN  /\ d = gate'[r]
                    /\ NameOf[d] = ReqOf[r].domain
                    /\ own # {}
                    /\ ReqOf[r].action \in PermissionsOf[d][Min(own)].actions]_vars
=============================================================================

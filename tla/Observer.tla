------------------------------ MODULE Observer ------------------------------
(***************************************************************************)
(* The operator console (apps/ooso/src/mainview): nats.ts owns the one     *)
(* connection to the bus and can be pointed at another bus while it dials, *)
(* App.tsx subscribes to the heartbeats and publishes its own, state.ts    *)
(* keeps a row per process, ServiceTable.tsx asks a service for its        *)
(* environment.  oos and oosd carry the same getNats for a fixed bus.      *)
(*                                                                         *)
(* A dial is a record [id, url]; the connection it opens keeps its name.   *)
(***************************************************************************)
EXTENDS Naturals

CONSTANTS Urls, Home, Nodes, BusOf, STALE, GONE, MaxDials, MaxApplies, MaxBeats, MaxClock

NoDial == [id |-> 0, url |-> "none"]
NoNode == "none"

VARIABLES
  wsUrl, conn, connecting,  \* nats.ts
  dials, open,              \* connects under way, connections that are open
  died,                     \* history: connections that closed by themselves
  natsUrl, applies,         \* App: the applied URL, applyNatsUrl calls that
                            \* await the close of the old connection
  effect,                   \* App's NATS effect: its stage and its connection
  table,                    \* state.ts: node -> last heartbeat and ticks
  clock, shownAt,           \* the time, and when the rows were last read
  expanded, env,            \* ServiceTable: the open row, EnvDetail's state
  dialled, applied          \* bounds

observer == << wsUrl, conn, connecting, dials, open, died, natsUrl, applies, effect,
               table, clock, shownAt, expanded, env, dialled, applied >>

bus == << wsUrl, conn, connecting, dials, open, died, dialled >>
screen == << table, clock, shownAt >>
detail == << expanded, env >>

Started == [stage |-> "identity", dial |-> NoDial]
Collapsed == [phase |-> "closed", dial |-> NoDial]

Init ==
  /\ wsUrl = Home /\ conn = NoDial /\ connecting = NoDial
  /\ dials = {} /\ open = {} /\ died = {}
  /\ natsUrl = Home /\ applies = {}
  /\ effect = Started
  /\ table = [n \in Nodes |-> [last |-> 0, ticks |-> 0]]
  /\ clock = 1 /\ shownAt = 1
  /\ expanded = NoNode /\ env = Collapsed
  /\ dialled = 0 /\ applied = 0

-----------------------------------------------------------------------------
\* getNats: the connection, or the dial that is under way, or a new dial.
NewDial == [id |-> dialled + 1, url |-> wsUrl]

Via == IF conn # NoDial THEN conn ELSE IF connecting # NoDial THEN connecting ELSE NewDial

GetNats ==
  /\ IF Via = NewDial
     THEN /\ dialled < MaxDials
          /\ dialled' = dialled + 1
          /\ connecting' = NewDial
          /\ dials' = dials \cup {NewDial}
     ELSE UNCHANGED << dialled, connecting, dials >>
  /\ UNCHANGED << wsUrl, conn, open, died >>

\* Mutant: whatever was dialled becomes the connection.
DiscardNothing(d) == FALSE

\* "A setWsUrl() during the dial wins: discard this connection."
Discard(d) == d.url # wsUrl

\* A dial ends: waitOnFirstConnect keeps it pending until the bus is up, and the
\* bus may refuse it.  Either way the promise that is cached is forgotten, be it
\* this one or a newer one.  Those who awaited it go on or fail.
Connected(d) ==
  /\ ~Discard(d)
  /\ conn' = d
  /\ open' = open \cup {d}
  /\ effect' = IF effect = [stage |-> "dialing", dial |-> d]
               THEN [effect EXCEPT !.stage = "listening"] ELSE effect
  /\ UNCHANGED env

Rejected(d) ==
  /\ effect' = IF effect = [stage |-> "dialing", dial |-> d]
               THEN [effect EXCEPT !.stage = "failed"] ELSE effect
  /\ env' = IF env = [phase |-> "loading", dial |-> d]
            THEN [env EXCEPT !.phase = "error"] ELSE env
  /\ UNCHANGED << conn, open >>

DialEnds ==
  \E d \in dials :
    /\ dials' = dials \ {d}
    /\ connecting' = NoDial
    /\ Connected(d) \/ Rejected(d)
    /\ UNCHANGED << wsUrl, died, natsUrl, applies, expanded, dialled, applied, screen >>

\* nc.closed(): a connection that closes for good without being asked to is the
\* shared one no longer.  Nobody tells the subscription that was made on it.
ClosesItself ==
  \E d \in open :
    /\ open' = open \ {d}
    /\ died' = died \cup {d}
    /\ conn' = IF conn = d THEN NoDial ELSE conn
    /\ UNCHANGED << wsUrl, connecting, dials, dialled, natsUrl, applies, effect, applied,
                    screen, detail >>

-----------------------------------------------------------------------------
\* The effect: the identity is known, and status.* is subscribed to on the
\* shared connection.  An effect that is cleaned up unsubscribes, at once or as
\* soon as it has subscribed, so only the running one is kept.
Subscribe ==
  /\ effect.stage = "identity"
  /\ GetNats
  /\ effect' = [stage |-> IF Via = conn THEN "listening" ELSE "dialing", dial |-> Via]
  /\ UNCHANGED << natsUrl, applies, applied, screen, detail >>

\* startHeartbeat: ooso's own tick goes out on whatever getNats returns.
Beat ==
  /\ effect.stage = "listening"
  /\ conn = NoDial
  /\ GetNats
  /\ UNCHANGED << natsUrl, applies, effect, applied, screen, detail >>

Rerun(u) == effect' = IF u # natsUrl THEN Started ELSE effect

\* applyNatsUrl and setWsUrl: the connection is dropped and its close awaited;
\* with none, or with this bus already set, the effect is run again at once.
Apply ==
  /\ applied < MaxApplies
  /\ applied' = applied + 1
  /\ \E u \in Urls \ {natsUrl} :
       IF u = wsUrl
       THEN natsUrl' = u /\ Rerun(u) /\ UNCHANGED << bus, applies >>
       ELSE /\ wsUrl' = u
            /\ conn' = NoDial /\ connecting' = NoDial
            /\ IF conn = NoDial
               THEN natsUrl' = u /\ Rerun(u) /\ UNCHANGED applies
               ELSE applies' = applies \cup {[url |-> u, closing |-> conn]}
                    /\ UNCHANGED << natsUrl, effect >>
            /\ UNCHANGED << dials, open, died, dialled >>
  /\ UNCHANGED << screen, detail >>

Closed ==
  \E a \in applies :
    /\ applies' = applies \ {a}
    /\ open' = open \ {a.closing}
    /\ natsUrl' = a.url
    /\ Rerun(a.url)
    /\ UNCHANGED << wsUrl, conn, connecting, dials, died, dialled, applied, screen, detail >>

-----------------------------------------------------------------------------
\* ingest: a heartbeat on the bus the effect listens to; the rows are read anew.
Ingest ==
  /\ effect.stage = "listening" /\ effect.dial \in open
  /\ \E n \in Nodes :
       /\ BusOf[n] = effect.dial.url
       /\ table[n].ticks < MaxBeats
       /\ table' = [table EXCEPT ![n] = [last |-> clock, ticks |-> @.ticks + 1]]
  /\ shownAt' = clock
  /\ UNCHANGED << bus, natsUrl, applies, effect, clock, applied, detail >>

\* The 1 Hz tick.
Tick ==
  /\ clock < MaxClock
  /\ clock' = clock + 1
  /\ shownAt' = clock + 1
  /\ UNCHANGED << bus, natsUrl, applies, effect, table, applied, detail >>

\* snapshot: what the table shows of a process it has heard of.
Status(n) ==
  LET age == shownAt - table[n].last
  IN IF age <= STALE THEN "live" ELSE IF age <= GONE THEN "stale" ELSE "gone"

-----------------------------------------------------------------------------
\* ServiceTable: a row is opened, which mounts EnvDetail and asks the service,
\* or closed, which drops the answer.
Expand ==
  /\ \E n \in Nodes \ {expanded} : table[n].ticks > 0 /\ expanded' = n
  /\ GetNats
  /\ env' = [phase |-> "loading", dial |-> Via]
  /\ UNCHANGED << natsUrl, applies, effect, applied, screen >>

Collapse ==
  /\ expanded # NoNode
  /\ expanded' = NoNode /\ env' = Collapsed
  /\ UNCHANGED << bus, natsUrl, applies, effect, applied, screen >>

EnvReply ==
  /\ env.phase = "loading" /\ env.dial \notin dials
  /\ \E p \in {"ok", "error"} :
       (p = "ok" => env.dial \in open) /\ env' = [env EXCEPT !.phase = p]
  /\ UNCHANGED << bus, natsUrl, applies, effect, expanded, applied, screen >>

Next ==
  \/ Subscribe \/ Beat \/ Apply \/ Closed \/ DialEnds \/ ClosesItself
  \/ Ingest \/ Tick \/ Expand \/ Collapse \/ EnvReply

Spec == Init /\ [][Next]_observer

-----------------------------------------------------------------------------
\* However often the bus is switched while it is being dialled or closed, the
\* shared connection (environment requests, ooso's heartbeat) is an open one to
\* the bus that was set last, and once no switch is under way the subscription
\* that feeds the table was made on a connection to that bus, and no switch has
\* closed it.  One that closed by itself keeps its subscription: the table falls
\* silent until the bus is changed.
FeedOfTheBus ==
  /\ conn # NoDial => conn.url = wsUrl /\ conn \in open
  /\ applies = {} /\ effect.stage = "listening"
       => effect.dial.url = wsUrl /\ effect.dial \in open \cup died
=============================================================================

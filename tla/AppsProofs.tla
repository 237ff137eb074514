----------------------------- MODULE AppsProofs -----------------------------
(***************************************************************************)
(* The properties of Apps proved for every value of its constants.  A      *)
(* behaviour stays with the part it started with, so each theorem rests on *)
(* an inductive invariant of one part, guarded by part = "...".            *)
(***************************************************************************)
EXTENDS Apps, TLAPS

-----------------------------------------------------------------------------
(* The observer. *)

\* Dials are numbered, those to come are new; a connection that is being closed
\* is neither dialled nor the shared one any more.
ObsDialsInv ==
  /\ obsDialled \in Nat
  /\ \A d \in obsDials \cup obsOpen : d.id \in 1 .. obsDialled
  /\ obsConnecting # Obs!NoDial => obsConnecting.id \in 1 .. obsDialled
  /\ \A a \in obsApplies : a.closing.id \in 1 .. obsDialled

\* The shared connection is open, to the bus that was set last, and not about to
\* be closed.
ObsConnInv ==
  /\ obsConn # Obs!NoDial => obsConn.url = obsWsUrl /\ obsConn \in obsOpen
  /\ \A a \in obsApplies : a.closing \notin obsDials /\ a.closing # obsConn
  /\ obsDials \cap obsOpen = {}

\* A subscription that does not listen to the bus that was set last, or whose
\* connection is being closed, is of an effect that will be run again: the close
\* of the switch to that bus is awaited, and it changes the applied URL.
ObsEffectInv ==
  obsEffect.stage = "listening" =>
    \/ /\ obsEffect.dial.url = obsWsUrl /\ obsEffect.dial \in obsOpen \cup obsDied
       /\ \A a \in obsApplies : a.closing # obsEffect.dial
    \/ obsNatsUrl # obsWsUrl /\ \E a \in obsApplies : a.url = obsWsUrl

ObsInv == part = "observer" => ObsDialsInv /\ ObsConnInv /\ ObsEffectInv

\* The invariant holds of the observer as it starts.
LEMMA ObsInitial == Init => ObsInv
  BY DEF Init, Obs!Init, Obs!NoDial, Obs!Started, ObsInv, ObsDialsInv, ObsConnInv,
         ObsEffectInv

\* getNats opens a dial that is new, or none, and returns what it left.
LEMMA ObsGetNats ==
  ASSUME ObsDialsInv, ObsConnInv, Obs!GetNats, obsApplies' = obsApplies
  PROVE  ObsDialsInv' /\ ObsConnInv'
<1> USE DEF ObsDialsInv, ObsConnInv, Obs!GetNats, Obs!NewDial, Obs!NoDial
<1>1. CASE Obs!Via = Obs!NewDial
  BY <1>1
<1>2. CASE Obs!Via # Obs!NewDial
  BY <1>2
<1> QED
  BY <1>1, <1>2

(* Every step of the observer keeps its dials, its connection and its effects in order. *)
LEMMA ObsStep == ASSUME ObsDialsInv, ObsConnInv, ObsEffectInv, Obs!Next
                 PROVE  ObsDialsInv' /\ ObsConnInv' /\ ObsEffectInv'
<1>1. CASE Obs!Subscribe
  <2>1. ObsDialsInv' /\ ObsConnInv'
    BY <1>1, ObsGetNats DEF Obs!Subscribe
  <2>2. CASE Obs!Via = obsConn
    <3>1. Obs!NewDial # Obs!NoDial
      BY DEF Obs!NewDial, Obs!NoDial, ObsDialsInv
    <3>2. obsConn # Obs!NoDial
      BY <2>2, <3>1 DEF Obs!Via
    <3> QED
      BY <1>1, <2>1, <2>2, <3>2 DEF Obs!Subscribe, Obs!GetNats, ObsConnInv, ObsEffectInv
  <2>3. CASE Obs!Via # obsConn
    BY <1>1, <2>1, <2>3 DEF Obs!Subscribe, ObsEffectInv
  <2> QED
    BY <2>1, <2>2, <2>3
<1>2. CASE Obs!Beat
  <2>1. ObsDialsInv' /\ ObsConnInv'
    BY <1>2, ObsGetNats DEF Obs!Beat
  <2> QED
    BY <1>2, <2>1 DEF Obs!Beat, Obs!GetNats, ObsEffectInv
<1>3. CASE Obs!Apply
  <2> USE DEF ObsDialsInv, ObsConnInv, ObsEffectInv, Obs!bus, Obs!Rerun, Obs!Started
  <2>1. PICK u \in ObsUrls \ {obsNatsUrl} :
          IF u = obsWsUrl
          THEN obsNatsUrl' = u /\ Obs!Rerun(u) /\ UNCHANGED << Obs!bus, obsApplies >>
          ELSE /\ obsWsUrl' = u
               /\ obsConn' = Obs!NoDial /\ obsConnecting' = Obs!NoDial
               /\ IF obsConn = Obs!NoDial
                  THEN obsNatsUrl' = u /\ Obs!Rerun(u) /\ UNCHANGED obsApplies
                  ELSE obsApplies' = obsApplies \cup {[url |-> u, closing |-> obsConn]}
                       /\ UNCHANGED << obsNatsUrl, obsEffect >>
               /\ UNCHANGED << obsDials, obsOpen, obsDied, obsDialled >>
    BY <1>3 DEF Obs!Apply
  <2>2. CASE u = obsWsUrl
    BY <2>1, <2>2
  <2>3. CASE u # obsWsUrl /\ obsConn = Obs!NoDial
    <3>1. \A a \in obsApplies : a.closing # Obs!NoDial
      BY DEF Obs!NoDial
    <3> QED
      BY <2>1, <2>3, <3>1
  <2>4. CASE u # obsWsUrl /\ obsConn # Obs!NoDial
    <3>1. /\ obsConn.id \in 1 .. obsDialled /\ obsConn \notin obsDials
          /\ obsConn # Obs!NoDial
      BY <2>4
    <3>2. \A a \in obsApplies' : a.closing # Obs!NoDial
      BY <2>1, <2>4 DEF Obs!NoDial
    <3>3. ObsDialsInv' /\ ObsConnInv'
      BY <2>1, <2>4, <3>1, <3>2
    <3> DEFINE a == [url |-> u, closing |-> obsConn]
    <3>4. a \in obsApplies' /\ a.url = obsWsUrl' /\ obsNatsUrl' # obsWsUrl'
      BY <2>1, <2>4
    <3> HIDE DEF a
    <3> QED
      BY <3>3, <3>4
  <2> QED
    BY <2>2, <2>3, <2>4
<1>4. CASE Obs!Closed
  BY <1>4 DEF Obs!Closed, Obs!Rerun, Obs!Started, ObsDialsInv, ObsConnInv, ObsEffectInv
<1>5. CASE Obs!DialEnds
  <2> USE DEF ObsDialsInv, ObsConnInv, ObsEffectInv
  <2>1. PICK d \in obsDials :
          /\ obsDials' = obsDials \ {d} /\ obsConnecting' = Obs!NoDial
          /\ Obs!Connected(d) \/ Obs!Rejected(d)
          /\ UNCHANGED << obsWsUrl, obsDied, obsNatsUrl, obsApplies, obsDialled >>
    BY <1>5 DEF Obs!DialEnds
  <2>2. CASE Obs!Rejected(d)
    BY <2>1, <2>2 DEF Obs!Rejected
  <2>3. CASE Obs!Connected(d)
    BY <2>1, <2>3 DEF Obs!Connected, Obs!Discard
  <2> QED
    BY <2>1, <2>2, <2>3
<1>6. CASE Obs!Ingest \/ Obs!Tick \/ Obs!Collapse \/ Obs!EnvReply
  BY <1>6 DEF Obs!Ingest, Obs!Tick, Obs!Collapse, Obs!EnvReply, Obs!bus, ObsDialsInv,
              ObsConnInv, ObsEffectInv
<1>7. CASE Obs!Expand
  <2>1. ObsDialsInv' /\ ObsConnInv'
    BY <1>7, ObsGetNats DEF Obs!Expand
  <2> QED
    BY <1>7, <2>1 DEF Obs!Expand, Obs!GetNats, ObsEffectInv
<1>8. CASE Obs!ClosesItself
  <2>1. PICK d \in obsOpen :
          /\ obsOpen' = obsOpen \ {d} /\ obsDied' = obsDied \cup {d}
          /\ obsConn' = IF obsConn = d THEN Obs!NoDial ELSE obsConn
          /\ UNCHANGED << obsWsUrl, obsConnecting, obsDials, obsDialled, obsNatsUrl,
                          obsApplies, obsEffect >>
    BY <1>8 DEF Obs!ClosesItself
  <2>2. ObsDialsInv'
    BY <2>1 DEF ObsDialsInv
  <2>3. ObsConnInv'
    <3>1. \A a \in obsApplies : a.closing # Obs!NoDial
      BY DEF ObsDialsInv, Obs!NoDial
    <3> QED
      BY <2>1, <3>1 DEF ObsConnInv
  <2>4. ObsEffectInv'
    BY <2>1 DEF ObsEffectInv
  <2> QED
    BY <2>2, <2>3, <2>4
<1> QED
  BY <1>1, <1>2, <1>3, <1>4, <1>5, <1>6, <1>7, <1>8 DEF Obs!Next

\* No step of Apps leaves the invariant, the steps of the other parts included.
LEMMA ObsInvariance == Spec => []ObsInv
<1>1. ObsInv /\ [Next]_vars => ObsInv'
  <2> SUFFICES ASSUME ObsInv, [Next]_vars PROVE ObsInv'
    OBVIOUS
  <2>1. CASE part = "observer" /\ Obs!Next
    BY <2>1, ObsStep DEF ObsInv
  <2>2. CASE part' # "observer" \/ UNCHANGED << part, varsObs >>
    BY <2>2 DEF ObsInv, ObsDialsInv, ObsConnInv, ObsEffectInv, varsObs
  <2> QED
    BY <2>1, <2>2 DEF Next, vars
<1> QED
  BY <1>1, ObsInitial, PTL DEF Spec

\* The shared connection of the observer is an open one to the bus that was set
\* last, and once no switch is under way so is the connection the table's
\* subscription was made on, unless it closed by itself, for any number of buses,
\* dials, refusals, closes and switches (getNats, setWsUrl and the effects of
\* App.tsx of ooso).
THEOREM FeedTheorem == Spec => []FeedOfTheBus
<1>1. ObsInv => FeedOfTheBus
  BY DEF ObsInv, ObsConnInv, ObsEffectInv, FeedOfTheBus, Obs!FeedOfTheBus
<1> QED
  BY <1>1, ObsInvariance, PTL

-----------------------------------------------------------------------------
(* The settings of the designer. *)

\* The pings that are awaited are of what the footer's effects last ran for, and
\* while they last ran for an endpoint its health is shown or awaited.
SetInv ==
  part = "settings" =>
    /\ setCopy = [c \in Set!Consumers |-> setCopy[c]]
    /\ setHealth = [k \in Set!Indicators |-> setHealth[k]]
    /\ setSeen.settings["endpoint"] # Set!Empty /\ setSeen.loaded =>
         \/ setHealth["endpoint"] = setSeen.settings["endpoint"]
         \/ \E p \in setPing : p.of = "endpoint"
    /\ \A p \in setPing :
         /\ p.of \in Set!Indicators
         /\ p.of = "endpoint" => p.url = setSeen.settings["endpoint"]

\* The effects leave the pings of what they ran for.
LEMMA SetEffects ==
  ASSUME SetInv, part = "settings", part' = part, Set!Effects
  PROVE  SetInv'
<1>1. /\ setSeen' = Set!Now /\ setCopy' = setCopy /\ setHealth' = setHealth
      /\ setPing' = {p \in setPing : ~Set!Due(p.of)} \cup Set!NewPings
  BY DEF Set!Effects
<1>2. \A p \in Set!NewPings : /\ p.of \in Set!Indicators
                              /\ p.of = "endpoint" => p.url = Set!Now.settings["endpoint"]
  BY DEF Set!NewPings, Set!Asked
<1>3. CASE Set!Due("endpoint")
  <2>1. \A p \in setPing' : /\ p.of \in Set!Indicators
                            /\ p.of = "endpoint" => p.url = setSeen'.settings["endpoint"]
    BY <1>1, <1>2, <1>3 DEF SetInv
  <2>2. ASSUME Set!Now.settings["endpoint"] # Set!Empty, Set!Now.loaded
        PROVE  \E p \in setPing' : p.of = "endpoint"
    <3> DEFINE q == [of |-> "endpoint", url |-> Set!Asked("endpoint"), n |-> setPinged + 1]
    <3>1. q \in Set!NewPings
      BY <1>3, <2>2 DEF Set!NewPings, Set!Indicators
    <3>2. q.of = "endpoint"
      OBVIOUS
    <3> HIDE DEF q
    <3> QED
      BY <1>1, <3>1, <3>2
  <2> QED
    BY <1>1, <2>1, <2>2 DEF SetInv
<1>4. CASE ~Set!Due("endpoint")
  <2>1. /\ setSeen'.settings["endpoint"] = setSeen.settings["endpoint"]
        /\ setSeen'.loaded = setSeen.loaded
    BY <1>1, <1>4 DEF Set!Due
  <2>2. \A p \in setPing : p.of = "endpoint" => p \in setPing'
    BY <1>1, <1>4
  <2>3. \A p \in setPing' : /\ p.of \in Set!Indicators
                            /\ p.of = "endpoint" => p.url = setSeen'.settings["endpoint"]
    BY <1>1, <1>2, <2>1 DEF SetInv
  <2> QED
    BY <1>1, <2>1, <2>2, <2>3 DEF SetInv
<1> QED
  BY <1>3, <1>4

\* The steps of the panel and of the loads leave the footer's pings alone; an
\* interval asks again what the effect asked, an answer is shown.
LEMMA SetStep == ASSUME SetInv, part = "settings", part' = part, Set!Next
                 PROVE  SetInv'
<1>1. CASE Set!Effects
  BY <1>1, SetEffects
<1>2. CASE Set!Ping
  <2>1. PICK k \in Set!Indicators :
          setPing' = setPing \cup
            {[of |-> k, n |-> setPinged + 1,
              url |-> IF k = "natsUrl" THEN Set!WS_URL ELSE setSeen.settings[k]]}
    BY <1>2 DEF Set!Ping
  <2>2. UNCHANGED << setCopy, setHealth, setSeen >>
    BY <1>2 DEF Set!Ping
  <2> QED
    BY <2>1, <2>2 DEF SetInv
<1>3. CASE Set!Pong
  <2>1. PICK p \in setPing : /\ setPing' = setPing \ {p}
                             /\ setHealth' = [setHealth EXCEPT ![p.of] = p.url]
    BY <1>3 DEF Set!Pong
  <2>2. UNCHANGED << setCopy, setSeen >>
    BY <1>3 DEF Set!Pong
  <2>3. /\ setHealth' = [k \in Set!Indicators |-> setHealth'[k]]
        /\ p.of = "endpoint" => setHealth'["endpoint"] = setSeen.settings["endpoint"]
        /\ p.of # "endpoint" => setHealth'["endpoint"] = setHealth["endpoint"]
    BY <2>1 DEF SetInv, Set!Indicators
  <2> QED
    BY <2>1, <2>2, <2>3 DEF SetInv
<1>4. CASE Set!Loaded
  <2>1. UNCHANGED << setSeen, setPing, setHealth >>
    BY <1>4 DEF Set!Loaded, Set!footer
  <2>2. setCopy' = [c \in Set!Consumers |-> setCopy'[c]]
    BY <1>4 DEF Set!Loaded, SetInv
  <2> QED
    BY <2>1, <2>2 DEF SetInv
<1>5. CASE Set!Announced
  <2>1. UNCHANGED << setSeen, setPing, setHealth >>
    BY <1>5 DEF Set!Announced, Set!footer
  <2>2. setCopy' = [c \in Set!Consumers |-> setCopy'[c]]
    BY <1>5 DEF Set!Announced
  <2> QED
    BY <2>1, <2>2 DEF SetInv
<1>6. CASE Set!Open
  BY <1>6 DEF Set!Open, Set!footer, SetInv
<1>7. CASE Set!Answer \/ Set!Edit \/ Set!Save \/ Set!Written
  BY <1>7 DEF Set!Answer, Set!Edit, Set!Save, Set!Written, Set!footer, SetInv
<1>8. CASE Set!ListModels \/ Set!ModelsListed
  BY <1>8 DEF Set!ListModels, Set!ModelsListed, Set!footer, SetInv
<1> QED
  BY <1>1, <1>2, <1>3, <1>4, <1>5, <1>6, <1>7, <1>8 DEF Set!Next

(* The pings of the footer are in order in every behaviour. *)
LEMMA SetInvariance == Spec => []SetInv
<1>1. Init => SetInv
  BY DEF Init, Set!Init, SetInv
<1>2. SetInv /\ [Next]_vars => SetInv'
  <2> SUFFICES ASSUME SetInv, [Next]_vars PROVE SetInv'
    OBVIOUS
  <2>1. CASE part = "settings" /\ part' = part /\ Set!Next
    BY <2>1, SetStep
  <2>2. CASE part' # "settings" \/ UNCHANGED << part, varsSet >>
    BY <2>2 DEF SetInv, varsSet
  <2> QED
    BY <2>1, <2>2 DEF Next, vars
<1> QED
  BY <1>1, <1>2, PTL DEF Spec

\* The LLM health the designer's footer shows is of the endpoint its settings name,
\* or a ping of that endpoint is due or awaited, and no answer of an older endpoint
\* can come after it, however loads, announced saves, renders and pings race, for
\* any number of them (Footer.tsx and store/settings.ts of oosd).
THEOREM HealthTheorem == Spec => []HealthOfTheUrl
<1>1. SetInv => HealthOfTheUrl
  <2> SUFFICES ASSUME SetInv, part = "settings", ~Set!Due("endpoint"), Set!Now.loaded,
                      Set!Now.settings["endpoint"] # Set!Empty
               PROVE  /\ \A p \in {q \in setPing : q.of = "endpoint"} :
                           p.url = Set!Now.settings["endpoint"]
                      /\ \/ setHealth["endpoint"] = Set!Now.settings["endpoint"]
                         \/ {q \in setPing : q.of = "endpoint"} # {}
    BY DEF HealthOfTheUrl, Set!HealthOfTheUrl
  <2>1. /\ setSeen.settings["endpoint"] = Set!Now.settings["endpoint"]
        /\ setSeen.loaded
    BY DEF Set!Due
  <2> QED
    BY <2>1 DEF SetInv
<1> QED
  BY <1>1, SetInvariance, PTL

-----------------------------------------------------------------------------
(* The pipeline texts. *)

\* What the parser hands on.
TxtDocuments ==
  [mode : {"context", "mass"}, embedding : BOOLEAN, subject : BOOLEAN,
   sources : Seq(Txt!SourceDefs), steps : Seq(Txt!StepDefs)]

\* A pipeline that was accepted was linked and validated, and the runner has rows
\* for its db sources and for every step before the one it is at; what it lacks is a
\* docs source that an llm step names.
TxtInv ==
  part = "text" =>
    /\ txtAst \in TxtDocuments
    /\ txtAt \in Nat \ {0}
    /\ txtMissing # {} =>
         /\ txtAt - 1 \in 1 .. Len(txtAst.steps) /\ txtAst.steps[txtAt - 1].kind = "llm"
         /\ txtMissing \subseteq Txt!OfKind(txtAst, "docs")
    /\ txtVerdict = "pending" => txtAt = 1
    /\ txtVerdict = "accepted" =>
         /\ Txt!Linked(txtAst) /\ Txt!ValidatePipeline(Txt!MapPipeline(txtAst))
         /\ Txt!OfKind(txtAst, "db") \subseteq txtHave
         /\ \A i \in 1 .. Len(txtAst.steps) : i < txtAt => txtAst.steps[i].name \in txtHave

\* One or several members of a set are a sequence of members.
LEMMA TxtSeveral ==
  ASSUME NEW S, NEW n \in Nat, NEW q \in Txt!Several(S, n)
  PROVE  q \in Seq(S)
<1>1. PICK m \in 1 .. n : q \in [1 .. m -> S]
  BY DEF Txt!Several
<1> QED
  BY <1>1

\* Every document of the parser is one of sequences.
LEMMA TxtInitial == Init => TxtInv
<1> SUFFICES ASSUME part = "text", Txt!Init PROVE TxtInv
  BY DEF Init, TxtInv
<1>1. txtAst.steps \in Seq(Txt!StepDefs)
  BY TxtSeveral, LengthAssumption DEF Txt!Init
<1>2. txtAst.sources \in Seq(Txt!SourceDefs)
  BY TxtSeveral, LengthAssumption DEF Txt!Init
<1>3. txtAst \in TxtDocuments
  BY <1>1, <1>2 DEF TxtDocuments, Txt!Init
<1> QED
  BY <1>3 DEF TxtInv, Txt!Init

\* The steps of a document are a sequence of steps.
LEMMA TxtSteps ==
  ASSUME NEW d \in TxtDocuments
  PROVE  d.steps \in Seq(Txt!StepDefs) /\ Len(d.steps) \in Nat
<1>1. d.steps \in Seq(Txt!StepDefs)
  BY DEF TxtDocuments
<1> QED
  BY <1>1

\* What is known of a step of the grammar.
LEMMA TxtStepDef ==
  ASSUME NEW s \in Txt!StepDefs
  PROVE  /\ s = [kind |-> s.kind, name |-> s.name, source |-> s.source, input |-> s.input,
                 queries |-> s.queries]
         /\ s.kind \in {"semantic", "where", "llm"}
         /\ s.kind # "llm" => s.input = Txt!NoInput
  BY DEF Txt!StepDefs

\* mapPipeline changes nothing of a document that was linked: an input it would
\* lose is one the linker refused.
LEMMA TxtMapped ==
  ASSUME NEW d \in TxtDocuments, Txt!Linked(d)
  PROVE  Txt!MapPipeline(d) = d
<1>1. ASSUME NEW i \in 1 .. Len(d.steps) PROVE Txt!MapStep(d, d.steps[i]) = d.steps[i]
  <2> DEFINE s == d.steps[i]
  <2>1. s \in Txt!StepDefs
    BY DEF TxtDocuments
  <2>2. s.input \in {Txt!NoInput} \cup Txt!Names(d.steps)
    BY DEF Txt!Linked
  <2> HIDE DEF s
  <2>3. (IF s.kind = "llm" /\ s.input \in Txt!Names(d.steps) THEN s.input ELSE Txt!NoInput)
          = s.input
    BY <2>1, <2>2, TxtStepDef
  <2> QED
    BY <2>1, <2>3, TxtStepDef DEF Txt!MapStep, s
<1>2. d.steps = [i \in 1 .. Len(d.steps) |-> d.steps[i]]
  BY DEF TxtDocuments
<1>3. [i \in 1 .. Len(d.steps) |-> Txt!MapStep(d, d.steps[i])] = d.steps
  BY <1>1, <1>2
<1> QED
  BY <1>3 DEF Txt!MapPipeline, TxtDocuments

\* With the names distinct, findIndex finds the step of the name.
LEMMA TxtFindIndex ==
  ASSUME NEW d \in TxtDocuments, Txt!Distinct(d.steps), NEW i \in 1 .. Len(d.steps),
         NEW n, Txt!Preceding(d, i, n)
  PROVE  \E j \in 1 .. Len(d.steps) : j < i /\ d.steps[j].name = n
<1> DEFINE is == {j \in 1 .. Len(d.steps) : d.steps[j].name = n}
<1>1. Len(d.steps) \in Nat
  BY DEF TxtDocuments
<1>2. is # {}
  BY DEF Txt!Preceding, Txt!FindIndex
<1>3. PICK j \in is : TRUE
  BY <1>2
<1>4. \A k \in is : k = j
  BY <1>3 DEF Txt!Distinct
<1>5. \A k \in is : j <= k
  BY <1>1, <1>3, <1>4
<1>6. (CHOOSE k \in is : \A l \in is : k <= l) \in is
  BY <1>3, <1>5
<1>7. Txt!FindIndex(d, n) \in is
  BY <1>2, <1>6 DEF Txt!FindIndex
<1> QED
  BY <1>7 DEF Txt!Preceding

\* A source is of one of the kinds.
LEMMA TxtOfKind ==
  ASSUME NEW d \in TxtDocuments, NEW n \in Txt!Names(d.sources)
  PROVE  n \in Txt!OfKind(d, "db") \/ n \in Txt!OfKind(d, "docs")
<1>1. d.sources \in Seq(Txt!SourceDefs)
  BY DEF TxtDocuments
<1>2. PICK i \in 1 .. Len(d.sources) : n = d.sources[i].name
  BY DEF Txt!Names
<1>3. d.sources[i] \in Txt!SourceDefs
  BY <1>1
<1>4. d.sources[i].kind \in {"db", "docs"}
  BY <1>3 DEF Txt!SourceDefs
<1> QED
  BY <1>2, <1>4 DEF Txt!OfKind

\* The step the runner is at finds what it reads, unless it is an llm step and reads
\* a docs source.
LEMMA TxtReads ==
  ASSUME TxtInv, part = "text", txtVerdict = "accepted",
         txtAt <= Len(txtAst.steps), Txt!Missing(txtAst.steps[txtAt]) # {}
  PROVE  /\ txtAst.steps[txtAt].kind = "llm"
         /\ Txt!Missing(txtAst.steps[txtAt]) \subseteq Txt!OfKind(txtAst, "docs")
<1> DEFINE d == txtAst
           s == txtAst.steps[txtAt]
<1>1. /\ d \in TxtDocuments /\ Len(d.steps) \in Nat /\ txtAt \in 1 .. Len(d.steps)
      /\ s \in Txt!StepDefs
  <2>1. d \in TxtDocuments /\ txtAt \in Nat \ {0}
    BY DEF TxtInv
  <2>2. d.steps \in Seq(Txt!StepDefs) /\ Len(d.steps) \in Nat
    BY <2>1, TxtSteps
  <2> HIDE DEF d
  <2> QED
    BY <2>1, <2>2 DEF d
<1>2. Txt!Linked(d) /\ Txt!ValidatePipeline(d)
  BY <1>1, TxtMapped DEF TxtInv
<1>3. Txt!Distinct(d.steps) /\ Txt!ValidStep(d, txtAt)
  BY <1>1, <1>2 DEF Txt!ValidatePipeline
<1>4. \A n : Txt!Preceding(d, txtAt, n) => n \in txtHave
  <2>1. \A i \in 1 .. Len(d.steps) : i < txtAt => d.steps[i].name \in txtHave
    BY DEF TxtInv
  <2> HIDE DEF d
  <2> QED
    BY <1>1, <1>3, <2>1, TxtFindIndex
<1>5. Txt!OfKind(d, "db") \subseteq txtHave
  BY DEF TxtInv
<1>6. CASE s.kind = "semantic"
  BY <1>1, <1>3, <1>4, <1>5, <1>6, TxtStepDef
     DEF Txt!ValidStep, Txt!ValidSemantic, Txt!Missing
<1>7. CASE s.kind = "where"
  BY <1>1, <1>3, <1>5, <1>7, TxtStepDef
     DEF Txt!ValidStep, Txt!ValidWhere, Txt!Missing
<1>8. CASE s.kind = "llm"
  <2>1. s.source \in Txt!Names(d.sources) \/ s.source \in txtHave
    BY <1>3, <1>4, <1>8 DEF Txt!ValidStep, Txt!ValidLlm
  <2>2. s.source \in txtHave \/ s.source \in Txt!OfKind(d, "docs")
    <3> HIDE DEF d, s
    <3> QED
      BY <1>1, <1>5, <2>1, TxtOfKind
  <2>3. s.input = Txt!NoInput \/ s.input \in txtHave
    BY <1>3, <1>4, <1>8 DEF Txt!ValidStep, Txt!ValidLlm
  <2> QED
    BY <1>8, <2>2, <2>3 DEF Txt!Missing
<1> QED
  BY <1>1, <1>6, <1>7, <1>8, TxtStepDef

\* The document stays what it was while it is parsed and run.
LEMMA TxtStep == ASSUME TxtInv, part = "text", part' = part, Txt!Next
                 PROVE  TxtInv'
<1>1. CASE Txt!ParsePipeline
  <2>1. /\ txtAst' = txtAst /\ txtAt = 1 /\ txtAt' = 1 /\ txtMissing' = txtMissing
        /\ txtHave' = Txt!OfKind(txtAst, "db")
    BY <1>1 DEF Txt!ParsePipeline, TxtInv
  <2>2. txtVerdict' \in {"accepted", "rejected"}
    BY <1>1 DEF Txt!ParsePipeline
  <2>3. txtVerdict' = "accepted"
           => Txt!Linked(txtAst) /\ Txt!ValidatePipeline(Txt!MapPipeline(txtAst))
    BY <1>1 DEF Txt!ParsePipeline
  <2>4. txtAst \in TxtDocuments
    BY DEF TxtInv
  <2>5. \A i \in 1 .. Len(txtAst.steps) : ~(i < 1)
    BY <2>4, TxtSteps
  <2> QED
    BY <2>1, <2>2, <2>3, <2>4, <2>5 DEF TxtInv
<1>2. CASE Txt!RunStep
  <2>1. /\ txtVerdict = "accepted" /\ txtVerdict' = txtVerdict /\ txtAst' = txtAst
        /\ txtAt' = txtAt + 1 /\ txtHave' = txtHave \cup {txtAst.steps[txtAt].name}
        /\ txtAt <= Len(txtAst.steps)
        /\ txtMissing' = Txt!Missing(txtAst.steps[txtAt])
    BY <1>2 DEF Txt!RunStep
  <2>2. txtMissing' # {} =>
          /\ txtAst.steps[txtAt].kind = "llm"
          /\ txtMissing' \subseteq Txt!OfKind(txtAst, "docs")
    BY <2>1, TxtReads
  <2>3. /\ txtAst \in TxtDocuments /\ txtAt \in Nat \ {0}
        /\ \A i \in 1 .. Len(txtAst.steps) : i < txtAt => txtAst.steps[i].name \in txtHave
    BY <2>1 DEF TxtInv
  <2>4. Len(txtAst.steps) \in Nat
    BY <2>3, TxtSteps
  <2>5. \A i \in 1 .. Len(txtAst.steps) : i < txtAt + 1 => i < txtAt \/ i = txtAt
    BY <2>3, <2>4
  <2>6. \A i \in 1 .. Len(txtAst.steps) : i < txtAt' => txtAst.steps[i].name \in txtHave'
    BY <2>1, <2>3, <2>5
  <2>7. txtAt' \in Nat \ {0} /\ txtAt' - 1 = txtAt /\ txtAt \in 1 .. Len(txtAst.steps)
    BY <2>1, <2>3, <2>4
  <2> QED
    BY <2>1, <2>2, <2>3, <2>6, <2>7 DEF TxtInv
<1> QED
  BY <1>1, <1>2 DEF Txt!Next

\* No step of Apps leaves the invariant.
LEMMA TxtInvariance == Spec => []TxtInv
<1>1. TxtInv /\ [Next]_vars => TxtInv'
  <2> SUFFICES ASSUME TxtInv, [Next]_vars PROVE TxtInv'
    OBVIOUS
  <2>1. CASE part = "text" /\ part' = part /\ Txt!Next
    BY <2>1, TxtStep
  <2>2. CASE part' # "text" \/ UNCHANGED << part, varsTxt >>
    BY <2>2 DEF TxtInv, varsTxt
  <2> QED
    BY <2>1, <2>2 DEF Next, vars
<1> QED
  BY <1>1, TxtInitial, PTL DEF Spec

\* A pipeline the validator accepts runs through: every step finds its source and
\* its input among the db sources and what was computed before it, whatever the
\* names, the number and the order of sources and steps are; only an llm step that
\* names a docs source does not (validator.ts, mapper.ts).
THEOREM RunsThroughTheorem == Spec => []AcceptedRunsThrough
<1>1. TxtInv => AcceptedRunsThrough
  BY DEF TxtInv, AcceptedRunsThrough, Txt!AcceptedRunsThrough
<1> QED
  BY <1>1, TxtInvariance, PTL

-----------------------------------------------------------------------------
(* The bench. *)

\* A snapshot the supervisor has not read yet has its poke: in the channel, or
\* about to be sent by the save that wrote it.
BenInv ==
  part = "bench" =>
    /\ benQueue \in Nat
    /\ benQueue > 0 \/ (\E c \in benCalls : c.stage = "written") \/ benSup.snap = benMem
    /\ benSup = [phase |-> benSup.phase, snap |-> benSup.snap, todo |-> benSup.todo]
    /\ \A c \in benCalls : c = [n |-> c.n, stage |-> c.stage, next |-> c.next]

\* The steps of the bench keep it.
LEMMA BenStep == ASSUME BenInv, part = "bench", part' = part, Ben!Next
                 PROVE  BenInv'
<1> USE DEF Ben!backend, Ben!window
<1>1. ASSUME NEW next, Ben!SaveSettings(next) PROVE BenInv'
  BY <1>1 DEF Ben!SaveSettings, BenInv
<1>2. CASE \/ Ben!AddServer \/ Ben!RemoveServer \/ Ben!AddRoot \/ Ben!RemoveRoot
           \/ Ben!SubmitGeneral \/ Ben!SubmitDatabase
  BY <1>1, <1>2 DEF Ben!AddServer, Ben!RemoveServer, Ben!AddRoot, Ben!RemoveRoot,
                    Ben!SubmitGeneral, Ben!SubmitDatabase
<1>3. CASE Ben!SaveFile
  BY <1>3 DEF Ben!SaveFile, Ben!Step, BenInv
<1>4. CASE Ben!SaveProceeds
  <2>1. PICK c \in benCalls : Ben!WriteThenPoke(c)
    BY <1>4 DEF Ben!SaveProceeds
  <2>2. benSup' = benSup
    BY <1>4 DEF Ben!SaveProceeds
  <2>3. CASE c.stage = "filed"
    <3>1. /\ benCalls' = (benCalls \ {c}) \cup {[c EXCEPT !.stage = "written"]}
          /\ benQueue' = benQueue
      BY <2>1, <2>3 DEF Ben!WriteThenPoke, Ben!Step
    <3>2. /\ [c EXCEPT !.stage = "written"].stage = "written"
          /\ [c EXCEPT !.stage = "written"]
               = [n |-> c.n, stage |-> "written", next |-> c.next]
      BY DEF BenInv
    <3> QED
      BY <2>2, <3>1, <3>2 DEF BenInv
  <2>4. CASE c.stage # "filed"
    <3>1. /\ benCalls' = (benCalls \ {c}) \cup {[c EXCEPT !.stage = "answered"]}
          /\ benQueue' = IF benQueue < BenQueueCap THEN benQueue + 1 ELSE benQueue
          /\ benMem' = benMem
      BY <2>1, <2>4 DEF Ben!WriteThenPoke, Ben!Step, Ben!Poke
    <3>2. benQueue' \in Nat /\ benQueue' > 0
      BY <3>1, QueueCapAssumption DEF BenInv
    <3> QED
      BY <2>2, <3>1, <3>2 DEF BenInv
  <2> QED
    BY <2>3, <2>4
<1>5. CASE Ben!SaveAnswered
  BY <1>5 DEF Ben!SaveAnswered, BenInv
<1>6. CASE Ben!Rebuild
  BY <1>6 DEF Ben!Rebuild, BenInv
<1>7. CASE Ben!ConnectOne \/ Ben!Connected
  BY <1>7 DEF Ben!ConnectOne, Ben!Connected, BenInv
<1>8. CASE UNCHANGED << benQueue, benSup, benMem, benCalls >>
  BY <1>8 DEF BenInv
<1> QED
  BY <1>2, <1>3, <1>4, <1>5, <1>6, <1>7, <1>8
     DEF Ben!Next, Ben!LinkChanges, Ben!ToolEvent, Ben!PushTool, Ben!MarkReady,
         Ben!ReadSnapshot, Ben!Flush, Ben!Ready, Ben!Deliver, Ben!handlePause,
         Ben!handleClear

\* No step of Apps leaves the invariant.
LEMMA BenInvariance == Spec => []BenInv
<1>1. Init => BenInv
  BY DEF Init, Ben!Init, BenInv
<1>2. BenInv /\ [Next]_vars => BenInv'
  <2> SUFFICES ASSUME BenInv, [Next]_vars PROVE BenInv'
    OBVIOUS
  <2>1. CASE part = "bench" /\ part' = part /\ Ben!Next
    BY <2>1, BenStep
  <2>2. CASE part' # "bench" \/ UNCHANGED << part, varsBen >>
    BY <2>2 DEF BenInv, varsBen
  <2> QED
    BY <2>1, <2>2 DEF Next, vars
<1> QED
  BY <1>1, <1>2, PTL DEF Spec

\* Once the channel is empty, the supervisor idle and no save between its write and
\* its poke, the connections of the bench are those of the settings in force, for
\* any capacity of the channel and however the saves overlap (save_settings and
\* the supervisor of observe.rs).
THEOREM ConnectionsTheorem == Spec => []ConnectionsFollowSettings
<1>1. BenInv => ConnectionsFollowSettings
  BY DEF BenInv, ConnectionsFollowSettings, Ben!ConnectionsFollowSettings
<1> QED
  BY <1>1, BenInvariance, PTL

-----------------------------------------------------------------------------
(* The panels of the designer. *)

\* A busy flag has a request that will lower it, and requests keep their flags.
AdmInv ==
  part = "admin" =>
    /\ \A f \in admBusy : \E q \in admRequests : f \in q.flags
    /\ \A q \in admRequests : "flags" \in DOMAIN q

\* What a request carries.
LEMMA AdmAsk ==
  ASSUME NEW n, NEW op, NEW i, NEW d, NEW flags, NEW then
  PROVE  /\ Adm!Ask(n, op, i, d, flags, then).flags = flags
         /\ "flags" \in DOMAIN Adm!Ask(n, op, i, d, flags, then)
  BY DEF Adm!Ask

\* A request that goes out raises its own flags and no other.
LEMMA AdmStart ==
  ASSUME AdmInv, part = "admin", part' = part, NEW op, NEW i, NEW d, NEW flags,
         Adm!Start(op, i, d, flags)
  PROVE  AdmInv'
  BY AdmAsk DEF Adm!Start, AdmInv

\* One that ends lowers its flags.
LEMMA AdmFinish ==
  ASSUME AdmInv, part = "admin", part' = part, NEW q \in admRequests, Adm!Finish(q)
  PROVE  AdmInv'
  BY DEF Adm!Finish, AdmInv

\* One that goes on keeps its flags up beside the new ones.
LEMMA AdmContinue ==
  ASSUME AdmInv, part = "admin", part' = part, NEW q \in admRequests,
         NEW op, NEW i, NEW d, NEW flags, NEW then,
         Adm!Continue(q, op, i, d, flags, then)
  PROVE  AdmInv'
<1> DEFINE a == Adm!Ask(admCount, op, i, d, q.flags \cup flags, then)
<1>1. admRequests' = (admRequests \ {q}) \cup {a} /\ admBusy' = admBusy \cup flags
  BY DEF Adm!Continue
<1>2. a.flags = q.flags \cup flags /\ "flags" \in DOMAIN a
  BY AdmAsk
<1> HIDE DEF a
<1> QED
  BY <1>1, <1>2 DEF AdmInv

\* The steps of the panels keep it.
LEMMA AdmStep == ASSUME AdmInv, part = "admin", part' = part, Adm!Next
                 PROVE  AdmInv'
<1>1. CASE Adm!Reply
  <2>1. PICK q \in admRequests :
          \/ Adm!Listed(q) \/ Adm!KeysLoaded(q) \/ Adm!ContentLoaded(q) \/ Adm!Put(q)
          \/ Adm!Inserted(q) \/ Adm!Deleted(q) \/ Adm!KeyDeleted(q) \/ Adm!Done(q)
    BY <1>1 DEF Adm!Reply
  <2>2. CASE Adm!Finish(q)
    BY <2>2, AdmFinish
  <2>3. CASE \E op, i, d, flags, then : Adm!Continue(q, op, i, d, flags, then)
    BY <2>3, AdmContinue
  <2>4. Adm!Put(q) => Adm!Finish(q)
                        \/ \E op, i, d, flags, then : Adm!Continue(q, op, i, d, flags, then)
    BY DEF Adm!Put
  <2>5. Adm!Inserted(q) => Adm!Finish(q)
                             \/ \E op, i, d, flags, then : Adm!Continue(q, op, i, d, flags, then)
    BY DEF Adm!Inserted
  <2> QED
    BY <2>1, <2>2, <2>3, <2>4, <2>5
       DEF Adm!Listed, Adm!KeysLoaded, Adm!ContentLoaded, Adm!Deleted, Adm!KeyDeleted, Adm!Done
<1>2. CASE Adm!Serve
  <2>0. PICK q \in admRequests, b \in BOOLEAN : \E got :
          admRequests' = (admRequests \ {q}) \cup
            {[q EXCEPT !.answered = TRUE, !.ok = b, !.got = got]}
    BY <1>2 DEF Adm!Serve
  <2>1. PICK got : admRequests' = (admRequests \ {q}) \cup
                     {[q EXCEPT !.answered = TRUE, !.ok = b, !.got = got]}
    BY <2>0
  <2>2. admBusy' = admBusy
    BY <1>2 DEF Adm!Serve
  <2> DEFINE r == [q EXCEPT !.answered = TRUE, !.ok = b, !.got = got]
  <2>3. r.flags = q.flags /\ "flags" \in DOMAIN r
    BY DEF AdmInv
  <2> HIDE DEF r
  <2> QED
    BY <2>1, <2>2, <2>3 DEF AdmInv, r
<1>3. CASE Adm!SelectMapping
  BY <1>3, AdmAsk DEF Adm!SelectMapping, AdmInv
<1>4. CASE \E op, i, d, flags : Adm!Start(op, i, d, flags)
  BY <1>4, AdmStart
<1>5. CASE UNCHANGED << admBusy, admRequests >>
  BY <1>5 DEF AdmInv
<1>6. CASE Adm!SelectTab
  BY <1>4, <1>5, <1>6 DEF Adm!SelectTab
<1>7. CASE \/ Adm!Refresh \/ Adm!SelectBucket \/ Adm!SaveEntry \/ Adm!CreateKey
           \/ Adm!DeleteKey \/ Adm!CreateBucket \/ Adm!DeleteBucket \/ Adm!SelectType
  BY <1>4, <1>7 DEF Adm!Refresh, Adm!SelectBucket, Adm!SaveEntry, Adm!CreateKey,
                    Adm!DeleteKey, Adm!CreateBucket, Adm!DeleteBucket, Adm!SelectType
<1>8. CASE \/ Adm!SaveSource \/ Adm!SaveTags \/ Adm!CreateType \/ Adm!DeleteType
           \/ Adm!Toggle \/ Adm!SaveGroups \/ Adm!SetPassword \/ Adm!CreateUser
  BY <1>4, <1>8 DEF Adm!SaveSource, Adm!SaveTags, Adm!CreateType, Adm!DeleteType,
                    Adm!Toggle, Adm!SaveGroups, Adm!SetPassword, Adm!CreateUser
<1>9. CASE Adm!DeleteUser \/ Adm!CreateContext \/ Adm!RunSeed
  BY <1>4, <1>9 DEF Adm!DeleteUser, Adm!CreateContext, Adm!RunSeed
<1>10. CASE \/ Adm!SelectKey \/ Adm!EditValue \/ Adm!EditSource \/ Adm!SelectUser
            \/ Adm!EditGroups \/ Adm!SelectContext \/ Adm!StartNew \/ Adm!FillForm
  BY <1>5, <1>10 DEF Adm!SelectKey, Adm!EditValue, Adm!EditSource, Adm!SelectUser,
                     Adm!EditGroups, Adm!SelectContext, Adm!StartNew, Adm!FillForm
<1> QED
  BY <1>1, <1>2, <1>3, <1>6, <1>7, <1>8, <1>9, <1>10 DEF Adm!Next

\* No step of Apps leaves the invariant.
LEMMA AdmInvariance == Spec => []AdmInv
<1>1. Init => AdmInv
  <2> SUFFICES ASSUME part = "admin", Adm!Init PROVE AdmInv
    BY DEF Init, AdmInv
  <2>1. \A q \in Adm!Mounted(admPanel) : q.flags = {"list"} /\ "flags" \in DOMAIN q
    BY AdmAsk DEF Adm!Mounted
  <2>2. admPanel # "demo" => Adm!Mounted(admPanel) # {}
    BY DEF Adm!Mounted
  <2> QED
    BY <2>1, <2>2 DEF Adm!Init, AdmInv
<1>2. AdmInv /\ [Next]_vars => AdmInv'
  <2> SUFFICES ASSUME AdmInv, [Next]_vars PROVE AdmInv'
    OBVIOUS
  <2>1. CASE part = "admin" /\ part' = part /\ Adm!Next
    BY <2>1, AdmStep
  <2>2. CASE part' # "admin" \/ UNCHANGED << part, varsAdm >>
    BY <2>2 DEF AdmInv, varsAdm
  <2> QED
    BY <2>1, <2>2 DEF Next, vars
<1> QED
  BY <1>1, <1>2, PTL DEF Spec

\* A panel of the designer is busy only while a request it waits for is under way,
\* for any items, panels and number of requests: the finally blocks lower what was
\* raised, and an operation that goes on to a reload keeps its flag with it
\* (KvStorePanel.tsx and the panels beside it).
THEOREM BusyTheorem == Spec => []BusyMeansUnderWay
<1>1. AdmInv => BusyMeansUnderWay
  BY DEF AdmInv, BusyMeansUnderWay, Adm!BusyMeansUnderWay
<1> QED
  BY <1>1, AdmInvariance, PTL

-----------------------------------------------------------------------------
(* The language worker and its clients. *)

\* The ids of the requests are those given out, each to one request; the text in
\* the editor is the last one made, or none.
PreWorkerInv ==
  /\ preNextId \in Nat \ {0} /\ preLast \in Nat /\ preText \in {0, preLast}
  /\ preLatest \in Nat /\ preLatest < preNextId
  /\ preChunkJob \in Nat /\ preChunkJob < preNextId
  /\ \A j \in preJobs : j.id \in Nat \ {0} /\ j.id < preNextId /\ j.text \in 0 .. preLast
  /\ \A j, k \in preJobs : j.id = k.id => j = k

\* The request the chunk tab waits for is of the text in the editor; with none it
\* shows that text.
PreChunkInv ==
  prePane = "chunk" =>
    /\ preChunkJob = 0 => preChunk = preText
    /\ \A j \in preJobs : j.id = preChunkJob => j.text = preText

\* The reply the editor waits for is of a text no older than the one marked up;
\* only the source tab has markers.
PreMarkersInv ==
  /\ preMarkers \in 0 .. preLast
  /\ prePane # "source" => preMarkers = 0 /\ preLatest = 0 /\ preValTimer = FALSE
  /\ \A j \in preJobs : j.id = preLatest => j.text = 0 \/ j.text >= preMarkers

PreState == PreWorkerInv /\ PreChunkInv /\ PreMarkersInv
PreInv == part = "preview" => PreState

\* The steps of the editor pane keep the invariant.
LEMMA PreStep == ASSUME PreState, Pre!Next PROVE PreState'
<1> USE DEF Pre!Nothing, Pre!Quiet, Pre!form, Pre!chunks, Pre!validation
<1>1. CASE Pre!Type
  BY <1>1 DEF Pre!Type, Pre!validateModel, PreState, PreWorkerInv, PreChunkInv, PreMarkersInv
<1>2. CASE Pre!SelectRow
  <2>1. /\ preText' = 0 /\ UNCHANGED << prePane, preLast, preLatest >>
        /\ Pre!Effects(0)
        /\ IF prePane = "source" THEN preMarkers' = 0
                                 ELSE UNCHANGED << preValTimer, preMarkers >>
    BY <1>2 DEF Pre!SelectRow, Pre!clearMarkers
  <2>2. UNCHANGED << preNextId, preJobs >>
        /\ IF prePane = "chunk" THEN preChunk' = 0 /\ preChunkJob' = 0
                                ELSE UNCHANGED << preChunkJob, preChunk >>
    BY <2>1 DEF Pre!Effects, Pre!ChunkEffect, Pre!FormEffect
  <2> QED
    BY <2>1, <2>2 DEF PreState, PreWorkerInv, PreChunkInv, PreMarkersInv
<1>3. CASE Pre!LoadRow
  <2>1. /\ preLast' = preLast + 1 /\ preText' = preLast + 1
        /\ UNCHANGED << prePane, preValTimer, preLatest, preMarkers >>
        /\ Pre!Effects(preLast + 1)
    BY <1>3 DEF Pre!LoadRow
  <2>2. preLast \in Nat /\ preLast + 1 # 0
    BY DEF PreState, PreWorkerInv
  <2>3. CASE prePane = "chunk"
    <3>1. preChunkJob' = preNextId /\ Pre!Post("chunk", preLast + 1)
      BY <2>1, <2>2, <2>3 DEF Pre!Effects, Pre!ChunkEffect
    <3> DEFINE r == Pre!Request("chunk", preLast + 1)
    <3>2. /\ preNextId' = preNextId + 1 /\ preJobs' = preJobs \cup {r}
          /\ r.id = preNextId /\ r.text = preLast + 1
      BY <3>1 DEF Pre!Post, Pre!Request
    <3> HIDE DEF r
    <3>3. PreWorkerInv'
      BY <2>1, <2>2, <3>1, <3>2 DEF PreState, PreWorkerInv
    <3>4. PreChunkInv'
      BY <2>1, <2>2, <3>1, <3>2 DEF PreState, PreWorkerInv, PreChunkInv
    <3>5. PreMarkersInv'
      BY <2>1, <2>2, <2>3, <3>2 DEF PreState, PreWorkerInv, PreMarkersInv
    <3> QED
      BY <3>3, <3>4, <3>5 DEF PreState
  <2>4. CASE prePane # "chunk"
    <3>1. UNCHANGED << preNextId, preJobs, preChunkJob, preChunk >>
      BY <2>1, <2>4 DEF Pre!Effects
    <3> QED
      BY <2>1, <2>2, <2>4, <3>1 DEF PreState, PreWorkerInv, PreChunkInv, PreMarkersInv
  <2> QED
    BY <2>3, <2>4
<1>4. CASE Pre!SwitchPane
  <2>1. PICK p \in {"source", "preview", "chunk"} \ {prePane} :
          /\ prePane' = p
          /\ preValTimer' = (p = "source") /\ preLatest' = 0 /\ preMarkers' = 0
          /\ preChunk' = 0
          /\ IF p = "chunk" /\ preText # 0
             THEN /\ preChunkJob' = preNextId
                  /\ preNextId' = preNextId + 1
                  /\ preJobs' = {Pre!Request("chunk", preText)}
             ELSE preChunkJob' = 0 /\ preJobs' = {} /\ UNCHANGED preNextId
    BY <1>4 DEF Pre!SwitchPane, Pre!clearMarkers
  <2>2. UNCHANGED << preText, preLast >>
    BY <1>4 DEF Pre!SwitchPane
  <2>3. prePane' # "source" => preValTimer' = FALSE
    BY <2>1
  <2>4. CASE p = "chunk" /\ preText # 0
    <3> DEFINE r == Pre!Request("chunk", preText)
    <3>1. r.id = preNextId /\ r.text = preText
      BY DEF Pre!Request
    <3>2. /\ preChunkJob' = preNextId /\ preNextId' = preNextId + 1 /\ preJobs' = {r}
          /\ prePane' = "chunk" /\ preLatest' = 0 /\ preMarkers' = 0
      BY <2>1, <2>4
    <3> HIDE DEF r
    <3>3. PreWorkerInv' /\ PreChunkInv'
      BY <2>2, <3>1, <3>2 DEF PreState, PreWorkerInv, PreChunkInv
    <3>4. PreMarkersInv'
      BY <2>2, <2>3, <3>1, <3>2 DEF PreState, PreWorkerInv, PreMarkersInv
    <3> QED
      BY <3>3, <3>4 DEF PreState
  <2>5. CASE ~(p = "chunk" /\ preText # 0)
    <3>1. /\ preChunkJob' = 0 /\ preNextId' = preNextId /\ preJobs' = {} /\ preChunk' = 0
          /\ preLatest' = 0 /\ preMarkers' = 0 /\ (prePane' = "chunk" => preText = 0)
      BY <2>1, <2>5
    <3>2. PreWorkerInv' /\ PreChunkInv'
      BY <2>2, <3>1 DEF PreState, PreWorkerInv, PreChunkInv
    <3>3. PreMarkersInv'
      BY <2>2, <2>3, <3>1 DEF PreState, PreWorkerInv, PreMarkersInv
    <3> QED
      BY <3>2, <3>3 DEF PreState
  <2> QED
    BY <2>4, <2>5
<1>5. CASE Pre!Dispatch
  <2>1. /\ preValTimer = TRUE /\ preValTimer' = FALSE /\ preLatest' = preNextId
        /\ Pre!Post("validate", preText)
        /\ UNCHANGED << prePane, preText, preLast, preMarkers, preChunkJob, preChunk >>
    BY <1>5 DEF Pre!Dispatch
  <2>2. prePane = "source"
    BY <2>1 DEF PreState, PreMarkersInv
  <2> DEFINE r == Pre!Request("validate", preText)
  <2>3. preText \in 0 .. preLast
    BY DEF PreState, PreWorkerInv
  <2>4. /\ preNextId' = preNextId + 1 /\ preJobs' = preJobs \cup {r}
        /\ r.id = preNextId /\ r.text = preText
    BY <2>1 DEF Pre!Post, Pre!Request
  <2> HIDE DEF r
  <2>5. PreWorkerInv'
    BY <2>1, <2>3, <2>4 DEF PreState, PreWorkerInv
  <2>6. PreMarkersInv'
    BY <2>1, <2>2, <2>4 DEF PreState, PreWorkerInv, PreMarkersInv
  <2> QED
    BY <2>1, <2>2, <2>5, <2>6 DEF PreState, PreChunkInv
<1>6. CASE Pre!ParseForm
  <2>1. /\ Pre!Post("parseView", preText)
        /\ UNCHANGED << prePane, preText, preLast, preLatest, preValTimer, preMarkers,
                        preChunkJob, preChunk >>
    BY <1>6 DEF Pre!ParseForm
  <2> DEFINE r == Pre!Request("parseView", preText)
  <2>2. preText \in 0 .. preLast
    BY DEF PreState, PreWorkerInv
  <2>3. /\ preNextId' = preNextId + 1 /\ preJobs' = preJobs \cup {r}
        /\ r.id = preNextId /\ r.text = preText
    BY <2>1 DEF Pre!Post, Pre!Request
  <2> HIDE DEF r
  <2> QED
    BY <2>1, <2>2, <2>3 DEF PreState, PreWorkerInv, PreChunkInv, PreMarkersInv
<1>7. CASE Pre!WorkerReply
  <2>1. PICK j \in preJobs :
          /\ preJobs' = preJobs \ {j}
          /\ Pre!ValidateReply(j) \/ Pre!FormReply(j) \/ Pre!ChunkReply(j)
    BY <1>7 DEF Pre!WorkerReply
  <2>2. UNCHANGED << prePane, preText, preLast, preNextId >>
    BY <1>7 DEF Pre!WorkerReply
  <2>3. CASE Pre!ValidateReply(j)
    BY <2>1, <2>2, <2>3
       DEF Pre!ValidateReply, Pre!Wanted, PreState, PreWorkerInv, PreChunkInv, PreMarkersInv
  <2>4. CASE Pre!FormReply(j)
    BY <2>1, <2>2, <2>4 DEF Pre!FormReply, PreState, PreWorkerInv, PreChunkInv, PreMarkersInv
  <2>5. CASE Pre!ChunkReply(j)
    BY <2>1, <2>2, <2>5 DEF Pre!ChunkReply, PreState, PreWorkerInv, PreChunkInv, PreMarkersInv
  <2> QED
    BY <2>1, <2>3, <2>4, <2>5
<1>8. CASE Pre!DomainReply
  BY <1>8 DEF Pre!DomainReply, PreState, PreWorkerInv, PreChunkInv, PreMarkersInv
<1> QED
  BY <1>1, <1>2, <1>3, <1>4, <1>5, <1>6, <1>7, <1>8 DEF Pre!Next

\* No step of Apps leaves the invariant.
LEMMA PreInvariance == Spec => []PreInv
<1>1. Init => PreInv
  BY DEF Init, Pre!Init, Pre!Nothing, PreInv, PreState, PreWorkerInv, PreChunkInv,
         PreMarkersInv
<1>2. PreInv /\ [Next]_vars => PreInv'
  <2> SUFFICES ASSUME PreInv, [Next]_vars PROVE PreInv'
    OBVIOUS
  <2>1. CASE part = "preview" /\ part' = part /\ Pre!Next
    BY <2>1, PreStep DEF PreInv
  <2>2. CASE part' # "preview" \/ UNCHANGED << part, varsPre >>
    BY <2>2 DEF PreInv, PreState, PreWorkerInv, PreChunkInv, PreMarkersInv, varsPre
  <2> QED
    BY <2>1, <2>2 DEF Next, vars
<1> QED
  BY <1>1, <1>2, PTL DEF Spec

\* The markers under the source never fall back to those of an older text, for any
\* number of texts and requests and in whatever order the worker answers them
\* (diagnostics-client.ts).
THEOREM SquigglesTheorem == Spec => SquigglesNeverGoBack
<1>1. PreInv /\ [Next]_vars => [part = "preview" => Pre!SquiggleStep]_varsPre
  <2> SUFFICES ASSUME PreInv, [Next]_vars, part = "preview", ~UNCHANGED varsPre
               PROVE  Pre!SquiggleStep
    OBVIOUS
  <2> USE DEF Pre!Nothing, Pre!validation
  <2>1. Pre!Next
    BY DEF Next, vars
  <2>2. PreState /\ preMarkers \in Nat
    BY DEF PreInv, PreState, PreMarkersInv, PreWorkerInv
  <2>3. CASE Pre!WorkerReply
    <3>1. PICK j \in preJobs :
            Pre!ValidateReply(j) \/ Pre!FormReply(j) \/ Pre!ChunkReply(j)
      BY <2>3 DEF Pre!WorkerReply
    <3> QED
      BY <2>2, <3>1 DEF Pre!ValidateReply, Pre!FormReply, Pre!ChunkReply, Pre!Wanted,
                        Pre!SquiggleStep, PreState, PreMarkersInv, PreWorkerInv
  <2>4. CASE preMarkers' \in {0, preMarkers}
    BY <2>2, <2>4 DEF Pre!SquiggleStep
  <2> QED
    BY <2>1, <2>3, <2>4
       DEF Pre!Next, Pre!Type, Pre!SelectRow, Pre!LoadRow, Pre!SwitchPane, Pre!Dispatch,
           Pre!ParseForm, Pre!DomainReply, Pre!clearMarkers
<1> QED
  BY <1>1, PreInvariance, PTL DEF Spec, SquigglesNeverGoBack

-----------------------------------------------------------------------------
(* The rows of the designer. *)

\* A text that was made for the row (k, i), or none.
DesFor(t, k, i) == t \in {Des!EmptyText, Des!Absent} \/ (t.kind = k /\ t.of = i)

\* The rows hold texts of their own.
DesRowsInv ==
  /\ desRows = [k \in Des!Kinds |-> [i \in DesRowIds[k] |-> desRows[k][i]]]
  /\ \A k \in Des!Kinds : \A i \in DesRowIds[k] : DesFor(desRows[k][i], k, i)

\* So does the editor of each kind.
DesStInv ==
  /\ desKind \in Des!Kinds \cup {"other"}
  /\ DOMAIN desSt = Des!Kinds
  /\ \A k \in Des!Kinds : DOMAIN desSt[k] = {"ids", "selected", "source", "dirty"}
  /\ \A k \in Des!Kinds : desSt[k].ids \subseteq DesRowIds[k]
  /\ \A k \in Des!Kinds :
       \/ desSt[k].source = Des!EmptyText
       \/ desSt[k].source.kind = k /\ desSt[k].source.of = desSt[k].selected

\* A request is well formed, and what it writes or brings was made for its row.
DesRequest(q) ==
  /\ DOMAIN q = {"n", "op", "kind", "id", "text", "then", "answered", "ok", "ids"}
  /\ q.kind \in Des!Kinds
  /\ q.ids \subseteq DesRowIds[q.kind]
  /\ q.op = "load" => q.id \in DesRowIds[q.kind]
  /\ DesFor(q.text, q.kind, q.id)
  /\ q.then = "insert" => q.op = "list"
  /\ q.op = "insert" \/ q.then = "insert"
       => q.text.kind = q.kind /\ q.text.of = q.id

DesWireInv == \A q \in desWire : DesRequest(q)

\* A modal is over the editor of a kind.
DesModalInv ==
  /\ desDoomed = [id |-> desDoomed.id, running |-> desDoomed.running]
  /\ desDialog # "closed" \/ desDoomed.id # Des!Nobody => desKind \in Des!Kinds

DesState == DesRowsInv /\ DesStInv /\ DesWireInv /\ DesModalInv
DesInv == part = "designer" => DesState

\* A request as it is sent.
LEMMA DesAsk ==
  ASSUME NEW n, NEW op, NEW k \in Des!Kinds, NEW i, NEW text, NEW then,
         op = "load" => i \in DesRowIds[k], DesFor(text, k, i),
         then = "insert" => op = "list",
         op = "insert" \/ then = "insert" => text.kind = k /\ text.of = i
  PROVE  DesRequest(Des!Request(n, op, k, i, text, then))
  BY DEF DesRequest, Des!Request

\* Its send.
LEMMA DesSend ==
  ASSUME DesWireInv, NEW op, NEW k \in Des!Kinds, NEW i, NEW text, NEW then,
         op = "load" => i \in DesRowIds[k], DesFor(text, k, i),
         then = "insert" => op = "list",
         op = "insert" \/ then = "insert" => text.kind = k /\ text.of = i,
         Des!Send(Des!Ask(op, k, i, text, then))
  PROVE  DesWireInv'
<1> PICK n : n = desOps
  OBVIOUS
<1> DEFINE q == Des!Request(n, op, k, i, text, then)
<1>1. desWire' = desWire \cup {q}
  BY DEF Des!Send, Des!Ask
<1>2. DesRequest(q)
  BY DesAsk
<1> HIDE DEF q
<1> QED
  BY <1>1, <1>2 DEF DesWireInv

\* The state of the kind that is shown.
LEMMA DesActive ==
  ASSUME DesStInv, desKind \in Des!Kinds PROVE Des!active = desSt[desKind]
  BY DEF Des!active, Des!Kinds

\* A kind's state that is replaced by one whose text is of its selection.
LEMMA DesReplace ==
  ASSUME DesStInv, NEW k \in Des!Kinds, NEW s, desKind' \in Des!Kinds \cup {"other"},
         DOMAIN s = {"ids", "selected", "source", "dirty"},
         s.ids \subseteq DesRowIds[k],
         s.source = Des!EmptyText \/ (s.source.kind = k /\ s.source.of = s.selected),
         desSt' = [desSt EXCEPT ![k] = s]
  PROVE  DesStInv'
<1>1. \A j \in Des!Kinds : desSt'[j] = IF j = k THEN s ELSE desSt[j]
  BY DEF DesStInv
<1>2. DOMAIN desSt' = Des!Kinds
  BY DEF DesStInv
<1>3. \A j \in Des!Kinds : DOMAIN desSt'[j] = {"ids", "selected", "source", "dirty"}
  BY <1>1 DEF DesStInv
<1>4. \A j \in Des!Kinds : desSt'[j].ids \subseteq DesRowIds[j]
  BY <1>1 DEF DesStInv
<1>5. \A j \in Des!Kinds : \/ desSt'[j].source = Des!EmptyText
                           \/ desSt'[j].source.kind = j
                              /\ desSt'[j].source.of = desSt'[j].selected
  BY <1>1 DEF DesStInv
<1> QED
  BY <1>2, <1>3, <1>4, <1>5 DEF DesStInv

\* What is known of one kind's state.
LEMMA DesKindState ==
  ASSUME DesStInv, NEW k \in Des!Kinds
  PROVE  /\ DOMAIN desSt[k] = {"ids", "selected", "source", "dirty"}
         /\ desSt[k].ids \subseteq DesRowIds[k]
         /\ \/ desSt[k].source = Des!EmptyText
            \/ desSt[k].source.kind = k /\ desSt[k].source.of = desSt[k].selected
  BY DEF DesStInv

\* The user's steps.
LEMMA DesUserStep ==
  ASSUME DesRowsInv, DesStInv, DesWireInv, DesModalInv,
         \/ Des!SwitchKind \/ Des!PickTab \/ Des!Refresh \/ Des!Select \/ Des!Type
         \/ Des!Save \/ Des!OpenDsl \/ Des!AskDelete \/ Des!CancelDelete
         \/ Des!ConfirmDelete \/ Des!OpenNew \/ Des!CloseNew \/ Des!SubmitNew
  PROVE  DesRowsInv' /\ DesStInv' /\ DesWireInv'
<1>0. UNCHANGED desRows => DesRowsInv'
  BY DEF DesRowsInv
<1>u. UNCHANGED << desKind, desSt >> => DesStInv'
  BY DEF DesStInv
<1>w. UNCHANGED desWire => DesWireInv'
  BY DEF DesWireInv
<1>1. CASE Des!SwitchKind
  BY <1>0, <1>1, <1>w DEF Des!SwitchKind, DesStInv
<1>2. CASE \/ Des!PickTab \/ Des!AskDelete \/ Des!CancelDelete \/ Des!OpenNew
           \/ Des!CloseNew
  BY <1>0, <1>2, <1>u, <1>w DEF Des!PickTab, Des!AskDelete, Des!CancelDelete, Des!OpenNew,
                               Des!CloseNew
<1>3. CASE Des!Refresh
  <2>1. desKind \in Des!Kinds
    BY <1>3 DEF Des!Refresh, Des!InEditor
  <2>2. Des!Send(Des!Ask("list", desKind, Des!Nobody, Des!EmptyText, "nothing"))
        /\ UNCHANGED << desRows, desKind, desSt >>
    BY <1>3 DEF Des!Refresh
  <2>3. DesWireInv'
    BY <2>1, <2>2, DesSend DEF DesFor
  <2> QED
    BY <1>0, <1>u, <2>2, <2>3
<1>4. CASE Des!Select
  <2> PICK k : k = desKind
    OBVIOUS
  <2>1. k \in Des!Kinds /\ desKind' = k
    BY <1>4 DEF Des!Select, Des!InEditor
  <2>2. PICK i \in Des!active.ids :
          /\ Des!Send(Des!Ask("load", k, i, Des!EmptyText, "nothing"))
          /\ desSt' = [desSt EXCEPT ![k] = [@ EXCEPT !.selected = i,
                         !.source = Des!EmptyText, !.dirty = FALSE]]
    BY <1>4 DEF Des!Select
  <2>3. i \in DesRowIds[k]
    BY <2>1, <2>2, DesActive, DesKindState
  <2>4. DesWireInv'
    BY <2>1, <2>2, <2>3, DesSend DEF DesFor
  <2> DEFINE s == [desSt[k] EXCEPT !.selected = i, !.source = Des!EmptyText, !.dirty = FALSE]
  <2>5. /\ DOMAIN s = {"ids", "selected", "source", "dirty"}
        /\ s.ids = desSt[k].ids /\ s.source = Des!EmptyText
    BY <2>1, DesKindState
  <2>6. s.ids \subseteq DesRowIds[k] /\ desSt' = [desSt EXCEPT ![k] = s]
    BY <2>1, <2>2, <2>5, DesKindState
  <2> HIDE DEF s
  <2>7. DesStInv'
    BY <2>1, <2>5, <2>6, DesReplace
  <2> QED
    BY <1>0, <1>4, <2>4, <2>7 DEF Des!Select
<1>5. CASE Des!Type
  <2> PICK k : k = desKind
    OBVIOUS
  <2>1. k \in Des!Kinds /\ desKind' = k /\ UNCHANGED << desRows, desWire >>
    BY <1>5 DEF Des!Type, Des!InEditor
  <2>2. Des!active = desSt[k]
    BY <2>1, DesActive
  <2> DEFINE x == [kind |-> k, of |-> desSt[k].selected, rev |-> desRevs + 1]
             s == [desSt[k] EXCEPT !.source = x, !.dirty = TRUE]
  <2>3. desSt' = [desSt EXCEPT ![k] = s]
    BY <1>5, <2>2 DEF Des!Type
  <2>4. /\ DOMAIN s = {"ids", "selected", "source", "dirty"}
        /\ s.ids = desSt[k].ids /\ s.selected = desSt[k].selected /\ s.source = x
    BY <2>1, DesKindState
  <2>5. s.ids \subseteq DesRowIds[k] /\ s.source.kind = k /\ s.source.of = s.selected
    BY <2>1, <2>4, DesKindState
  <2> HIDE DEF s
  <2>6. DesStInv'
    BY <2>1, <2>3, <2>4, <2>5, DesReplace
  <2> QED
    BY <1>0, <1>w, <2>1, <2>6
<1>6. CASE Des!Save
  <2> PICK k : k = desKind
    OBVIOUS
  <2>1. k \in Des!Kinds /\ UNCHANGED << desRows, desKind, desSt >>
    BY <1>6 DEF Des!Save, Des!InEditor
  <2>2. Des!active = desSt[k]
    BY <2>1, DesActive
  <2>3. Des!Send(Des!Ask("save", k, desSt[k].selected, desSt[k].source, "nothing"))
    BY <1>6, <2>2 DEF Des!Save
  <2>4. DesFor(desSt[k].source, k, desSt[k].selected)
    BY <2>1, DesKindState DEF DesFor
  <2>5. DesWireInv'
    BY <2>1, <2>3, <2>4, DesSend
  <2> QED
    BY <1>0, <1>u, <2>1, <2>5
<1>7. CASE Des!OpenDsl
  <2>1. PICK i \in DesRowIds["view"] :
          desSt' = [desSt EXCEPT !["view"] = [@ EXCEPT !.selected = i, !.dirty = TRUE,
                                                       !.source = Des!EmptyText]]
    BY <1>7 DEF Des!OpenDsl
  <2>2. desKind' = "view" /\ UNCHANGED << desRows, desWire >>
    BY <1>7 DEF Des!OpenDsl
  <2>3. "view" \in Des!Kinds
    BY DEF Des!Kinds
  <2> DEFINE s == [desSt["view"] EXCEPT !.selected = i, !.dirty = TRUE,
                                        !.source = Des!EmptyText]
  <2>4. /\ DOMAIN s = {"ids", "selected", "source", "dirty"}
        /\ s.ids = desSt["view"].ids /\ s.source = Des!EmptyText
    BY <2>3, DesKindState
  <2>5. s.ids \subseteq DesRowIds["view"] /\ desSt' = [desSt EXCEPT !["view"] = s]
    BY <2>1, <2>3, <2>4, DesKindState
  <2> HIDE DEF s
  <2>6. DesStInv'
    BY <2>2, <2>3, <2>4, <2>5, DesReplace
  <2> QED
    BY <1>0, <1>w, <2>2, <2>6
<1>8. CASE Des!ConfirmDelete
  <2>1. /\ Des!Send(Des!Ask("delete", desKind, desDoomed.id, Des!EmptyText, "nothing"))
        /\ UNCHANGED << desRows, desKind, desSt >> /\ desDoomed.id # Des!Nobody
    BY <1>8 DEF Des!ConfirmDelete
  <2>2. desKind \in Des!Kinds
    BY <2>1 DEF DesModalInv
  <2>3. DesWireInv'
    BY <2>1, <2>2, DesSend DEF DesFor
  <2> QED
    BY <1>0, <1>u, <2>1, <2>3
<1>9. CASE Des!SubmitNew
  <2> PICK k : k = desKind
    OBVIOUS
  <2>1. PICK i \in DesRowIds[k], copy \in BOOLEAN :
          Des!Send(Des!Ask("insert", k, i, Des!NewSource(k, i, copy), "nothing"))
    BY <1>9 DEF Des!SubmitNew
  <2>2. PICK x : x = Des!NewSource(k, i, copy)
    OBVIOUS
  <2>3. x.kind = k /\ x.of = i
    BY <2>2 DEF Des!NewSource
  <2>4. k \in Des!Kinds /\ UNCHANGED << desRows, desKind, desSt >>
    BY <1>9 DEF Des!SubmitNew, DesModalInv
  <2>5. DesWireInv'
    BY <2>1, <2>2, <2>3, <2>4, DesSend DEF DesFor
  <2> QED
    BY <1>0, <1>u, <2>4, <2>5
<1> QED
  BY <1>1, <1>2, <1>3, <1>4, <1>5, <1>6, <1>7, <1>8, <1>9

\* oosai carries a request out: what it writes was made for the row it names.
LEMMA DesServe ==
  ASSUME DesRowsInv, DesStInv, DesWireInv, Des!Serve
  PROVE  DesRowsInv' /\ DesStInv' /\ DesWireInv'
<1>1. PICK q \in desWire, ok \in BOOLEAN, done \in BOOLEAN :
        /\ desRows' = IF done THEN Des!Perform(q) ELSE desRows
        /\ desWire' = (desWire \ {q}) \cup
             {[q EXCEPT !.answered = TRUE, !.ok = ok,
                        !.text = IF q.op = "load" /\ ok THEN desRows[q.kind][q.id] ELSE @,
                        !.ids = IF q.op = "list"
                                THEN {i \in DesRowIds[q.kind] :
                                        desRows[q.kind][i] # Des!Absent}
                                ELSE @]}
  BY DEF Des!Serve
<1>2. DesRequest(q)
  BY DEF DesWireInv
<1>3. DesStInv'
  BY DEF Des!Serve, DesStInv
<1>4. DesRowsInv'
  <2>1. CASE desRows' = desRows
    BY <2>1 DEF DesRowsInv
  <2>2. CASE \E x : DesFor(x, q.kind, q.id) /\ desRows' = [desRows EXCEPT ![q.kind][q.id] = x]
    <3>1. PICK x : DesFor(x, q.kind, q.id) /\ desRows' = [desRows EXCEPT ![q.kind][q.id] = x]
      BY <2>2
    <3>2. q.kind \in Des!Kinds
      BY <1>2 DEF DesRequest
    <3>3. \A k \in Des!Kinds : \A i \in DesRowIds[k] :
            desRows'[k][i] = IF k = q.kind /\ i = q.id THEN x ELSE desRows[k][i]
      BY <3>1, <3>2 DEF DesRowsInv
    <3>4. desRows' = [k \in Des!Kinds |-> [i \in DesRowIds[k] |-> desRows'[k][i]]]
      BY <3>1, <3>2 DEF DesRowsInv
    <3>5. \A k \in Des!Kinds : \A i \in DesRowIds[k] : DesFor(desRows'[k][i], k, i)
      BY <3>1, <3>3 DEF DesRowsInv
    <3> QED
      BY <3>4, <3>5 DEF DesRowsInv, DesFor
  <2>3. DesFor(q.text, q.kind, q.id) /\ DesFor(Des!Absent, q.kind, q.id)
    BY <1>2 DEF DesRequest, DesFor
  <2> QED
    BY <1>1, <2>1, <2>2, <2>3 DEF Des!Perform
<1>5. DesWireInv'
  <2> DEFINE x == IF q.op = "load" /\ ok THEN desRows[q.kind][q.id] ELSE q.text
             s == IF q.op = "list"
                  THEN {i \in DesRowIds[q.kind] : desRows[q.kind][i] # Des!Absent} ELSE q.ids
             r == [q EXCEPT !.answered = TRUE, !.ok = ok, !.text = x, !.ids = s]
  <2>1. /\ r.kind = q.kind /\ r.op = q.op /\ r.id = q.id /\ r.then = q.then
        /\ r.text = x /\ r.ids = s /\ DOMAIN r = DOMAIN q
    <3>1. DOMAIN q = {"n", "op", "kind", "id", "text", "then", "answered", "ok", "ids"}
      BY <1>2 DEF DesRequest
    <3> HIDE DEF x, s
    <3> QED
      BY <3>1
  <2> HIDE DEF r
  <2>2. DesFor(r.text, r.kind, r.id)
    BY <1>2, <2>1 DEF DesRequest, DesRowsInv
  <2>3. r.ids \subseteq DesRowIds[r.kind]
    BY <1>2, <2>1 DEF DesRequest
  <2>4. r.op = "insert" \/ r.then = "insert" => r.text.kind = r.kind /\ r.text.of = r.id
    BY <1>2, <2>1 DEF DesRequest
  <2>5. DesRequest(r)
    BY <1>2, <2>1, <2>2, <2>3, <2>4 DEF DesRequest
  <2> QED
    BY <1>1, <2>5 DEF DesWireInv, r
<1> QED
  BY <1>3, <1>4, <1>5

\* The continuations of App.tsx: a reply lands in the kind it was asked for, with
\* the row it names.
LEMMA DesReply ==
  ASSUME DesRowsInv, DesStInv, DesWireInv, Des!Reply
  PROVE  DesRowsInv' /\ DesStInv' /\ DesWireInv'
<1>1. PICK q \in desWire :
        \/ Des!LoadReply(q) \/ Des!SaveReply(q) \/ Des!ThenRefresh(q)
        \/ Des!InsertRefused(q) \/ Des!DeleteRefused(q) \/ Des!ListReply(q)
  BY DEF Des!Reply
<1>2. DesRowsInv'
  BY DEF Des!Reply, DesRowsInv
<1>3. DesRequest(q)
  BY DEF DesWireInv
<1> PICK k : k = q.kind
  OBVIOUS
<1>4. k \in Des!Kinds
  BY <1>3 DEF DesRequest
<1>5. desWire' = desWire \ {q} => DesWireInv'
  BY DEF DesWireInv
<1>6. UNCHANGED << desKind, desSt >> => DesStInv'
  BY DEF DesStInv
<1>7. CASE Des!LoadReply(q)
  <2>1. /\ desWire' = desWire \ {q} /\ desKind' = desKind
        /\ desSt' = [desSt EXCEPT ![k] = Des!Landed(q, desSt[k])]
    BY <1>7 DEF Des!LoadReply
  <2> DEFINE s == Des!Landed(q, desSt[k])
  <2>2. /\ DOMAIN s = {"ids", "selected", "source", "dirty"}
        /\ s.ids = desSt[k].ids /\ s.selected = q.id /\ s.source = Des!LoadedSource(q)
    BY <1>4, DesKindState DEF Des!Landed
  <2>3. Des!LoadedSource(q) = Des!EmptyText
          \/ (Des!LoadedSource(q).kind = k /\ Des!LoadedSource(q).of = q.id)
    <3>1. CASE q.ok
      BY <1>3, <3>1 DEF Des!LoadedSource, DesRequest, DesFor
    <3>2. CASE ~q.ok
      BY <3>2 DEF Des!LoadedSource
    <3> QED
      BY <3>1, <3>2
  <2> HIDE DEF s
  <2>4. s.ids \subseteq DesRowIds[k] /\ desKind \in Des!Kinds \cup {"other"}
    BY <1>4, <2>2, DesKindState DEF DesStInv
  <2>5. DesStInv'
    BY <1>4, <2>1, <2>2, <2>3, <2>4, DesReplace DEF s
  <2> QED
    BY <1>2, <1>5, <2>1, <2>5
<1>8. CASE Des!SaveReply(q)
  <2>1. /\ desWire' = desWire \ {q} /\ desKind' = desKind
        /\ desSt' = IF q.ok THEN [desSt EXCEPT ![k].dirty = FALSE] ELSE desSt
    BY <1>8 DEF Des!SaveReply
  <2> DEFINE s == [desSt[k] EXCEPT !.dirty = FALSE]
  <2>2. /\ DOMAIN s = {"ids", "selected", "source", "dirty"} /\ s.ids = desSt[k].ids
        /\ s.selected = desSt[k].selected /\ s.source = desSt[k].source
    BY <1>4, DesKindState
  <2>3. q.ok => desSt' = [desSt EXCEPT ![k] = s]
    BY <2>1
  <2> HIDE DEF s
  <2>4. /\ s.ids \subseteq DesRowIds[k] /\ desKind \in Des!Kinds \cup {"other"}
        /\ s.source = Des!EmptyText \/ (s.source.kind = k /\ s.source.of = s.selected)
    BY <1>4, <2>2, DesKindState DEF DesStInv
  <2>5. q.ok => DesStInv'
    BY <1>4, <2>1, <2>2, <2>3, <2>4, DesReplace
  <2> QED
    BY <1>2, <1>5, <1>6, <2>1, <2>5
<1>9. CASE Des!ThenRefresh(q)
  <2> PICK n : n = desOps
    OBVIOUS
  <2> DEFINE r == Des!Request(n, "list", k, q.id, q.text, q.op)
  <2>1. desWire' = (desWire \ {q}) \cup {r} /\ UNCHANGED << desKind, desSt >>
    BY <1>9 DEF Des!ThenRefresh, Des!Ask
  <2>2. DesFor(q.text, k, q.id) /\ (q.op = "insert" => q.text.kind = k /\ q.text.of = q.id)
    BY <1>3 DEF DesRequest
  <2>3. DesRequest(r)
    BY <1>4, <2>2, DesAsk
  <2> HIDE DEF r
  <2>4. DesWireInv'
    BY <2>1, <2>3 DEF DesWireInv
  <2> QED
    BY <1>2, <1>6, <2>1, <2>4
<1>10. CASE Des!InsertRefused(q) \/ Des!DeleteRefused(q)
  BY <1>2, <1>5, <1>6, <1>10 DEF Des!InsertRefused, Des!DeleteRefused
<1>11. CASE Des!ListReply(q)
  <2> DEFINE s == IF q.ok THEN [desSt[k] EXCEPT !.ids = q.ids] ELSE desSt[k]
             r == CASE q.then = "insert"
                         -> [s EXCEPT !.selected = q.id, !.source = q.text, !.dirty = FALSE]
                    [] q.then = "delete" /\ s.selected = q.id
                         -> [s EXCEPT !.selected = Des!Nobody, !.source = Des!EmptyText,
                                      !.dirty = FALSE]
                    [] OTHER -> s
  <2>1. /\ desWire' = desWire \ {q} /\ desKind' = desKind
        /\ desSt' = [desSt EXCEPT ![k] = r]
    BY <1>11 DEF Des!ListReply
  <2>2. /\ DOMAIN s = {"ids", "selected", "source", "dirty"}
        /\ s.ids \subseteq DesRowIds[k]
        /\ s.selected = desSt[k].selected /\ s.source = desSt[k].source
    BY <1>3, <1>4, DesKindState DEF DesRequest
  <2>3. s.source = Des!EmptyText \/ (s.source.kind = k /\ s.source.of = s.selected)
    BY <1>4, <2>2, DesKindState
  <2> HIDE DEF s
  <2>4. /\ DOMAIN r = {"ids", "selected", "source", "dirty"}
        /\ r.ids \subseteq DesRowIds[k]
        /\ r.source = Des!EmptyText \/ (r.source.kind = k /\ r.source.of = r.selected)
    <3>1. CASE q.then = "insert"
      <4>1. q.text.kind = k /\ q.text.of = q.id
        BY <1>3, <3>1 DEF DesRequest
      <4>2. r = [s EXCEPT !.selected = q.id, !.source = q.text, !.dirty = FALSE]
        BY <3>1
      <4> HIDE DEF r
      <4> QED
        BY <2>2, <4>1, <4>2
    <3>2. CASE q.then # "insert" /\ q.then = "delete" /\ s.selected = q.id
      <4>1. r = [s EXCEPT !.selected = Des!Nobody, !.source = Des!EmptyText, !.dirty = FALSE]
        BY <3>2
      <4> HIDE DEF r
      <4> QED
        BY <2>2, <4>1
    <3>3. CASE q.then # "insert" /\ ~(q.then = "delete" /\ s.selected = q.id)
      <4>1. r = s
        BY <3>3
      <4> HIDE DEF r
      <4> QED
        BY <2>2, <2>3, <4>1
    <3> QED
      BY <3>1, <3>2, <3>3
  <2> HIDE DEF r
  <2>5. desKind \in Des!Kinds \cup {"other"}
    BY DEF DesStInv
  <2>6. DesStInv'
    BY <1>4, <2>1, <2>4, <2>5, DesReplace
  <2> QED
    BY <1>2, <1>5, <2>1, <2>6
<1> QED
  BY <1>1, <1>7, <1>8, <1>9, <1>10, <1>11

\* A modal that is open stays over the kind it was opened for.
LEMMA DesModal == ASSUME DesStInv, DesModalInv, Des!Next PROVE DesModalInv'
<1>1. \A d : Des!Behind(d) /\ desDialog' # "closed" => d # "closed"
  BY DEF Des!Behind
<1>2. CASE Des!SwitchKind
  BY <1>1, <1>2 DEF Des!SwitchKind, Des!Uncovered, DesModalInv
<1>3. CASE Des!Refresh \/ Des!Select \/ Des!Type \/ Des!Save
  BY <1>1, <1>3 DEF Des!Refresh, Des!Select, Des!Type, Des!Save, DesModalInv
<1>4. CASE Des!OpenDsl
  BY <1>1, <1>4 DEF Des!OpenDsl, DesModalInv, Des!Kinds
<1>5. CASE Des!AskDelete \/ Des!OpenNew
  BY <1>5 DEF Des!AskDelete, Des!OpenNew, Des!InEditor, DesModalInv
<1>6. CASE Des!CancelDelete \/ Des!ConfirmDelete \/ Des!CloseNew \/ Des!SubmitNew \/ Des!PickTab
  BY <1>6 DEF Des!CancelDelete, Des!ConfirmDelete, Des!CloseNew, Des!SubmitNew, Des!PickTab,
              Des!NotDeleting, DesModalInv
<1>7. CASE Des!Serve
  BY <1>7 DEF Des!Serve, DesModalInv
<1>8. CASE Des!Reply
  <2>1. PICK q \in desWire :
          \/ Des!LoadReply(q) \/ Des!SaveReply(q) \/ Des!ThenRefresh(q)
          \/ Des!InsertRefused(q) \/ Des!DeleteRefused(q) \/ Des!ListReply(q)
    BY <1>8 DEF Des!Reply
  <2>2. CASE Des!LoadReply(q) \/ Des!SaveReply(q) \/ Des!ThenRefresh(q)
    BY <1>1, <2>2 DEF Des!LoadReply, Des!SaveReply, Des!ThenRefresh, DesModalInv
  <2>3. CASE Des!InsertRefused(q) \/ Des!DeleteRefused(q)
    BY <2>3 DEF Des!InsertRefused, Des!DeleteRefused, DesModalInv
  <2>4. CASE Des!ListReply(q)
    <3>1. /\ desKind' = desKind
          /\ desDoomed' = IF q.then = "delete" THEN Des!NotDeleting ELSE desDoomed
          /\ Des!Behind(IF q.then = "insert" THEN "closed" ELSE desDialog)
      BY <2>4 DEF Des!ListReply
    <3> QED
      BY <1>1, <3>1 DEF Des!NotDeleting, DesModalInv
  <2> QED
    BY <2>1, <2>2, <2>3, <2>4
<1> QED
  BY <1>2, <1>3, <1>4, <1>5, <1>6, <1>7, <1>8 DEF Des!Next

\* No step of Apps leaves the invariant.
LEMMA DesInvariance == Spec => []DesInv
<1>1. Init => DesInv
  <2> SUFFICES ASSUME part = "designer", Des!Init PROVE DesState
    BY DEF Init, DesInv
  <2>1. DesRowsInv
    <3>1. \A k \in Des!Kinds : \A i \in DesRowIds[k] :
            desRows[k][i] = [kind |-> k, of |-> i, rev |-> 1]
      BY DEF Des!Init
    <3>2. \A k \in Des!Kinds : \A i \in DesRowIds[k] : DesFor(desRows[k][i], k, i)
      <4>1. \A k, i : DesFor([kind |-> k, of |-> i, rev |-> 1], k, i)
        BY DEF DesFor
      <4> QED
        BY <3>1, <4>1
    <3>3. desRows = [k \in Des!Kinds |-> [i \in DesRowIds[k] |-> desRows[k][i]]]
      BY DEF Des!Init
    <3> QED
      BY <3>2, <3>3 DEF DesRowsInv
  <2>2. DesStInv
    BY DEF Des!Init, Des!emptyKindState, Des!Kinds, DesStInv
  <2>3. DesWireInv
    <3>1. \A k \in Des!Kinds : \A n :
            DesRequest(Des!Request(n, "list", k, Des!Nobody, Des!EmptyText, "nothing"))
      BY DesAsk DEF DesFor
    <3> QED
      BY <3>1 DEF Des!Init, DesWireInv, Des!Kinds
  <2>4. DesModalInv
    BY DEF Des!Init, Des!NotDeleting, DesModalInv, Des!Kinds
  <2> QED
    BY <2>1, <2>2, <2>3, <2>4 DEF DesState
<1>2. DesInv /\ [Next]_vars => DesInv'
  <2> SUFFICES ASSUME DesInv, [Next]_vars PROVE DesInv'
    OBVIOUS
  <2>1. CASE part = "designer" /\ part' = part /\ Des!Next
    <3>1. DesRowsInv /\ DesStInv /\ DesWireInv /\ DesModalInv
      BY <2>1 DEF DesInv, DesState
    <3>2. DesModalInv'
      BY <2>1, <3>1, DesModal
    <3>3. DesRowsInv' /\ DesStInv' /\ DesWireInv'
      BY <2>1, <3>1, DesUserStep, DesServe, DesReply DEF Des!Next
    <3> QED
      BY <3>2, <3>3 DEF DesInv, DesState
  <2>2. CASE part' # "designer" \/ UNCHANGED << part, varsDes >>
    BY <2>2 DEF DesInv, DesState, DesRowsInv, DesStInv, DesWireInv, DesModalInv, varsDes
  <2> QED
    BY <2>1, <2>2 DEF Next, vars
<1> QED
  BY <1>1, <1>2, PTL DEF Spec

\* What the source editor of the designer holds under a row, and what oosai stores
\* under it, was made for that row, and the chunk tab shows the chunk of the text in
\* the editor once its request is answered, for any rows and any number of
\* requests, answered in any order, late or not at all (App.tsx, ChunkPanel.tsx).
THEOREM TextTheorem == Spec => []TextStaysWithItsRow
<1>1. DesInv /\ PreInv => TextStaysWithItsRow
  <2> SUFFICES ASSUME DesInv, PreInv PROVE TextStaysWithItsRow
    OBVIOUS
  <2>1. part = "designer" => Des!TextStaysWithItsRow
    BY DEF DesInv, DesState, DesRowsInv, DesStInv, DesFor, Des!TextStaysWithItsRow
  <2>2. part = "preview" => Pre!ChunkCatchesUp
    BY DEF PreInv, PreState, PreChunkInv, Pre!ChunkCatchesUp
  <2> QED
    BY <2>1, <2>2 DEF TextStaysWithItsRow
<1> QED
  BY <1>1, DesInvariance, PreInvariance, PTL

=============================================================================

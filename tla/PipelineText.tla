---------------------------- MODULE PipelineText ----------------------------
(***************************************************************************)
(* packages/oos-pipeline-ts: parsePipeline links, maps and validates a     *)
(* pipeline; what it accepts is then run, step after step, by a runner     *)
(* that is not part of the repository (external: it reads the db sources   *)
(* and the results of the steps that ran; a docs source is "carried        *)
(* through the model today but not yet consumed by any step").             *)
(*                                                                         *)
(* A pipeline is a record of its sources, its steps and the declarations   *)
(* the validator looks at; texts, prompts and filter expressions are left  *)
(* out.                                                                    *)
(***************************************************************************)
EXTENDS Naturals, Sequences

CONSTANTS StepNames, SourceNames, MaxSources, MaxPipelineSteps

NoInput == "none"

SourceDefs == [kind : {"db", "docs"}, name : SourceNames]

StepDefs ==
  LET refs == StepNames \cup SourceNames
      step(kinds, inputs, queries) ==
        [kind : kinds, name : refs, source : refs, input : inputs, queries : queries]
  IN step({"semantic"}, {NoInput}, {1}) \cup step({"where"}, {NoInput}, {0})
       \cup step({"llm"}, {NoInput} \cup StepNames, {0})

VARIABLES
  ast,      \* the parsed document
  verdict,  \* parsePipeline: pending, rejected or accepted
  at, have, \* the runner: the step it is at, the names it has rows for
  missing   \* what the step that stopped it reads and it has no rows for

pipelineText == << ast, verdict, at, have, missing >>

\* The sequences of one to n members of S: sources+, steps+.
Several(S, n) == UNION {[1 .. m -> S] : m \in 1 .. n}

Init ==
  /\ ast \in [mode : {"context", "mass"}, embedding : BOOLEAN, subject : BOOLEAN,
              sources : Several(SourceDefs, MaxSources),
              steps : Several(StepDefs, MaxPipelineSteps)]
  /\ verdict = "pending"
  /\ at = 1 /\ have = {} /\ missing = {}

-----------------------------------------------------------------------------
Names(s) == {s[i].name : i \in 1 .. Len(s)}

OfKind(d, k) == {d.sources[i].name : i \in {j \in 1 .. Len(d.sources) : d.sources[j].kind = k}}

\* The linker of Langium: an input that names no step, and the source of a where
\* step that names no db source, are errors of the document.
Linked(d) ==
  \A i \in 1 .. Len(d.steps) :
    /\ d.steps[i].input \in {NoInput} \cup Names(d.steps)
    /\ d.steps[i].kind = "where" => d.steps[i].source \in OfKind(d, "db")

\* findIndex: the first step of the name, counted from 1; 0 when there is none.
FindIndex(d, n) ==
  LET is == {i \in 1 .. Len(d.steps) : d.steps[i].name = n}
  IN IF is = {} THEN 0 ELSE CHOOSE i \in is : \A j \in is : i <= j

\* Mutant: a step may name itself.
PrecedingOrSelf(d, i, n) == FindIndex(d, n) # 0 /\ FindIndex(d, n) <= i

Preceding(d, i, n) == FindIndex(d, n) # 0 /\ FindIndex(d, n) < i

ValidSemantic(d, i) ==
  LET s == d.steps[i]
  IN /\ s.source \notin OfKind(d, "docs")
     /\ s.source \in OfKind(d, "db") \/ Preceding(d, i, s.source)
     /\ d.embedding
     /\ s.queries > 0

ValidWhere(d, i) == d.steps[i].source \in OfKind(d, "db")

ValidLlm(d, i) ==
  LET s == d.steps[i]
  IN /\ s.source \in Names(d.sources) \/ Preceding(d, i, s.source)
     /\ s.input # NoInput => s.input # s.name /\ Preceding(d, i, s.input)

ValidStep(d, i) ==
  CASE d.steps[i].kind = "semantic" -> ValidSemantic(d, i)
    [] d.steps[i].kind = "where" -> ValidWhere(d, i)
    [] d.steps[i].kind = "llm" -> ValidLlm(d, i)

Distinct(s) == \A i, j \in 1 .. Len(s) : s[i].name = s[j].name => i = j

\* mapStep: an input that is linked to no step is lost, the source of a where
\* step keeps the name it was given (resolveRefName).
MapStep(d, s) ==
  [s EXCEPT !.input = IF s.kind = "llm" /\ @ \in Names(d.steps) THEN @ ELSE NoInput]

\* mapPipeline
MapPipeline(d) == [d EXCEPT !.steps = [i \in 1 .. Len(@) |-> MapStep(d, @[i])]]

\* No diagnostic.  The subject is the one a nats output must have.
ValidatePipeline(d) ==
  /\ d.mode = "mass" => \E i \in 1 .. Len(d.steps) : d.steps[i].kind = "semantic"
  /\ d.subject
  /\ \A i \in 1 .. Len(d.steps) : ValidStep(d, i)
  /\ Distinct(d.sources) /\ Distinct(d.steps)

ParsePipeline ==
  /\ verdict = "pending"
  /\ verdict' = IF Linked(ast) /\ ValidatePipeline(MapPipeline(ast)) THEN "accepted" ELSE "rejected"
  /\ have' = OfKind(ast, "db")
  /\ UNCHANGED << ast, at, missing >>

\* The runner: a step reads rows that are there.
Missing(s) == ({s.source} \cup IF s.input = NoInput THEN {} ELSE {s.input}) \ have

RunStep ==
  /\ verdict = "accepted" /\ at <= Len(ast.steps) /\ missing = {}
  /\ missing' = Missing(ast.steps[at])
  /\ have' = have \cup {ast.steps[at].name}
  /\ at' = at + 1
  /\ UNCHANGED << ast, verdict >>

Next == ParsePipeline \/ RunStep

Spec == Init /\ [][Next]_pipelineText

-----------------------------------------------------------------------------
\* A pipeline the validator has nothing to say about runs through: every step
\* finds its source and its input among what is declared or was computed before
\* it ("cross-step reference ordering"), except that an llm step may name a docs
\* source, which the validator lets pass and nothing reads yet.
AcceptedRunsThrough ==
  missing # {} =>
    ast.steps[at - 1].kind = "llm" /\ missing \subseteq OfKind(ast, "docs")
=============================================================================

-------------------------- MODULE AgentTurnProofs --------------------------
(***************************************************************************)
(* Proofs about AgentTurn for any set of requests, any assignment of       *)
(* turnIds (shared ones too), any step budget and any number of tool calls *)
(* per reply.                                                              *)
(***************************************************************************)
EXTENDS AgentTurn, SequenceTheorems, FiniteSetTheorems, TLAPS

\* The transcript owes a tool message for exactly the calls still to return.
OwedInv ==
    \A t \in Turns :
        /\ pc[t] \in {"idle", "prompt", "loop", "llm"} => dangling[t] = 0
        /\ pc[t] \in {"calls", "tool"} => dangling[t] = calls[t]
        /\ pc[t] = "tool" => calls[t] > 0

\* Every registered flag belongs to a running turn of that turnId.
HolderInv ==
    \A i \in TurnIds : cancels[i] # None => /\ Running(cancels[i])
                                            /\ IdOf[cancels[i]] = i

\* A turnId only one request carries stays registered while that request runs.
OwnerInv ==
    \A t \in Turns :
        Running(t) /\ (\A u \in Turns : IdOf[u] = IdOf[t] => u = t)
            => cancels[IdOf[t]] = t

\* An acknowledged cancel has tripped the flag of a turn that was registered.
AckInv == \A t \in acked : flag[t] /\ pc[t] \notin {"idle", "plain"}

Inv == TypeOK /\ OwedInv /\ HolderInv /\ OwnerInv /\ AckInv

\* Appending events of the known types keeps a stream well typed.
LEMMA EmitTyped ==
    ASSUME NEW t \in Turns, NEW es \in Seq(EventTypes),
           events \in [Turns -> Seq(EventTypes)], Emit(t, es)
    PROVE  events' \in [Turns -> Seq(EventTypes)]
<1>1. events[t] \o es \in Seq(EventTypes)
  BY ConcatProperties
<1>2. QED
  BY <1>1 DEF Emit

(* Ending a turn, with its closing events, keeps the types. *)
LEMMA ReturnTyped ==
    ASSUME NEW t \in Turns, NEW s \in Statuses, NEW es \in Seq(EventTypes),
           TypeOK, Return(t, s, es)
    PROVE  TypeOK'
<1>1. events' \in [Turns -> Seq(EventTypes)]
  BY EmitTyped DEF Return, TypeOK
<1>2. QED
  BY <1>1 DEF Return, TypeOK, Pcs

(* The steps of a cancelled turn keep the types. *)
LEMMA CancelledTyped ==
    ASSUME NEW t \in Turns, TypeOK, Cancelled(t)
    PROVE  TypeOK'
<1>1. <<"cancelled", "assistant_message">> \in Seq(EventTypes)
  BY DEF EventTypes
<1>2. "cancelled" \in Statuses
  BY DEF Statuses
<1>3. QED
  BY <1>1, <1>2, ReturnTyped DEF Cancelled

(* No turn has started: nothing is owed, registered or acknowledged. *)
LEMMA InitInv == Init => Inv
BY IdsAssumption, KindsAssumption, StepsAssumption
   DEF Init, Inv, TypeOK, OwedInv, HolderInv, OwnerInv, AckInv, Running, Pcs

(* Every step of the loop, of the registry and of the cancel command keeps the types. *)
LEMMA TypeStep ==
    ASSUME Inv, Next
    PROVE  TypeOK'
<1> USE IdsAssumption, KindsAssumption, StepsAssumption
<1>1. ASSUME NEW t \in Turns, BadRequest(t) \/ Register(t) \/ CallPlain(t) \/ BuildPrompt(t)
      PROVE  TypeOK'
  <2>1. CASE BadRequest(t)
    BY <2>1 DEF Inv, TypeOK, BadRequest, Goto, Pcs, Statuses
  <2>2. CASE Register(t)
    BY <2>2 DEF Inv, TypeOK, Register, Goto, Pcs
  <2>3. CASE CallPlain(t) \/ BuildPrompt(t)
    BY <2>3 DEF Inv, TypeOK, CallPlain, BuildPrompt, Goto, Pcs
  <2>4. QED
    BY <1>1, <2>1, <2>2, <2>3
<1>2. ASSUME NEW t \in Turns, CallLlm(t) \/ CallsDone(t) \/ Reply(t) \/ ReplyPlain(t)
      PROVE  TypeOK'
  <2>1. CASE CallLlm(t)
    BY <2>1 DEF Inv, TypeOK, CallLlm, Goto, Pcs
  <2>2. CASE CallsDone(t)
    BY <2>2 DEF Inv, TypeOK, CallsDone, Goto, Pcs
  <2>3. CASE Reply(t)
    BY <2>3 DEF Inv, TypeOK, Reply, Goto, Pcs
  <2>4. CASE ReplyPlain(t)
    BY <2>4 DEF Inv, TypeOK, ReplyPlain, Goto, Pcs, Statuses
  <2>5. QED
    BY <1>2, <2>1, <2>2, <2>3, <2>4
<1>3. ASSUME NEW t \in Turns, CancelAtTop(t) \/ CancelAtCall(t)
      PROVE  TypeOK'
  BY <1>3, CancelledTyped DEF Inv, CancelAtTop, CancelAtCall
<1>4. <<"assistant_message">> \in Seq(EventTypes) /\ <<"agent_error">> \in Seq(EventTypes)
      /\ <<"tool_call_start">> \in Seq(EventTypes)
      /\ <<>> \o <<"tool_call_end">> \in Seq(EventTypes)
      /\ <<"tab_open">> \o <<"tool_call_end">> \in Seq(EventTypes)
  BY DEF EventTypes
<1>5. ASSUME NEW t \in Turns, StepLimit(t) \/ LlmAnswers(t) \/ LlmFails(t)
      PROVE  TypeOK'
  <2>1. CASE Return(t, "step_limit", <<"assistant_message">>)
    BY <2>1, <1>4, ReturnTyped DEF Inv, Statuses
  <2>2. CASE Return(t, "success", <<"assistant_message">>)
    BY <2>2, <1>4, ReturnTyped DEF Inv, Statuses
  <2>3. CASE Return(t, "error", <<"agent_error">>)
    BY <2>3, <1>4, ReturnTyped DEF Inv, Statuses
  <2>4. CASE Cancelled(t)
    BY <2>4, CancelledTyped DEF Inv
  <2>5. QED
    BY <1>5, <2>1, <2>2, <2>3, <2>4 DEF StepLimit, LlmAnswers, LlmFails
<1>6. ASSUME NEW t \in Turns, LlmCallsTools(t)
      PROVE  TypeOK'
  BY <1>6 DEF Inv, TypeOK, LlmCallsTools, Goto, Pcs
<1>7. ASSUME NEW t \in Turns, StartTool(t)
      PROVE  TypeOK'
  <2>1. events' \in [Turns -> Seq(EventTypes)]
    BY <1>7, <1>4, EmitTyped DEF Inv, TypeOK, StartTool
  <2>2. QED
    BY <1>7, <2>1 DEF Inv, TypeOK, StartTool, Goto, Pcs
<1>8. ASSUME NEW t \in Turns, EndTool(t)
      PROVE  TypeOK'
  <2>1. PICK tab \in {<<>>, <<"tab_open">>} :
          /\ Goto(t, "tool", "calls")
          /\ calls' = [calls EXCEPT ![t] = @ - 1]
          /\ dangling' = [dangling EXCEPT ![t] = @ - 1]
          /\ Emit(t, tab \o <<"tool_call_end">>)
          /\ UNCHANGED <<step, cancels, flag, status, acked>>
    BY <1>8 DEF EndTool
  <2>2. tab \o <<"tool_call_end">> \in Seq(EventTypes)
    BY <1>4
  <2>3. events' \in [Turns -> Seq(EventTypes)]
    BY <2>1, <2>2, EmitTyped DEF Inv, TypeOK
  <2>4. calls[t] > 0 /\ dangling[t] = calls[t]
    BY <2>1 DEF Inv, OwedInv, Goto
  <2>5. calls' \in [Turns -> 0..MaxCalls] /\ dangling' \in [Turns -> 0..MaxCalls]
    BY <2>1, <2>4 DEF Inv, TypeOK
  <2>6. pc' \in [Turns -> Pcs]
    BY <2>1 DEF Inv, TypeOK, Goto, Pcs
  <2>7. QED
    BY <2>1, <2>3, <2>5, <2>6 DEF Inv, TypeOK
<1>9. ASSUME NEW i \in TurnIds, Cancel(i)
      PROVE  TypeOK'
  BY <1>9 DEF Inv, TypeOK, Cancel
<1>10. ASSUME Crash
       PROVE  TypeOK'
  BY <1>10 DEF Inv, TypeOK, Crash, Pcs
<1>11. QED
  BY <1>1, <1>2, <1>3, <1>5, <1>6, <1>7, <1>8, <1>9, <1>10 DEF Next, TurnStep

(* Every step keeps the count of owed tool results with the calls of the answer. *)
LEMMA OwedStep ==
    ASSUME Inv, Next
    PROVE  OwedInv'
<1> USE IdsAssumption, KindsAssumption, StepsAssumption
<1>1. ASSUME NEW t \in Turns, BadRequest(t) \/ Register(t) \/ CallPlain(t) \/ BuildPrompt(t)
      PROVE  OwedInv'
  BY <1>1 DEF Inv, TypeOK, OwedInv, BadRequest, Register, CallPlain, BuildPrompt, Goto
<1>2. ASSUME NEW t \in Turns, CallLlm(t) \/ CallsDone(t) \/ Reply(t) \/ ReplyPlain(t)
      PROVE  OwedInv'
  BY <1>2 DEF Inv, TypeOK, OwedInv, CallLlm, CallsDone, Reply, ReplyPlain, Goto
<1>3. ASSUME NEW t \in Turns, NEW s, NEW es, Return(t, s, es)
      PROVE  OwedInv'
  BY <1>3 DEF Inv, TypeOK, OwedInv, Return
<1>4. ASSUME NEW t \in Turns,
             CancelAtTop(t) \/ CancelAtCall(t) \/ StepLimit(t) \/ LlmAnswers(t) \/ LlmFails(t)
      PROVE  OwedInv'
  BY <1>3, <1>4 DEF CancelAtTop, CancelAtCall, StepLimit, LlmAnswers, LlmFails, Cancelled
<1>5. ASSUME NEW t \in Turns, LlmCallsTools(t)
      PROVE  OwedInv'
  BY <1>5 DEF Inv, TypeOK, OwedInv, LlmCallsTools, Goto
<1>6. ASSUME NEW t \in Turns, StartTool(t)
      PROVE  OwedInv'
  BY <1>6 DEF Inv, TypeOK, OwedInv, StartTool, Goto
<1>7. ASSUME NEW t \in Turns, EndTool(t)
      PROVE  OwedInv'
  BY <1>7 DEF Inv, TypeOK, OwedInv, EndTool, Goto
<1>8. ASSUME NEW i \in TurnIds, Cancel(i)
      PROVE  OwedInv'
  BY <1>8 DEF Inv, OwedInv, Cancel
<1>9. ASSUME Crash
      PROVE  OwedInv'
  BY <1>9 DEF Inv, OwedInv, Crash
<1>10. QED
  BY <1>1, <1>2, <1>4, <1>5, <1>6, <1>7, <1>8, <1>9 DEF Next, TurnStep

\* A step of the loop leaves the registry and the set of running turns alone.
LEMMA LoopKeepsRegistry ==
    ASSUME Inv, NEW t \in Turns, TurnStep(t), ~Reply(t)
    PROVE  /\ cancels' = cancels /\ flag' = flag /\ acked' = acked
           /\ \A u \in Turns : Running(u)' = Running(u)
           /\ \A u \in Turns : pc'[u] \in {"idle", "plain"} => pc[u] = pc'[u]
<1>1. CASE BuildPrompt(t) \/ CallLlm(t) \/ CallsDone(t) \/ ReplyPlain(t)
  BY <1>1 DEF Inv, TypeOK, BuildPrompt, CallLlm, CallsDone, ReplyPlain, Goto, Running
<1>2. CASE StepLimit(t) \/ CancelAtTop(t) \/ CancelAtCall(t) \/ LlmAnswers(t) \/ LlmFails(t)
  <2>1. pc[t] \in {"loop", "llm", "calls"} /\ \E s, es : Return(t, s, es)
    BY <1>2 DEF StepLimit, CancelAtTop, CancelAtCall, LlmAnswers, LlmFails, Cancelled
  <2>2. QED
    BY <2>1 DEF Inv, TypeOK, Return, Running
<1>3. CASE LlmCallsTools(t) \/ StartTool(t) \/ EndTool(t)
  BY <1>3 DEF Inv, TypeOK, LlmCallsTools, StartTool, EndTool, Goto, Running
<1>4. QED
  BY <1>1, <1>2, <1>3 DEF TurnStep

(* Every step keeps the registry: who holds an entry and for how long. *)
LEMMA RegistryStep ==
    ASSUME Inv, Next
    PROVE  HolderInv' /\ OwnerInv'
<1> USE IdsAssumption
<1>1. ASSUME NEW t \in Turns, TurnStep(t), ~Reply(t)
      PROVE  HolderInv' /\ OwnerInv'
  <2>1. \A i \in TurnIds : cancels[i] # None => cancels[i] \in Turns
    BY DEF Inv, TypeOK
  <2>2. QED
    BY <1>1, <2>1, LoopKeepsRegistry DEF Inv, HolderInv, OwnerInv
<1>2. ASSUME NEW t \in Turns, Reply(t)
      PROVE  HolderInv' /\ OwnerInv'
  <2>1. /\ pc' = [pc EXCEPT ![t] = "done"]
        /\ cancels' = [cancels EXCEPT ![IdOf[t]] = None]
    BY <1>2 DEF Reply, Goto
  <2>2. \A u \in Turns : Running(u)' <=> u # t /\ Running(u)
    BY <2>1 DEF Inv, TypeOK, Running
  <2>3. HolderInv'
    BY <2>1, <2>2 DEF Inv, TypeOK, HolderInv
  <2>4. OwnerInv'
    BY <2>1, <2>2 DEF Inv, TypeOK, OwnerInv
  <2>5. QED
    BY <2>3, <2>4
<1>3. ASSUME NEW t \in Turns, BadRequest(t) \/ CallPlain(t)
      PROVE  HolderInv' /\ OwnerInv'
  <2>1. cancels' = cancels /\ \A u \in Turns : Running(u)' = Running(u)
    BY <1>3 DEF Inv, TypeOK, BadRequest, CallPlain, Goto, Running
  <2>2. \A i \in TurnIds : cancels[i] # None => cancels[i] \in Turns
    BY DEF Inv, TypeOK
  <2>3. QED
    BY <2>1, <2>2 DEF Inv, HolderInv, OwnerInv
<1>4. ASSUME NEW t \in Turns, Register(t)
      PROVE  HolderInv' /\ OwnerInv'
  <2>1. /\ cancels' = [cancels EXCEPT ![IdOf[t]] = t]
        /\ \A u \in Turns : Running(u)' <=> u = t \/ Running(u)
    BY <1>4 DEF Inv, TypeOK, Register, Goto, Running
  <2>2. HolderInv'
    BY <2>1 DEF Inv, TypeOK, HolderInv
  <2>3. OwnerInv'
    BY <2>1 DEF Inv, TypeOK, OwnerInv
  <2>4. QED
    BY <2>2, <2>3
<1>5. ASSUME NEW i \in TurnIds, Cancel(i)
      PROVE  HolderInv' /\ OwnerInv'
  BY <1>5 DEF Inv, HolderInv, OwnerInv, Cancel, Running
<1>6. ASSUME Crash
      PROVE  HolderInv' /\ OwnerInv'
  <2>1. \A u \in Turns : ~Running(u)'
    BY <1>6 DEF Crash, Running
  <2>2. QED
    BY <1>6, <2>1 DEF Crash, HolderInv, OwnerInv
<1>7. QED
  BY <1>1, <1>2, <1>3, <1>4, <1>5, <1>6 DEF Next

(* No step takes down the flag of an acknowledged cancel. *)
LEMMA AckStep ==
    ASSUME Inv, Next
    PROVE  AckInv'
<1> USE IdsAssumption
<1>1. ASSUME NEW t \in Turns, TurnStep(t), ~Reply(t)
      PROVE  AckInv'
  BY <1>1, LoopKeepsRegistry DEF Inv, TypeOK, AckInv
<1>2. ASSUME NEW t \in Turns, Reply(t) \/ BadRequest(t) \/ Register(t) \/ CallPlain(t)
      PROVE  AckInv'
  BY <1>2 DEF Inv, TypeOK, AckInv, Reply, BadRequest, Register, CallPlain, Goto
<1>3. ASSUME NEW i \in TurnIds, Cancel(i)
      PROVE  AckInv'
  BY <1>3 DEF Inv, TypeOK, AckInv, HolderInv, Running, Cancel
<1>4. ASSUME Crash
      PROVE  AckInv'
  BY <1>4 DEF Inv, TypeOK, AckInv, Crash
<1>5. QED
  BY <1>1, <1>2, <1>3, <1>4 DEF Next

(* The four parts together are inductive. *)
LEMMA NextInv == Inv /\ [Next]_vars => Inv'
<1>1. ASSUME Inv, Next
      PROVE  Inv'
  BY <1>1, TypeStep, OwedStep, RegistryStep, AckStep DEF Inv
<1>2. ASSUME Inv, UNCHANGED vars
      PROVE  Inv'
  BY <1>2 DEF Inv, TypeOK, OwedInv, HolderInv, OwnerInv, AckInv, Running, vars
<1>3. QED
  BY <1>1, <1>2

(* The invariant of a turn service holds in every behaviour. *)
LEMMA Invariance == Spec => []Inv
BY InitInv, NextInv, PTL DEF Spec

-----------------------------------------------------------------------------

\* Every variable keeps its type; the bound that takes an argument is that a
\* tool call returns only while one is owed, so the counters never go below 0.
THEOREM TypeCorrect == Spec => []TypeOK
<1>1. Inv => TypeOK
  BY DEF Inv
<1>2. QED
  BY <1>1, Invariance, PTL

\* No LLM call is ever made with a tool call left unanswered in the transcript.
THEOREM TranscriptTheorem == Spec => []TranscriptComplete
<1>1. Inv => TranscriptComplete
  BY DEF Inv, OwedInv, TranscriptComplete
<1>2. QED
  BY <1>1, Invariance, PTL

\* The registry holds only running turns, whatever turnIds the webviews draw,
\* and holds every running turn whose turnId is its own.
THEOREM RegistryTheorem == Spec => []RegistryExact
<1>1. Inv => RegistryExact
  BY DEF Inv, HolderInv, OwnerInv, RegistryExact
<1>2. QED
  BY <1>1, Invariance, PTL

\* After an acknowledged cancel a turn starts neither an LLM nor a tool call.
THEOREM CancelStopsWorkTheorem == Spec => CancelStopsWork
<1>1. ASSUME Inv, Next, NEW t \in acked
      PROVE  step'[t] = step[t] /\ (pc'[t] = "tool" => pc[t] = "tool")
  <2> t \in Turns /\ flag[t]
    BY <1>1 DEF Inv, TypeOK, AckInv
  <2>1. ASSUME NEW u \in Turns, NEW s, NEW es, Return(u, s, es)
        PROVE  step'[t] = step[t] /\ (pc'[t] = "tool" => pc[t] = "tool")
    BY <1>1, <2>1 DEF Inv, TypeOK, Return
  <2>2. ASSUME NEW u \in Turns,
               \/ StepLimit(u) \/ CancelAtTop(u) \/ CancelAtCall(u)
               \/ LlmAnswers(u) \/ LlmFails(u)
        PROVE  step'[t] = step[t] /\ (pc'[t] = "tool" => pc[t] = "tool")
    BY <2>1, <2>2 DEF StepLimit, CancelAtTop, CancelAtCall, LlmAnswers, LlmFails, Cancelled
  <2>3. ASSUME NEW u \in Turns,
               \/ BadRequest(u) \/ Register(u) \/ CallPlain(u) \/ BuildPrompt(u)
               \/ CallLlm(u) \/ CallsDone(u) \/ Reply(u) \/ ReplyPlain(u)
        PROVE  step'[t] = step[t] /\ (pc'[t] = "tool" => pc[t] = "tool")
    BY <1>1, <2>3 DEF Inv, TypeOK, BadRequest, Register, CallPlain, BuildPrompt,
                      CallLlm, CallsDone, Reply, ReplyPlain, Goto
  <2>4. ASSUME NEW u \in Turns, LlmCallsTools(u) \/ StartTool(u) \/ EndTool(u)
        PROVE  step'[t] = step[t] /\ (pc'[t] = "tool" => pc[t] = "tool")
    BY <1>1, <2>4 DEF Inv, TypeOK, LlmCallsTools, StartTool, EndTool, Goto
  <2>5. CASE Crash \/ \E i \in TurnIds : Cancel(i)
    BY <1>1, <2>5 DEF Inv, TypeOK, Crash, Cancel
  <2>6. QED
    BY <1>1, <2>2, <2>3, <2>4, <2>5 DEF Next, TurnStep
<1>2. Inv /\ [Next]_vars =>
        [\A t \in acked : /\ step'[t] = step[t]
                          /\ pc'[t] = "tool" => pc[t] = "tool"]_vars
  BY <1>1
<1>3. QED
  BY <1>2, Invariance, PTL DEF Spec, CancelStopsWork

\* A turn whose cancel was acknowledged while it ran is never a failure.
THEOREM CancelIsNoFailureTheorem == Spec => CancelIsNoFailure
<1>1. ASSUME Inv, Next, NEW t \in acked, status[t] = None
      PROVE  \/ status'[t] \in {None, "cancelled", "success"}
             \/ status'[t] = "step_limit" /\ step[t] = MAX_STEPS
  <2> t \in Turns /\ flag[t] /\ pc[t] \notin {"idle", "plain"}
    BY <1>1 DEF Inv, TypeOK, AckInv
  <2> DEFINE Ok == \/ status'[t] \in {None, "cancelled", "success"}
                   \/ status'[t] = "step_limit" /\ step[t] = MAX_STEPS
  <2>1. ASSUME NEW u \in Turns, NEW s, NEW es, Return(u, s, es),
               u = t => \/ s \in {"cancelled", "success"}
                        \/ s = "step_limit" /\ step[t] = MAX_STEPS
        PROVE  Ok
    BY <1>1, <2>1 DEF Inv, TypeOK, Return
  <2>2. ASSUME NEW u \in Turns, StepLimit(u) \/ CancelAtTop(u) \/ CancelAtCall(u) \/ LlmAnswers(u)
        PROVE  Ok
    BY <2>1, <2>2 DEF StepLimit, CancelAtTop, CancelAtCall, LlmAnswers, Cancelled
  <2>3. ASSUME NEW u \in Turns, LlmFails(u)
        PROVE  Ok
    BY <2>1, <2>3 DEF LlmFails, Cancelled
  <2>4. ASSUME NEW u \in Turns, BadRequest(u) \/ ReplyPlain(u)
        PROVE  Ok
    BY <1>1, <2>4 DEF Inv, TypeOK, BadRequest, ReplyPlain, Goto
  <2>5. ASSUME NEW u \in Turns,
               \/ Register(u) \/ CallPlain(u) \/ BuildPrompt(u) \/ CallLlm(u) \/ CallsDone(u)
               \/ Reply(u) \/ LlmCallsTools(u) \/ StartTool(u) \/ EndTool(u)
        PROVE  Ok
    BY <1>1, <2>5 DEF Register, CallPlain, BuildPrompt, CallLlm, CallsDone, Reply,
                      LlmCallsTools, StartTool, EndTool
  <2>6. CASE Crash \/ \E i \in TurnIds : Cancel(i)
    BY <1>1, <2>6 DEF Crash, Cancel
  <2>7. QED
    BY <1>1, <2>2, <2>3, <2>4, <2>5, <2>6 DEF Next, TurnStep
<1>2. Inv /\ [Next]_vars =>
        [\A t \in acked : status[t] = None =>
            \/ status'[t] \in {None, "cancelled", "success"}
            \/ status'[t] = "step_limit" /\ step[t] = MAX_STEPS]_vars
  BY <1>1
<1>3. QED
  BY <1>2, Invariance, PTL DEF Spec, CancelIsNoFailure

-----------------------------------------------------------------------------
(* The stream of a turn, and what its trace says.                          *)

\* How often e occurs in the stream q.
Occurs(q, e) == Cardinality({k \in DOMAIN q : q[k] = e})

\* What a turn at p, with status s, has streamed.
Told(p, s, q) ==
    /\ p \in {"idle", "prompt", "plain"} => q = <<>>
    /\ p \in {"idle", "prompt", "plain", "loop", "llm", "calls", "tool"} => s = None
    /\ p # "lost" => Occurs(q, "tool_call_start") =
                        Occurs(q, "tool_call_end") + (IF p = "tool" THEN 1 ELSE 0)
    /\ Occurs(q, "assistant_message") + Occurs(q, "agent_error") =
          (IF s = None \/ q = <<>> THEN 0 ELSE 1)
    /\ Occurs(q, "cancelled") = (IF s = "cancelled" THEN 1 ELSE 0)
    /\ p = "ending" =>
          /\ s # None /\ q # <<>>
          /\ q[Len(q)] = (IF s = "error" THEN "agent_error" ELSE "assistant_message")

StreamInv == \A t \in Turns : Told(pc[t], status[t], events[t])

\* An empty stream holds nothing.
LEMMA OccursNever ==
    ASSUME NEW e
    PROVE  Occurs(<<>>, e) = 0
<1>1. {k \in DOMAIN <<>> : <<>>[k] = e} = {}
  OBVIOUS
<1>2. QED
  BY <1>1, FS_EmptySet DEF Occurs

\* Every event that is published counts once.
LEMMA OccursAppend ==
    ASSUME NEW q \in Seq(EventTypes), NEW c \in EventTypes, NEW e
    PROVE  /\ Occurs(q, e) \in Nat
           /\ Occurs(Append(q, c), e) = Occurs(q, e) + (IF c = e THEN 1 ELSE 0)
           /\ Append(q, c) \in Seq(EventTypes)
           /\ Append(q, c) # <<>>
           /\ Append(q, c)[Len(Append(q, c))] = c
<1> DEFINE r == Append(q, c)
           S == {k \in DOMAIN q : q[k] = e}
           T == {k \in DOMAIN r : r[k] = e}
<1>1. Len(q) \in Nat /\ DOMAIN q = 1..Len(q)
  OBVIOUS
<1>2. /\ r \in Seq(EventTypes) /\ r # <<>> /\ Len(r) = Len(q) + 1
      /\ \A k \in 1..Len(q) : r[k] = q[k]
      /\ r[Len(q) + 1] = c
      /\ DOMAIN r = 1..(Len(q) + 1)
  BY <1>1, AppendProperties
<1>3. IsFiniteSet(S) /\ Cardinality(S) \in Nat
  <2>1. IsFiniteSet(1..Len(q))
    BY <1>1, FS_Interval
  <2>2. S \in SUBSET (1..Len(q))
    BY <1>1
  <2>3. QED
    BY <2>1, <2>2, FS_Subset, FS_CardinalityType
<1>4. Len(q) + 1 \notin S
  BY <1>1
<1>5. \A k \in 1..(Len(q) + 1) : k \in 1..Len(q) \/ k = Len(q) + 1
  BY <1>1
<1>6. \A k \in 1..Len(q) : k \in 1..(Len(q) + 1)
  BY <1>1
<1>7. Len(q) + 1 \in 1..(Len(q) + 1)
  BY <1>1
<1>8. Occurs(q, e) = Cardinality(S) /\ Occurs(r, e) = Cardinality(T)
  BY DEF Occurs
<1> HIDE DEF r
<1>9. CASE c = e
  <2>1. T = S \cup {Len(q) + 1}
    BY <1>1, <1>2, <1>5, <1>6, <1>7, <1>9
  <2>2. Cardinality(S \cup {Len(q) + 1}) = Cardinality(S) + 1
    <3> HIDE DEF S
    <3>1. QED
      BY <1>3, <1>4, FS_AddElement
  <2> HIDE DEF S, T
  <2>3. Occurs(r, e) = Occurs(q, e) + 1 /\ Occurs(q, e) \in Nat
    BY <1>3, <1>9, <1>8, <2>1, <2>2
  <2>4. QED
    BY <1>2, <1>9, <2>3 DEF r
<1>10. CASE c # e
  <2>1. T = S
    BY <1>1, <1>2, <1>5, <1>6, <1>10
  <2> HIDE DEF S, T
  <2>2. Occurs(r, e) = Occurs(q, e) + 0 /\ Occurs(q, e) \in Nat
    BY <1>3, <1>10, <1>8, <2>1
  <2>3. QED
    BY <1>2, <1>10, <2>2 DEF r
<1>11. QED
  BY <1>9, <1>10

\* A stream and one or two events more.
LEMMA Emitted ==
    ASSUME NEW q \in Seq(EventTypes), NEW c \in EventTypes, NEW d \in EventTypes
    PROVE  /\ q \o <<c>> = Append(q, c)
           /\ q \o <<c, d>> = Append(Append(q, c), d)
           /\ q \o (<<>> \o <<c>>) = Append(q, c)
           /\ q \o (<<c>> \o <<d>>) = Append(Append(q, c), d)
<1>1. q \o <<c>> = Append(q, c)
  BY AppendIsConcat
<1>2. /\ <<>> \o <<c>> = <<c>>
      /\ q \o (<<c>> \o <<d>>) = Append(Append(q, c), d)
  <2>1. <<c>> \in Seq(EventTypes) /\ <<d>> \in Seq(EventTypes)
    OBVIOUS
  <2>2. <<>> \o <<c>> = <<c>>
    BY <2>1, ConcatEmptySeq
  <2>3. q \o (<<c>> \o <<d>>) = (q \o <<c>>) \o <<d>>
    BY <2>1, ConcatAssociative
  <2>4. (q \o <<c>>) \o <<d>> = Append(Append(q, c), d)
    <3>1. Append(q, c) \in Seq(EventTypes)
      BY AppendProperties
    <3>2. QED
      BY <1>1, <3>1, AppendIsConcat
  <2>5. QED
    BY <2>2, <2>3, <2>4
<1>3. q \o <<c, d>> = Append(Append(q, c), d)
  <2>1. Len(q) \in Nat /\ Append(q, c) \in Seq(EventTypes) /\ Len(Append(q, c)) = Len(q) + 1
    BY AppendProperties
  <2>2. <<c, d>> \in Seq(EventTypes) /\ Len(<<c, d>>) = 2
    OBVIOUS
  <2>3. QED
    BY <2>1, <2>2
<1>4. QED
  BY <1>1, <1>2, <1>3

\* The last event of a turn that ran to its end.
LEMMA ToldEnding ==
    ASSUME NEW p \in {"loop", "llm", "calls"}, NEW q \in Seq(EventTypes), Told(p, None, q),
           NEW s \in Statuses, s # "cancelled",
           NEW c, c = IF s = "error" THEN "agent_error" ELSE "assistant_message"
    PROVE  Told("ending", s, q \o <<c>>)
<1>1. c \in EventTypes /\ q \o <<c>> = Append(q, c)
  BY Emitted DEF EventTypes
<1>2. s # None
  BY NoneAssumption
<1> DEFINE r == Append(q, c)
<1>3. /\ \A e : Occurs(q, e) \in Nat /\ Occurs(r, e) = Occurs(q, e) + (IF c = e THEN 1 ELSE 0)
      /\ r # <<>> /\ r[Len(r)] = c
  BY <1>1, OccursAppend
<1> HIDE DEF r
<1>4. /\ Occurs(q, "tool_call_start") = Occurs(q, "tool_call_end") + 0
      /\ Occurs(q, "assistant_message") + Occurs(q, "agent_error") = 0
      /\ Occurs(q, "cancelled") = 0
  BY NoneAssumption DEF Told, Statuses
<1>5. /\ Occurs(r, "tool_call_start") = Occurs(r, "tool_call_end") + 0
      /\ Occurs(r, "assistant_message") + Occurs(r, "agent_error") = 1
      /\ Occurs(r, "cancelled") = 0
  BY <1>3, <1>4
<1>6. Told("ending", s, r)
  BY <1>2, <1>3, <1>5 DEF Told
<1>7. QED
  BY <1>1, <1>6 DEF r

\* The two last events of a cancelled turn.
LEMMA ToldCancelled ==
    ASSUME NEW p \in {"loop", "llm", "calls"}, NEW q \in Seq(EventTypes), Told(p, None, q)
    PROVE  Told("ending", "cancelled", q \o <<"cancelled", "assistant_message">>)
<1> DEFINE m == Append(q, "cancelled")
           r == Append(m, "assistant_message")
<1>1. /\ "cancelled" \in EventTypes /\ "assistant_message" \in EventTypes
      /\ q \o <<"cancelled", "assistant_message">> = r
  BY Emitted DEF EventTypes
<1>2. /\ \A e : /\ Occurs(q, e) \in Nat
                /\ Occurs(m, e) = Occurs(q, e) + (IF "cancelled" = e THEN 1 ELSE 0)
      /\ m \in Seq(EventTypes)
  BY <1>1, OccursAppend
<1>3. /\ \A e : Occurs(r, e) = Occurs(m, e) + (IF "assistant_message" = e THEN 1 ELSE 0)
      /\ r # <<>> /\ r[Len(r)] = "assistant_message"
  <2> HIDE DEF m
  <2>1. QED
    BY <1>1, <1>2, OccursAppend
<1> HIDE DEF m, r
<1>4. /\ Occurs(q, "tool_call_start") = Occurs(q, "tool_call_end") + 0
      /\ Occurs(q, "assistant_message") + Occurs(q, "agent_error") = 0
      /\ Occurs(q, "cancelled") = 0
  BY NoneAssumption DEF Told, Statuses
<1>5. /\ Occurs(r, "tool_call_start") = Occurs(r, "tool_call_end") + 0
      /\ Occurs(r, "assistant_message") + Occurs(r, "agent_error") = 1
      /\ Occurs(r, "cancelled") = 1
  BY <1>2, <1>3, <1>4
<1>6. Told("ending", "cancelled", r)
  BY <1>3, <1>5, NoneAssumption DEF Told, Statuses
<1>7. QED
  BY <1>1, <1>6

\* A tool starts.
LEMMA ToldStart ==
    ASSUME NEW q \in Seq(EventTypes), Told("calls", None, q)
    PROVE  Told("tool", None, q \o <<"tool_call_start">>)
<1> DEFINE r == Append(q, "tool_call_start")
<1>1. "tool_call_start" \in EventTypes /\ q \o <<"tool_call_start">> = r
  BY Emitted DEF EventTypes
<1>2. \A e : /\ Occurs(q, e) \in Nat
             /\ Occurs(r, e) = Occurs(q, e) + (IF "tool_call_start" = e THEN 1 ELSE 0)
  BY <1>1, OccursAppend
<1> HIDE DEF r
<1>3. /\ Occurs(q, "tool_call_start") = Occurs(q, "tool_call_end") + 0
      /\ Occurs(q, "assistant_message") + Occurs(q, "agent_error") = 0
      /\ Occurs(q, "cancelled") = 0
  BY NoneAssumption DEF Told, Statuses
<1>4. /\ Occurs(r, "tool_call_start") = Occurs(r, "tool_call_end") + 1
      /\ Occurs(r, "assistant_message") + Occurs(r, "agent_error") = 0
      /\ Occurs(r, "cancelled") = 0
  BY <1>2, <1>3
<1>5. Told("tool", None, r)
  BY <1>4, NoneAssumption DEF Told, Statuses
<1>6. QED
  BY <1>1, <1>5

\* A tool returns, and has opened a tab or not.
LEMMA ToldReturn ==
    ASSUME NEW q \in Seq(EventTypes), Told("tool", None, q),
           NEW tab \in {<<>>, <<"tab_open">>}
    PROVE  Told("calls", None, q \o (tab \o <<"tool_call_end">>))
<1> DEFINE m == IF tab = <<>> THEN q ELSE Append(q, "tab_open")
           r == Append(m, "tool_call_end")
<1>1. "tool_call_end" \in EventTypes /\ "tab_open" \in EventTypes
  BY DEF EventTypes
<1>2. q \o (tab \o <<"tool_call_end">>) = r
  BY <1>1, Emitted
<1>3. /\ m \in Seq(EventTypes)
      /\ \A e : /\ Occurs(q, e) \in Nat
                /\ e # "tab_open" => Occurs(m, e) = Occurs(q, e)
  <2>1. CASE tab = <<>>
    BY <1>1, <2>1, OccursAppend
  <2>2. CASE tab # <<>>
    <3>1. /\ Append(q, "tab_open") \in Seq(EventTypes)
          /\ \A e : /\ Occurs(q, e) \in Nat
                    /\ Occurs(Append(q, "tab_open"), e)
                          = Occurs(q, e) + (IF "tab_open" = e THEN 1 ELSE 0)
      BY <1>1, OccursAppend
    <3>2. \A e : e # "tab_open" => Occurs(Append(q, "tab_open"), e) = Occurs(q, e)
      BY <3>1
    <3>3. QED
      BY <2>2, <3>1, <3>2
  <2>3. QED
    BY <2>1, <2>2
<1> HIDE DEF m
<1>4. \A e : Occurs(r, e) = Occurs(m, e) + (IF "tool_call_end" = e THEN 1 ELSE 0)
  BY <1>1, <1>3, OccursAppend
<1> HIDE DEF r
<1>5. /\ Occurs(q, "tool_call_start") = Occurs(q, "tool_call_end") + 1
      /\ Occurs(q, "assistant_message") + Occurs(q, "agent_error") = 0
      /\ Occurs(q, "cancelled") = 0
  BY NoneAssumption DEF Told, Statuses
<1>6. /\ Occurs(r, "tool_call_start") = Occurs(r, "tool_call_end") + 0
      /\ Occurs(r, "assistant_message") + Occurs(r, "agent_error") = 0
      /\ Occurs(r, "cancelled") = 0
  BY <1>3, <1>4, <1>5
<1>7. Told("calls", None, r)
  BY <1>6, NoneAssumption DEF Told, Statuses
<1>8. QED
  BY <1>2, <1>7

\* Only the turn that takes a step tells anything.
LEMMA OthersTold ==
    ASSUME StreamInv, TypeOK, NEW t \in Turns, NEW p, NEW s, NEW q,
           pc' = [pc EXCEPT ![t] = p], status' = [status EXCEPT ![t] = s],
           events' = [events EXCEPT ![t] = q], Told(p, s, q)
    PROVE  StreamInv'
<1>1. \A u \in Turns \ {t} : pc'[u] = pc[u] /\ status'[u] = status[u] /\ events'[u] = events[u]
  BY DEF TypeOK
<1>2. pc'[t] = p /\ status'[t] = s /\ events'[t] = q
  BY DEF TypeOK
<1>3. \A u \in Turns : Told(pc'[u], status'[u], events'[u])
  BY <1>1, <1>2 DEF StreamInv
<1>4. QED
  BY <1>3 DEF StreamInv

(* Every step keeps the shape of the published stream. *)
LEMMA StreamStep ==
    ASSUME Inv, StreamInv, Next
    PROVE  StreamInv'
<1> TypeOK
  BY DEF Inv
<1>1. ASSUME NEW t \in Turns
      PROVE  /\ Told(pc[t], status[t], events[t]) /\ events[t] \in Seq(EventTypes)
             /\ events = [events EXCEPT ![t] = events[t]]
             /\ status = [status EXCEPT ![t] = status[t]]
             /\ pc[t] \in {"idle", "prompt", "plain", "loop", "llm", "calls", "tool"}
                   => status[t] = None
             /\ pc[t] \in {"idle", "prompt", "plain"} => events[t] = <<>>
  <2>1. Told(pc[t], status[t], events[t])
    BY DEF StreamInv
  <2>2. QED
    BY <2>1 DEF TypeOK, Told
<1>2. ASSUME NEW t \in Turns, NEW p, pc' = [pc EXCEPT ![t] = p], UNCHANGED <<events, status>>,
             Told(p, status[t], events[t])
      PROVE  StreamInv'
  BY <1>1, <1>2, OthersTold
<1>3. ASSUME NEW t \in Turns, BadRequest(t) \/ ReplyPlain(t)
      PROVE  StreamInv'
  <2>1. PICK s \in {"success", "error"} :
            /\ pc' = [pc EXCEPT ![t] = "done"] /\ status' = [status EXCEPT ![t] = s]
            /\ events' = events /\ pc[t] \in {"idle", "plain"}
    BY <1>3 DEF BadRequest, ReplyPlain, Goto
  <2>2. events[t] = <<>> /\ events' = [events EXCEPT ![t] = <<>>]
    BY <1>1, <2>1
  <2>3. Told("done", s, <<>>)
    BY OccursNever DEF Told
  <2>4. QED
    BY <2>1, <2>2, <2>3, OthersTold
<1>4. ASSUME NEW t \in Turns, Register(t) \/ CallPlain(t)
      PROVE  StreamInv'
  <2>1. PICK p \in {"prompt", "plain"} :
            pc' = [pc EXCEPT ![t] = p] /\ UNCHANGED <<events, status>> /\ pc[t] = "idle"
    BY <1>4 DEF Register, CallPlain, Goto
  <2>2. Told(p, status[t], events[t])
    BY <1>1, <2>1 DEF Told
  <2>3. QED
    BY <1>2, <2>1, <2>2
<1>5. ASSUME NEW t \in Turns,
             BuildPrompt(t) \/ CallLlm(t) \/ CallsDone(t) \/ LlmCallsTools(t) \/ Reply(t)
      PROVE  StreamInv'
  <2>1. PICK p \in {"loop", "llm", "calls", "done"} :
            /\ pc' = [pc EXCEPT ![t] = p] /\ UNCHANGED <<events, status>>
            /\ pc[t] \in {"prompt", "loop", "calls", "llm", "ending"}
            /\ p # "done" => pc[t] # "ending"
    BY <1>5 DEF BuildPrompt, CallLlm, CallsDone, LlmCallsTools, Reply, Goto
  <2>2. Told(p, status[t], events[t])
    BY <1>1, <2>1 DEF Told
  <2>3. QED
    BY <1>2, <2>1, <2>2
<1>6. ASSUME NEW t \in Turns, pc[t] \in {"loop", "llm", "calls"}, Cancelled(t)
      PROVE  StreamInv'
  <2>1. Told("ending", "cancelled", events[t] \o <<"cancelled", "assistant_message">>)
    BY <1>1, <1>6, ToldCancelled
  <2>2. QED
    BY <1>6, <2>1, OthersTold DEF Cancelled, Return, Emit
<1>7. ASSUME NEW t \in Turns, pc[t] \in {"loop", "llm", "calls"},
             NEW s \in Statuses, s # "cancelled",
             NEW c, c = IF s = "error" THEN "agent_error" ELSE "assistant_message",
             Return(t, s, <<c>>)
      PROVE  StreamInv'
  <2>1. Told("ending", s, events[t] \o <<c>>)
    BY <1>1, <1>7, ToldEnding
  <2>2. QED
    BY <1>7, <2>1, OthersTold DEF Return, Emit
<1>8. ASSUME NEW t \in Turns, CancelAtTop(t) \/ CancelAtCall(t) \/ StepLimit(t)
                              \/ LlmAnswers(t) \/ LlmFails(t)
      PROVE  StreamInv'
  <2>1. /\ pc[t] \in {"loop", "llm", "calls"}
        /\ \/ Cancelled(t)
           \/ Return(t, "step_limit", <<"assistant_message">>)
           \/ Return(t, "success", <<"assistant_message">>)
           \/ Return(t, "error", <<"agent_error">>)
    BY <1>8 DEF CancelAtTop, CancelAtCall, StepLimit, LlmAnswers, LlmFails
  <2>2. CASE Return(t, "step_limit", <<"assistant_message">>)
    BY <1>7, <2>1, <2>2 DEF Statuses
  <2>3. CASE Return(t, "success", <<"assistant_message">>)
    BY <1>7, <2>1, <2>3 DEF Statuses
  <2>4. CASE Return(t, "error", <<"agent_error">>)
    BY <1>7, <2>1, <2>4 DEF Statuses
  <2>5. QED
    BY <1>6, <2>1, <2>2, <2>3, <2>4
<1>9. ASSUME NEW t \in Turns, StartTool(t)
      PROVE  StreamInv'
  <2>1. /\ pc[t] = "calls" /\ pc' = [pc EXCEPT ![t] = "tool"] /\ status' = status
        /\ events' = [events EXCEPT ![t] = events[t] \o <<"tool_call_start">>]
    BY <1>9 DEF StartTool, Goto, Emit
  <2>2. Told("tool", None, events[t] \o <<"tool_call_start">>)
    BY <1>1, <2>1, ToldStart
  <2>3. status' = [status EXCEPT ![t] = None]
    BY <1>1, <2>1
  <2>4. QED
    BY <2>1, <2>2, <2>3, OthersTold
<1>10. ASSUME NEW t \in Turns, EndTool(t)
       PROVE  StreamInv'
  <2>1. PICK tab \in {<<>>, <<"tab_open">>} :
            /\ pc[t] = "tool" /\ pc' = [pc EXCEPT ![t] = "calls"] /\ status' = status
            /\ events' = [events EXCEPT ![t] = events[t] \o (tab \o <<"tool_call_end">>)]
    BY <1>10 DEF EndTool, Goto, Emit
  <2>2. Told("calls", None, events[t] \o (tab \o <<"tool_call_end">>))
    BY <1>1, <2>1, ToldReturn
  <2>3. status' = [status EXCEPT ![t] = None]
    BY <1>1, <2>1
  <2>4. QED
    BY <2>1, <2>2, <2>3, OthersTold
<1>11. ASSUME NEW i \in TurnIds, Cancel(i)
       PROVE  StreamInv'
  BY <1>11 DEF Cancel, StreamInv
<1>12. CASE Crash
  <2>1. ASSUME NEW t \in Turns PROVE Told(pc'[t], status'[t], events'[t])
    <3>1. /\ status'[t] = status[t] /\ events'[t] = events[t]
          /\ pc'[t] = pc[t] \/ pc'[t] = "lost"
      BY <1>12 DEF Crash
    <3>2. Told("lost", status[t], events[t])
      BY <1>1 DEF Told
    <3>3. QED
      BY <1>1, <3>1, <3>2
  <2>2. QED
    BY <2>1 DEF StreamInv
<1>13. QED
  BY <1>3, <1>4, <1>5, <1>8, <1>9, <1>10, <1>11, <1>12 DEF Next, TurnStep

(* The shape of the published stream holds in every behaviour. *)
LEMMA StreamInvariance == Spec => []StreamInv
<1>1. Init => StreamInv
  <2>1. Told("idle", None, <<>>)
    BY OccursNever, NoneAssumption DEF Told, Statuses
  <2>2. QED
    BY <2>1 DEF Init, StreamInv
<1>2. StreamInv /\ UNCHANGED vars => StreamInv'
  BY DEF StreamInv, vars
<1>3. Inv /\ StreamInv /\ [Next]_vars => StreamInv'
  BY <1>2, StreamStep
<1>4. QED
  BY <1>1, <1>3, Invariance, PTL DEF Spec

\* However the turns, cancels and crashes interleave, the AgentEvents of a
\* turn and the status of its trace tell the same story: run_turn closes the
\* bubble once and last, in the way the trace says, sends the cancelled event
\* exactly for a cancelled turn, and pairs every tool_call_start with its end.
THEOREM StreamTheorem == Spec => []StreamMatchesTrace
<1>1. ASSUME Inv, StreamInv PROVE StreamMatchesTrace
  <2>1. ASSUME NEW t \in Turns
        PROVE  LET closing == Count(t, "assistant_message") + Count(t, "agent_error")
               IN  /\ pc[t] # "lost" =>
                        Count(t, "tool_call_start") =
                           Count(t, "tool_call_end") + (IF pc[t] = "tool" THEN 1 ELSE 0)
                   /\ closing = IF status[t] = None \/ events[t] = <<>> THEN 0 ELSE 1
                   /\ Count(t, "cancelled") = IF status[t] = "cancelled" THEN 1 ELSE 0
                   /\ pc[t] = "ending" =>
                        /\ closing = 1
                        /\ events[t][Len(events[t])] =
                             IF status[t] = "error" THEN "agent_error" ELSE "assistant_message"
    <3>1. \A e : Count(t, e) = Occurs(events[t], e)
      BY DEF Count, Occurs
    <3>2. Told(pc[t], status[t], events[t])
      BY <1>1 DEF StreamInv
    <3>3. QED
      BY <3>1, <3>2 DEF Told
  <2>2. QED
    BY <2>1 DEF StreamMatchesTrace
<1>2. QED
  BY <1>1, Invariance, StreamInvariance, PTL

=============================================================================

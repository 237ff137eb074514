----------------------------- MODULE AgentTurn -----------------------------
(***************************************************************************)
(* The turns oosagent runs: oos.cmd.turn.chat (a ReAct loop of LLM calls   *)
(* and tool calls that streams AgentEvents), oos.cmd.turn.ask and          *)
(* oos.cmd.turn.translate (one plain LLM call), and oos.cmd.turn.cancel,   *)
(* which trips the flag a running chat turn has registered under its       *)
(* turnId.  Every request runs in a tokio task of its own; the registry    *)
(* of flags is the only state they share.                                  *)
(*                                                                         *)
(* A step ends where the task awaits.  What the LLM answers and what the   *)
(* tools return is chosen freely: only how many tools are called and       *)
(* whether a call fails matter to the loop.                                *)
(***************************************************************************)
EXTENDS Integers, Sequences, FiniteSets

CONSTANTS
    Turns,      \* the requests that arrive
    TurnIds,    \* the turnIds they carry; nothing makes them distinct
    IdOf,       \* IdOf[t]: the turnId of request t
    KindOf,     \* KindOf[t]: "chat", or "plain" for ask and translate
    MAX_STEPS,  \* LLM round-trips per chat turn
    MaxCalls,   \* bound on the tool calls of one LLM reply
    None

ASSUME IdsAssumption == IdOf \in [Turns -> TurnIds] /\ None \notin Turns
ASSUME KindsAssumption == KindOf \in [Turns -> {"chat", "plain"}]
ASSUME StepsAssumption == MAX_STEPS \in Nat \ {0} /\ MaxCalls \in Nat \ {0}

VARIABLES
    pc,        \* where the task of each request is: see Pcs
    step,      \* LLM calls the turn has started
    calls,     \* tool calls of the last reply not yet dispatched or returned
    dangling,  \* tool calls in the transcript without a tool message
    cancels,   \* the registry: turnId -> the turn whose flag it holds
    flag,      \* the cancel flag of each turn
    events,    \* the AgentEvents published for each turn, in order
    status,    \* the status of the turn's trace, None while it runs
    acked      \* history: turns for which a cancel was answered cancelled: true

vars == <<pc, step, calls, dangling, cancels, flag, events, status, acked>>

Pcs == {"idle", "prompt", "loop", "llm", "calls", "tool", "plain", "ending",
        "done", "lost"}
Statuses == {"success", "error", "cancelled", "step_limit"}
ASSUME NoneAssumption == None \notin Statuses
EventTypes == {"tool_call_start", "tool_call_end", "tab_open", "cancelled",
               "assistant_message", "agent_error"}

\* A chat turn is running from the registration of its flag to its removal.
Running(t) == pc[t] \in {"prompt", "loop", "llm", "calls", "tool", "ending"}

TypeOK ==
    /\ pc \in [Turns -> Pcs]
    /\ step \in [Turns -> 0..MAX_STEPS]
    /\ calls \in [Turns -> 0..MaxCalls]
    /\ dangling \in [Turns -> 0..MaxCalls]
    /\ cancels \in [TurnIds -> Turns \cup {None}]
    /\ flag \in [Turns -> BOOLEAN]
    /\ events \in [Turns -> Seq(EventTypes)]
    /\ status \in [Turns -> Statuses \cup {None}]
    /\ acked \in SUBSET Turns

Init ==
    /\ pc = [t \in Turns |-> "idle"]
    /\ step = [t \in Turns |-> 0]
    /\ calls = [t \in Turns |-> 0]
    /\ dangling = [t \in Turns |-> 0]
    /\ cancels = [i \in TurnIds |-> None]
    /\ flag = [t \in Turns |-> FALSE]
    /\ events = [t \in Turns |-> <<>>]
    /\ status = [t \in Turns |-> None]
    /\ acked = {}

-----------------------------------------------------------------------------

Goto(t, from, to) == pc[t] = from /\ pc' = [pc EXCEPT ![t] = to]

Emit(t, es) == events' = [events EXCEPT ![t] = @ \o es]

\* The loop returns: its last events go out and the trace gets its status.
Return(t, s, es) ==
    /\ pc' = [pc EXCEPT ![t] = "ending"]
    /\ status' = [status EXCEPT ![t] = s]
    /\ Emit(t, es)
    /\ UNCHANGED <<step, calls, dangling, cancels, flag, acked>>

Cancelled(t) == Return(t, "cancelled", <<"cancelled", "assistant_message">>)

\* A payload that does not decode, or an empty text to translate, is answered
\* with an error trace before any LLM call.
BadRequest(t) ==
    /\ Goto(t, "idle", "done")
    /\ status' = [status EXCEPT ![t] = "error"]
    /\ UNCHANGED <<step, calls, dangling, cancels, flag, events, acked>>

\* A chat turn starts: its flag goes into the registry under its turnId,
\* replacing whatever flag is there.
Register(t) ==
    /\ KindOf[t] = "chat"
    /\ Goto(t, "idle", "prompt")
    /\ cancels' = [cancels EXCEPT ![IdOf[t]] = t]
    /\ UNCHANGED <<step, calls, dangling, flag, events, status, acked>>

\* The prompt lookups return or fail; either way there is a system prompt.
BuildPrompt(t) ==
    /\ Goto(t, "prompt", "loop")
    /\ UNCHANGED <<step, calls, dangling, cancels, flag, events, status, acked>>

\* Mutant: the budget ends the turn one step late, when the loop never is.
StepLimitLate(t) ==
    /\ pc[t] = "loop"
    /\ step[t] > MAX_STEPS
    /\ Return(t, "step_limit", <<"assistant_message">>)

\* The top of the loop: budget, then flag, then the LLM call.
StepLimit(t) ==
    /\ pc[t] = "loop"
    /\ step[t] = MAX_STEPS
    /\ Return(t, "step_limit", <<"assistant_message">>)

CancelAtTop(t) ==
    /\ pc[t] = "loop"
    /\ step[t] < MAX_STEPS
    /\ flag[t]
    /\ Cancelled(t)

\* Mutant: the top of the loop does not read the flag.
CallLlmUnchecked(t) ==
    /\ step[t] < MAX_STEPS
    /\ Goto(t, "loop", "llm")
    /\ step' = [step EXCEPT ![t] = @ + 1]
    /\ UNCHANGED <<calls, dangling, cancels, flag, events, status, acked>>

CallLlm(t) ==
    /\ step[t] < MAX_STEPS
    /\ ~flag[t]
    /\ Goto(t, "loop", "llm")
    /\ step' = [step EXCEPT ![t] = @ + 1]
    /\ UNCHANGED <<calls, dangling, cancels, flag, events, status, acked>>

\* Mutant: every failed call is reported as an error.
LlmFailsPlainly(t) == pc[t] = "llm" /\ Return(t, "error", <<"agent_error">>)

\* Mutant: a failed call sends no event.
LlmFailsSilently(t) ==
    /\ pc[t] = "llm"
    /\ IF flag[t] THEN Cancelled(t) ELSE Return(t, "error", <<>>)

\* The LLM call fails or times out.
LlmFails(t) ==
    /\ pc[t] = "llm"
    /\ IF flag[t] THEN Cancelled(t)
                  ELSE Return(t, "error", <<"agent_error">>)

\* The reply has no tool calls: it is the answer, whatever the flag says.
LlmAnswers(t) ==
    /\ pc[t] = "llm"
    /\ Return(t, "success", <<"assistant_message">>)

\* The reply asks for n tool calls; it joins the transcript with all of them.
LlmCallsTools(t) ==
    \E n \in 1..MaxCalls :
        /\ Goto(t, "llm", "calls")
        /\ calls' = [calls EXCEPT ![t] = n]
        /\ dangling' = [dangling EXCEPT ![t] = n]
        /\ UNCHANGED <<step, cancels, flag, events, status, acked>>

\* Between two tool calls: flag, then the next call; after the last, the top.
CancelAtCall(t) ==
    /\ pc[t] = "calls"
    /\ calls[t] > 0
    /\ flag[t]
    /\ Cancelled(t)

StartTool(t) ==
    /\ calls[t] > 0
    /\ ~flag[t]
    /\ Goto(t, "calls", "tool")
    /\ Emit(t, <<"tool_call_start">>)
    /\ UNCHANGED <<step, calls, dangling, cancels, flag, status, acked>>

\* Mutant: the next round starts after the first call has returned.
CallsDoneEarly(t) ==
    /\ Goto(t, "calls", "loop")
    /\ UNCHANGED <<step, calls, dangling, cancels, flag, events, status, acked>>

CallsDone(t) ==
    /\ calls[t] = 0
    /\ Goto(t, "calls", "loop")
    /\ UNCHANGED <<step, calls, dangling, cancels, flag, events, status, acked>>

\* The tool returns: a query that succeeded has opened a tab on the way; the
\* result, good or bad, joins the transcript as the tool message of the call.
EndTool(t) ==
    \E tab \in {<<>>, <<"tab_open">>} :
        /\ Goto(t, "tool", "calls")
        /\ calls' = [calls EXCEPT ![t] = @ - 1]
        /\ dangling' = [dangling EXCEPT ![t] = @ - 1]
        /\ Emit(t, tab \o <<"tool_call_end">>)
        /\ UNCHANGED <<step, cancels, flag, status, acked>>

\* Mutant: the turn leaves its flag in the registry.
ReplyRegistered(t) ==
    /\ Goto(t, "ending", "done")
    /\ UNCHANGED <<step, calls, dangling, cancels, flag, events, status, acked>>

\* The turn is over: its turnId leaves the registry and the reply goes out.
Reply(t) ==
    /\ Goto(t, "ending", "done")
    /\ cancels' = [cancels EXCEPT ![IdOf[t]] = None]
    /\ UNCHANGED <<step, calls, dangling, flag, events, status, acked>>

\* ask and translate: one LLM call, no tools, no events, no flag.
CallPlain(t) ==
    /\ KindOf[t] = "plain"
    /\ Goto(t, "idle", "plain")
    /\ UNCHANGED <<step, calls, dangling, cancels, flag, events, status, acked>>

ReplyPlain(t) ==
    \E s \in {"success", "error"} :
        /\ Goto(t, "plain", "done")
        /\ status' = [status EXCEPT ![t] = s]
        /\ UNCHANGED <<step, calls, dangling, cancels, flag, events, acked>>

\* run_cancel: trip the flag registered under the turnId, if there is one.
Cancel(i) ==
    /\ cancels[i] # None
    /\ flag' = [flag EXCEPT ![cancels[i]] = TRUE]
    /\ acked' = acked \cup {cancels[i]}
    /\ UNCHANGED <<pc, step, calls, dangling, cancels, events, status>>

\* The process stops: its turns are never answered, the registry is gone.
Crash ==
    /\ pc' = [t \in Turns |-> IF pc[t] \in {"idle", "done"} THEN pc[t] ELSE "lost"]
    /\ cancels' = [i \in TurnIds |-> None]
    /\ UNCHANGED <<step, calls, dangling, flag, events, status, acked>>

-----------------------------------------------------------------------------

TurnStep(t) ==
    \/ BuildPrompt(t)
    \/ StepLimit(t)
    \/ CancelAtTop(t)
    \/ CallLlm(t)
    \/ LlmFails(t)
    \/ LlmAnswers(t)
    \/ LlmCallsTools(t)
    \/ CancelAtCall(t)
    \/ StartTool(t)
    \/ CallsDone(t)
    \/ EndTool(t)
    \/ Reply(t)
    \/ ReplyPlain(t)

Next ==
    \/ \E t \in Turns :
          \/ BadRequest(t)
          \/ Register(t)
          \/ CallPlain(t)
          \/ TurnStep(t)
    \/ \E i \in TurnIds : Cancel(i)
    \/ Crash

\* Every spawned task is polled, and LLM calls and bus requests time out.
Fairness == \A t \in Turns : WF_vars(TurnStep(t))

Spec == Init /\ [][Next]_vars
FairSpec == Spec /\ Fairness

-----------------------------------------------------------------------------
(* Properties.                                                             *)

\* Once a cancel has been answered cancelled: true, the turn starts no further
\* LLM call and no further tool call: only the call in flight may finish.
\* (The call starts where the loop reads the flag, chat.rs:112 and chat.rs:161.)
CancelStopsWork ==
    [][\A t \in acked : /\ step'[t] = step[t]
                        /\ pc'[t] = "tool" => pc[t] = "tool"]_vars

\* A turn whose cancel was acknowledged while it ran is never reported as a
\* failure (chat.rs:131-135).  It ends cancelled, or with the answer that was
\* in flight, or out of steps when no step was left to see the flag in.
CancelIsNoFailure ==
    [][\A t \in acked : status[t] = None =>
          \/ status'[t] \in {None, "cancelled", "success"}
          \/ status'[t] = "step_limit" /\ step[t] = MAX_STEPS]_vars

\* The transcript of every LLM call is complete: each tool call of an earlier
\* reply has its tool message (chat.rs:149-151; the chat API rejects a
\* transcript that lacks one).
TranscriptComplete == \A t \in Turns : pc[t] \in {"loop", "llm"} => dangling[t] = 0

\* The registry never holds the flag of a turn that is over, even when two
\* turns carry one turnId; and a running turn whose turnId no other turn has
\* can always be cancelled (turn.rs:36-38).
RegistryExact ==
    /\ \A i \in TurnIds : cancels[i] # None => Running(cancels[i])
    /\ \A t \in Turns :
          Running(t) /\ (\A u \in Turns : IdOf[u] = IdOf[t] => u = t)
              => cancels[IdOf[t]] = t

\* The stream and the trace of a turn tell the same story: every
\* tool_call_start has its tool_call_end unless the tool is still running; the
\* turn's last event, and only that one, closes the bubble, with agent_error
\* exactly when the trace says error; and the cancelled event is sent exactly
\* by a cancelled turn.  A request that never became a turn streams nothing.
Count(t, e) == Cardinality({k \in DOMAIN events[t] : events[t][k] = e})

StreamMatchesTrace ==
    \A t \in Turns :
        LET closing == Count(t, "assistant_message") + Count(t, "agent_error")
        IN  /\ pc[t] # "lost" =>
                 Count(t, "tool_call_start") =
                    Count(t, "tool_call_end") + (IF pc[t] = "tool" THEN 1 ELSE 0)
            /\ closing = IF status[t] = None \/ events[t] = <<>> THEN 0 ELSE 1
            /\ Count(t, "cancelled") = IF status[t] = "cancelled" THEN 1 ELSE 0
            /\ pc[t] = "ending" =>
                 /\ closing = 1
                 /\ events[t][Len(events[t])] =
                      IF status[t] = "error" THEN "agent_error" ELSE "assistant_message"

\* Every accepted request is answered unless the process stops: the budget
\* bounds the loop whatever the LLM and the tools do.
TurnAnswered ==
    \A t \in Turns : pc[t] \notin {"idle", "done", "lost"} ~> pc[t] \in {"done", "lost"}
=============================================================================

----------------------------- MODULE AgentLoop -----------------------------
(* One turn of an agent (AgentRuntime.invoke): the provider is asked, the tools it  *)
(* calls are run, it is nudged when it calls none, until it calls finish_turn or a  *)
(* limit is hit. send_reply puts words into the conversation as it runs. A step is  *)
(* an await; the clock may pass the turn's deadline at any moment.                  *)
EXTENDS ContextFit, FiniteSets

CONSTANTS
  Starts,         \* prompts a turn may start with: system, history, question
  Budget,         \* tokens of a prompt
  MaxToolCalls,   \* guardrails.max_tool_calls
  NudgeLimit,     \* _NUDGE_LIMIT
  MaxParallel,    \* bound: tool calls in one answer
  Sizes           \* sizes of a tool's result, cap applied

VARIABLES
  pc,        \* "loop", "chat", "calls" or "done"
  messages,
  calls,     \* tool calls of the answer not yet run
  finished,  \* finish_turn was among them
  made, nudges,
  late,      \* the turn's deadline has passed
  sent,      \* number of messages delivered by send_reply
  result     \* [how, sent]: what invoke returns or raises

vars == <<pc, messages, calls, finished, made, nudges, late, sent, result>>

\* finish_turn's arguments are an object, no JSON at all, or JSON of another kind.
Tools == {"send_reply", "other", "finish_turn", "finish_turn!"}

Init ==
  /\ pc = "loop" /\ messages \in Starts /\ calls = <<>> /\ finished = FALSE
  /\ made = 0 /\ nudges = 0 /\ late = FALSE /\ sent = 0 /\ result = [how |-> "none", sent |-> 0]

End(how, reported) ==
  /\ pc' = "done" /\ result' = [how |-> how, sent |-> reported]

Said(role, size, n) == [role |-> role, size |-> size, calls |-> n]

--------------------------------------------------------------------------------
\* The head of the loop: the deadline is looked at, the prompt is made to fit.
Ask ==
  /\ pc = "loop"
  /\ IF late
     THEN End("timeout", sent) /\ UNCHANGED messages
     ELSE messages' = Fit(messages, Budget) /\ pc' = "chat" /\ UNCHANGED result
  /\ UNCHANGED <<calls, finished, made, nudges, late, sent>>

Nudged == nudges + 1

\* An answer without tool calls: a nudge, or the end.
Talk ==
  /\ pc = "chat"
  /\ nudges' = Nudged
  /\ IF nudges' > NudgeLimit
     THEN End("nudges", sent) /\ UNCHANGED messages
     ELSE /\ messages' = messages \o <<Said("assistant", 1, 0), Said("user", 1, 0)>>
          /\ pc' = "loop" /\ UNCHANGED result
  /\ UNCHANGED <<calls, finished, made, late, sent>>

\* An answer with tool calls, as often as the guardrail allows.
CallTools ==
  /\ pc = "chat"
  /\ \E n \in 1..MaxParallel : \E cs \in [1..n -> Tools] :
       /\ messages' = Append(messages, Said("assistant", 1, Len(cs)))
       /\ nudges' = 0 /\ made' = made + 1
       /\ IF made' > MaxToolCalls
          THEN End("limit", sent) /\ UNCHANGED calls
          ELSE pc' = "calls" /\ calls' = cs /\ UNCHANGED result
  /\ UNCHANGED <<finished, late, sent>>

\* The deadline passes during the call: what was sent goes unmentioned.
ChatTimeout ==
  /\ pc = "chat" /\ late
  /\ End("llm timeout", 0)
  /\ UNCHANGED <<messages, calls, finished, made, nudges, late, sent>>

\* The provider fails, or the turn is cancelled while it waits.
Raise ==
  /\ pc = "chat" \/ (pc = "calls" /\ calls # <<>>)
  /\ End("raised", 0)
  /\ UNCHANGED <<messages, calls, finished, made, nudges, late, sent>>

--------------------------------------------------------------------------------
\* send_reply: what the sink does not take is not counted.
Delivered == sent' \in {sent, sent + 1}

Ran(size) ==
  /\ messages' = Append(messages, Said("tool", size, 0)) /\ calls' = Tail(calls)
  /\ UNCHANGED <<pc, made, nudges, late, result>>

\* The next call of the answer. A tool that is unknown or fails has an error for a
\* result.
Run ==
  /\ pc = "calls" /\ calls # <<>>
  /\ \E size \in Sizes :
       \/ /\ Head(calls) = "send_reply" /\ Delivered /\ UNCHANGED finished /\ Ran(size)
       \/ /\ Head(calls) = "other" /\ UNCHANGED <<sent, finished>> /\ Ran(size)
       \/ /\ Head(calls) = "finish_turn" /\ finished' = TRUE /\ UNCHANGED sent /\ Ran(1)

\* Arguments of finish_turn that are JSON but no object raise out of the turn.
BadFinish ==
  /\ pc = "calls" /\ calls # <<>> /\ Head(calls) = "finish_turn!"
  /\ End("raised", 0)
  /\ UNCHANGED <<messages, calls, finished, made, nudges, late, sent>>

\* finish_turn counts after every call of the same answer has run.
AfterCalls ==
  /\ pc = "calls" /\ calls = <<>>
  /\ IF finished THEN End("finished", sent) ELSE pc' = "loop" /\ UNCHANGED result
  /\ UNCHANGED <<messages, calls, finished, made, nudges, late, sent>>

Clock ==
  /\ ~late /\ late' = TRUE
  /\ UNCHANGED <<pc, messages, calls, finished, made, nudges, sent, result>>

Next == Ask \/ Talk \/ CallTools \/ ChatTimeout \/ Raise \/ Run \/ BadFinish \/ AfterCalls \/ (pc # "done" /\ Clock)

\* The provider answers, fails or is given up, and tools end. The clock is owed
\* nothing: it may pass the deadline once, or never.
Fairness == WF_vars(Next)

Spec == Init /\ [][Next]_vars /\ Fairness

--------------------------------------------------------------------------------
\* The type invariant: the counters stay within the guardrails.
TypeOK ==
  /\ made <= MaxToolCalls + 1 /\ nudges <= NudgeLimit + 1
  /\ \A k \in DOMAIN messages : messages[k].size >= 0 /\ (messages[k].calls > 0 => messages[k].role = "assistant")

\* Whatever the provider answers and however the prompt is cut, what it is sent
\* next fits the budget and every call in it has its results.
PromptIsValid ==
  pc = "chat" => WellFormed(messages) /\ Cost(messages) <= Budget

\* A turn that returns tells what was said in it (AgentRuntime.invoke: the runtime
\* drains sent_texts "on every return path").
SentIsReported == pc = "done" /\ result.how # "raised" => result.sent = sent

\* Every turn ends, whatever is answered, and without the help of the clock.
AtRest == pc = "done"

TurnEnds == <>AtRest
================================================================================

----------------------------- MODULE ChatMemory -----------------------------
(* What a model is shown of a conversation and what of it outlives a restart:       *)
(* ContextManager.prepare (context.py) makes room in the token budget and folds old *)
(* turns into a summary, KVHistoryStore (history.py) keeps the newest turns. Turns  *)
(* of one conversation run one at a time, so a turn is one step.                    *)
EXTENDS ContextFit, FiniteSets

CONSTANTS
  Budget,       \* max_tokens
  Trigger,      \* summary_trigger_tokens
  KeepTurns,    \* summary_keep_recent_turns
  Reserve,      \* tokens asked for the answer
  SystemSize,   \* the agent's system text
  Window,       \* maxlen of the session's deque, in messages
  MaxTurns,     \* turns the store keeps
  MaxSummary,   \* summary_max_tokens
  Extras,       \* sizes of the ledger and profile blocks of a turn, 0 for none
  Inputs        \* sizes of a question

VARIABLES
  history,   \* session.history
  row,       \* the stored messages
  summary,   \* size of the stored summary, 0 for none
  prompt     \* what was last sent

vars == <<history, row, summary, prompt>>

Init == history = <<>> /\ row = <<>> /\ summary = 0 /\ prompt = <<>>

AtLeastZero(n) == Max({n, 0})
Message(role, size) == IF size = 0 THEN <<>> ELSE <<[role |-> role, size |-> size, calls |-> 0]>>
LastOf(s, n) == SubSeq(s, AtLeastZero(Len(s) - n) + 1, Len(s))

--------------------------------------------------------------------------------
\* _history_messages: whole blocks only.
Replayable(s) == Joined(Blocks(s))

\* _trim_history_turns: a turn starts at a question.
Turns(s, n) ==
  LET starts == {1} \cup {i \in DOMAIN s : s[i].role = "user"}
      first == CHOOSE i \in starts : \/ Cardinality({j \in starts : j >= i}) = n
                                     \/ i = 1 /\ Cardinality(starts) <= n
  IN SubSeq(s, first, Len(s))

Saved(s) == Turns(Replayable(s), MaxTurns)
Loaded(r) == Replayable(r)

--------------------------------------------------------------------------------
Completion == Min({Reserve, Budget \div 4})

Reserved(extra, input) ==
  Cost(Message("system", SystemSize)) + Cost(Message("system", extra)) + Cost(Message("user", input)) + Completion

\* fit_current_input: the end of a question that is too long.
Fitted(extra, input) ==
  LET clipped == Clip(Message("user", input)[1], Budget - Reserved(extra, 0))
  IN IF clipped = <<>> THEN 0 ELSE clipped[1].size

\* _clip_to_budget: the summary first, shortened if it must be.
Clipped(size, s, room) ==
  LET memory == Message("system", size)
  IN IF Cost(memory) > room THEN Clip(memory[1], room)
     ELSE memory \o Fit(s, room - Cost(memory))

Shown(extra, input, size, s) == Clipped(size, s, AtLeastZero(Budget - Reserved(extra, input)))

Full(extra, input) ==
  Reserved(extra, input) + Cost(Message("system", summary)) + Cost(history) >= Trigger

Recent == LastOf(history, 2 * KeepTurns)

\* The turn's words: a question and its answer, or an answer made by tool calls.
Answers == {<<[role |-> "assistant", size |-> 1, calls |-> 0]>>,
            <<[role |-> "assistant", size |-> 1, calls |-> 1], [role |-> "tool", size |-> 1, calls |-> 0]>>}

Sent(extra, input, shown) ==
  prompt' = Message("system", SystemSize) \o shown \o Message("system", extra) \o Message("user", input)

Recorded(base, input, answer) ==
  /\ history' = LastOf(base \o Message("user", input) \o answer, Window)
  /\ row' = Saved(history') \/ UNCHANGED row

\* prepare() with room, or with nothing old enough to fold.
Turn(extra, input, answer) ==
  /\ input > 0 /\ (~Full(extra, input) \/ Recent = history)
  /\ Sent(extra, input, Shown(extra, input, summary, history))
  /\ Recorded(history, input, answer)
  /\ UNCHANGED summary

\* The older turns become part of a summary; they stay if it cannot be saved.
Fold(extra, input, answer) ==
  /\ input > 0 /\ Full(extra, input) /\ Recent # history
  /\ \E size \in 1..MaxSummary :
       /\ Sent(extra, input, Shown(extra, input, size, Recent))
       /\ \/ summary' = size /\ Recorded(Recent, input, answer)
          \/ UNCHANGED summary /\ Recorded(history, input, answer)

\* The process restarts; a failing load leaves the conversation empty.
Restart == history' \in {LastOf(Loaded(row), Window), <<>>} /\ UNCHANGED <<row, summary, prompt>>

Reset == history' = <<>> /\ row' = <<>> /\ summary' = 0 /\ UNCHANGED prompt

Next ==
  \/ \E extra \in Extras, input \in Inputs, answer \in Answers :
       Turn(extra, Fitted(extra, input), answer) \/ Fold(extra, Fitted(extra, input), answer)
  \/ Restart \/ Reset

Spec == Init /\ [][Next]_vars

--------------------------------------------------------------------------------
\* The type invariant: the bounds of what is kept.
TypeOK == Len(history) <= Window /\ summary \in 0..MaxSummary /\ Len(row) <= Window

\* Whatever was said, folded, dropped from the deque or lost in a restart, what a
\* model is sent fits the budget with room for its answer, has no result without
\* its call, and ends with the question.
PromptFits ==
  prompt # <<>> =>
    /\ Cost(prompt) + Completion <= Budget
    /\ WellFormed(prompt)
    /\ prompt[Len(prompt)].role = "user"

\* A restart restores all that was saved: the row is whole turns already.
RowIsReplayable == Loaded(row) = row /\ Saved(row) = row
================================================================================

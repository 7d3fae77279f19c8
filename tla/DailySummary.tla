---------------------------- MODULE DailySummary ----------------------------
(* The first batch of a group's day folds the group's history into a summary     *)
(* (group_batch.py, dispatcher.py): the day's mark is read, the older messages   *)
(* are folded and saved, the mark is written. Each step can fail, and the bot    *)
(* can stop between any two. Batches of a group run one at a time (GroupBatch).  *)
EXTENDS Integers, Sequences, FiniteSets, Functions

CONSTANTS
  Keep,       \* daily_summary_keep_recent_turns
  MaxDays, MaxTurns, MaxFaults, MaxRestarts,   \* bounds: days, answers, failures and restarts
  MaxLate     \* bound: batches whose event is of the day before

VARIABLES
  today, mark,    \* the date, and the date stored, 0 for none
  history, row,   \* session.history and the stored messages
  folded,         \* the messages that the stored summary stands for
  batch,          \* the step a batch is at
  date, force,    \* of its event; a summary is due
  turns, since,   \* answers given so far, and before the last reset (for the properties)
  made,           \* for each date, the summaries it was due and got
  faults, lates, restarts

store == <<mark, row, folded>>
session == <<history, turns, since>>
bounds == <<faults, lates, restarts>>
vars == <<today, store, session, batch, date, force, made, bounds>>

Days == 1 .. MaxDays

Init ==
  /\ today = 1 /\ mark = 0 /\ history = <<>> /\ row = <<>> /\ folded = {}
  /\ batch = "idle" /\ date = 0 /\ force = FALSE /\ turns = 0 /\ since = 0
  /\ made = [d \in Days |-> 0] /\ faults = 0 /\ lates = 0 /\ restarts = 0

Failing(fails) == faults' = (IF fails THEN faults + 1 ELSE faults) /\ faults' <= MaxFaults

--------------------------------------------------------------------------------
\* _tool_history_messages: what was answered, the call that sent it and its result.
Record(n) == << [role |-> "user", turn |-> n], [role |-> "assistant", turn |-> n], [role |-> "tool", turn |-> n] >>

\* _history_messages: stored and loaded are whole exchanges, without a result whose call is gone.
Whole(s) == IF s # <<>> /\ Head(s).role = "tool" THEN Tail(s) ELSE s

\* prepare(): two messages are kept for each turn to keep.
Recent == SubSeq(history, Len(history) - 2 * Keep + 1, Len(history))
Older == SubSeq(history, 1, Len(history) - 2 * Keep)
TooShort == Len(history) <= 2 * Keep

--------------------------------------------------------------------------------
\* _daily_summary_request: due when the mark is of another day, not due when it
\* cannot be read.
Begin(late, fails) ==
  /\ batch = "idle"
  /\ date' = (IF late THEN today - 1 ELSE today) /\ date' \in Days
  /\ lates' = (IF late THEN lates + 1 ELSE lates) /\ lates' <= MaxLate
  /\ Failing(fails)
  /\ force' = (~fails /\ mark # date')
  /\ batch' = "preparing"
  /\ UNCHANGED <<today, store, session, made, restarts>>

\* Marked when something was folded, or there was too little to fold.
Marked(saved) == force /\ (saved \/ TooShort)

\* prepare_context_history_with_status: the history is replaced only once its older part
\* is part of the stored summary; storing the rest may fail unnoticed.
Prepare(fails, unstored) ==
  LET saved == force /\ ~TooShort /\ ~fails IN
  /\ batch = "preparing" /\ (fails => force /\ ~TooShort) /\ (unstored => saved)
  /\ folded' = (IF saved THEN folded \cup Range(Older) ELSE folded)
  /\ history' = (IF saved THEN Recent ELSE history)
  /\ row' = (IF saved /\ ~unstored THEN Whole(Recent) ELSE row)
  /\ Failing(fails \/ unstored)
  /\ made' = (IF saved THEN [made EXCEPT ![date] = @ + 1] ELSE made)
  /\ batch' = (IF Marked(saved) THEN "marking" ELSE "answering")
  /\ UNCHANGED <<today, mark, turns, since, date, force, lates, restarts>>

Mark(fails) ==
  /\ batch = "marking" /\ Failing(fails)
  /\ mark' = (IF fails THEN mark ELSE date)
  /\ batch' = "answering"
  /\ UNCHANGED <<today, row, folded, session, date, force, made, lates, restarts>>

\* The batch is left alone, or answered and recorded.
Answer(says, fails) ==
  /\ batch = "answering" /\ batch' = "idle" /\ Failing(fails /\ says)
  /\ turns' = (IF says THEN turns + 1 ELSE turns) /\ turns' <= MaxTurns
  /\ history' = (IF says THEN history \o Record(turns') ELSE history)
  /\ row' = (IF says /\ ~fails THEN Whole(history') ELSE row)
  /\ UNCHANGED <<today, mark, folded, since, date, force, made, lates, restarts>>

\* The day ends, whatever a batch is doing.
Midnight ==
  /\ today < MaxDays /\ today' = today + 1
  /\ UNCHANGED <<store, session, batch, date, force, made, bounds>>

\* The bot stops and starts: the history is the stored one.
Restart ==
  /\ restarts < MaxRestarts /\ restarts' = restarts + 1
  /\ batch' = "idle" /\ history' = Whole(row)
  /\ UNCHANGED <<today, store, turns, since, date, force, made, faults, lates>>

\* /reset forgets the messages and the summary, not the mark.
Reset ==
  /\ batch = "idle" /\ history # <<>>
  /\ history' = <<>> /\ row' = <<>> /\ folded' = {} /\ since' = turns
  /\ UNCHANGED <<today, mark, turns, batch, date, force, made, bounds>>

Next ==
  \/ \E late, fails \in BOOLEAN : Begin(late, fails)
  \/ \E fails, unstored \in BOOLEAN : Prepare(fails, unstored)
  \/ \E fails \in BOOLEAN : Mark(fails)
  \/ \E says, fails \in BOOLEAN : Answer(says, fails)
  \/ Midnight \/ Restart \/ Reset

Spec == Init /\ [][Next]_vars

--------------------------------------------------------------------------------
TypeOK ==
  /\ today \in Days /\ mark \in 0 .. today /\ date \in 0 .. today /\ turns \in 0 .. MaxTurns
  /\ batch \in {"idle", "preparing", "marking", "answering"}

\* group_batch.py:716: a day is marked only when little enough of the history is left.
MarkedIsFolded == batch = "marking" => TooShort

\* A summary that was due is made once a day but for what failed, stopped or came late;
\* test_group_batch.py:1305 tells of the rest.
OncePerDay == \A d \in Days : made[d] <= 1 + faults + lates + restarts

\* context.py:220-227: a question is in the history or in the summary until /reset, whatever
\* fails while it is folded; only a turn whose own storing failed goes with a restart.
NothingIsLost ==
  \A n \in since + 1 .. turns :
    \/ \E m \in Range(history) \cup folded : m.turn = n /\ m.role = "user"
    \/ faults > 0 /\ restarts > 0

\* Likewise of each message of a turn.
TurnsAreWhole ==
  \A n \in since + 1 .. turns :
    Range(Record(n)) \subseteq Range(history) \cup folded \/ (faults > 0 /\ restarts > 0)

\* A summary leaves the last turns to keep as they were.
TurnsAreKept ==
  batch = "marking" =>
    \A n \in since + 1 .. turns : n > turns - Keep => Range(Record(n)) \subseteq Range(history)

\* group_batch.py:363, test_group_batch.py:1305: once a day.
OnceADay == \A d \in Days : made[d] <= 1 + faults + restarts
================================================================================

------------------------------ MODULE LedgerView ------------------------------
(***************************************************************************)
(* What the model is told of a user's actions: the writer of linling_dsl   *)
(* makes an event of a handler's run, the store keeps the newest of them   *)
(* in a row and ages them when it is read, and the renderer of             *)
(* linling_agent shows as many as fit its budget.  Texts are their         *)
(* lengths.  When rows are written, and the races of that, are in          *)
(* Conversation; here a row is written with the event.                     *)
(***************************************************************************)
EXTENDS Integers, Sequences, FiniteSets, FiniteSetsExt, SequencesExt

CONSTANTS
  Runs,           \* of handlers: [ok, mode, line, output, actor]
  Maxlen, Ttl, SummaryBudget, Budget,
  Frame, Marker, By,   \* lengths of the tags, the truncation line and an actor
  Damages,        \* what a stored event may turn into: "corrupt", "older"
  MaxRuns, MaxTime, MaxDamages

VARIABLES
  clock,
  deque,     \* session.dsl_events
  saved,     \* the events of the stored row
  grouped,   \* the conversation is a group
  count, damaged, setBack

vars == <<clock, deque, saved, grouped, count, damaged, setBack>>

Newest(q, n) == SubSeq(q, IF Len(q) > n THEN Len(q) - n + 1 ELSE 1, Len(q))
Sum(q) == FoldLeft(LAMBDA a, b : a + b, 0, q)

--------------------------------------------------------------------------------
\* LedgerWriter.append, and KVDslLedgerStore.save and load.

Truncate(length) == IF length > SummaryBudget THEN SummaryBudget ELSE length

Summary(run) == IF ~run.ok \/ run.mode = "trigger_only" THEN 0 ELSE Truncate(run.output)

EventOf(run) ==
  [id |-> count + 1, at |-> clock, ok |-> run.ok, mode |-> run.mode, line |-> run.line,
   summary |-> Summary(run), actor |-> run.actor]

Save(events) == Newest(events, Maxlen)

Fresh(e) == e.at + Ttl >= clock

\* Events of one time stay in the order of the row.
ByTime(events) ==
  LET before(i, j) == events[i].at < events[j].at \/ (events[i].at = events[j].at /\ i < j)
      order == SetToSortSeq(DOMAIN events, before)
  IN [i \in DOMAIN order |-> events[order[i]]]

Load(row) == Newest(ByTime(SelectSeq(row, LAMBDA e : e.mode # "corrupt" /\ Fresh(e))), Maxlen)

--------------------------------------------------------------------------------
\* LedgerRenderer.

Line(e) ==
  e.line + (IF grouped /\ e.actor # "_unknown" THEN By ELSE 0)
         + (IF e.mode = "with_result" THEN e.summary ELSE 0)

Length(kept, omitted) ==
  Frame + (IF omitted > 0 THEN Marker ELSE 0) + Sum([i \in DOMAIN kept |-> Line(kept[i])])

Visible(events) == SelectSeq(events, LAMBDA e : e.ok)

\* The newest that fit, or none.
Render(events) ==
  LET visible == Visible(events)
      fits == {n \in 0 .. Len(visible) : Length(Newest(visible, n), Len(visible) - n) <= Budget}
  IN IF fits = {} THEN <<>> ELSE Newest(visible, Max(fits))

--------------------------------------------------------------------------------
Init ==
  /\ clock = 0 /\ deque = <<>> /\ saved = <<>> /\ grouped \in BOOLEAN
  /\ count = 0 /\ damaged = {} /\ setBack = FALSE

Append_(run) ==
  /\ count < MaxRuns /\ count' = count + 1
  /\ deque' = Newest(Append(deque, EventOf(run)), Maxlen)
  /\ saved' = Save(deque')
  /\ UNCHANGED <<clock, grouped, damaged, setBack>>

\* The process ends; the next one restores the row for its first turn.
Restart ==
  /\ deque' = Load(saved)
  /\ UNCHANGED <<clock, saved, grouped, count, damaged, setBack>>

\* An event is no longer readable, or is one of an older process that wrote
\* neither mode nor actor: _from_dict fills them in.
Damage(i, how) ==
  /\ Cardinality(damaged) < MaxDamages /\ saved[i].id \notin damaged /\ damaged' = damaged \cup {saved[i].id}
  /\ saved' = [saved EXCEPT ![i] =
       IF how = "corrupt" THEN [@ EXCEPT !.mode = "corrupt"]
       ELSE [@ EXCEPT !.mode = "with_result", !.actor = "_unknown"]]
  /\ UNCHANGED <<clock, deque, grouped, count, setBack>>

\* /reset: the deque and the row.
Reset ==
  /\ deque # <<>> /\ deque' = <<>> /\ saved' = <<>>
  /\ UNCHANGED <<clock, grouped, count, damaged, setBack>>

\* The wall clock goes on, or is set back.
Tick(time) ==
  /\ time = clock + 1 \/ (time < clock /\ ~setBack)
  /\ clock' = time /\ setBack' = (setBack \/ time < clock)
  /\ UNCHANGED <<deque, saved, grouped, count, damaged>>

Next ==
  \/ \E run \in Runs : Append_(run)
  \/ Restart \/ Reset
  \/ \E i \in DOMAIN saved, how \in Damages : Damage(i, how)
  \/ \E time \in 0 .. MaxTime : Tick(time)

--------------------------------------------------------------------------------
Ids(events) == [i \in DOMAIN events |-> events[i].id]
Spared(events) == SelectSeq(events, LAMBDA e : e.id \notin damaged)

TypeOK ==
  /\ clock \in 0 .. MaxTime /\ Len(deque) <= Maxlen /\ Len(saved) <= Maxlen
  /\ damaged \subseteq 1 .. count /\ count \in 0 .. MaxRuns

\* A restart restores, in their order, the events that are neither expired nor
\* damaged, and whatever of them was shown to the model is shown again, though what
\* else is shown may differ.
RestartTells ==
  ~setBack =>
    /\ Ids(SelectSeq(Spared(deque), Fresh)) = Ids(Spared(Load(saved)))
    /\ LET again == Render(Load(saved)) IN
       \A i \in DOMAIN Render(deque) :
         LET e == Render(deque)[i] IN Fresh(e) /\ e.id \notin damaged => \E j \in DOMAIN again : again[j].id = e.id

\* The newest action is shown whenever it fits, whatever stands before it.
NewestIsShown ==
  LET visible == Visible(deque) IN
  visible # <<>> /\ Frame + Marker + Line(Last(visible)) <= Budget
    => Render(deque) # <<>> /\ Last(Render(deque)) = Last(visible)

\* The model sees nothing older than the time to live.
ExpiredIsHidden == \A i \in DOMAIN Render(deque) : Fresh(Render(deque)[i])
===============================================================================

------------------------------ MODULE GroupBatch ------------------------------
(***************************************************************************)
(* GroupBatchChatDispatcher (linling_agent/group_batch.py) for one group:  *)
(* messages gather in a buffer, a flush loop waits for the moment to hand  *)
(* them to the model as a batch or to forget them, batches are answered    *)
(* one at a time, and /reset makes everything under way stale.             *)
(*                                                                         *)
(* A section under state.lock contains no await, so it is one step.        *)
(* Between two awaits anything may happen: another message, a /reset by    *)
(* another sender (each holds only its own session's lock), stop().        *)
(* The group's own session, sender_id "", is locked for a few awaits at a  *)
(* time: between them it may be evicted, or dropped by a /reset, while a   *)
(* batch goes on with the old object.                                      *)
(*                                                                         *)
(* Messages are numbered in the order in which they were sent.             *)
(***************************************************************************)
EXTENDS Integers, Sequences, FiniteSets, FiniteSetsExt

CONSTANTS
  Settings,     \* [window, hold, require, probe]: window_s and max_hold_s in
                \* ticks, require_attention, _probe_wired()
  Tasks,        \* background tasks
  Capacity,     \* max_messages
  MaxReplies,   \* max_replies
  MaxRounds,    \* _MAX_TOOL_ROUNDS
  MaxArrivals,  \* bound: messages
  MaxResets,    \* bound: calls of clear_history()
  MaxEvictions, \* bound: evictions of the group's session
  None

ASSUME SettingsAssumption ==
  /\ Settings \subseteq [window : Nat, hold : Nat \ {0}, require : BOOLEAN, probe : BOOLEAN]
  /\ \A s \in Settings : s.probe => s.require
  /\ Capacity \in Nat \ {0} /\ MaxReplies \in Nat /\ MaxRounds \in Nat
  /\ MaxArrivals \in Nat /\ MaxResets \in Nat /\ MaxEvictions \in Nat
  /\ None \notin Tasks

VARIABLES
  settings,   \* the configuration, never changed
  buffer,     \* state.messages
  attention,  \* state.attention_seen
  age,        \* ticks since state.first_seen_at
  wakeup,     \* state.wakeup is set
  flushTask,  \* state.flush_task
  generation, \* state.generation
  closed,     \* stop() was called
  pc,         \* what each task is doing
  alarm,      \* the age at which a waiting task's timeout ends
  batch,      \* what each task has taken from the buffer, and done with it
  line,       \* tasks that hold (first) or await the dispatch lock
  sessions,   \* the group's sessions, in the order they were created
  current,    \* the stored one, 0 when there is none
  row,        \* the batches of which the store holds a record
  reset,      \* what each /reset is doing
  target,     \* the session it clears
  arrived,    \* history: messages received
  calls,      \* history: those that ask for attention
  begun,      \* /resets begun: the time a batch is stamped with
  forgotten,  \* history: the last /reset that completed
  strayed,    \* history: a batch has saved a session that is not stored
  evictions   \* evictions so far

buffered == <<buffer, attention, age, wakeup, generation>>
state == <<buffered, flushTask>>
group == <<sessions, current, row, strayed>>
clears == <<reset, target, begun, forgotten>>
inbox == <<arrived, calls>>
vars == <<settings, state, closed, pc, alarm, batch, line, group, clears, inbox, evictions>>

Messages == 1..MaxArrivals
Resets == 1..MaxResets

\* ready, waiting: a flush loop; the others: a task with a batch, at an await.
LoopPlaces == {"ready", "waiting"}
WorkPlaces == {"hydrating", "looking", "preparing", "probing", "answering",
               "using_tool", "sending", "recording"}
Places == {"none", "queued"} \cup LoopPlaces \cup WorkPlaces
ResetPlaces == {"none", "clearing_sender", "clearing_group", "done", "failed"}

NoBatch == [messages |-> {}, generation |-> 0, stamp |-> 0, attended |-> FALSE,
            session |-> 0, rounds |-> 0, sent |-> 0]
NewBatch == [messages |-> buffer, generation |-> generation, stamp |-> begun,
             attended |-> attention, session |-> 0, rounds |-> 0, sent |-> 0]
NewSession == [history |-> {}, hydrated |-> FALSE, seats |-> <<>>]

\* Bug: only stop() makes a batch stale.
CurrentUntilStop(t) == ~closed

\* _batch_is_current
Current(t) == ~closed /\ batch[t].generation = generation

-----------------------------------------------------------------------------
Init ==
  /\ settings \in Settings
  /\ buffer = {} /\ attention = FALSE /\ age = 0 /\ wakeup = FALSE
  /\ flushTask = None /\ generation = 0 /\ closed = FALSE
  /\ pc = [t \in Tasks |-> "none"] /\ alarm = [t \in Tasks |-> 0]
  /\ batch = [t \in Tasks |-> NoBatch] /\ line = <<>>
  /\ sessions = <<>> /\ current = 0 /\ row \in {{}, {0}}
  /\ reset = [r \in Resets |-> "none"] /\ target = [r \in Resets |-> 0]
  /\ arrived = {} /\ calls = {}
  /\ begun = 0 /\ forgotten = 0 /\ strayed = FALSE /\ evictions = 0

-----------------------------------------------------------------------------
(* The buffer and its flush loop.                                          *)

\* The `finally' of a task: it lets go of flush_task if that is itself.
LetGo(t) == flushTask' = IF flushTask = t THEN None ELSE flushTask

\* What _trim_locked may leave of a buffer: its newest messages, at most
\* Capacity, at least one; how many fit max_chars is anybody's guess.
Trimmed(b) ==
  {k \in SUBSET b : /\ k # {} /\ Cardinality(k) <= Capacity
                    /\ \A m \in k, n \in b \ k : n < m}

\* Bug: each message decides anew.
AttentionOfLast(call) == call

Attention(call) == attention \/ call

\* run(): message m arrives and, when no loop watches the buffer, starts one.
\* It may call for attention by itself or because its sender was just answered.
Enqueue(m) ==
  /\ m \notin arrived /\ arrived' = arrived \cup {m}
  /\ buffer' \in Trimmed(buffer \cup {m})
  /\ \E call \in BOOLEAN :
       /\ attention' = Attention(call)
       /\ calls' = IF call THEN calls \cup {m} ELSE calls
  /\ wakeup' = TRUE
  /\ IF flushTask # None
       THEN UNCHANGED <<flushTask, pc>>
       ELSE \E t \in Tasks : /\ pc[t] = "none" /\ pc' = [pc EXCEPT ![t] = "ready"]
                             /\ flushTask' = t
  /\ UNCHANGED <<settings, age, generation, closed, alarm, batch, line, group, clears, evictions>>

Tick ==
  /\ buffer # {} /\ age < Max({settings.window, settings.hold})
  /\ age' = age + 1
  /\ UNCHANGED <<settings, buffer, attention, wakeup, flushTask, generation, closed,
                 pc, alarm, batch, line, group, clears, inbox, evictions>>

MayConsult == attention \/ ~settings.require \/ (settings.probe /\ age >= settings.window)
FlushReady ==
  /\ MayConsult
  /\ \/ Cardinality(buffer) >= Capacity
     \/ age >= settings.window \/ age >= settings.hold
DropReady == age >= settings.hold /\ ~MayConsult

\* _next_wait_s, as the age at which the wait ends.
Deadline ==
  LET ahead == {d \in {settings.hold} \cup
                     IF attention \/ ~settings.require \/ settings.probe
                       THEN {settings.window} ELSE {} : d > age}
  IN IF ahead = {} THEN age ELSE Min(ahead)

\* _reset_state_locked
ResetState ==
  /\ buffer' = {} /\ attention' = FALSE /\ age' = 0 /\ flushTask' = None

\* A task that has ended is no longer waited for.
Ends(t) == pc' = [pc EXCEPT ![t] = "none"]

\* An empty buffer or stop() ends a loop.
Retire(t) ==
  /\ pc[t] = "ready" /\ (closed \/ buffer = {})
  /\ Ends(t) /\ LetGo(t)
  /\ UNCHANGED <<settings, buffer, attention, age, wakeup, generation, closed, alarm, batch,
                 line, group, clears, inbox, evictions>>

\* The loop takes the buffer as its batch and queues for the dispatch lock.
\* From here on it is no longer the flush task.
Take(t) ==
  /\ pc[t] = "ready" /\ ~closed /\ buffer # {} /\ FlushReady
  /\ batch' = [batch EXCEPT ![t] = NewBatch]
  /\ ResetState
  /\ pc' = [pc EXCEPT ![t] = "queued"] /\ line' = Append(line, t)
  /\ UNCHANGED <<settings, wakeup, generation, closed, alarm, group, clears, inbox, evictions>>

\* Idle chatter is dropped.
Drop(t) ==
  /\ pc[t] = "ready" /\ ~closed /\ buffer # {} /\ DropReady
  /\ ResetState /\ Ends(t)
  /\ UNCHANGED <<settings, wakeup, generation, closed, alarm, batch, line, group, clears,
                 inbox, evictions>>

\* The loop waits for a message or its timeout.
Wait(t) ==
  /\ pc[t] = "ready" /\ ~closed /\ buffer # {} /\ ~FlushReady /\ ~DropReady
  /\ pc' = [pc EXCEPT ![t] = "waiting"]
  /\ alarm' = [alarm EXCEPT ![t] = Deadline] /\ wakeup' = FALSE
  /\ UNCHANGED <<settings, buffer, attention, age, flushTask, generation, closed, batch, line,
                 group, clears, inbox, evictions>>

\* Bug: the wait has no timeout.
WakeWhenCalled(t) ==
  /\ pc[t] = "waiting" /\ wakeup
  /\ pc' = [pc EXCEPT ![t] = "ready"] /\ alarm' = [alarm EXCEPT ![t] = 0]
  /\ UNCHANGED <<settings, state, closed, batch, line, group, clears, inbox, evictions>>

Wake(t) ==
  /\ pc[t] = "waiting" /\ (wakeup \/ age >= alarm[t])
  /\ pc' = [pc EXCEPT ![t] = "ready"] /\ alarm' = [alarm EXCEPT ![t] = 0]
  /\ UNCHANGED <<settings, state, closed, batch, line, group, clears, inbox, evictions>>

-----------------------------------------------------------------------------
(* Answering a batch.                                                      *)

\* Waiting for a session's lock, and giving it up.
Seated(s, u) == [sessions EXCEPT ![s].seats = Append(@, u)]
First(s, u) == sessions[s].seats # <<>> /\ Head(sessions[s].seats) = u
Left(s) == [sessions EXCEPT ![s].seats = Tail(@)]

\* get_or_create, and straight on to the session's lock: u waits for s.
Open(s, u) ==
  \/ /\ current # 0 /\ s = current
     /\ sessions' = Seated(s, u) /\ UNCHANGED current
  \/ /\ current = 0 /\ s = Len(sessions) + 1
     /\ sessions' = Append(sessions, [NewSession EXCEPT !.seats = <<u>>])
     /\ current' = s

\* Bug: the dispatch lock is kept.
LeaveLocked(t) ==
  /\ Ends(t) /\ LetGo(t) /\ batch' = [batch EXCEPT ![t] = NoBatch]
  /\ line' = line

\* The batch is done with: the dispatch lock passes on, the task ends.
Leave(t) ==
  /\ Ends(t) /\ LetGo(t) /\ batch' = [batch EXCEPT ![t] = NoBatch]
  /\ line' = Tail(line)

\* _persist_key: a failure is only logged.
Saved(s, history) ==
  \/ row' = history /\ strayed' = (strayed \/ s # current)
  \/ UNCHANGED <<row, strayed>>

\* _record_tool_history with the session's lock, which then goes to `seats':
\* the batch joins the history, the history is saved, the batch is done with.
Recorded(t, seats) ==
  LET s == batch[t].session
      history == sessions[s].history \cup {batch[t].stamp}
  IN /\ sessions' = [sessions EXCEPT ![s].history = history, ![s].seats = seats]
     /\ Saved(s, history)
     /\ Leave(t)

\* The tool loop has returned: what was sent is recorded, unless stale, at once
\* if the session is free.
Conclude(t) ==
  \/ /\ batch[t].sent > 0 /\ Current(t)
     /\ sessions[batch[t].session].seats = <<>>
     /\ Recorded(t, <<>>)
  \/ /\ batch[t].sent > 0 /\ Current(t)
     /\ sessions[batch[t].session].seats # <<>>
     /\ pc' = [pc EXCEPT ![t] = "recording"]
     /\ sessions' = Seated(batch[t].session, t)
     /\ UNCHANGED <<batch, line, row, strayed, flushTask>>
  \/ /\ batch[t].sent = 0 \/ ~Current(t)
     /\ Leave(t) /\ UNCHANGED <<sessions, row, strayed>>

others == <<settings, buffered, closed, alarm, clears, inbox, evictions>>

\* Bug: no dispatch lock.
StartUnlocked(t) ==
  /\ pc[t] = "queued"
  /\ IF Current(t)
       THEN /\ \E s \in 1..Len(sessions) + 1 :
                 Open(s, t) /\ batch' = [batch EXCEPT ![t].session = s]
            /\ pc' = [pc EXCEPT ![t] = "hydrating"]
            /\ UNCHANGED <<line, flushTask>>
       ELSE Leave(t) /\ UNCHANGED <<sessions, current>>
  /\ UNCHANGED <<others, row, strayed>>

\* _dispatch_batch: the lock is t's turn; a stale batch is not answered.
Start(t) ==
  /\ pc[t] = "queued" /\ Head(line) = t
  /\ IF Current(t)
       THEN /\ \E s \in 1..Len(sessions) + 1 :
                 Open(s, t) /\ batch' = [batch EXCEPT ![t].session = s]
            /\ pc' = [pc EXCEPT ![t] = "hydrating"]
            /\ UNCHANGED <<line, flushTask>>
       ELSE Leave(t) /\ UNCHANGED <<sessions, current>>
  /\ UNCHANGED <<others, row, strayed>>

\* _ensure_history: a session that was never loaded is, if it is empty; a
\* failed load counts as an empty one.
Hydrate(t) ==
  LET s == batch[t].session
      loaded(h) == [Left(s) EXCEPT ![s].history = h, ![s].hydrated = TRUE]
  IN /\ pc[t] = "hydrating" /\ First(s, t)
     /\ \/ sessions' = loaded(sessions[s].history)
        \/ /\ ~sessions[s].hydrated /\ sessions[s].history = {}
           /\ sessions' = loaded(row)
     /\ pc' = [pc EXCEPT ![t] = "looking"]
     /\ UNCHANGED <<others, flushTask, batch, line, current, row, strayed>>

\* Images, stickers and the date of the last daily summary are looked up.
Look(t) ==
  /\ pc[t] = "looking"
  /\ pc' = [pc EXCEPT ![t] = "preparing"]
  /\ sessions' = Seated(batch[t].session, t)
  /\ UNCHANGED <<others, flushTask, batch, line, current, row, strayed>>

\* _prepare_context_history: the history may be compacted, which keeps some of
\* it in messages, and saved.  Then the probe is asked about a batch that
\* nobody called for, the model about any other.
Prepare(t) ==
  LET s == batch[t].session
  IN /\ pc[t] = "preparing" /\ First(s, t)
     /\ \/ \E some \in SUBSET sessions[s].history :
             /\ some # sessions[s].history
             /\ sessions' = [Left(s) EXCEPT ![s].history = some]
             /\ Saved(s, some)
        \/ sessions' = Left(s) /\ UNCHANGED <<row, strayed>>
     /\ pc' = [pc EXCEPT ![t] = "probing"]
     /\ UNCHANGED <<others, flushTask, batch, line, current>>

kept == <<line, flushTask, sessions, row, strayed>>

\* Bug: the rounds are not counted.
AskAgain(t) ==
  \/ /\ Current(t)
     /\ pc' = [pc EXCEPT ![t] = "answering"]
     /\ batch' = [batch EXCEPT ![t].rounds = @ + 1]
     /\ UNCHANGED kept
  \/ ~Current(t) /\ Conclude(t)

\* The next round of the tool loop, if there is one.
Ask(t) ==
  \/ /\ Current(t) /\ batch[t].rounds < MaxRounds
     /\ pc' = [pc EXCEPT ![t] = "answering"]
     /\ batch' = [batch EXCEPT ![t].rounds = @ + 1]
     /\ UNCHANGED kept
  \/ ~(Current(t) /\ batch[t].rounds < MaxRounds) /\ Conclude(t)

\* The probe's verdict, for a batch without attention; an error is a no.
Probe(t) ==
  /\ pc[t] = "probing"
  /\ \/ Ask(t)
     \/ /\ ~batch[t].attended /\ settings.probe
        /\ Leave(t) /\ UNCHANGED <<sessions, row, strayed>>
  /\ UNCHANGED <<others, current>>

\* Bug: the generation is not checked again.
SendStale(t) ==
  /\ batch[t].sent < MaxReplies
  /\ pc' = [pc EXCEPT ![t] = "sending"]
  /\ UNCHANGED <<batch, kept>>

\* reply_to_message, send_group, send_sticker: the action goes to the sink.
Send(t) ==
  /\ batch[t].sent < MaxReplies /\ Current(t)
  /\ pc' = [pc EXCEPT ![t] = "sending"]
  /\ UNCHANGED <<batch, kept>>

\* Profile and sticker tools await the store.
UseTool(t) ==
  /\ pc' = [pc EXCEPT ![t] = "using_tool"]
  /\ UNCHANGED <<batch, kept>>

\* The model's answer: an error or finish_turn ends the loop, a nudge or calls
\* that need no await lead to the next round.
Answer(t) ==
  /\ pc[t] = "answering"
  /\ \/ Conclude(t)
     \/ Current(t) /\ (Ask(t) \/ UseTool(t) \/ Send(t))
  /\ UNCHANGED <<others, current>>

\* A tool's await is over, on to the next call; after max_replies to none.
Continue(t) ==
  /\ pc[t] = "using_tool"
  /\ \/ Conclude(t)
     \/ batch[t].sent < MaxReplies /\ (Ask(t) \/ Send(t))
  /\ UNCHANGED <<others, current>>

\* The sink took the message, and the attention stamp is written; or it failed.
Sent(t) ==
  /\ pc[t] = "sending"
  /\ \/ /\ batch' = [batch EXCEPT ![t].sent = @ + 1]
        /\ pc' = [pc EXCEPT ![t] = "using_tool"]
        /\ UNCHANGED kept
     \/ Conclude(t)
  /\ UNCHANGED <<others, current>>

\* The session was not free, and now it is t's turn.
Record(t) ==
  /\ pc[t] = "recording" /\ First(batch[t].session, t)
  /\ Recorded(t, Tail(sessions[batch[t].session].seats))
  /\ UNCHANGED <<others, current>>

-----------------------------------------------------------------------------
(* clear_history(), stop(), and the session store.                         *)

others2 == <<settings, closed, alarm, batch, line, inbox, evictions>>

\* A task that is cancelled, if it is a loop.
Cancelled == [t \in Tasks |-> IF t = flushTask THEN "none" ELSE pc[t]]

\* clear_history() makes what is under way stale, if the group has a state at
\* all, and awaits the sender's own history.
BeginReset(r) ==
  /\ r = begun + 1 /\ begun' = r
  /\ generation' \in {generation + 1} \cup IF arrived = {} THEN {generation} ELSE {}
  /\ ResetState /\ pc' = Cancelled
  /\ alarm' = [t \in Tasks |-> IF t = flushTask THEN 0 ELSE alarm[t]]
  /\ reset' = [reset EXCEPT ![r] = "clearing_sender"]
  /\ UNCHANGED <<settings, wakeup, closed, batch, line, group, target, forgotten, inbox, evictions>>

\* The sender's history is cleared: on to the group's session.  If that failed
\* clear_history() raises.
ClearSender(r) ==
  /\ reset[r] = "clearing_sender"
  /\ \/ /\ \E s \in 1..Len(sessions) + 1 : Open(s, r) /\ target' = [target EXCEPT ![r] = s]
        /\ reset' = [reset EXCEPT ![r] = "clearing_group"]
     \/ /\ reset' = [reset EXCEPT ![r] = "failed"]
        /\ UNCHANGED <<sessions, current, target>>
  /\ UNCHANGED <<others2, state, pc, row, strayed, begun, forgotten>>

\* The group's session is cleared, then its row; the session leaves the store.
\* If the store fails, the row is there or is not, and the session stays.
ClearGroup(r) ==
  LET s == target[r]
  IN /\ reset[r] = "clearing_group" /\ First(s, r)
     /\ sessions' = [Left(s) EXCEPT ![s].history = {}]
     /\ \/ /\ row' = {} /\ current' = 0
           /\ reset' = [reset EXCEPT ![r] = "done"]
           /\ forgotten' = Max({forgotten, r})
        \/ /\ row' \in {row, {}} /\ reset' = [reset EXCEPT ![r] = "failed"]
           /\ UNCHANGED <<current, forgotten>>
     /\ target' = [target EXCEPT ![r] = 0]
     /\ UNCHANGED <<others2, state, pc, strayed, begun>>

\* The session store evicts the group's session, which nobody has locked.
Evict ==
  /\ current # 0 /\ sessions[current].seats = <<>>
  /\ evictions < MaxEvictions /\ evictions' = evictions + 1
  /\ current' = 0
  /\ UNCHANGED <<settings, state, closed, pc, alarm, batch, line, sessions, row, strayed,
                 clears, inbox>>

\* stop() cancels the flush task; a task with a batch is not one any more.
Stop ==
  /\ ~closed /\ closed' = TRUE
  /\ flushTask' = None /\ wakeup' = TRUE /\ pc' = Cancelled
  /\ alarm' = [t \in Tasks |-> IF t = flushTask THEN 0 ELSE alarm[t]]
  /\ UNCHANGED <<settings, buffer, attention, age, generation, batch, line, group, clears,
                 inbox, evictions>>

-----------------------------------------------------------------------------
Loop(t) == Retire(t) \/ Take(t) \/ Drop(t) \/ Wait(t) \/ Wake(t)

Work(t) ==
  \/ Start(t) \/ Hydrate(t) \/ Look(t) \/ Prepare(t) \/ Probe(t)
  \/ Answer(t) \/ Continue(t) \/ Sent(t) \/ Record(t)

Clear(r) == ClearSender(r) \/ ClearGroup(r)

Next ==
  \/ \E m \in Messages : Enqueue(m)
  \/ Tick
  \/ \E t \in Tasks : Loop(t) \/ Work(t)
  \/ \E r \in Resets : BeginReset(r) \/ Clear(r)
  \/ Evict \/ Stop

Spec == Init /\ [][Next]_vars

\* Time passes, tasks are scheduled, and what they await answers: the store,
\* the sink, and the model, whose HTTP client has a timeout.
FairSpec ==
  /\ Spec /\ WF_vars(Tick)
  /\ \A t \in Tasks : WF_vars(Loop(t) \/ Work(t))
  /\ \A r \in Resets : WF_vars(Clear(r))

-----------------------------------------------------------------------------
(* Properties.                                                             *)

\* Every variable keeps its type: the buffer its limit, a batch its rounds and
\* replies.
TypeOK ==
  /\ settings \in Settings
  /\ buffer \subseteq Messages /\ Cardinality(buffer) <= Capacity
  /\ attention \in BOOLEAN /\ age \in Nat /\ wakeup \in BOOLEAN
  /\ flushTask \in Tasks \cup {None} /\ generation \in Nat /\ closed \in BOOLEAN
  /\ pc \in [Tasks -> Places] /\ alarm \in [Tasks -> Nat]
  /\ batch \in [Tasks -> [messages : SUBSET Messages, generation : Nat, stamp : Nat,
                          attended : BOOLEAN, session : Nat,
                          rounds : 0..MaxRounds, sent : 0..MaxReplies]]
  /\ line \in Seq(Tasks)
  /\ sessions \in Seq([history : SUBSET Nat, hydrated : BOOLEAN, seats : Seq(Tasks \cup Resets)])
  /\ current \in 0..Len(sessions) /\ row \in SUBSET Nat
  /\ reset \in [Resets -> ResetPlaces] /\ target \in [Resets -> Nat]
  /\ arrived \subseteq Messages /\ calls \subseteq arrived
  /\ begun \in Nat /\ forgotten \in Nat /\ strayed \in BOOLEAN /\ evictions \in Nat

\* A message in the buffer is never left without a loop that watches it: the
\* flush task is alive, whatever old loops, resets and batches are doing.
BufferIsWatched ==
  (buffer # {} /\ ~closed) => flushTask # None /\ pc[flushTask] \in LoopPlaces

\* _next_wait_s, "we must not sleep past window_s": when the buffer is ready
\* to be flushed or dropped, its loop's wait is over.
WakesInTime ==
  \A t \in Tasks :
     (pc[t] = "waiting" /\ (FlushReady \/ DropReady)) => wakeup \/ age >= alarm[t]

\* A message that calls for attention is never dropped as idle chatter or left
\* to the probe's veto: its buffer and its batch are marked, whoever came
\* before and after it.
CallsAreHeard ==
  /\ buffer \cap calls # {} => attention
  /\ \A t \in Tasks : batch[t].messages \cap calls # {} => batch[t].attended

\* No message is answered twice: it is in the buffer or in one batch.
TakenOnce ==
  /\ \A t \in Tasks : batch[t].messages \cap buffer = {}
  /\ \A t, u \in Tasks : t # u => batch[t].messages \cap batch[u].messages = {}

\* The dispatch lock: one batch of the group is answered at a time.
OneAtATime ==
  \A t, u \in Tasks : (pc[t] \in WorkPlaces /\ pc[u] \in WorkPlaces) => t = u

\* After a /reset or stop(), a batch taken before hands nothing more to the
\* sink and starts no record.
StaleIsSilent ==
  [][\A t \in Tasks :
       (pc'[t] \in {"sending", "recording"} /\ pc[t] # pc'[t]) =>
          ~closed /\ batch[t].generation = generation]_vars

\* What a completed /reset forgot stays forgotten, in memory and in the store:
\* no batch under way brings it back, unless one saves a session that was
\* evicted or dropped meanwhile.
ResetForgets ==
  ~strayed =>
     /\ \A b \in row : b >= forgotten
     /\ current # 0 => \A b \in sessions[current].history : b >= forgotten

\* A buffered message is taken, dropped or reset before long.
BufferDrains == (buffer # {} /\ ~closed) ~> (buffer = {} \/ closed)

\* A batch that waits for its turn gets it, and is done with.
BatchesEnd == \A t \in Tasks : pc[t] = "queued" ~> pc[t] = "none"

=============================================================================

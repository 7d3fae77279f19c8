----------------------------- MODULE Conversation -----------------------------
(***************************************************************************)
(* What one conversation remembers: AgentChatDispatcher.dispatch() with    *)
(* its context manager and history store (linling_agent), the DSL action   *)
(* ledger (linling_dsl, linling_agent), and the router's /cancel and       *)
(* /reset.                                                                 *)
(*                                                                         *)
(* Chat turns, DSL commands and /reset hold the session lock (module       *)
(* Router); /cancel does not, and ledger saves run in background tasks.    *)
(* The session's two deques live in memory and go with an eviction or a    *)
(* restart; the rows that mirror them, and the running summary of folded   *)
(* turns, are in the key-value store.  Every await is a step: a /cancel,   *)
(* a save or a crash may come between.                                     *)
(*                                                                         *)
(* Turn t is recorded as messages 2t-1 (user) and 2t (assistant); the n-th *)
(* command is ledger event n.                                              *)
(***************************************************************************)
EXTENDS Integers, Sequences, FiniteSets, Functions

CONSTANTS
  Window,       \* history_turns: maxlen of the history deque, in messages
  Keep,         \* summary_keep_recent_turns
  LedgerMaxlen, \* maxlen of the ledger deque
  MaxTurns,     \* bound: chat turns begun
  MaxCommands,  \* bound: ledger events
  MaxFaults,    \* bound: kinds of store operation that fail, once each
  MaxLosses     \* bound: evictions and restarts

ASSUME LimitsAssumption ==
  /\ Window \in Nat \ {0} /\ Keep \in Nat /\ LedgerMaxlen \in 1..200
  /\ MaxTurns \in Nat /\ MaxCommands \in Nat
  /\ MaxFaults \in Nat /\ MaxLosses \in Nat

VARIABLES
  pc,           \* what the holder of the session lock is doing, "idle": nobody
  turn,         \* chat turns begun
  command,      \* ledger events appended
  history,      \* session.history
  hydrated,     \* _linling_history_hydrated
  row,          \* the stored messages
  summary,      \* the messages the stored summary covers
  fold,         \* replacement_history is not None
  events,       \* session.dsl_events
  eventsHydrated, \* _linling_ledger_hydrated
  ledger,       \* the stored ledger
  saves,        \* ledger writes in flight, in order; <<>> is a delete
  cancel,       \* session.cancel_event
  asked,        \* history: a /cancel came while the current or last turn ran
  sent,         \* history: that turn has sent a message
  last,         \* history: how it ended
  kept,         \* history: messages recorded and saved since the last /reset
  forgotten,    \* history: [turn, command] the last full /reset of each covers
  faults,       \* kinds of store operation that have failed
  losses        \* evictions and restarts so far

lock == <<pc, turn, command>>
chat == <<history, hydrated, row, summary, fold>>
acts == <<events, eventsHydrated, ledger, saves>>
told == <<asked, sent, last>>
ghosts == <<kept, forgotten>>
env == <<faults, losses>>

vars == <<lock, chat, acts, cancel, told, ghosts, env>>

\* resolving: images and collage, before the cancel event is cleared;
\* restoring: loading what a fresh session lacks; thinking: the agent runs;
\* saving: its turn is in memory; command: a DSL handler runs; the clearing
\* places: /reset deletes the messages, the summary, the ledger.
TurnPlaces == {"resolving", "restoring", "thinking", "saving"}
Clearing == {"clearing_messages", "clearing_summary", "clearing_ledger"}
Places == TurnPlaces \cup Clearing \cup {"idle", "command"}

Kinds == {"load_history", "load_summary", "load_ledger", "save_history",
          "save_summary", "save_ledger", "clear_history", "clear_ledger"}

\* The last n elements of a sequence: a deque with maxlen n, s[-n:].
Newest(s, n) == IF Len(s) <= n THEN s ELSE SubSeq(s, Len(s) - n + 1, Len(s))

\* A store operation of kind k fails.
Fails(k) ==
  /\ k \notin faults /\ Cardinality(faults) < MaxFaults
  /\ faults' = faults \cup {k}
  /\ UNCHANGED losses

-----------------------------------------------------------------------------
Init ==
  /\ pc = "idle" /\ turn = 0 /\ command = 0
  /\ history = <<>> /\ hydrated = FALSE /\ row = <<>> /\ summary = {}
  /\ fold = FALSE
  /\ events = <<>> /\ eventsHydrated = FALSE /\ ledger = <<>> /\ saves = <<>>
  /\ cancel = FALSE
  /\ asked = FALSE /\ sent = FALSE /\ last = "none"
  /\ kept = <<>> /\ forgotten = [turn |-> 0, command |-> 0]
  /\ faults = {} /\ losses = 0

-----------------------------------------------------------------------------
(* A chat turn.                                                            *)

\* dispatch() is called with the session lock held.
BeginTurn ==
  /\ pc = "idle" /\ turn < MaxTurns
  /\ pc' = "resolving" /\ turn' = turn + 1
  /\ asked' = FALSE /\ sent' = FALSE /\ last' = "none"
  /\ UNCHANGED <<command, chat, acts, cancel, ghosts, env>>

\* Bug: the flag a /cancel left behind is not cleared.
StartFlagged ==
  /\ pc = "resolving" /\ pc' = "restoring"
  /\ UNCHANGED <<turn, command, chat, acts, cancel, told, ghosts, env>>

\* The images are resolved; the stale cancel flag is cleared.
Start ==
  /\ pc = "resolving" /\ pc' = "restoring"
  /\ cancel' = FALSE
  /\ UNCHANGED <<turn, command, chat, acts, told, ghosts, env>>

\* Bug: a deque that is not empty is extended all the same.
FilledAlways(deque, restored, maxlen) == Newest(deque \o restored, maxlen)

\* What a load puts into a deque: only an empty one is filled.
Filled(deque, restored, maxlen) ==
  IF deque = <<>> THEN Newest(restored, maxlen) ELSE deque

\* _rehydrate_history_key: a failed load counts as an empty one, and the flag
\* is set either way.
RestoreHistory ==
  /\ pc = "restoring" /\ ~hydrated
  /\ \/ history' = Filled(history, row, Window) /\ UNCHANGED env
     \/ Fails("load_history") /\ UNCHANGED history
  /\ hydrated' = TRUE
  /\ UNCHANGED <<lock, row, summary, fold, acts, cancel, told, ghosts>>

\* _rehydrate_ledger, concurrently: expired events, the oldest ones, are
\* dropped.  The store serves requests in order, so pending saves come first.
RestoreLedger ==
  /\ pc = "restoring" /\ ~eventsHydrated /\ saves = <<>>
  /\ \/ \E n \in 0..Len(ledger) :
          events' = Filled(events, Newest(ledger, n), LedgerMaxlen)
        /\ UNCHANGED env
     \/ Fails("load_ledger") /\ UNCHANGED events
  /\ eventsHydrated' = TRUE
  /\ UNCHANGED <<lock, chat, ledger, saves, cancel, told, ghosts>>

Restored == pc = "restoring" /\ hydrated /\ eventsHydrated

\* ContextManager.prepare() without compaction.
Replay ==
  /\ Restored
  /\ pc' = "thinking" /\ fold' = FALSE
  /\ UNCHANGED <<turn, command, history, hydrated, row, summary, acts, cancel,
                 told, ghosts, env>>

\* The turns compaction keeps, and the messages it folds into the summary.
Recent == Newest(history, 2 * Keep)
Older == {history[i] : i \in 1..(Len(history) - 2 * Keep)}

\* Bug: the history is replaced though the summary could not be saved.
CompactRegardless ==
  /\ Restored /\ Older # {}
  /\ \/ summary' = summary \cup Older /\ UNCHANGED env
     \/ Fails("save_summary") /\ UNCHANGED summary
  /\ fold' = TRUE
  /\ pc' = "thinking"
  /\ UNCHANGED <<turn, command, history, hydrated, row, acts, cancel, told, ghosts>>

\* prepare() over the trigger: the older messages are folded into the summary
\* (an empty one when it cannot be loaded) and the summary is saved; the
\* history will be replaced only if it was.
Compact ==
  /\ Restored /\ Older # {}
  /\ \/ summary' = summary \cup Older /\ fold' = TRUE /\ UNCHANGED env
     \/ Fails("load_summary") /\ summary' = Older /\ fold' = TRUE
     \/ Fails("save_summary") /\ fold' = FALSE /\ UNCHANGED summary
  /\ pc' = "thinking"
  /\ UNCHANGED <<turn, command, history, hydrated, row, acts, cancel, told, ghosts>>

\* AgentRuntime.invoke: a tool call sends a message.
Say ==
  /\ pc = "thinking" /\ ~sent /\ sent' = TRUE
  /\ UNCHANGED <<lock, chat, acts, cancel, asked, last, ghosts, env>>

\* Bug: the agent is awaited alone.
AbortNever == FALSE /\ UNCHANGED vars

\* The cancel event fires before the agent is done.
Abort ==
  /\ pc = "thinking" /\ cancel
  /\ pc' = "idle" /\ last' = "cancelled"
  /\ UNCHANGED <<turn, command, chat, acts, cancel, asked, sent, ghosts, env>>

\* Nothing to show the agent, input over budget, an agent that raises, or an
\* event that asks not to be recorded.
EndUnrecorded ==
  /\ pc \in {"resolving", "thinking"} \/ Restored
  /\ pc' = "idle" /\ last' = "unrecorded"
  /\ UNCHANGED <<turn, command, chat, acts, cancel, asked, sent, ghosts, env>>

\* The agent is done, at a limit or a timeout of its own if need be: its turn
\* goes to the deque, after the compacted history if there is one.
Complete ==
  /\ pc = "thinking"
  /\ history' = Newest((IF fold THEN Recent ELSE history)
                         \o <<2 * turn - 1, 2 * turn>>, Window)
  /\ pc' = "saving" /\ last' = "recorded"
  /\ UNCHANGED <<turn, command, hydrated, row, summary, fold, acts, cancel,
                 asked, sent, ghosts, env>>

\* _persist_key: the row becomes the deque.  KVHistoryStore would trim it to
\* Window turns, but the deque holds at most Window messages.
Save ==
  /\ pc = "saving" /\ pc' = "idle"
  /\ \/ /\ row' = history
        /\ kept' = kept \o <<2 * turn - 1, 2 * turn>>
        /\ UNCHANGED env
     \/ Fails("save_history") /\ UNCHANGED <<row, kept>>
  /\ UNCHANGED <<turn, command, history, hydrated, summary, fold, acts, cancel,
                 told, forgotten>>

-----------------------------------------------------------------------------
(* A DSL command.                                                          *)

BeginCommand ==
  /\ pc = "idle" /\ pc' = "command"
  /\ UNCHANGED <<turn, command, chat, acts, cancel, told, ghosts, env>>

\* Bug: the deque has no maxlen.
AppendUnbounded ==
  /\ events' = Append(events, command + 1)
  /\ saves' = Append(saves, events')

\* Bug: the snapshot is taken before the append.
AppendLate ==
  /\ events' = Newest(Append(events, command + 1), LedgerMaxlen)
  /\ saves' = Append(saves, events)

\* LedgerWriter.append: the deque, and a background task to save a snapshot.
AppendEvent ==
  /\ events' = Newest(Append(events, command + 1), LedgerMaxlen)
  /\ saves' = Append(saves, events')

\* The handler ends, in success or in error; one that is not exposed to the
\* agent leaves no event.
EndCommand ==
  /\ pc = "command" /\ pc' = "idle"
  /\ \/ command < MaxCommands /\ command' = command + 1 /\ AppendEvent
     \/ UNCHANGED <<command, events, saves>>
  /\ UNCHANGED <<turn, chat, eventsHydrated, ledger, cancel, told, ghosts, env>>

\* _safe_save: the store serves the oldest request, or it fails and is logged.
SaveLedger ==
  /\ saves # <<>> /\ saves' = Tail(saves)
  /\ \/ ledger' = Head(saves) /\ UNCHANGED env
     \/ Fails("save_ledger") /\ UNCHANGED ledger
  /\ UNCHANGED <<lock, chat, events, eventsHydrated, cancel, told, ghosts>>

-----------------------------------------------------------------------------
(* /cancel and /reset.                                                     *)

\* _do_cancel: does not wait for the lock.
Cancel ==
  /\ cancel' = TRUE
  /\ asked' = (asked \/ pc \in TurnPlaces)
  /\ UNCHANGED <<lock, chat, acts, sent, last, ghosts, env>>

\* _do_reset has the lock: both deques are cleared.
BeginReset ==
  /\ pc = "idle" /\ pc' = "clearing_messages"
  /\ history' = <<>> /\ events' = <<>>
  /\ kept' = <<>>
  /\ UNCHANGED <<turn, command, hydrated, row, summary, fold, eventsHydrated,
                 ledger, saves, cancel, told, forgotten, env>>

\* KVHistoryStore.clear deletes the messages first; if that raises, or the two
\* seconds are over, the summary is left alone.
ClearMessages ==
  /\ pc = "clearing_messages"
  /\ \/ row' = <<>> /\ pc' = "clearing_summary" /\ UNCHANGED env
     \/ Fails("clear_history") /\ row' \in {row, <<>>} /\ pc' = "clearing_ledger"
  /\ UNCHANGED <<turn, command, history, hydrated, summary, fold, acts, cancel,
                 told, ghosts>>

\* The summary, with the same two seconds.
ClearSummary ==
  /\ pc = "clearing_summary" /\ pc' = "clearing_ledger"
  /\ \/ /\ summary' = {}
        /\ forgotten' = [forgotten EXCEPT !.turn = turn]
        /\ UNCHANGED env
     \/ Fails("clear_history") /\ summary' \in {summary, {}} /\ UNCHANGED forgotten
  /\ UNCHANGED <<turn, command, history, hydrated, row, fold, acts, cancel,
                 told, kept>>

\* Bug: the delete overtakes the saves that were requested before it.
LedgerClearedAtOnce ==
  /\ ledger' = <<>>
  /\ forgotten' = [forgotten EXCEPT !.command = command]
  /\ UNCHANGED <<saves, env>>

\* KVDslLedgerStore.clear: the row is deleted, after the saves requested before;
\* or it raises; or two seconds pass, and the request stays in the queue.
LedgerCleared ==
  \/ /\ saves = <<>> /\ ledger' = <<>>
     /\ forgotten' = [forgotten EXCEPT !.command = command]
     /\ UNCHANGED <<saves, env>>
  \/ Fails("clear_ledger") /\ saves' \in {saves, Append(saves, <<>>)}
     /\ UNCHANGED <<ledger, forgotten>>

\* The last step of /reset drops both hydrated marks.
ClearLedger ==
  /\ pc = "clearing_ledger" /\ pc' = "idle"
  /\ LedgerCleared
  /\ hydrated' = FALSE /\ eventsHydrated' = FALSE
  /\ UNCHANGED <<turn, command, history, row, summary, fold, events, cancel,
                 told, kept>>

-----------------------------------------------------------------------------
(* The end of a session.                                                   *)

\* A fresh Session: two empty deques, no marks, no flag.
FreshSession ==
  /\ losses < MaxLosses /\ losses' = losses + 1
  /\ history' = <<>> /\ hydrated' = FALSE
  /\ events' = <<>> /\ eventsHydrated' = FALSE
  /\ cancel' = FALSE
  /\ UNCHANGED <<turn, command, row, summary, fold, ledger, ghosts, faults>>

\* LRU eviction, of a session nobody holds.
Evict ==
  /\ pc = "idle" /\ FreshSession
  /\ UNCHANGED <<pc, saves, told>>

\* The process dies and is started again; requests in flight are lost.
Restart ==
  /\ FreshSession
  /\ pc' = "idle" /\ saves' = <<>>
  /\ asked' = FALSE /\ sent' = FALSE /\ last' = "none"

-----------------------------------------------------------------------------
Turn == \/ BeginTurn \/ Start \/ RestoreHistory \/ RestoreLedger \/ Replay
        \/ Compact \/ Say \/ Abort \/ EndUnrecorded \/ Complete \/ Save

Command == BeginCommand \/ EndCommand \/ SaveLedger

Reset == BeginReset \/ ClearMessages \/ ClearSummary \/ ClearLedger

Next == Turn \/ Command \/ Cancel \/ Reset \/ Evict \/ Restart

Spec == Init /\ [][Next]_vars

\* The cancel event wakes the dispatch that waits for it, and the store answers.
\* Neither users nor agents owe anything.
FairSpec == Spec /\ WF_vars(Abort) /\ WF_vars(Save)

-----------------------------------------------------------------------------
(* Properties.                                                             *)

\* Every variable keeps its type, and both deques their maxlen.
TypeOK ==
  /\ pc \in Places /\ turn \in Nat /\ command \in Nat
  /\ pc \in TurnPlaces => turn >= 1
  /\ history \in Seq(Nat) /\ row \in Seq(Nat) /\ kept \in Seq(Nat)
  /\ Len(history) <= Window /\ summary \subseteq Nat
  /\ hydrated \in BOOLEAN /\ eventsHydrated \in BOOLEAN /\ fold \in BOOLEAN
  /\ events \in Seq(Nat) /\ Len(events) <= LedgerMaxlen
  /\ ledger \in Seq(Nat) /\ saves \in Seq(Seq(Nat))
  /\ cancel \in BOOLEAN /\ asked \in BOOLEAN /\ sent \in BOOLEAN
  /\ last \in {"none", "recorded", "cancelled", "unrecorded"}
  /\ forgotten \in [turn : Nat, command : Nat]
  /\ faults \subseteq Kinds /\ losses \in Nat

\* "the cancel event is single-shot per turn": a turn is aborted only by a
\* /cancel that came while it ran, never by one an earlier turn or nobody was
\* there to hear.
AbortWasAsked == last = "cancelled" => asked

\* /reset: once every delete went through, nothing said or done before it comes
\* back, whatever evictions, restarts, saves in flight and reloads follow.
ResetForgets ==
  /\ \A m \in Range(history) \cup Range(row) \cup summary :
       m > 2 * forgotten.turn
  /\ \A e \in Range(events) \cup Range(ledger) \cup UNION {Range(s) : s \in Range(saves)} :
       e > forgotten.command

\* What the next turn will find: the deque, or the row that will fill it.
Effective == IF hydrated THEN history ELSE row

\* The last Window messages that were saved.
Owed == Range(Newest(kept, Window))

\* KVHistoryStore: "Conversations survive bot restarts": the last Window
\* messages that were saved are in the history or folded into the summary, after
\* any evictions, restarts, cancelled turns, compactions and failed summary
\* saves.
Remembered ==
  (/\ faults \cap {"load_history", "load_summary", "save_history"} = {}
   /\ pc # "saving") => Owed \subseteq Range(Effective) \cup summary

\* The ledger deque and its row hold each event once, in order: a load does not
\* double what is there.
EventsInOrder ==
  \A s \in {events, ledger} : \A i, j \in DOMAIN s : i < j => s[i] < s[j]

\* With no save under way, what the deque holds is the end of what is stored: a
\* restart would lose nothing of it.
LedgerIsDurable ==
  ("save_ledger" \notin faults /\ saves = <<>>) =>
     /\ Len(events) <= Len(ledger)
     /\ events = Newest(ledger, Len(events))

\* A turn that waits for its agent with the cancel flag up ends.
CancelEndsTurn == (pc = "thinking" /\ cancel) ~> pc = "idle"

\* _maybe_rehydrate: "a transient KV blip surfaces as empty state, not a
\* permanently sticky hydrated marker": a history load that fails costs nothing
\* of what is stored.
BlipIsTransient ==
  (faults \subseteq {"load_history"} /\ pc = "idle") => Owed \subseteq Range(row) \cup summary

\* dispatch(): "race-free": a /cancel that finds the turn running is not lost.
CancelIsHeard == (pc \in TurnPlaces /\ asked) => cancel

\* dispatch(): a cancelled turn is not recorded because "the reply was never
\* delivered".
CancelledWasSilent == last = "cancelled" => ~sent

=============================================================================

------------------------------ MODULE Scheduler ------------------------------
(***************************************************************************)
(* linling_core/scheduler.py: the delayed and recurring task scheduler.    *)
(*                                                                         *)
(* One run() coroutine pops due tasks from a heap and awaits a callback    *)
(* for each.  Every other coroutine of the event loop may call schedule(), *)
(* schedule_recurring(), cancel() or stop() whenever run() is suspended:   *)
(* in its tick sleep, or in the middle of a callback.  The store           *)
(* (SqliteSchedulerStore or MemorySchedulerStore) mirrors the live tasks   *)
(* so that they survive a crash of the process.                            *)
(*                                                                         *)
(* A task object is shared by the heap and by _task_index, so its fields   *)
(* are one function `task' over ids; `queue' and `index' are the sets of   *)
(* ids held by the two containers.  The bot_id of a key is folded into     *)
(* Keys; NoKey is the empty key.                                           *)
(***************************************************************************)
EXTENDS Integers, FiniteSetsExt

CONSTANTS
  Keys,        \* the (bot_id, key) pairs a caller may schedule under
  NoKey,       \* key == ""
  Periods,     \* the values of every_seconds
  MaxDelay,    \* bound: of after_seconds and of first_fire_at - now, before now or after
  Durable,     \* TRUE: SqliteSchedulerStore, FALSE: MemorySchedulerStore
  MaxId,       \* bound: the largest task id handed out
  MaxTime,     \* bound: the last instant of the wall clock
  MaxCrashes   \* bound: crashes of the process

ASSUME KeysAssumption == NoKey \notin Keys
ASSUME TimesAssumption == Periods \subseteq Nat \ {0} /\ MaxDelay \in Nat
ASSUME ModeAssumption == Durable \in BOOLEAN
ASSUME BoundsAssumption == MaxId \in Nat /\ MaxTime \in Nat /\ MaxCrashes \in Nat

Ids == 1 .. MaxId
Delays == -MaxDelay .. MaxDelay

\* key, recurring_seconds (0 for a one-shot task) and fire_at of a task.
Task == [key : Keys \cup {NoKey}, period : Periods \cup {0}, at : Nat]

\* A stored row: the task and its position in the store's iteration order.
Row == [task : Task, pos : Nat]

Phases == {"idle", "sleep", "drain", "callback", "stopped", "dead", "down"}

VARIABLES
  now,        \* time.time()
  task,       \* the ScheduledTask objects, by id
  queue,      \* ids in the heap _queue
  index,      \* ids in _task_index: the live tasks
  cancelled,  \* _cancelled
  counter,    \* _counter
  running,    \* _running
  phase,      \* where run() is suspended, or why it is not there
  tick,       \* the local `now' of run(), read once per tick
  current,    \* the task whose callback is awaited
  store,      \* ids with a row in the store
  saved,      \* those rows
  crashes,    \* history: crashes so far
  revoked,    \* history: ids cancelled or replaced while not firing
  revokedNow, \* history: ids cancelled or replaced during their own callback
  spent       \* history: one-shot tasks fired since the last restart

vars == <<now, task, queue, index, cancelled, counter, running, phase, tick,
          current, store, saved, crashes, revoked, revokedNow, spent>>

memory == <<task, queue, index, cancelled, counter>>
loop == <<running, phase, tick, current>>
disk == <<store, saved>>
history == <<revoked, revokedNow, spent>>

Blank == [key |-> NoKey, period |-> 0, at |-> 0]

NoRow == [task |-> Blank, pos |-> 0]

Firing(id) == phase = "callback" /\ current = id

\* run() is suspended at an await (or not running): other coroutines execute.
Suspended == phase \in {"idle", "sleep", "callback", "stopped", "dead"}

-----------------------------------------------------------------------------
(* Helpers, each next to the variant a plausible bug would make of it.     *)

\* Bug: a negative delay is used as it is.
Unclamped(seconds) == seconds

\* max(after_seconds, 0.0)
Clamped(seconds) == IF seconds < 0 THEN 0 ELSE seconds

\* The end of the iteration order.  Only MemorySchedulerStore's matters: the
\* UNIQUE index of the other one leaves at most one row under a key.
NextPos == IF Durable \/ store = {} THEN 1
           ELSE 1 + Max({saved[i].pos : i \in store})

\* Bug: the upsert leaves the row as it was.
UpsertForgotten(id, t) == saved

\* upsert: an existing id keeps its place, a new one goes to the end.
Upserted(id, t) ==
  [saved EXCEPT ![id] = [task |-> t,
                         pos  |-> IF id \in store THEN @.pos ELSE NextPos]]

\* The UNIQUE INDEX on (bot_id, key) WHERE key != '' refuses the row.
\* ON CONFLICT(id) does not cover it, so sqlite3.IntegrityError is raised.
Conflict(id, t) ==
  /\ Durable
  /\ t.key # NoKey
  /\ \E other \in store \ {id} : saved[other].task.key = t.key

\* delete_by_key finds the first row under the key, if any.
UnderKey(key) == IF key = NoKey THEN {}
                 ELSE {i \in store : saved[i].task.key = key}

Replaced(key) ==
  {i \in UnderKey(key) : \A j \in UnderKey(key) : saved[i].pos <= saved[j].pos}

\* Bug: delete() without commit().
DeleteUncommitted(ids) == store

\* delete and delete_by_key, for the rows found.
Deleted(ids) == store \ ids

\* The fields of rows that are gone.
Wiped(ids) == [i \in Ids |-> IF i \in ids THEN NoRow ELSE saved[i]]

\* A task object no container refers to.
Freed(id) == [task EXCEPT ![id] = Blank]

\* _cancel_in_memory, for the task found.
Unindexed(ids) == index \ ids

\* Bug: a task whose deadline was missed is taken for a stale one.
StaleOrLate(id) == id \in cancelled \/ id \notin index \/ task[id].at < tick

\* A popped heap entry that is discarded.
Stale(id) == id \in cancelled \/ id \notin index

\* The task goes back into the queue after its callback.
Rearms(t) == t.period > 0 /\ running

-----------------------------------------------------------------------------
\* Scheduler.__init__ on an empty store.
Init ==
  /\ now = 0
  /\ task = [i \in Ids |-> Blank]
  /\ queue = {} /\ index = {} /\ cancelled = {}
  /\ counter = 0
  /\ running = FALSE /\ phase = "idle" /\ tick = 0 /\ current = 0
  /\ store = {} /\ saved = [i \in Ids |-> NoRow]
  /\ crashes = 0
  /\ revoked = {} /\ revokedNow = {} /\ spent = {}

\* time.time() advances.
Tick ==
  /\ now < MaxTime
  /\ now' = now + 1
  /\ UNCHANGED <<memory, loop, disk, crashes, history>>

\* The body schedule() and schedule_recurring() share, for the new task t.
Add(t) ==
  LET old == Replaced(t.key)
      id  == counter + 1
  IN /\ Suspended
     /\ id <= MaxId
     /\ counter' = id
     /\ task' = [task EXCEPT ![id] = t]
     /\ queue' = queue \cup {id}
     /\ index' = Unindexed(old) \cup {id}
     /\ cancelled' = cancelled \cup old
     /\ store' = Deleted(old) \cup {id}
     /\ saved' = [Wiped(old) EXCEPT ![id] = [task |-> t, pos |-> NextPos]]
     /\ revoked' = (revoked \cup {i \in old : ~Firing(i)}) \ {id}
     /\ revokedNow' = (revokedNow \cup {i \in old : Firing(i)}) \ {id}
     /\ spent' = spent \ {id}
     /\ UNCHANGED <<now, loop, crashes>>

Schedule ==
  \E k \in Keys \cup {NoKey}, d \in Delays :
     Add([key |-> k, period |-> 0, at |-> now + Clamped(d)])

\* first_fire_at defaults to now + every_seconds.
ScheduleRecurring ==
  \E k \in Keys \cup {NoKey}, p \in Periods, d \in Delays \cup Periods :
     /\ d \in {p} \cup {x \in Delays : now + x >= 0}
     /\ Add([key |-> k, period |-> p, at |-> now + d])

\* cancel() returning TRUE; when it returns FALSE it changes nothing.
Cancel(id) ==
  /\ Suspended
  /\ id \notin cancelled
  /\ id \in index
  /\ cancelled' = cancelled \cup {id}
  /\ index' = index \ {id}
  /\ store' = Deleted({id})
  /\ saved' = Wiped({id})
  /\ revoked' = IF Firing(id) THEN revoked ELSE revoked \cup {id}
  /\ revokedNow' = IF Firing(id) THEN revokedNow \cup {id} ELSE revokedNow
  /\ UNCHANGED <<now, task, queue, counter, loop, crashes, spent>>

\* run(): entered by RunningBot.start, or again after it returned.
Run ==
  /\ phase \in {"idle", "stopped"}
  /\ running' = TRUE
  /\ phase' = "drain"
  /\ tick' = now
  /\ UNCHANGED <<now, memory, current, disk, crashes, history>>

\* stop()
Stop ==
  /\ Suspended
  /\ running
  /\ running' = FALSE
  /\ UNCHANGED <<now, memory, phase, tick, current, disk, crashes, history>>

\* The heads of the heap that are due at the tick.
Due == {i \in queue : task[i].at <= tick /\ \A j \in queue : task[i].at <= task[j].at}

\* A popped task that was cancelled, or that is no longer indexed.
Skip ==
  /\ phase = "drain"
  /\ \E id \in Due :
       /\ Stale(id)
       /\ queue' = queue \ {id}
       /\ task' = Freed(id)
       /\ cancelled' = cancelled \ {id}
  /\ UNCHANGED <<now, index, counter, loop, disk, crashes, history>>

\* A popped live task: its callback is awaited.
Fire ==
  /\ phase = "drain"
  /\ \E id \in Due :
       /\ ~Stale(id)
       /\ queue' = queue \ {id}
       /\ current' = id
       /\ spent' = IF task[id].period = 0 THEN spent \cup {id} ELSE spent
  /\ phase' = "callback"
  /\ UNCHANGED <<now, task, index, cancelled, counter, running, tick, disk,
                 crashes, revoked, revokedNow>>

\* The callback returned or raised: re-arm a recurring task.  fire_at is set
\* and the heap entry pushed before the store is asked, so a refused upsert
\* leaves them in place and the exception ends run().
Rearm ==
  LET t == [task[current] EXCEPT !.at = now + task[current].period]
  IN /\ phase = "callback"
     /\ Rearms(task[current])
     /\ task' = [task EXCEPT ![current] = t]
     /\ queue' = queue \cup {current}
     /\ current' = 0
     /\ IF Conflict(current, t)
          THEN phase' = "dead" /\ UNCHANGED disk
          ELSE /\ phase' = "drain"
               /\ store' = store \cup {current}
               /\ saved' = Upserted(current, t)
     /\ UNCHANGED <<now, index, cancelled, counter, running, tick, crashes,
                    history>>

\* The callback returned or raised: forget a one-shot task, or any task
\* once stop() has been called.
Finish ==
  /\ phase = "callback"
  /\ ~Rearms(task[current])
  /\ index' = index \ {current}
  /\ store' = Deleted({current})
  /\ saved' = Wiped({current})
  /\ task' = Freed(current)
  /\ phase' = "drain" /\ current' = 0
  /\ UNCHANGED <<now, queue, cancelled, counter, running, tick, crashes,
                 history>>

\* Nothing more is due: sleep until the next tick.
Sleep ==
  /\ phase = "drain"
  /\ Due = {}
  /\ phase' = "sleep" /\ tick' = 0
  /\ UNCHANGED <<now, memory, running, current, disk, crashes, history>>

\* Bug: the clock is read once, before the loop.
WakeStaleClock ==
  /\ phase = "sleep"
  /\ phase' = IF running THEN "drain" ELSE "stopped"
  /\ UNCHANGED <<now, memory, running, tick, current, disk, crashes, history>>

\* The tick sleep ends: next iteration, or return when stopped.
Wake ==
  /\ phase = "sleep"
  /\ IF running THEN phase' = "drain" /\ tick' = now
                ELSE phase' = "stopped" /\ UNCHANGED tick
  /\ UNCHANGED <<now, memory, running, current, disk, crashes, history>>

\* The process dies, or the bot gives up waiting for run() and cancels it.
\* Memory is gone; the rows of the SQLite store stay.
Crash ==
  /\ Suspended
  /\ crashes < MaxCrashes
  /\ crashes' = crashes + 1
  /\ phase' = "down" /\ tick' = 0 /\ current' = 0
  /\ running' = FALSE
  /\ task' = [i \in Ids |-> Blank]
  /\ queue' = {} /\ index' = {} /\ cancelled' = {} /\ counter' = 0
  /\ IF Durable THEN UNCHANGED disk
                ELSE store' = {} /\ saved' = Wiped(store)
  /\ spent' = {}
  /\ UNCHANGED <<now, revoked, revokedNow>>

\* Scheduler.__init__: hydrate from the store, resume the counter.
Restart ==
  /\ phase = "down"
  /\ phase' = "idle"
  /\ task' = [i \in Ids |-> IF i \in store THEN saved[i].task ELSE Blank]
  /\ queue' = store
  /\ index' = store
  /\ counter' = IF store = {} THEN 0
                ELSE Max(store)
  /\ UNCHANGED <<now, cancelled, running, tick, current, disk, crashes, history>>

-----------------------------------------------------------------------------
Api == Schedule \/ ScheduleRecurring \/ (\E id \in Ids : Cancel(id))
LoopStep == Skip \/ Fire \/ Rearm \/ Finish \/ Sleep \/ Wake

Next == \/ Tick
        \/ Api
        \/ Run \/ Stop
        \/ LoopStep
        \/ Crash \/ Restart

Spec == Init /\ [][Next]_vars

\* The loop and its callbacks make progress (the event loop is fair and a DSL
\* handler runs under the VM's timeout).  Callers, the clock, stop() and
\* crashes are the environment.
FairSpec == Spec /\ WF_vars(LoopStep)

-----------------------------------------------------------------------------
(* Properties.                                                             *)

\* Every variable keeps its type.
TypeOK ==
  /\ now \in Nat /\ tick \in Nat
  /\ task \in [Ids -> Task]
  /\ queue \subseteq Ids /\ index \subseteq Ids /\ cancelled \subseteq Ids
  /\ counter \in 0 .. MaxId
  /\ running \in BOOLEAN /\ phase \in Phases
  /\ current \in IF phase = "callback" THEN Ids ELSE {0}
  /\ store \subseteq Ids /\ saved \in [Ids -> Row]
  /\ crashes \in Nat
  /\ revoked \subseteq Ids /\ revokedNow \subseteq Ids
  /\ spent \subseteq Ids

\* Whatever the callers do, in a callback or between ticks, a live task has
\* its row in the store, with the deadline that is in memory: a crash at any
\* await loses no live task (schedule, the re-arm and __init__ agree).
PendingIsDurable ==
  \A id \in index : id \in store /\ saved[id].task = task[id]

\* A live task is in the heap or in its callback: no path of run(), schedule()
\* or cancel() indexes a task and drops its timer.
NoLostTimer ==
  \A id \in index : id \in queue \/ Firing(id)

\* "two schedule() calls with the same key replace each other rather than
\* producing two firings" (ScheduledTask): one live task per key.
OneTaskPerKey ==
  \A i, j \in index :
     task[i].key = task[j].key /\ task[i].key # NoKey => i = j

\* A callback starts for the task.
Starts(id) == phase' = "callback" /\ phase # "callback" /\ current' = id

\* A one-shot task fires at most once per life of the process: only a crash
\* between its callback and the delete of its row can repeat it.
OneShotOncePerLife == [][\A id \in Ids : Starts(id) => id \notin spent]_vars

\* A task that was cancelled, or replaced under its key, while its callback
\* was not running never fires again, restarts included; one that was
\* revoked in its own callback does not fire again in the same process.
RevokedStaysQuiet ==
  [][\A id \in Ids : Starts(id) =>
        id \notin revoked /\ (id \in revokedNow => crashes > 0)]_vars

\* While run() runs, a live task whose deadline has passed is fired, unless it
\* is revoked first, stop() is called or the loop has died (LoopSurvives).
DueTaskFires ==
  \A id \in Ids :
     (id \in index /\ task[id].at <= now /\ running)
       ~> (Firing(id) \/ id \notin index \/ ~running \/ phase = "dead")

\* After stop(), run() returns: the drain of due tasks that goes on is finite.
StopReturns ==
  (~running /\ phase \in {"sleep", "drain", "callback"})
    ~> phase \in {"stopped", "down"}

-----------------------------------------------------------------------------
(* What the documentation says and the code does not do.                   *)

\* "schedule() / schedule_recurring() / cancel() are safe to call before or
\* while run() is active": they do not end run() with an exception.
LoopSurvives == phase # "dead"

\* "the production path uses SqliteSchedulerStore so tasks survive restarts":
\* a recurring task leaves the store only when a caller revokes it.
RecurringSurvivesStop ==
  [][\A id \in store :
        (saved[id].task.period > 0 /\ id \notin store')
          => id \in revoked' \cup revokedNow']_vars
=============================================================================

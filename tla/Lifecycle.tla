----------------------------- MODULE Lifecycle -----------------------------
(* One bot process from start to stop (cli/.../bootstrap.py, rule_files.py,     *)
(* commands/run.py): rules are edited, saved and hot-reloaded while commands    *)
(* and timers run, and stop() takes the parts down in order.                    *)
(* A handler is a file and the version of the file it was read from.            *)
EXTENDS Naturals, Sequences, FiniteSets

CONSTANTS
  Files,     \* the rule files the globs match
  Jobs,      \* handlers at work: of events, of timers, of the Web UI, of group batches
  HasAgents, \* TRUE when the configuration names an agent
  MaxEdits   \* bound: edits of files

VARIABLES
  disk,        \* per file: its version, and whether the parser accepts it
  edits,       \* versions written so far
  script,      \* what RunningBot.script and the classifier were compiled from
  extras,      \* the side channels of each command dispatcher built so far, newest last
  job,         \* per job: where it is, its kind, what it matched and what it runs
  phase,       \* how far start() and stop() are
  firing,      \* the job scheduler.run() awaits, or "none"
  serving,     \* the Web UI accepts requests
  kv           \* the key-value connection: "open", "closed"

rules == <<disk, edits, script, extras>>
vars == <<rules, job, phase, firing, serving, kv>>

None == <<"none", 0>>
Idle == [pc |-> "idle", kind |-> "none", matched |-> None, runs |-> None]
Phases == <<"new", "up", "scheduler", "adapters", "agents", "store", "stopped">>

Readable == {f \in Files : disk[f].ok}
Compiled == {<<f, disk[f].version>> : f \in Readable}

\* What bootstrap_bot wires into the first dispatcher, and _refresh_dispatcher_extras
\* with what reload_rules carries over into every later one.
Refreshed == {"scheduler", "ledger", "action_sink", "admin_users", "adapter", "handler_lookup", "images"}
Bootstrapped == Refreshed \cup (IF HasAgents THEN {"agent_registry"} ELSE {})

Init ==
  /\ disk \in [Files -> [version : {0}, ok : BOOLEAN]]
  /\ edits = 0 /\ script = Compiled
  /\ extras = <<Bootstrapped>>
  /\ job = [j \in Jobs |-> Idle]
  /\ phase = "new" /\ firing = "none" /\ serving = FALSE /\ kv = "open"

Start ==
  /\ phase = "new" /\ phase' = "up"
  /\ serving' \in BOOLEAN
  /\ UNCHANGED <<rules, job, firing, kv>>

--------------------------------------------------------------------------------
\* Rules.

Written(f, ok) == [disk EXCEPT ![f] = [version |-> edits + 1, ok |-> ok]]

\* An operator edits a file.
Edit(f, ok) ==
  /\ phase = "up" /\ edits < MaxEdits /\ edits' = edits + 1
  /\ disk' = Written(f, ok)
  /\ UNCHANGED <<script, extras, job, phase, firing, serving, kv>>

\* reload_rules: with errors in every file the old rules stay; otherwise what
\* parsed is swapped in, with a new dispatcher.
Swap(files) ==
  LET accepted == {f \in Files : files[f].ok}
  IN IF accepted # {} \/ Files = {}
     THEN /\ script' = {<<f, files[f].version>> : f \in accepted}
          /\ extras' = Append(extras, Refreshed)
     ELSE UNCHANGED <<script, extras>>

Reload ==
  /\ phase = "up" /\ Len(extras) <= MaxEdits
  /\ Swap(disk)
  /\ UNCHANGED <<disk, edits, job, phase, firing, serving, kv>>

\* RuleFileController.save: text with lint errors is not written; what is written
\* is reloaded at once.
Save(f) ==
  /\ serving /\ phase = "up" /\ edits < MaxEdits /\ edits' = edits + 1
  /\ disk' = Written(f, TRUE)
  /\ Swap(Written(f, TRUE))
  /\ UNCHANGED <<job, phase, firing, serving, kv>>

--------------------------------------------------------------------------------
\* Work.

\* The classifier picks a handler for an event while adapters run, or for a turn
\* of the Web UI while that serves; the command then waits for its session.
Match(j, kind, h) ==
  /\ job[j].pc = "idle"
  /\ \/ kind = "event" /\ phase \in {"up", "scheduler"}
     \/ kind = "web" /\ serving
  /\ h \in script
  /\ job' = [job EXCEPT ![j] = [pc |-> "waiting", kind |-> kind, matched |-> h, runs |-> None]]
  /\ UNCHANGED <<rules, phase, firing, serving, kv>>

\* The flush loop of a group has let go of its task and answers the batch.
Answer(j) ==
  /\ job[j].pc = "idle" /\ phase \in {"up", "scheduler", "adapters"}
  /\ job' = [job EXCEPT ![j].pc = "running", ![j].kind = "batch"]
  /\ UNCHANGED <<rules, phase, firing, serving, kv>>

\* Bug: the handler is looked up again by name when the session is free.
MatchedAgain(j) ==
  IF \E h \in script : h[1] = job[j].matched[1]
  THEN CHOOSE h \in script : h[1] = job[j].matched[1]
  ELSE job[j].matched

\* The session is free: what was matched runs, on the dispatcher there is now.
Handler(j) == job[j].matched

Dispatch(j) ==
  /\ job[j].pc = "waiting"
  /\ job' = [job EXCEPT ![j].pc = "running", ![j].runs = Handler(j)]
  /\ UNCHANGED <<rules, phase, firing, serving, kv>>

\* _on_scheduled_fire: the handler is looked up by its name, in the rules there
\* are now; without one the timer is only audited.
Fire(j, f) ==
  /\ phase = "up" /\ firing = "none" /\ job[j].pc = "idle"
  /\ \E h \in script : h[1] = f
  /\ LET h == CHOOSE x \in script : x[1] = f
     IN job' = [job EXCEPT ![j] = [pc |-> "running", kind |-> "timer", matched |-> h, runs |-> h]]
  /\ firing' = j
  /\ UNCHANGED <<rules, phase, serving, kv>>

Done(j) == [job EXCEPT ![j].pc = "done"]

Finish(j) ==
  /\ job[j].pc = "running"
  /\ job' = Done(j)
  /\ firing' = IF firing = j THEN "none" ELSE firing
  /\ UNCHANGED <<rules, phase, serving, kv>>

\* A running handler reads or writes: a closed store opens again (_ensure).
Touch(j) ==
  /\ job[j].pc = "running" /\ kv = "closed"
  /\ kv' = "open"
  /\ UNCHANGED <<rules, job, phase, firing, serving>>

--------------------------------------------------------------------------------
\* stop(), one await at a time.

\* The jobs of some kinds are cancelled, and their end awaited.
Cancelled(kinds) ==
  [j \in Jobs |-> IF job[j].kind \in kinds /\ job[j].pc # "done"
                  THEN [job[j] EXCEPT !.pc = "done"] ELSE job[j]]

\* Observers leave the bus, and the scheduler takes its flag down.
Stop ==
  /\ phase = "up" /\ phase' = "scheduler"
  /\ UNCHANGED <<rules, job, firing, serving, kv>>

\* The scheduler's task is awaited for two seconds, then cancelled.
Join ==
  /\ phase = "scheduler" /\ phase' = "adapters"
  /\ job' = Cancelled({"timer"}) /\ firing' = "none"
  /\ UNCHANGED <<rules, serving, kv>>

\* adapter.stop() cancels what the adapter dispatched; its own task is cancelled.
StopAdapters ==
  /\ phase = "adapters" /\ phase' = "agents"
  /\ job' = Cancelled({"event"})
  /\ UNCHANGED <<rules, firing, serving, kv>>

\* The chat dispatcher cancels the flush loops it knows; a batch being answered is
\* not among them. Providers and resolvers are closed.
StopAgents ==
  /\ phase = "agents" /\ phase' = "store"
  /\ UNCHANGED <<rules, job, firing, serving, kv>>

CloseStore ==
  /\ phase = "store" /\ phase' = "stopped" /\ kv' = "closed"
  /\ UNCHANGED <<rules, job, firing, serving>>

\* run.py stops the Web UI last.
StopWebUI ==
  /\ phase = "stopped" /\ serving /\ serving' = FALSE
  /\ job' = Cancelled({"web"})
  /\ UNCHANGED <<rules, phase, firing, kv>>

Stopping == Join \/ StopAdapters \/ StopAgents \/ CloseStore \/ StopWebUI

Next ==
  \/ Start \/ Reload \/ Stop \/ Stopping
  \/ \E f \in Files : Save(f) \/ \E ok \in BOOLEAN : Edit(f, ok)
  \/ \E j \in Jobs, h \in script, kind \in {"event", "web"} : Match(j, kind, h)
  \/ \E j \in Jobs : Answer(j) \/ Dispatch(j) \/ Finish(j) \/ Touch(j) \/ \E f \in Files : Fire(j, f)

\* stop() is awaited: cancelled tasks end, and the wait for the scheduler has a timer.
Spec == Init /\ [][Next]_vars /\ WF_vars(Stopping)

--------------------------------------------------------------------------------
\* The type invariant: versions, places, and one callback of the scheduler at most.
TypeOK ==
  /\ disk \in [Files -> [version : 0..MaxEdits, ok : BOOLEAN]] /\ edits \in 0..MaxEdits
  /\ script \subseteq Files \X (0..MaxEdits)
  /\ \A n \in DOMAIN extras : extras[n] \subseteq Bootstrapped
  /\ \A j \in Jobs : /\ job[j].pc \in {"idle", "waiting", "running", "done"}
                     /\ job[j].pc = "running" /\ job[j].kind = "timer" <=> j = firing
  /\ phase \in {Phases[n] : n \in DOMAIN Phases}
  /\ serving \in BOOLEAN /\ kv \in {"open", "closed"}

\* A command runs the handler it was matched with, however often the rules are
\* swapped while it waits for its session or runs (reload_rules: "active
\* conversations keep running on the old handlers").
RunsWhatItMatched == \A j \in Jobs : job[j].runs \in {None, job[j].matched}

\* When the store is closed, no event and no timer is at work any more: stop()
\* has ended them first.
CloseIsLast ==
  phase = "stopped" => \A j \in Jobs : job[j].kind \in {"event", "timer"} => job[j].pc = "done"

\* No stop() is under way: it comes to its end although a callback may hang for ever.
AtRest == phase \in {"new", "up", "stopped"}

StopEnds == []<>AtRest

\* Every dispatcher has the side channels the first one had
\* (_refresh_dispatcher_extras: "all wire the same set of keys").
KeysSurvive == \A n \in DOMAIN extras : extras[n] = extras[1]
================================================================================

-------------------------------- MODULE Router --------------------------------
(***************************************************************************)
(* linling_core/router.py and pipeline.py: how concurrent events become    *)
(* serialised dispatches.                                                  *)
(*                                                                         *)
(* Every delivery of an event runs Router.handle() in its own task.  The   *)
(* task passes the idempotency cache, waits for one of a fixed number of   *)
(* permits (asyncio.Semaphore), finds or creates the Session of its        *)
(* conversation in an LRU store, waits for that session's asyncio.Lock,    *)
(* dispatches, releases both and replies.  Both waits have a timeout.      *)
(* Tasks interleave at every await.                                        *)
(*                                                                         *)
(* Session objects are named by the delivery whose get_or_create() built   *)
(* them: a delivery builds at most one.  A session dropped from the store  *)
(* lives on as long as a task holds it.  /cancel's effect on the turn it   *)
(* interrupts, and what /reset clears, belong to Conversation.              *)
(***************************************************************************)
EXTENDS Integers, Sequences, FiniteSets, FiniteSetsExt

CONSTANTS
  Deliveries,     \* the calls of handle()
  Events,         \* what they may carry: [id, key, kind] records
  None,           \* no event, no session
  MaxConcurrent,  \* max_concurrent_events
  MaxSessions,    \* ConversationStore max_sessions
  MaxSeen         \* SeenEvents maxlen

Kinds == {"help", "unknown", "ignore", "cancel", "reset", "command", "chat"}

ASSUME EventsAssumption == \A e \in Events : e.kind \in Kinds
ASSUME NoneAssumption == None \notin Deliveries \cup Events
ASSUME FiniteAssumption == IsFiniteSet(Deliveries)
ASSUME LimitsAssumption ==
  /\ MaxConcurrent \in Nat \ {0} /\ MaxSessions \in Nat \ {0}
  /\ MaxSeen \in Nat \ {0}

VARIABLES
  event,     \* the event of each delivery
  pc,        \* where its task is
  turn,      \* its position in the queue it waits in, 0 when it waits in none
  permits,   \* the semaphore's value
  seen,      \* SeenEvents._order, oldest first
  accepted,  \* history: the ids seen.add() accepted, in order
  session,   \* the session a task was handed
  stored,    \* the sessions in the ConversationStore
  used,      \* their place in its LRU order
  locked     \* sessions whose lock is held

vars == <<event, pc, turn, permits, seen, accepted, session, stored, used,
          locked>>

cache == <<seen, accepted>>
store == <<session, stored, used>>

\* idle: not delivered yet; queued, handed: waiting for a permit, given one
\* but not resumed; granted: has a permit; try, waiting, woken: before, in and
\* at the head of the wait for the session lock; running: dispatching with the
\* lock held; reply: sending with the permit held; busy: refused a permit.
Places == {"idle", "queued", "handed", "granted", "try", "waiting", "woken",
           "running", "reply", "busy", "done"}

\* The tasks that hold a permit.
Inside == {d \in Deliveries :
             pc[d] \in {"handed", "granted", "try", "waiting", "woken",
                        "running", "reply"}}

Queued == {d \in Deliveries : pc[d] = "queued"}

Handed == {d \in Deliveries : pc[d] = "handed"}

Waiters(s) == {d \in Deliveries : pc[d] = "waiting" /\ session[d] = s}

Woken(s) == {d \in Deliveries : pc[d] = "woken" /\ session[d] = s}

\* The head of a queue, and the ticket of whoever joins it.
First(W) == {d \in W : \A e \in W : turn[d] <= turn[e]}

Ticket(W) == 1 + Max({turn[d] : d \in W} \cup {0})

\* ConversationKey: the chat and command events of one sender in one scope.
KeyOf(s) == event[s].key

-----------------------------------------------------------------------------
(* Helpers, next to the variants a plausible bug would make of them.       *)

\* SeenEvents.add for an unseen id: append, and drop the oldest over the limit.
Remember(id) ==
  LET all == Append(seen, id)
  IN IF Len(all) > MaxSeen THEN Tail(all) ELSE all

\* asyncio.Semaphore.acquire: a permit at once, or a place in the queue.  A task
\* handed its permit is still among the semaphore's waiters until it resumes, and
\* while there is one nobody gets a permit past it, free or not.
PermitAsked(d) ==
  \/ /\ permits > 0 /\ Queued \cup Handed = {}
     /\ permits' = permits - 1
     /\ pc' = [pc EXCEPT ![d] = "granted"]
     /\ UNCHANGED turn
  \/ /\ permits = 0 \/ Queued \cup Handed # {}
     /\ pc' = [pc EXCEPT ![d] = "queued"]
     /\ turn' = [turn EXCEPT ![d] = Ticket(Queued)]
     /\ UNCHANGED permits

\* asyncio.Semaphore.release: the first waiter gets the permit, if there is one.
PermitReleased(d, next) ==
  \/ /\ Queued = {}
     /\ permits' = permits + 1
     /\ pc' = [pc EXCEPT ![d] = next]
  \/ \E h \in First(Queued) :
       /\ pc' = [pc EXCEPT ![d] = next, ![h] = "handed"]
       /\ UNCHANGED permits

\* asyncio.Lock._wake_up_first: d moves on, the first waiter is woken.
WakeFirst(s, d, next) ==
  \/ /\ Waiters(s) = {}
     /\ pc' = [pc EXCEPT ![d] = next]
  \/ \E h \in First(Waiters(s)) : pc' = [pc EXCEPT ![d] = next, ![h] = "woken"]

\* The least recently used of some sessions.
Oldest(S) == {s \in S : \A t \in S : used[s] <= used[t]}

\* _evict_if_needed after d was added as the newest: the oldest session that
\* is not locked.  One is enough: d is not locked, so the store is never left
\* over its limit.
Victim(d) == IF stored \subseteq locked THEN {d} ELSE Oldest(stored \ locked)

\* The store after a session is added: what was evicted is gone.
Kept(d) ==
  IF Cardinality(stored) < MaxSessions THEN {stored \cup {d}}
  ELSE {(stored \cup {d}) \ {v} : v \in Victim(d)}

\* Bug: every call builds a session.
FoundNever(key) == {}

\* The session stored under the key, if any.
Found(key) == {s \in stored : KeyOf(s) = key}

\* Bug: an unknown key is looked up and nothing is built.
GetOnly(d) ==
  /\ Found(KeyOf(d)) = {} => UNCHANGED session
  /\ \A s \in Found(KeyOf(d)) : session' = [session EXCEPT ![d] = s]
  /\ UNCHANGED <<stored, used>>

\* get_or_create: the stored session, moved to the most recent end; or a new
\* one at that end, and an eviction when the store is over its limit.
GetOrCreate(d) ==
  LET last == 1 + Max({used[s] : s \in stored} \cup {0})
  IN \/ \E s \in Found(KeyOf(d)) :
          /\ session' = [session EXCEPT ![d] = s]
          /\ used' = [used EXCEPT ![s] = last]
          /\ UNCHANGED stored
     \/ /\ Found(KeyOf(d)) = {}
        /\ session' = [session EXCEPT ![d] = d]
        /\ stored' \in Kept(d)
        /\ used' = [s \in Deliveries |->
                      IF s \notin stored' THEN 0 ELSE IF s = d THEN last ELSE used[s]]

-----------------------------------------------------------------------------
Init ==
  /\ event = [d \in Deliveries |-> None]
  /\ pc = [d \in Deliveries |-> "idle"]
  /\ turn = [d \in Deliveries |-> 0]
  /\ permits = MaxConcurrent
  /\ seen = <<>> /\ accepted = <<>>
  /\ session = [d \in Deliveries |-> None]
  /\ stored = {} /\ used = [d \in Deliveries |-> 0]
  /\ locked = {}

\* Nobody keeps a ticket for a queue it has left.
TicketsDropped ==
  turn' = [e \in Deliveries |-> IF pc'[e] \in {"queued", "waiting"} THEN turn[e] ELSE 0]

-----------------------------------------------------------------------------
\* handle(): a duplicate is declined; another event asks for a permit.
Receive(d) ==
  /\ pc[d] = "idle"
  /\ \E e \in Events :
       /\ event' = [event EXCEPT ![d] = e]
       /\ \/ /\ \E i \in DOMAIN seen : seen[i] = e.id
             /\ pc' = [pc EXCEPT ![d] = "done"]
             /\ UNCHANGED <<cache, permits, turn>>
          \/ /\ \A i \in DOMAIN seen : seen[i] # e.id
             /\ seen' = Remember(e.id)
             /\ accepted' = Append(accepted, e.id)
             /\ PermitAsked(d)
  /\ UNCHANGED <<store, locked>>

\* acquire() resumes with the permit it was handed, and passes one that came
\* free meanwhile to the first still waiting.
PermitTaken(d) ==
  /\ pc[d] = "handed"
  /\ \/ /\ permits = 0 \/ Queued = {}
        /\ pc' = [pc EXCEPT ![d] = "granted"]
        /\ UNCHANGED permits
     \/ /\ permits > 0
        /\ \E h \in First(Queued) :
             pc' = [pc EXCEPT ![d] = "granted", ![h] = "handed"]
        /\ permits' = permits - 1
  /\ TicketsDropped
  /\ UNCHANGED <<event, cache, store, locked>>

\* Bug: the `finally' that releases the permit covers the wait for it.
PermitTimeoutReleases(d) ==
  /\ pc[d] \in {"queued", "handed"} /\ PermitReleased(d, "busy")
  /\ TicketsDropped
  /\ UNCHANGED <<event, cache, store, locked>>

\* enqueue_timeout_s: the task leaves the queue, passes on a permit it was
\* just given, and sends the busy reply.  The id stays in the cache.
PermitTimeout(d) ==
  /\ \/ pc[d] = "queued" /\ pc' = [pc EXCEPT ![d] = "busy"] /\ UNCHANGED permits
     \/ pc[d] = "handed" /\ PermitReleased(d, "busy")
  /\ TicketsDropped
  /\ UNCHANGED <<event, cache, store, locked>>

\* The busy reply was sent, or failed.
Refused(d) ==
  /\ pc[d] = "busy"
  /\ pc' = [pc EXCEPT ![d] = "done"]
  /\ UNCHANGED <<event, turn, permits, cache, store, locked>>

\* _dispatch() up to its first await, with the permit.
Starts(d, kinds) == pc[d] = "granted" /\ event[d].kind \in kinds

\* /help, and a command no trigger matches: a reply.
Answer(d) ==
  /\ Starts(d, {"help", "unknown"})
  /\ pc' = [pc EXCEPT ![d] = "reply"]
  /\ UNCHANGED <<event, turn, permits, cache, store, locked>>

\* A blocked scope or sender: nothing.
Ignore(d) ==
  /\ Starts(d, {"ignore"})
  /\ PermitReleased(d, "done")
  /\ TicketsDropped
  /\ UNCHANGED <<event, cache, store, locked>>

\* /cancel: finds or creates the session, sets its cancel_event, never waits
\* for its lock.
Cancel(d) ==
  /\ Starts(d, {"cancel"})
  /\ GetOrCreate(d)
  /\ pc' = [pc EXCEPT ![d] = "reply"]
  /\ UNCHANGED <<event, turn, permits, cache, locked>>

\* /reset, a matched command or a chat message: on to the session lock.
Enter(d) ==
  /\ Starts(d, {"reset", "command", "chat"})
  /\ GetOrCreate(d)
  /\ pc' = [pc EXCEPT ![d] = "try"]
  /\ UNCHANGED <<event, turn, permits, cache, locked>>

\* A chat message over the session's token bucket.
RateLimited(d) ==
  /\ Starts(d, {"chat"})
  /\ GetOrCreate(d)
  /\ pc' = [pc EXCEPT ![d] = "reply"]
  /\ UNCHANGED <<event, turn, permits, cache, locked>>

\* session.lock.acquire(): at once when it is free and nobody waits.  On Python
\* 3.11 wait_for() runs it in a task of its own, so other tasks may come
\* between get_or_create() and this step.
TryLock(d) ==
  /\ pc[d] = "try"
  /\ IF session[d] \notin locked /\ Waiters(session[d]) \cup Woken(session[d]) = {}
       THEN /\ locked' = locked \cup {session[d]}
            /\ pc' = [pc EXCEPT ![d] = "running"]
            /\ UNCHANGED turn
       ELSE /\ pc' = [pc EXCEPT ![d] = "waiting"]
            /\ turn' = [turn EXCEPT ![d] = Ticket(Waiters(session[d]))]
            /\ UNCHANGED locked
  /\ UNCHANGED <<event, permits, cache, store>>

\* A woken task resumes and takes the lock.
Resume(d) ==
  /\ pc[d] = "woken"
  /\ locked' = locked \cup {session[d]}
  /\ pc' = [pc EXCEPT ![d] = "running"]
  /\ UNCHANGED <<event, turn, permits, cache, store>>

\* session_timeout_s: the task leaves the queue and sends the busy reply; one
\* that was woken wakes the next.
LockTimeout(d) ==
  /\ \/ pc[d] = "waiting" /\ pc' = [pc EXCEPT ![d] = "reply"]
     \/ pc[d] = "woken" /\ WakeFirst(session[d], d, "reply")
  /\ TicketsDropped
  /\ UNCHANGED <<event, permits, cache, store, locked>>

\* Bug: the lock is not released in a `finally', and the dispatcher raises.
FinishLocked(d) ==
  /\ pc[d] = "running"
  /\ pc' = [pc EXCEPT ![d] = "reply"]
  /\ UNCHANGED <<event, turn, permits, cache, store, locked>>

\* The dispatcher returned or raised (or /reset has cleared everything): the
\* lock is released, and what there is to send is sent.
Finish(d) ==
  /\ pc[d] = "running"
  /\ locked' = locked \ {session[d]}
  /\ WakeFirst(session[d], d, "reply")
  /\ TicketsDropped
  /\ UNCHANGED <<event, permits, cache, store>>

\* The last send returned or failed: the permit is released, the audit row
\* written.
Reply(d) ==
  /\ pc[d] = "reply"
  /\ PermitReleased(d, "done")
  /\ TicketsDropped
  /\ UNCHANGED <<event, cache, store, locked>>

-----------------------------------------------------------------------------
\* What the event loop and its timers do for a task, whatever dispatchers do.
Progress(d) ==
  \/ PermitTaken(d) \/ PermitTimeout(d) \/ Refused(d)
  \/ Answer(d) \/ Ignore(d) \/ Cancel(d) \/ Enter(d) \/ RateLimited(d)
  \/ TryLock(d) \/ Resume(d) \/ LockTimeout(d)
  \/ Reply(d)

Next == \E d \in Deliveries : Receive(d) \/ Progress(d) \/ Finish(d)

Spec == Init /\ [][Next]_vars

\* Tasks are scheduled and timers expire.  A dispatch need not end.
FairSpec == Spec /\ WF_vars(\E d \in Deliveries : Progress(d))

-----------------------------------------------------------------------------
(* Properties.                                                             *)

\* Every variable keeps its type.
TypeOK ==
  /\ event \in [Deliveries -> Events \cup {None}]
  /\ pc \in [Deliveries -> Places] /\ turn \in [Deliveries -> Nat]
  /\ \A d \in Deliveries : event[d] = None <=> pc[d] = "idle"
  /\ permits \in Nat
  /\ seen \in Seq({e.id : e \in Events}) /\ accepted \in Seq({e.id : e \in Events})
  /\ session \in [Deliveries -> Deliveries \cup {None}]
  /\ \A d \in Deliveries :
       pc[d] \in {"try", "waiting", "woken", "running"} => session[d] # None
  /\ stored \subseteq Deliveries /\ used \in [Deliveries -> Nat]
  /\ locked \subseteq Deliveries

\* Session: "at most one of (classifier -> router -> handler/agent) is running
\* for this conversation at any time".
Serialised ==
  \A d, e \in Deliveries :
     (pc[d] = "running" /\ pc[e] = "running" /\ event[d].key = event[e].key) => d = e

\* What eviction leaves of it, however small the store: two dispatches of a
\* conversation overlap only when one of them holds a session that is no
\* longer stored.
StoredSerialised ==
  \A d, e \in Deliveries :
     (/\ pc[d] = "running" /\ session[d] \in stored
      /\ pc[e] = "running" /\ session[e] \in stored
      /\ event[d].key = event[e].key) => d = e

\* A timeout, a crash of a handler or a refusal neither loses nor invents a
\* permit; and while a permit is free and an event waits, a task just handed a
\* permit has yet to resume, which passes the free one on.
PermitsConserved ==
  /\ permits + Cardinality(Inside) = MaxConcurrent
  /\ permits > 0 /\ Queued # {} => Handed # {}

\* No session stays locked behind a task that has left it, and no event waits
\* for a session that nobody holds or is about to take: a timeout that hits
\* the task a release has just woken passes the wake-up on.
NoStuckSession ==
  /\ \A s \in locked : \E d \in Deliveries : pc[d] = "running" /\ session[d] = s
  /\ \A d \in Deliveries :
       pc[d] = "waiting" => session[d] \in locked \/ Woken(session[d]) # {}

\* _evict_if_needed: "evicting it would let a fresh session for the same key
\* receive a new message in parallel": a session is not evicted while a
\* dispatch runs on it.
EvictionSparesRunning ==
  [][\A d \in Deliveries :
        (pc[d] = "running" /\ session[d] \in stored) => session[d] \in stored']_vars

\* A redelivery is declined until MaxSeen other events have been accepted.
RedeliveryDeclined ==
  \A i, j \in DOMAIN accepted :
     (i < j /\ accepted[i] = accepted[j]) => j - i > MaxSeen

\* "on timeout we bail so a stuck agent can't block further messages from this
\* user": with dispatches that may never end, an event still gets its turn or
\* a busy reply.
NobodyWaits == \A d \in Deliveries : pc[d] \in {"idle", "running", "done"}

NobodyIsBlocked == []<>NobodyWaits

=============================================================================

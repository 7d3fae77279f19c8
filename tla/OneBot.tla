------------------------------- MODULE OneBot -------------------------------
(* The OneBot adapter (adapters/onebot/.../adapter.py): a WebSocket that       *)
(* reconnects with backoff, a reader that gives every frame a task of its own, *)
(* calls matched with their answers by an echo, and stop().                    *)
(* A step is what runs between two awaits. Event n is the n-th event frame     *)
(* read; a caller makes one call, so it stands for the call's echo.            *)
EXTENDS Integers, Sequences, FiniteSets

CONSTANTS
  Callers,     \* the coroutines that send
  Urls,        \* the remote pictures they send
  Fallback,    \* TRUE when the fallback text is not empty
  CacheSize,   \* entries of the preflight cache
  MaxBackoff,  \* the cap of the backoff, in multiples of the initial one
  MaxFrames,   \* bound: event frames
  MaxDrops     \* bound: connections lost or refused

VARIABLES
  running, stopping,  \* run()'s flag, and how far stop() is
  conn,               \* where run() is: "off", "opening", "up", "sleeping", "ended"
  backoff,            \* the next delay
  pc, job, result,    \* each caller's place, what it sends and what it got
  pending,            \* callers whose future is registered, and not drained
  reply,              \* what a resolved future holds, until its caller runs again
  wire,               \* requests the peer has and did not answer
  ready,              \* dispatch tasks not started, in the order they were created
  working,            \* started dispatch tasks, and what they still have to publish
  cache,              \* the preflight cache, oldest entry first
  log,                \* history: what was given to the subscribers
  frames, drops       \* event frames read and connections lost

link == <<running, conn, backoff, drops>>
calls == <<pc, job, result, pending, reply, wire, cache>>
tasks == <<ready, working, log, frames>>
vars == <<stopping, link, calls, tasks>>

Kinds == {"message", "notice", "poke", "request", "meta"}

\* What a frame of each kind publishes, in order: the structured event, then the
\* message that imitates a QRSpeed trigger.
Shapes(kind) ==
  CASE kind = "message" -> <<"message">>
    [] kind = "notice" -> <<"notice">>
    [] kind = "poke" -> <<"notice", "synthetic">>
    [] kind = "request" -> <<"synthetic">>
    [] kind = "meta" -> <<>>

\* A fresh adapter, with a number of event frames and calls already behind it.
InitAfter(n, gone) ==
  /\ running = FALSE /\ stopping = "no" /\ conn = "off" /\ backoff = 1
  /\ pc = [c \in Callers |-> IF c \in gone THEN "done" ELSE "idle"] /\ job = [c \in Callers |-> "api"]
  /\ result = [c \in Callers |-> "none"] /\ reply = [c \in Callers |-> "none"]
  /\ pending = {} /\ wire = {} /\ cache = <<>>
  /\ ready = <<>> /\ working = {} /\ log = <<>> /\ frames = n /\ drops = 0

Init == InitAfter(0, {})

--------------------------------------------------------------------------------
\* The connection.

Run ==
  /\ conn = "off" /\ stopping = "no"
  /\ running' = TRUE /\ conn' = "opening" /\ backoff' = 1
  /\ UNCHANGED <<stopping, drops, calls, tasks>>

Open ==
  /\ conn = "opening"
  /\ conn' = "up"
  /\ UNCHANGED <<stopping, running, backoff, drops, calls, tasks>>

\* run()'s handler of exceptions: sleep, then double.
Retry ==
  IF running THEN conn' = "sleeping" /\ UNCHANGED backoff
             ELSE conn' = "ended" /\ UNCHANGED backoff

\* The peer refuses the handshake; with 401 or 403 run() gives up.
Refuse(auth) ==
  /\ conn = "opening" /\ drops < MaxDrops
  /\ drops' = drops + 1
  /\ IF auth THEN conn' = "ended" /\ running' = FALSE /\ UNCHANGED backoff
             ELSE Retry /\ UNCHANGED running
  /\ UNCHANGED <<stopping, calls, tasks>>

WakeUp ==
  /\ conn = "sleeping"
  /\ conn' = IF running THEN "opening" ELSE "ended"
  /\ backoff' = IF 2 * backoff > MaxBackoff THEN MaxBackoff ELSE 2 * backoff
  /\ UNCHANGED <<stopping, running, drops, calls, tasks>>

\* _fail_pending: whoever waits gets the exception, unless it has its answer.
FailPending ==
  /\ reply' = [c \in Callers |-> IF c \in pending /\ reply[c] = "none" THEN "lost" ELSE reply[c]]
  /\ pending' = {}

\* The reader ends: an orderly close resets the backoff and reconnects at once.
\* What was written on this connection is not answered any more.
Hangup(orderly) ==
  /\ conn = "up"
  /\ FailPending
  /\ wire' = {}
  /\ IF orderly THEN conn' = (IF running THEN "opening" ELSE "ended") /\ backoff' = 1
                ELSE Retry
  /\ UNCHANGED <<running, pc, job, result, cache, tasks>>

Drop(orderly) ==
  /\ drops < MaxDrops /\ drops' = drops + 1
  /\ Hangup(orderly)
  /\ UNCHANGED stopping

--------------------------------------------------------------------------------
\* The reader and its tasks.

\* Bug: a frame read after stop() is dispatched like any other.
SpawnAlways(task) ==
  /\ conn = "up"
  /\ ready' = Append(ready, task)
  /\ UNCHANGED <<stopping, link, pc, job, result, pending, reply, cache, working, log>>

\* One frame read: a task of its own.
Spawn(task) ==
  /\ conn = "up" /\ running
  /\ ready' = Append(ready, task)
  /\ UNCHANGED <<stopping, link, pc, job, result, pending, reply, cache, working, log>>

ReadEvent(kind) ==
  /\ frames < MaxFrames /\ frames' = frames + 1
  /\ Spawn([what |-> "event", n |-> frames + 1, shapes |-> Shapes(kind)])
  /\ UNCHANGED wire

ReadAnswer(c, ok) ==
  /\ c \in wire /\ wire' = wire \ {c}
  /\ Spawn([what |-> "answer", of |-> c, ok |-> ok])
  /\ UNCHANGED frames

\* A frame that finds running down ends the reader, which closes the connection.
ReadAfterStop ==
  /\ ~running /\ (frames < MaxFrames \/ wire # {})
  /\ Hangup(TRUE)
  /\ UNCHANGED <<stopping, drops>>

\* Tasks start in the order they were created. An answer is delivered at once; an
\* event's first shape is given to the bus.
Start ==
  /\ ready # <<>> /\ ready' = Tail(ready)
  /\ LET task == Head(ready)
     IN \/ /\ task.what = "answer"
           /\ reply' = IF task.of \in pending /\ reply[task.of] = "none"
                       THEN [reply EXCEPT ![task.of] = IF task.ok THEN "ok" ELSE "rejected"]
                       ELSE reply
           /\ UNCHANGED <<working, log>>
        \/ /\ task.what = "event" /\ task.shapes = <<>>
           /\ UNCHANGED <<reply, working, log>>
        \/ /\ task.what = "event" /\ task.shapes # <<>>
           /\ log' = Append(log, <<task.n, Head(task.shapes)>>)
           /\ working' = working \cup {[n |-> task.n, left |-> Tail(task.shapes)]}
           /\ UNCHANGED reply
  /\ UNCHANGED <<stopping, link, pc, job, result, pending, wire, cache, frames>>

\* The subscribers are through with a shape (the bus swallows what they raise).
Handled(task) ==
  /\ task \in working
  /\ IF task.left = <<>>
     THEN working' = working \ {task} /\ UNCHANGED log
     ELSE /\ log' = Append(log, <<task.n, Head(task.left)>>)
          /\ working' = (working \ {task}) \cup {[task EXCEPT !.left = Tail(@)]}
  /\ UNCHANGED <<stopping, link, calls, ready, frames>>

--------------------------------------------------------------------------------
\* Calls.

End(c, r) == pc' = [pc EXCEPT ![c] = "done"] /\ result' = [result EXCEPT ![c] = r]

\* _cache_preflight: evict the oldest at the cap, then insert or overwrite.
Cached(url, ok) ==
  LET kept == IF Len(cache) >= CacheSize THEN Tail(cache) ELSE cache
      entry == [url |-> url, ok |-> ok]
  IN IF \E n \in DOMAIN kept : kept[n].url = url
     THEN [n \in DOMAIN kept |-> IF kept[n].url = url THEN entry ELSE kept[n]]
     ELSE Append(kept, entry)

\* call_api up to its first await: the frame is written.
Write(c) ==
  IF conn = "up"
  THEN /\ pc' = [pc EXCEPT ![c] = "writing"] /\ wire' = wire \cup {c}
       /\ UNCHANGED result
  ELSE End(c, "closed") /\ UNCHANGED wire

\* A picture that cannot be had is replaced by the fallback text; a message of
\* which nothing is left is an error of send().
Prepared(c, ok) ==
  IF ok \/ Fallback THEN Write(c) ELSE End(c, "empty") /\ UNCHANGED wire

\* call_api of a tool ("api"), or send() of a text or of one remote picture.
Call(c, what) ==
  /\ pc[c] = "idle" /\ job' = [job EXCEPT ![c] = what]
  /\ \/ what \notin Urls /\ Write(c)
     \/ \E n \in DOMAIN cache : cache[n].url = what /\ what \in Urls /\ Prepared(c, cache[n].ok)
     \/ /\ what \in Urls /\ \A n \in DOMAIN cache : cache[n].url # what
        /\ pc' = [pc EXCEPT ![c] = "fetching"]
        /\ UNCHANGED <<result, wire>>
  /\ UNCHANGED <<stopping, link, pending, reply, cache, tasks>>

Fetch(c, ok) ==
  /\ pc[c] = "fetching"
  /\ cache' = Cached(job[c], ok)
  /\ Prepared(c, ok)
  /\ UNCHANGED <<stopping, link, job, pending, reply, tasks>>

\* An entry's time to live passes: the next look removes it.
Expire(n) ==
  /\ n \in DOMAIN cache
  /\ cache' = [i \in 1..(Len(cache) - 1) |-> IF i < n THEN cache[i] ELSE cache[i + 1]]
  /\ UNCHANGED <<stopping, link, pc, job, result, pending, reply, wire, tasks>>

\* ws.send() returns and the future is registered. The answer may be there
\* already, and the connection may be gone: ws.send() then raises, unless the
\* frame was out.
Register(c) ==
  /\ pc[c] = "writing"
  /\ pc' = [pc EXCEPT ![c] = "waiting"] /\ pending' = pending \cup {c}
  /\ UNCHANGED <<stopping, link, job, result, reply, wire, cache, tasks>>

WriteFails(c) ==
  /\ pc[c] = "writing" /\ conn # "up"
  /\ End(c, "lost")
  /\ UNCHANGED <<stopping, link, job, pending, reply, wire, cache, tasks>>

\* The caller runs again with its answer; send() turns a rejection into an error.
Answered(c) ==
  /\ pc[c] = "waiting" /\ reply[c] # "none"
  /\ End(c, reply[c])
  /\ pending' = pending \ {c}
  /\ UNCHANGED <<stopping, link, job, reply, wire, cache, tasks>>

\* Five seconds pass: call_api returns a failure.
TimeOut(c) ==
  /\ pc[c] = "waiting"
  /\ End(c, "timeout")
  /\ pending' = pending \ {c}
  /\ UNCHANGED <<stopping, link, job, reply, wire, cache, tasks>>

--------------------------------------------------------------------------------
\* stop(): take the flag down and close; fail the waiters; cancel the tasks.

Stop ==
  /\ stopping = "no" /\ running
  /\ running' = FALSE
  /\ stopping' = IF conn = "up" THEN "closing" ELSE "draining"
  /\ UNCHANGED <<conn, backoff, drops, calls, tasks>>

\* The close handshake is over: the reader's loop ends like after an orderly close.
Closed ==
  /\ stopping = "closing"
  /\ stopping' = "draining"
  /\ IF conn = "up" THEN Hangup(TRUE) ELSE UNCHANGED <<running, conn, backoff, calls, tasks>>
  /\ UNCHANGED drops

Drain ==
  /\ stopping = "draining"
  /\ FailPending
  /\ ready' = <<>> /\ working' = {}
  /\ stopping' = "done"
  /\ UNCHANGED <<link, pc, job, result, wire, cache, log, frames>>

--------------------------------------------------------------------------------
Work(c) == Register(c) \/ WriteFails(c) \/ Answered(c) \/ TimeOut(c) \/ \E ok \in BOOLEAN : Fetch(c, ok)

Next ==
  \/ Run \/ Open \/ WakeUp \/ Stop \/ Closed \/ Drain \/ ReadAfterStop \/ Start
  \/ \E b \in BOOLEAN : Refuse(b) \/ Drop(b)
  \/ \E kind \in Kinds : ReadEvent(kind)
  \/ \E c \in Callers, ok \in BOOLEAN : ReadAnswer(c, ok)
  \/ \E task \in working : Handled(task)
  \/ \E c \in Callers, what \in {"api", "text"} \cup Urls : Call(c, what)
  \/ \E n \in 1..CacheSize : Expire(n)
  \/ \E c \in Callers : Work(c)

\* Callers are coroutines of the event loop, and their waits have timers.
Fairness == WF_vars(\E c \in Callers : Work(c))

Spec == Init /\ [][Next]_vars /\ Fairness

--------------------------------------------------------------------------------
Outcomes == {"none", "ok", "rejected", "lost", "timeout", "closed", "empty"}

\* The type invariant: places, outcomes, and a cache with one entry per picture
\* and within its size.
TypeOK ==
  /\ running \in BOOLEAN /\ stopping \in {"no", "closing", "draining", "done"}
  /\ conn \in {"off", "opening", "up", "sleeping", "ended"} /\ backoff \in 1..MaxBackoff
  /\ pc \in [Callers -> {"idle", "fetching", "writing", "waiting", "done"}]
  /\ job \in [Callers -> {"api", "text"} \cup Urls] /\ result \in [Callers -> Outcomes]
  /\ reply \in [Callers -> {"none", "ok", "rejected", "lost"}]
  /\ pending \subseteq {c \in Callers : pc[c] = "waiting"} /\ wire \subseteq Callers
  /\ Len(cache) <= CacheSize
  /\ \A m, n \in DOMAIN cache : m # n => cache[m].url # cache[n].url
  /\ frames \in 0..MaxFrames /\ drops \in 0..MaxDrops
  /\ \A task \in working : task.n \in 1..frames

\* The first that the log has of its event.
Foremost(i) == \A k \in 1..(i - 1) : log[k][1] # log[i][1]

\* Frames are handed to tasks, and still every event reaches the subscribers in
\* the order it was read, once, and a notice before the message made from it
\* (_spawn_dispatch, _dispatch, EventBus.publish).
InOrder ==
  \A i, j \in DOMAIN log :
    i < j => /\ log[i] # log[j]
             /\ Foremost(i) /\ Foremost(j) => log[i][1] < log[j][1]
             /\ log[i][1] = log[j][1] => log[j][2] = "synthetic"

\* Once stop() has returned no event is handled, whatever run() was doing when it
\* was called: a handshake under way may still succeed and frames may still come.
StopIsQuiet == stopping = "done" => ready = <<>> /\ working = {}

\* No call is under way: whatever happens to the connection, to the answer and to
\* the adapter, nobody waits for an answer that cannot come (call_api).
AtRest == \A c \in Callers : pc[c] \in {"idle", "done"}

CallsEnd == []<>AtRest
================================================================================

------------------------------- MODULE Images -------------------------------
(* ImageContentResolver (images.py): turns of several conversations ask one         *)
(* resolver for pictures. A picture is downloaded once however many ask for it; the *)
(* first to ask owns the download and its future, the others await the future. Each *)
(* task asks once. A step is an await.                                              *)
EXTENDS Integers, Sequences, FiniteSets

CONSTANTS Tasks, Urls, CacheMax, NoTask

VARIABLES
  pc,        \* "idle", "owner", "waiter" or "done"
  url,
  joined,    \* the owner whose future the task awaits
  future,    \* of each owner: "open", "image", "none" or "cancelled"
  inflight,  \* _inflight: the owner of each url's download, or NoTask
  cache,     \* _cache: the oldest entry first
  outcome,   \* "image", "none", or "cancelled"
  told       \* history: the tasks that were cancelled by their caller

vars == <<pc, url, joined, future, inflight, cache, outcome, told>>

Init ==
  /\ pc = [t \in Tasks |-> "idle"] /\ url \in [Tasks -> Urls]
  /\ joined = [t \in Tasks |-> NoTask] /\ future = [t \in Tasks |-> "open"]
  /\ inflight = [u \in Urls |-> NoTask] /\ cache = <<>>
  /\ outcome = [t \in Tasks |-> "open"] /\ told = {}

\* What a reference comes to: base64, data, http, file, or a path, within MAX_BYTES;
\* every failure is "none".
Answers == {"image", "none"}

Cached(u) == \E i \in DOMAIN cache : cache[i].url = u
Place(u) == CHOOSE i \in DOMAIN cache : cache[i].url = u
Without(u) == IF Cached(u) THEN SubSeq(cache, 1, Place(u) - 1) \o SubSeq(cache, Place(u) + 1, Len(cache)) ELSE cache
Kept(u) == cache[Place(u)]

End(t, how) == /\ pc' = [pc EXCEPT ![t] = "done"] /\ outcome' = [outcome EXCEPT ![t] = how]

--------------------------------------------------------------------------------
\* resolve: a cached answer, even that of a failure, is moved to the tail.
Hit(t) ==
  /\ pc[t] = "idle" /\ Cached(url[t])
  /\ cache' = Append(Without(url[t]), Kept(url[t])) /\ End(t, Kept(url[t]).as)
  /\ UNCHANGED <<url, joined, future, inflight, told>>

Join(t) ==
  /\ pc[t] = "idle" /\ ~Cached(url[t]) /\ inflight[url[t]] # NoTask
  /\ joined' = [joined EXCEPT ![t] = inflight[url[t]]] /\ pc' = [pc EXCEPT ![t] = "waiter"]
  /\ UNCHANGED <<url, future, inflight, cache, outcome, told>>

Own(t) ==
  /\ pc[t] = "idle" /\ ~Cached(url[t]) /\ inflight[url[t]] = NoTask
  /\ inflight' = [inflight EXCEPT ![url[t]] = t] /\ pc' = [pc EXCEPT ![t] = "owner"]
  /\ UNCHANGED <<url, joined, future, cache, outcome, told>>

\* What the future is settled with; those who await a cancelled download get nothing.
Settled(t, as) == IF future[t] # "open" THEN future[t] ELSE IF as = "cancelled" THEN "none" ELSE as

Release(t) == inflight' = [inflight EXCEPT ![url[t]] = NoTask]

\* The download ends or fails (_resolve_uncached); the least recently used goes.
Fetched(t, as) ==
  /\ pc[t] = "owner"
  /\ future' = [future EXCEPT ![t] = Settled(t, as)]
  /\ LET longer == Append(Without(url[t]), [url |-> url[t], as |-> as])
     IN cache' = IF Len(longer) > CacheMax THEN Tail(longer) ELSE longer
  /\ Release(t) /\ End(t, as)
  /\ UNCHANGED <<url, joined, told>>

CancelOwner(t) ==
  /\ pc[t] = "owner" /\ told' = told \cup {t}
  /\ future' = [future EXCEPT ![t] = Settled(t, "cancelled")]
  /\ Release(t) /\ End(t, "cancelled")
  /\ UNCHANGED <<url, joined, cache>>

\* Bug: a waiter that is cancelled ends the download's registration too.
ReleaseByWaiter(t) == inflight' = [inflight EXCEPT ![url[t]] = NoTask]

LetBe(t) == UNCHANGED inflight

\* A task cancelled in `await future` cancels the future itself.
CancelWaiter(t) ==
  /\ pc[t] = "waiter" /\ told' = told \cup {t}
  /\ future' = [future EXCEPT ![joined[t]] = IF @ = "open" THEN "cancelled" ELSE @]
  /\ LetBe(t) /\ End(t, "cancelled")
  /\ UNCHANGED <<url, joined, cache>>

Wake(t) ==
  /\ pc[t] = "waiter" /\ future[joined[t]] # "open"
  /\ End(t, future[joined[t]])
  /\ UNCHANGED <<url, joined, future, inflight, cache, told>>

Next == \E t \in Tasks :
  \/ Hit(t) \/ Join(t) \/ Own(t) \/ CancelOwner(t) \/ CancelWaiter(t) \/ Wake(t)
  \/ \E as \in Answers : Fetched(t, as)

\* A download ends by its timeout; the loop runs what is ready.
Ending == \E t \in Tasks : Wake(t) \/ \E as \in Answers : Fetched(t, as)
Fairness == WF_vars(Ending)

Spec == Init /\ [][Next]_vars /\ Fairness

--------------------------------------------------------------------------------
\* The type invariant: the cache is bounded and has one entry for a url.
TypeOK ==
  /\ Len(cache) <= CacheMax /\ \A i, j \in DOMAIN cache : cache[i].url = cache[j].url => i = j
  /\ \A t \in Tasks : pc[t] = "waiter" => joined[t] \in Tasks \ {t} /\ url[joined[t]] = url[t]

\* However tasks join, end and are cancelled, a url is downloaded at most once at
\* a time and never while its answer is cached.
OneDownload == \A t \in Tasks : pc[t] = "owner" => inflight[url[t]] = t /\ ~Cached(url[t])

\* Nobody who asked for a picture waits for ever (the comment in resolve: settling
\* the future "keeps any coroutine that deduped onto us from hanging forever").
AtRest == \A t \in Tasks : pc[t] \in {"idle", "done"}

AsksEnd == []<>AtRest

\* resolve: "this method never raises", but for the cancellation of its own caller.
OnlyToldAreCancelled == \A t \in Tasks : outcome[t] = "cancelled" => t \in told
================================================================================

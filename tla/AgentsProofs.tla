---------------------------- MODULE AgentsProofs ----------------------------
(* What seven parts of MCAgents promise for any tasks, urls, pictures, faults,     *)
(* users, facts, rounds, times and window, days, answers and turns to keep, any    *)
(* callers, frames, lost connections and cache sizes, and any rule files, edits    *)
(* and jobs: Images, Stickers, Profiles, Attention, DailySummary, OneBot and       *)
(* Lifecycle. Each has an inductive invariant of its own; the parts share no       *)
(* variable, so the conjunction of the invariants is one of the whole.             *)
EXTENDS MCAgents, SequenceTheorems, FiniteSetTheorems, TLAPS

\* In a step one part moves, or none does.
LEMMA StepOfOne ==
  ASSUME [Next]_vars
  PROVE  /\ Downloads!Next \/ UNCHANGED images
         /\ Album!Next \/ UNCHANGED stickers
         /\ Notes!Next \/ UNCHANGED profiles
         /\ Hearing!Next \/ UNCHANGED attention
         /\ Days!Next \/ UNCHANGED days
         /\ Adapter!Next \/ UNCHANGED adapter
         /\ Process!Next \/ UNCHANGED process
<1>1. CASE UNCHANGED vars
  BY <1>1 DEF vars
<1>2. CASE Next
  BY <1>2 DEF Next
<1> QED
  BY <1>1, <1>2

--------------------------------------------------------------------------------
(* Images. *)

Entries == [url : Urls, as : Downloads!Answers]
Placed(c) == \A i, j \in 1..Len(c) : c[i].url = c[j].url => i = j

\* A task in its download is the one registered for its url, and the registered one
\* is in its download; nothing that is being downloaded is cached.
Registered ==
  /\ \A t \in Askers : asker[t] = "owner" =>
       inflight[url[t]] = t /\ \A i \in 1..Len(cache) : cache[i].url # url[t]
  /\ \A u \in Urls : inflight[u] # NoTask =>
       inflight[u] \in Askers /\ asker[inflight[u]] = "owner" /\ url[inflight[u]] = u
  /\ \A t \in Askers : asker[t] = "waiter" => joined[t] \in Askers \ {t} /\ url[joined[t]] = url[t]

ImagesInv ==
  /\ asker \in [Askers -> {"idle", "owner", "waiter", "done"}] /\ url \in [Askers -> Urls]
  /\ joined \in [Askers -> Askers \cup {NoTask}] /\ inflight \in [Urls -> Askers \cup {NoTask}]
  /\ cache \in Seq(Entries) /\ Len(cache) <= CacheMax /\ Placed(cache)
  /\ Registered

\* A sequence without one of its elements.
LEMMA Removed ==
  ASSUME NEW E, NEW s \in Seq(E), NEW i \in 1..Len(s),
         NEW t, t = SubSeq(s, 1, i - 1) \o SubSeq(s, i + 1, Len(s))
  PROVE  /\ t \in Seq(E) /\ Len(t) = Len(s) - 1
         /\ \A j \in 1..Len(s) - 1 : t[j] = IF j < i THEN s[j] ELSE s[j + 1]
<1> DEFINE a == SubSeq(s, 1, i - 1)
           b == SubSeq(s, i + 1, Len(s))
<1>1. Len(s) \in Nat /\ i \in Nat /\ 1 <= i /\ i <= Len(s) /\ \A j \in 1..Len(s) : s[j] \in E
  BY ElementOfSeq, LenProperties
<1>2. a \in Seq(E) /\ Len(a) = i - 1 /\ \A j \in 1..i - 1 : a[j] = s[j]
  <2>1. \A j \in 1..i - 1 : s[j] \in E
    BY <1>1
  <2>2. /\ a \in Seq(E) /\ Len(a) = IF 1 <= i - 1 THEN i - 1 - 1 + 1 ELSE 0
        /\ \A j \in 1..i - 1 - 1 + 1 : a[j] = s[1 + j - 1]
    BY <1>1, <2>1, SubSeqProperties
  <2> QED
    BY <1>1, <2>2
<1>3. b \in Seq(E) /\ Len(b) = Len(s) - i /\ \A j \in 1..Len(s) - i : b[j] = s[i + j]
  <2>1. \A j \in i + 1..Len(s) : s[j] \in E
    BY <1>1
  <2>2. /\ b \in Seq(E) /\ Len(b) = IF i + 1 <= Len(s) THEN Len(s) - (i + 1) + 1 ELSE 0
        /\ \A j \in 1..Len(s) - (i + 1) + 1 : b[j] = s[i + 1 + j - 1]
    BY <1>1, <2>1, SubSeqProperties
  <2> QED
    BY <1>1, <2>2
<1> HIDE DEF a, b
<1>4. /\ a \o b \in Seq(E) /\ Len(a \o b) = Len(a) + Len(b)
      /\ \A j \in 1..Len(a) + Len(b) : (a \o b)[j] = IF j <= Len(a) THEN a[j] ELSE b[j - Len(a)]
  BY <1>2, <1>3, ConcatProperties
<1>5. t = a \o b
  BY DEF a, b
<1>6. Len(a \o b) = Len(s) - 1
  BY <1>1, <1>2, <1>3, <1>4
<1>7. ASSUME NEW j \in 1..Len(s) - 1
      PROVE  (a \o b)[j] = IF j < i THEN s[j] ELSE s[j + 1]
  <2>1. j \in Nat /\ (a \o b)[j] = IF j <= Len(a) THEN a[j] ELSE b[j - Len(a)]
    BY <1>1, <1>2, <1>3, <1>4
  <2>2. CASE j < i
    BY <1>1, <1>2, <2>1, <2>2
  <2>3. CASE i <= j
    <3>1. j - Len(a) = j + 1 - i /\ j + 1 - i \in 1..Len(s) - i /\ i + (j + 1 - i) = j + 1
      BY <1>1, <1>2, <2>1, <2>3
    <3> QED
      BY <1>1, <1>2, <1>3, <2>1, <2>3, <3>1
  <2> QED
    BY <1>1, <2>1, <2>2, <2>3
<1> QED
  BY <1>4, <1>5, <1>6, <1>7

\* The cache without the entry of a url, and with a new one at its tail.
LEMMA CacheKept ==
  ASSUME cache \in Seq(Entries), Placed(cache), NEW u \in Urls, NEW e \in Entries, e.url = u,
         NEW w, w = Downloads!Without(u)
  PROVE  /\ w \in Seq(Entries) /\ Append(w, e) \in Seq(Entries) /\ Len(Append(w, e)) = Len(w) + 1
         /\ Placed(Append(w, e)) /\ Append(w, e)[Len(w) + 1] = e
         /\ Len(w) = (IF Downloads!Cached(u) THEN Len(cache) - 1 ELSE Len(cache))
         /\ \A i \in 1..Len(w) : Append(w, e)[i] = w[i]
         /\ \A i \in 1..Len(w) : w[i].url # u /\ \E j \in 1..Len(cache) : w[i] = cache[j]
<1>1. Len(cache) \in Nat /\ DOMAIN cache = 1..Len(cache) /\ \A i \in 1..Len(cache) : cache[i] \in Entries
  BY LenProperties, ElementOfSeq
<1>2. /\ w \in Seq(Entries) /\ Len(w) = (IF Downloads!Cached(u) THEN Len(cache) - 1 ELSE Len(cache))
      /\ \A i \in 1..Len(w) : w[i].url # u /\ \E j \in 1..Len(cache) : w[i] = cache[j]
      /\ Placed(w)
  <2>1. CASE Downloads!Cached(u)
    <3> DEFINE p == Downloads!Place(u)
    <3>1. p \in 1..Len(cache) /\ cache[p].url = u
      BY <1>1, <2>1 DEF Downloads!Cached, Downloads!Place
    <3>2. w = SubSeq(cache, 1, p - 1) \o SubSeq(cache, p + 1, Len(cache))
      BY <2>1 DEF Downloads!Without
    <3> HIDE DEF p
    <3>3. /\ w \in Seq(Entries) /\ Len(w) = Len(cache) - 1
          /\ \A j \in 1..Len(cache) - 1 : w[j] = IF j < p THEN cache[j] ELSE cache[j + 1]
      BY <3>1, <3>2, Removed
    <3>4. \A i \in 1..Len(w) : \E j \in 1..Len(cache) : j # p /\ w[i] = cache[j] /\ j = IF i < p THEN i ELSE i + 1
      BY <1>1, <3>1, <3>3
    <3>5. \A i \in 1..Len(w) : w[i].url # u
      BY <3>1, <3>4 DEF Placed
    <3>6. Placed(w)
      BY <1>1, <3>1, <3>3, <3>4 DEF Placed
    <3> QED
      BY <2>1, <3>3, <3>4, <3>5, <3>6
  <2>2. CASE ~Downloads!Cached(u)
    BY <1>1, <2>2 DEF Downloads!Cached, Downloads!Without
  <2> QED
    BY <2>1, <2>2
<1>3. /\ Append(w, e) \in Seq(Entries) /\ Len(Append(w, e)) = Len(w) + 1
      /\ \A i \in 1..Len(w) : Append(w, e)[i] = w[i]
      /\ Append(w, e)[Len(w) + 1] = e
  BY <1>2, AppendProperties
<1>4. Len(w) \in Nat
  BY <1>2, LenProperties
<1>5. Placed(Append(w, e))
  <2> DEFINE l == Append(w, e)
  <2>1. l[Len(w) + 1].url = u /\ \A i \in 1..Len(w) : l[i] = w[i] /\ l[i].url # u
    BY <1>2, <1>3
  <2>2. \A i \in 1..Len(l) : i \in 1..Len(w) \/ i = Len(w) + 1
    BY <1>3, <1>4
  <2> HIDE DEF l
  <2>3. ASSUME NEW i \in 1..Len(l), NEW j \in 1..Len(l), l[i].url = l[j].url PROVE i = j
    <3>1. CASE i = Len(w) + 1 \/ j = Len(w) + 1
      BY <2>1, <2>2, <2>3, <3>1
    <3>2. CASE i \in 1..Len(w) /\ j \in 1..Len(w)
      <4>1. w[i].url = w[j].url
        BY <2>1, <2>3, <3>2
      <4> QED
        BY <1>2, <3>2, <4>1 DEF Placed
    <3> QED
      BY <2>2, <3>1, <3>2
  <2> QED
    BY <2>3 DEF Placed, l
<1> QED
  BY <1>2, <1>3, <1>5

LEMMA ImagesInit == ASSUME Downloads!Init PROVE ImagesInv
<1>1. cache = <<>> /\ cache \in Seq(Entries) /\ Len(cache) = 0
  BY DEF Downloads!Init
<1> QED
  BY <1>1, PicturesAssumption DEF Downloads!Init, ImagesInv, Registered, Placed

LEMMA ImagesStep ==
  ASSUME ImagesInv, Downloads!Next \/ UNCHANGED images
  PROVE  ImagesInv'
<1>0. CASE UNCHANGED images
  BY <1>0 DEF images, ImagesInv, Registered, Placed
<1> USE DEF ImagesInv
<1> SUFFICES ASSUME NEW t \in Askers,
                    \/ Downloads!Hit(t) \/ Downloads!Join(t) \/ Downloads!Own(t) \/ Downloads!CancelOwner(t)
                    \/ Downloads!CancelWaiter(t) \/ Downloads!Wake(t)
                    \/ \E a \in Downloads!Answers : Downloads!Fetched(t, a)
             PROVE  ImagesInv'
  BY <1>0 DEF Downloads!Next
<1>a. Len(cache) \in Nat /\ DOMAIN cache = 1..Len(cache) /\ \A i \in 1..Len(cache) : cache[i] \in Entries
  BY LenProperties, ElementOfSeq
<1>b. url[t] \in Urls /\ NoTask \notin Askers /\ CacheMax \in Nat
  BY PicturesAssumption
<1>1. CASE Downloads!Hit(t)
  <2> DEFINE u == url[t]
             e == cache[Downloads!Place(u)]
             w == Downloads!Without(u)
  <2>1. Downloads!Cached(u) /\ cache' = Append(w, e) /\ asker' = [asker EXCEPT ![t] = "done"]
    BY <1>1 DEF Downloads!Hit, Downloads!End, Downloads!Kept
  <2>2. e \in Entries /\ e.url = u /\ \E j \in 1..Len(cache) : e = cache[j]
    BY <1>a, <2>1 DEF Downloads!Cached, Downloads!Place
  <2>3. UNCHANGED <<url, joined, inflight>>
    BY <1>1 DEF Downloads!Hit
  <2> HIDE DEF e, u, w
  <2>4. /\ w \in Seq(Entries) /\ cache' \in Seq(Entries) /\ Len(cache') = Len(w) + 1 /\ Placed(cache')
        /\ Len(w) = Len(cache) - 1 /\ cache'[Len(w) + 1] = e
        /\ \A i \in 1..Len(w) : cache'[i] = w[i] /\ \E j \in 1..Len(cache) : w[i] = cache[j]
    BY <1>b, <2>1, <2>2, CacheKept DEF u, w
  <2>5. Len(cache') <= CacheMax
    BY <1>a, <1>b, <2>4
  <2>6. \A i \in 1..Len(cache') : \E j \in 1..Len(cache) : cache'[i] = cache[j]
    BY <1>a, <2>2, <2>4
  <2>7. Registered'
    <3>0. asker[t] = "idle" /\ \A s \in Askers : asker'[s] = IF s = t THEN "done" ELSE asker[s]
      BY <1>1, <2>1 DEF Downloads!Hit
    <3>1. ASSUME NEW s \in Askers, asker'[s] = "owner"
          PROVE  inflight'[url'[s]] = s /\ \A i \in 1..Len(cache') : cache'[i].url # url'[s]
      <4>1. asker[s] = "owner" /\ url' = url /\ inflight' = inflight
        BY <2>3, <3>0, <3>1
      <4>2. inflight[url[s]] = s /\ \A i \in 1..Len(cache) : cache[i].url # url[s]
        BY <4>1 DEF Registered
      <4> QED
        BY <2>6, <4>1, <4>2
    <3>2. \A v \in Urls : inflight'[v] # NoTask =>
            inflight'[v] \in Askers /\ asker'[inflight'[v]] = "owner" /\ url'[inflight'[v]] = v
      BY <2>3, <3>0 DEF Registered
    <3>3. \A s \in Askers : asker'[s] = "waiter" => joined'[s] \in Askers \ {s} /\ url'[joined'[s]] = url'[s]
      BY <2>3, <3>0 DEF Registered
    <3> QED
      BY <3>1, <3>2, <3>3 DEF Registered
  <2> QED
    BY <2>1, <2>3, <2>4, <2>5, <2>7
<1>2. CASE Downloads!Join(t)
  <2>1. /\ asker' = [asker EXCEPT ![t] = "waiter"] /\ joined' = [joined EXCEPT ![t] = inflight[url[t]]]
        /\ asker[t] = "idle" /\ inflight[url[t]] # NoTask /\ UNCHANGED <<url, inflight, cache>>
    BY <1>2 DEF Downloads!Join
  <2>2. Registered'
    BY <1>b, <2>1 DEF Registered
  <2> QED
    BY <1>b, <2>1, <2>2 DEF Placed
<1>3. CASE Downloads!Own(t)
  <2>1. /\ asker' = [asker EXCEPT ![t] = "owner"] /\ inflight' = [inflight EXCEPT ![url[t]] = t]
        /\ asker[t] = "idle" /\ inflight[url[t]] = NoTask /\ UNCHANGED <<url, joined, cache>>
    BY <1>3 DEF Downloads!Own
  <2>2. \A i \in 1..Len(cache) : cache[i].url # url[t]
    BY <1>3, <1>a DEF Downloads!Own, Downloads!Cached
  <2>3. Registered'
    BY <1>b, <2>1, <2>2 DEF Registered
  <2> QED
    BY <2>1, <2>3 DEF Placed
<1>4. ASSUME NEW a \in Downloads!Answers, Downloads!Fetched(t, a) PROVE ImagesInv'
  <2> DEFINE u == url[t]
             e == [url |-> u, as |-> a]
             w == Downloads!Without(u)
             longer == Append(w, e)
  <2>1. /\ asker[t] = "owner" /\ asker' = [asker EXCEPT ![t] = "done"]
        /\ inflight' = [inflight EXCEPT ![u] = NoTask] /\ UNCHANGED <<url, joined>>
        /\ cache' = IF Len(longer) > CacheMax THEN Tail(longer) ELSE longer
    BY <1>4 DEF Downloads!Fetched, Downloads!End, Downloads!Release
  <2>2. e \in Entries /\ e.url = u
    BY <1>b DEF Entries
  <2> HIDE DEF e, u, w
  <2>3. /\ w \in Seq(Entries) /\ longer \in Seq(Entries) /\ Len(longer) = Len(w) + 1 /\ Placed(longer)
        /\ Len(w) <= Len(cache) /\ longer[Len(w) + 1] = e
        /\ \A i \in 1..Len(w) : longer[i] = w[i] /\ \E j \in 1..Len(cache) : w[i] = cache[j]
    <3>1. u \in Urls /\ e \in Entries /\ e.url = u /\ cache \in Seq(Entries) /\ Placed(cache)
      BY <1>b, <2>2 DEF u
    <3>2. w = Downloads!Without(u)
      BY DEF w
    <3>3. Len(w) = (IF Downloads!Cached(u) THEN Len(cache) - 1 ELSE Len(cache))
      BY <3>1, <3>2, CacheKept
    <3>4. /\ w \in Seq(Entries) /\ longer \in Seq(Entries) /\ Len(longer) = Len(w) + 1
          /\ Placed(longer) /\ longer[Len(w) + 1] = e
          /\ \A i \in 1..Len(w) : longer[i] = w[i]
          /\ \A i \in 1..Len(w) : \E j \in 1..Len(cache) : w[i] = cache[j]
      BY <3>1, <3>2, CacheKept
    <3>5. Len(w) <= Len(cache)
      <4>1. Len(w) = Len(cache) - 1 \/ Len(w) = Len(cache)
        BY <3>3
      <4>2. Len(cache) \in Nat
        BY <1>a
      <4> HIDE DEF longer, ImagesInv
      <4> QED
        BY <4>1, <4>2
    <3> QED
      BY <3>4, <3>5
  <2> HIDE DEF longer
  <2>4. \A i \in 1..Len(longer) : longer[i].url = u \/ \E j \in 1..Len(cache) : longer[i] = cache[j]
    BY <1>a, <2>2, <2>3
  <2>5. /\ cache' \in Seq(Entries) /\ Len(cache') <= CacheMax /\ Placed(cache')
        /\ \A i \in 1..Len(cache') : \E j \in 1..Len(longer) : cache'[i] = longer[j]
    <3>0. Len(w) \in Nat /\ longer # <<>>
      BY <2>3, LenProperties
    <3>1. CASE Len(longer) > CacheMax
      <4>1. /\ Tail(longer) \in Seq(Entries) /\ Len(Tail(longer)) = Len(longer) - 1
            /\ \A i \in 1..Len(Tail(longer)) : Tail(longer)[i] = longer[i + 1]
        BY <2>3, <3>0, HeadTailProperties
      <4>2. \A i \in 1..Len(Tail(longer)) : i + 1 \in 1..Len(longer)
        BY <2>3, <3>0, <4>1
      <4>3. cache' = Tail(longer)
        BY <2>1, <3>1
      <4>4. Len(cache') <= CacheMax
        BY <1>a, <1>b, <2>3, <3>0, <4>1, <4>3
      <4>5. \A i \in 1..Len(cache') : cache'[i] = longer[i + 1] /\ i + 1 \in 1..Len(longer)
        BY <4>1, <4>2, <4>3
      <4>6. Placed(cache')
        <5>1. Len(cache') \in Nat
          BY <3>0, <2>3, <4>1, <4>3
        <5>2. ASSUME NEW i \in 1..Len(cache'), NEW j \in 1..Len(cache'), cache'[i].url = cache'[j].url
              PROVE  i = j
          <6>1. longer[i + 1].url = longer[j + 1].url /\ i + 1 \in 1..Len(longer) /\ j + 1 \in 1..Len(longer)
            BY <4>5, <5>2
          <6>2. i + 1 = j + 1
            BY <2>3, <6>1 DEF Placed
          <6> QED
            BY <5>1, <6>2
        <5> QED
          BY <5>2 DEF Placed
      <4> QED
        BY <4>1, <4>3, <4>4, <4>5, <4>6
    <3>2. CASE ~(Len(longer) > CacheMax)
      BY <1>b, <2>1, <2>3, <3>0, <3>2
    <3> QED
      BY <3>1, <3>2
  <2>6. \A i \in 1..Len(cache') : cache'[i].url = u \/ \E j \in 1..Len(cache) : cache'[i] = cache[j]
    BY <2>4, <2>5
  <2>7. Registered'
    <3>0. \A s \in Askers : asker'[s] = IF s = t THEN "done" ELSE asker[s]
      BY <2>1
    <3>1. \A v \in Urls : inflight'[v] = IF v = u THEN NoTask ELSE inflight[v]
      BY <1>b, <2>1 DEF u
    <3>2. inflight[u] = t
      BY <2>1 DEF Registered, u
    <3>3. ASSUME NEW s \in Askers, asker'[s] = "owner"
          PROVE  inflight'[url'[s]] = s /\ \A i \in 1..Len(cache') : cache'[i].url # url'[s]
      <4>1. s # t /\ asker[s] = "owner" /\ url'[s] = url[s] /\ url[s] \in Urls
        BY <2>1, <3>0, <3>3
      <4>2. inflight[url[s]] = s /\ \A i \in 1..Len(cache) : cache[i].url # url[s]
        BY <4>1 DEF Registered
      <4>3. url[s] # u
        BY <3>2, <4>1, <4>2
      <4> QED
        BY <2>6, <3>1, <4>1, <4>2, <4>3
    <3>4. \A v \in Urls : inflight'[v] # NoTask =>
            inflight'[v] \in Askers /\ asker'[inflight'[v]] = "owner" /\ url'[inflight'[v]] = v
      BY <1>b, <2>1, <3>0, <3>1, <3>2 DEF Registered, u
    <3>5. \A s \in Askers : asker'[s] = "waiter" => joined'[s] \in Askers \ {s} /\ url'[joined'[s]] = url'[s]
      BY <2>1, <3>0 DEF Registered
    <3> QED
      BY <3>3, <3>4, <3>5 DEF Registered
  <2> QED
    BY <1>b, <2>1, <2>5, <2>7
<1>5. CASE Downloads!CancelOwner(t)
  <2>1. /\ asker[t] = "owner" /\ asker' = [asker EXCEPT ![t] = "done"]
        /\ inflight' = [inflight EXCEPT ![url[t]] = NoTask] /\ UNCHANGED <<url, joined, cache>>
    BY <1>5 DEF Downloads!CancelOwner, Downloads!End, Downloads!Release
  <2>2. Registered'
    BY <1>b, <2>1 DEF Registered
  <2> QED
    BY <2>1, <2>2 DEF Placed
<1>6. CASE Downloads!CancelWaiter(t) \/ Downloads!Wake(t)
  <2>1. /\ asker[t] = "waiter" /\ asker' = [asker EXCEPT ![t] = "done"]
        /\ UNCHANGED <<url, joined, cache, inflight>>
    BY <1>6 DEF Downloads!CancelWaiter, Downloads!Wake, Downloads!End, Downloads!LetBe
  <2>2. Registered'
    BY <2>1 DEF Registered
  <2> QED
    BY <2>1, <2>2 DEF Placed
<1> QED
  BY <1>1, <1>2, <1>3, <1>4, <1>5, <1>6

LEMMA ImagesHold == ImagesInv => Downloads!TypeOK /\ Downloads!OneDownload
<1> SUFFICES ASSUME ImagesInv PROVE Downloads!TypeOK /\ Downloads!OneDownload
  OBVIOUS
<1>1. DOMAIN cache = 1..Len(cache)
  BY DEF ImagesInv
<1> QED
  BY <1>1 DEF ImagesInv, Registered, Placed, Downloads!TypeOK, Downloads!OneDownload, Downloads!Cached

--------------------------------------------------------------------------------
(* Stickers. *)

SavePlaces == {"idle", "reading", "counting", "writing", "renaming", "saved", "refused",
           "finding", "loading", "ended", "missing"}

\* What keeps a listed picture's file while nobody rivals its saver: the file is
\* there before the row, and a save that can still take the file back has not listed it.
Listed ==
  /\ index \subseteq files
  /\ \A t \in Savers : /\ keeper[t] = "writing" => picture[t] \in files
                       /\ keeper[t] = "renaming" => picture[t] \in index
                       /\ MaxFaults > 0 /\ picture[t] \in index => keeper[t] = "saved"
  /\ \A t \in Senders : /\ keeper[t] = "loading" => picture[t] \in index
                        /\ keeper[t] # "missing"

StickersInv ==
  /\ index \subseteq Pictures /\ files \subseteq Pictures /\ faults \in 0..MaxFaults
  /\ keeper \in [Savers \cup Senders -> SavePlaces]
  /\ picture \in [Savers \cup Senders -> Pictures \cup {NoPicture}]
  /\ \A t \in Savers : picture[t] # NoPicture
  /\ Savers \cap Senders = {}
  /\ Album!Rivals \/ Listed

LEMMA StickersInit == ASSUME Album!Init PROVE StickersInv
<1>1. Savers \cap Senders = {}
  BY DEF Album!Init
<1>2. keeper \in [Savers \cup Senders -> SavePlaces] /\ 0..MaxFaults # {} /\ MaxFaults \in 0..MaxFaults
  BY PicturesAssumption DEF Album!Init, SavePlaces
<1> QED
  BY <1>1, <1>2 DEF Album!Init, StickersInv, Listed

\* A saver's picture is its own for good, so rivals are rivals from the start.
LEMMA SaverStep ==
  ASSUME StickersInv, NEW t \in Savers,
         \/ Album!Save(t) \/ Album!Read(t) \/ Album!Rename(t) \/ Album!Count(t)
         \/ Album!DiskFull(t) \/ Album!WriteIndex(t)
  PROVE  StickersInv'
<1> USE DEF StickersInv
<1>1. /\ picture[t] \in Pictures /\ t \notin Senders /\ MaxFaults \in Nat /\ faults \in Int
      /\ MaxFaults = 0 => faults = 0
  BY PicturesAssumption
<1>2. PICK place \in SavePlaces : keeper' = [keeper EXCEPT ![t] = place]
  BY DEF SavePlaces, Album!Save, Album!Read, Album!Rename, Album!Count, Album!DiskFull, Album!WriteIndex, Album!Goto
<1>3. UNCHANGED picture
  BY DEF Album!Save, Album!Read, Album!Rename, Album!Count, Album!DiskFull, Album!WriteIndex
<1>4. index' \in {index, index \cup {picture[t]}} /\ files' \in {files, files \cup {picture[t]}, files \ {picture[t]}}
  BY DEF Album!Save, Album!Read, Album!Rename, Album!Count, Album!DiskFull, Album!WriteIndex, Album!Written
<1>5. faults' = faults \/ (faults > 0 /\ faults' = faults - 1)
  BY DEF Album!Save, Album!Read, Album!Rename, Album!Count, Album!DiskFull, Album!WriteIndex, Album!Fail
<1>6. faults' \in 0..MaxFaults
  BY <1>1, <1>5
<1>7. ASSUME ~Album!Rivals PROVE Listed'
  <2>1. Listed /\ (MaxFaults > 0 => \A s \in Savers : picture[s] = picture[t] => s = t)
    BY <1>7 DEF Album!Rivals
  <2>2. /\ keeper'[t] = place /\ \A s \in Savers \cup Senders : s # t => keeper'[s] = keeper[s]
    BY <1>2
  <2>3. CASE UNCHANGED <<index, files>> /\ place \in {"reading", "counting", "renaming", "refused"}
             /\ keeper[t] # "saved" /\ (place = "renaming" => picture[t] \in index)
    <3>1. MaxFaults > 0 => picture[t] \notin index
      BY <1>1, <2>1, <2>3 DEF Listed
    <3> QED
      BY <1>1, <1>3, <2>1, <2>2, <2>3, <3>1 DEF Listed
  <2>4. CASE UNCHANGED index /\ files' = files \cup {picture[t]} /\ place = "writing" /\ keeper[t] # "saved"
    <3>1. MaxFaults > 0 => picture[t] \notin index
      BY <1>1, <2>1, <2>4 DEF Listed
    <3> QED
      BY <1>1, <1>3, <2>1, <2>2, <2>4, <3>1 DEF Listed
  <2>5. CASE UNCHANGED files /\ index' = index \cup {picture[t]} /\ place = "saved" /\ picture[t] \in files
    BY <1>1, <1>3, <2>1, <2>2, <2>5 DEF Listed
  <2>6. CASE MaxFaults > 0 /\ UNCHANGED index /\ files' \in {files, files \ {picture[t]}}
             /\ place = "refused" /\ keeper[t] # "saved"
    <3>1. picture[t] \notin index
      BY <1>1, <2>1, <2>6 DEF Listed
    <3>2. \A s \in Savers : keeper[s] = "writing" /\ s # t => picture[s] \in files'
      BY <2>1, <2>6 DEF Listed
    <3> QED
      BY <1>1, <1>3, <2>1, <2>2, <2>6, <3>1, <3>2 DEF Listed
  <2>8. CASE Album!Save(t) \/ Album!Read(t)
    <3>1. UNCHANGED <<index, files>> /\ keeper[t] \in {"idle", "reading"}
      BY <2>8 DEF Album!Save, Album!Read
    <3>2. \E q \in {"reading", "counting", "renaming"} :
            keeper' = [keeper EXCEPT ![t] = q] /\ (q = "renaming" => picture[t] \in index)
      BY <2>8 DEF Album!Save, Album!Read, Album!Goto
    <3> QED
      BY <1>2, <2>2, <2>3, <3>1, <3>2
  <2>9. CASE Album!Rename(t) \/ Album!WriteIndex(t)
    <3>1. picture[t] \in files /\ keeper[t] \in {"renaming", "writing"}
      BY <2>1, <2>9 DEF Listed, Album!Rename, Album!WriteIndex
    <3>2. CASE keeper' = [keeper EXCEPT ![t] = "saved"] /\ index' = index \cup {picture[t]} /\ UNCHANGED files
      BY <1>1, <2>2, <2>5, <3>1, <3>2
    <3>3. CASE /\ keeper' = [keeper EXCEPT ![t] = "refused"] /\ faults > 0
               /\ UNCHANGED index /\ files' \in {files, files \ {picture[t]}}
      BY <1>1, <2>2, <2>6, <3>1, <3>3
    <3> QED
      BY <2>9, <3>2, <3>3 DEF Album!Rename, Album!WriteIndex, Album!Goto, Album!Fail
  <2>10. CASE Album!Count(t) \/ Album!DiskFull(t)
    <3>1. keeper[t] = "counting" /\ UNCHANGED index
      BY <2>10 DEF Album!Count, Album!DiskFull
    <3>2. CASE keeper' = [keeper EXCEPT ![t] = "writing"] /\ files' = files \cup {picture[t]}
      BY <2>2, <2>4, <3>1, <3>2
    <3>3. CASE keeper' = [keeper EXCEPT ![t] = "refused"] /\ UNCHANGED files
      BY <2>2, <2>3, <3>1, <3>3
    <3>4. CASE /\ keeper' = [keeper EXCEPT ![t] = "refused"] /\ faults > 0
               /\ files' \in {files, files \ {picture[t]}}
      BY <1>1, <2>2, <2>6, <3>1, <3>4
    <3> QED
      BY <2>10, <3>2, <3>3, <3>4 DEF Album!Count, Album!DiskFull, Album!Goto, Album!Fail, Album!Written
  <2> QED
    BY <2>8, <2>9, <2>10
<1> QED
  BY <1>1, <1>2, <1>3, <1>4, <1>6, <1>7 DEF Album!Rivals
LEMMA StickersStep ==
  ASSUME StickersInv, Album!Next \/ UNCHANGED stickers
  PROVE  StickersInv'
<1> USE DEF StickersInv
<1>1. CASE UNCHANGED stickers
  BY <1>1 DEF stickers, Listed, Album!Rivals
<1>2. ASSUME NEW t \in Senders, Album!Send(t) \/ Album!Find(t) \/ Album!Load(t)
      PROVE  StickersInv'
  <2>1. t \notin Savers /\ UNCHANGED <<index, files, faults>>
    BY <1>2 DEF Album!Send, Album!Find, Album!Load
  <2>2. \A s \in Savers \cup Senders : s # t => picture'[s] = picture[s] /\ keeper'[s] = keeper[s]
    BY <1>2 DEF Album!Send, Album!Find, Album!Load, Album!Goto
  <2>3. /\ keeper' \in [Savers \cup Senders -> SavePlaces]
        /\ picture' \in [Savers \cup Senders -> Pictures \cup {NoPicture}]
    BY <1>2 DEF Album!Send, Album!Find, Album!Load, Album!Goto, SavePlaces
  <2>4. Listed => (keeper'[t] = "loading" => picture'[t] \in index) /\ keeper'[t] # "missing"
    BY <1>2 DEF Album!Send, Album!Find, Album!Load, Album!Goto, Listed
  <2>5. Album!Rivals' = Album!Rivals
    BY <2>1, <2>2 DEF Album!Rivals
  <2> QED
    BY <2>1, <2>2, <2>3, <2>4, <2>5 DEF Listed
<1> QED
  BY <1>1, <1>2, SaverStep DEF Album!Next

LEMMA StickersHold == StickersInv => Album!TypeOK /\ Album!RowHasFileAlone
  BY DEF StickersInv, Listed, Album!TypeOK, Album!RowHasFileAlone, Album!RowHasFile

--------------------------------------------------------------------------------
(* Profiles. *)

\* Profiles counts with the Cardinality of its own instance, which is the same.
LEMMA SameCardinality == ASSUME NEW S PROVE Notes!Cardinality(S) = Cardinality(S)
  BY DEF Notes!Cardinality, Cardinality

Writers == Learners \cup Updaters
Alone(u) == \A v, w \in authors[u] : v = w

NotesType ==
  /\ profile \in [Users -> SUBSET Facts] /\ known \in [Users -> SUBSET Facts]
  /\ writer \in [Writers -> {"asking", "reading", "writing", "done"}] /\ user \in [Writers -> Users]
  /\ seen \in [Writers -> [Users -> SUBSET Facts]] /\ read \in [Writers -> SUBSET Users]
  /\ rounds \in [Writers -> 0..MaxRounds] /\ authors \in [Users -> SUBSET Writers]

\* Who alone has written of a user, and has read of them, has what is kept of them
\* before it; and what one wrote alone is all there.
ProfilesInv ==
  /\ NotesType
  /\ \A u \in Users : Cardinality(profile[u]) <= MaxFacts
  /\ \A w \in Writers : writer[w] = "writing" => user[w] \in read[w]
  /\ \A u \in Users, w \in Writers : authors[u] \subseteq {w} /\ u \in read[w] => seen[w][u] = profile[u]
  /\ \A u \in Users : u \notin clamped /\ Alone(u) => profile[u] = known[u]

LEMMA ProfilesInit == ASSUME Notes!Init PROVE ProfilesInv
<1>1. Cardinality({}) = 0 /\ 0 <= MaxFacts /\ 0 \in 0..MaxRounds
  BY FS_EmptySet, UsersAssumption
<1> QED
  BY <1>1 DEF Notes!Init, Notes!Writers, Writers, ProfilesInv, NotesType

LEMMA AskKeeps ==
  ASSUME ProfilesInv, NEW w \in Writers, Notes!Ask(w)
  PROVE  ProfilesInv'
<1>1. UNCHANGED <<profile, seen, read, authors, clamped, known>>
  BY DEF Notes!Ask
<1>2. /\ writer' \in [Writers -> {"asking", "reading", "writing", "done"}] /\ user' \in [Writers -> Users]
      /\ \A v \in Writers : writer'[v] = "writing" => user'[v] \in read[v]
  <2>1. CASE writer' = [writer EXCEPT ![w] = "done"] /\ user' = user
    BY <2>1 DEF ProfilesInv, NotesType
  <2>2. ASSUME NEW u \in Users, NEW place \in {"reading", "writing"}, place = "writing" => u \in read[w],
               user' = [user EXCEPT ![w] = u], writer' = [writer EXCEPT ![w] = place]
        PROVE  /\ writer' \in [Writers -> {"asking", "reading", "writing", "done"}] /\ user' \in [Writers -> Users]
               /\ \A v \in Writers : writer'[v] = "writing" => user'[v] \in read[v]
    BY <2>2 DEF ProfilesInv, NotesType
  <2> QED
    BY <2>1, <2>2 DEF Notes!Ask, Notes!Goto
<1>3. rounds' \in [Writers -> 0..MaxRounds]
  <2>1. rounds \in [Writers -> 0..MaxRounds] /\ MaxRounds \in Nat
    BY UsersAssumption DEF ProfilesInv, NotesType
  <2>2. \/ rounds' = rounds
        \/ rounds[w] < MaxRounds /\ rounds' = [rounds EXCEPT ![w] = rounds[w] + 1]
    BY DEF Notes!Ask, Notes!NextRound
  <2> QED
    BY <2>1, <2>2
<1> QED
  BY <1>1, <1>2, <1>3 DEF ProfilesInv, NotesType, Alone

LEMMA ReadKeeps ==
  ASSUME ProfilesInv, NEW w \in Writers, Notes!Read(w)
  PROVE  ProfilesInv'
<1>1. UNCHANGED <<profile, user, rounds, authors, clamped, known>>
  BY DEF Notes!Read
<1>2. writer' = [writer EXCEPT ![w] = "asking"]
  BY DEF Notes!Read, Notes!Goto
<1>3. CASE UNCHANGED <<seen, read>>
  BY <1>1, <1>2, <1>3 DEF ProfilesInv, NotesType, Alone
<1>4. CASE /\ seen' = [seen EXCEPT ![w][user[w]] = profile[user[w]]]
           /\ read' = [read EXCEPT ![w] = @ \cup {user[w]}]
  <2>1. user[w] \in Users /\ seen[w] \in [Users -> SUBSET Facts] /\ profile[user[w]] \in SUBSET Facts
    BY DEF ProfilesInv, NotesType
  <2>2. \A v \in Writers : read'[v] = IF v = w THEN read[w] \cup {user[w]} ELSE read[v]
    BY <1>4 DEF ProfilesInv, NotesType
  <2>3. \A v \in Writers, u \in Users :
          seen'[v][u] = IF v = w /\ u = user[w] THEN profile[u] ELSE seen[v][u]
    BY <1>4, <2>1 DEF ProfilesInv, NotesType
  <2>4. seen' \in [Writers -> [Users -> SUBSET Facts]] /\ read' \in [Writers -> SUBSET Users]
    BY <1>4, <2>1 DEF ProfilesInv, NotesType
  <2>5. \A v \in Writers : writer'[v] = "writing" => user'[v] \in read'[v]
    BY <1>1, <1>2, <2>2 DEF ProfilesInv, NotesType
  <2>6. \A u \in Users, v \in Writers : authors[u] \subseteq {v} /\ u \in read'[v] => seen'[v][u] = profile[u]
    BY <2>2, <2>3 DEF ProfilesInv
  <2> QED
    BY <1>1, <1>2, <2>4, <2>5, <2>6 DEF ProfilesInv, NotesType, Alone
<1> QED
  BY <1>3, <1>4 DEF Notes!Read

LEMMA WriteKeeps ==
  ASSUME ProfilesInv, NEW w \in Writers, Notes!Write(w)
  PROVE  ProfilesInv'
<1>1. UNCHANGED <<user, read, rounds>> /\ writer[w] = "writing"
  BY DEF Notes!Write
<1>2. writer' = [writer EXCEPT ![w] = "asking"]
  BY DEF Notes!Write, Notes!Goto
<1>3. CASE UNCHANGED <<profile, seen, authors, clamped, known>>
  BY <1>1, <1>2, <1>3 DEF ProfilesInv, NotesType, Alone
<1>4. ASSUME NEW new \in SUBSET Facts, NEW left \in SUBSET Notes!Rewrite(w, new),
             IF Notes!Cardinality(Notes!Rewrite(w, new)) <= MaxFacts
             THEN left = Notes!Rewrite(w, new) ELSE Notes!Cardinality(left) = MaxFacts,
             profile' = [profile EXCEPT ![user[w]] = left],
             seen' = [seen EXCEPT ![w][user[w]] = left],
             clamped' = IF left = Notes!Rewrite(w, new) THEN clamped ELSE clamped \cup {user[w]},
             authors' = [authors EXCEPT ![user[w]] = @ \cup {w}],
             known' = [known EXCEPT ![user[w]] = @ \cup left]
      PROVE  ProfilesInv'
  <2> DEFINE x == user[w]
  <2>1. x \in Users /\ x \in read[w] /\ seen[w] \in [Users -> SUBSET Facts] /\ seen[w][x] \in SUBSET Facts
    BY <1>1 DEF ProfilesInv, NotesType
  <2>2. left \in SUBSET Facts
    BY <2>1 DEF Notes!Rewrite
  <2>3. /\ \A u \in Users : profile'[u] = IF u = x THEN left ELSE profile[u]
        /\ \A u \in Users : authors'[u] = IF u = x THEN authors[x] \cup {w} ELSE authors[u]
        /\ \A u \in Users : known'[u] = IF u = x THEN known[x] \cup left ELSE known[u]
    BY <1>4, <2>1 DEF ProfilesInv, NotesType
  <2>4. \A v \in Writers, u \in Users : seen'[v][u] = IF v = w /\ u = x THEN left ELSE seen[v][u]
    BY <1>4, <2>1 DEF ProfilesInv, NotesType
  <2>5. NotesType'
    <3>1. profile' \in [Users -> SUBSET Facts] /\ known' \in [Users -> SUBSET Facts]
      BY <1>4, <2>1, <2>2 DEF ProfilesInv, NotesType
    <3>2. seen' \in [Writers -> [Users -> SUBSET Facts]]
      BY <1>4, <2>1, <2>2 DEF ProfilesInv, NotesType
    <3>3. authors' \in [Users -> SUBSET Writers]
      BY <1>4, <2>1 DEF ProfilesInv, NotesType
    <3> QED
      BY <1>1, <1>2, <3>1, <3>2, <3>3 DEF ProfilesInv, NotesType
  <2>6. \A u \in Users : Cardinality(profile'[u]) <= MaxFacts
    <3>1. Cardinality(left) <= MaxFacts
      BY <1>4, SameCardinality, UsersAssumption
    <3> QED
      BY <2>3, <3>1 DEF ProfilesInv
  <2>7. \A v \in Writers : writer'[v] = "writing" => user'[v] \in read'[v]
    BY <1>1, <1>2 DEF ProfilesInv, NotesType
  <2>8. ASSUME NEW u \in Users, NEW v \in Writers, authors'[u] \subseteq {v}, u \in read'[v]
        PROVE  seen'[v][u] = profile'[u]
    <3>1. CASE u = x
      <4>1. v = w
        BY <2>3, <2>8, <3>1
      <4> QED
        BY <2>3, <2>4, <3>1, <4>1
    <3>2. CASE u # x
      BY <1>1, <2>3, <2>4, <2>8, <3>2 DEF ProfilesInv
    <3> QED
      BY <3>1, <3>2
  <2>9. ASSUME NEW u \in Users, u \notin clamped', Alone(u)'
        PROVE  profile'[u] = known'[u]
    <3>1. CASE u = x
      <4>1. authors[x] \subseteq {w} /\ Alone(x)
        <5>1. authors'[x] = authors[x] \cup {w} /\ \A v, z \in authors'[x] : v = z
          BY <2>1, <2>3, <2>9, <3>1 DEF Alone
        <5> QED
          BY <5>1 DEF Alone
      <4>2. x \notin clamped /\ left = Notes!Rewrite(w, new)
        BY <1>4, <2>9, <3>1
      <4>3. seen[w][x] = profile[x] /\ profile[x] = known[x]
        BY <2>1, <4>1, <4>2 DEF ProfilesInv
      <4>4. left = profile[x] \cup new /\ known[x] = profile[x]
        BY <4>2, <4>3 DEF Notes!Rewrite
      <4>5. left = known[x] \cup left
        BY <4>4
      <4>6. profile'[u] = left /\ known'[u] = known[x] \cup left
        BY <2>1, <2>3, <3>1
      <4> QED
        BY <4>5, <4>6
    <3>2. CASE u # x
      BY <1>4, <2>3, <2>9, <3>2 DEF ProfilesInv, Alone
    <3> QED
      BY <3>1, <3>2
  <2> QED
    BY <2>5, <2>6, <2>7, <2>8, <2>9 DEF ProfilesInv
<1>5. CASE \E new \in SUBSET Facts : \E left \in SUBSET Notes!Rewrite(w, new) :
             /\ IF Notes!Cardinality(Notes!Rewrite(w, new)) <= MaxFacts
                THEN left = Notes!Rewrite(w, new) ELSE Notes!Cardinality(left) = MaxFacts
             /\ profile' = [profile EXCEPT ![user[w]] = left]
             /\ seen' = [seen EXCEPT ![w][user[w]] = left]
             /\ clamped' = IF left = Notes!Rewrite(w, new) THEN clamped ELSE clamped \cup {user[w]}
             /\ authors' = [authors EXCEPT ![user[w]] = @ \cup {w}]
             /\ known' = [known EXCEPT ![user[w]] = @ \cup left]
  BY <1>4, <1>5
<1> QED
  BY <1>3, <1>5 DEF Notes!Write

LEMMA ProfilesStep ==
  ASSUME ProfilesInv, Notes!Next \/ UNCHANGED profiles
  PROVE  ProfilesInv'
<1>1. CASE UNCHANGED profiles
  BY <1>1 DEF profiles, ProfilesInv, NotesType, Alone
<1>2. ASSUME NEW w \in Updaters, Notes!Timeout(w) PROVE ProfilesInv'
  <2>1. writer' = [writer EXCEPT ![w] = "done"] /\ UNCHANGED <<profile, user, seen, read, rounds, authors, clamped, known>>
    BY <1>2 DEF Notes!Timeout, Notes!Goto
  <2> QED
    BY <2>1 DEF ProfilesInv, NotesType, Alone
<1> QED
  BY <1>1, <1>2, AskKeeps, ReadKeeps, WriteKeeps DEF Notes!Next, Notes!Working, Notes!Writers, Writers

LEMMA ProfilesHold == ProfilesInv => Notes!TypeOK /\ Notes!OwnFactsStay
<1> SUFFICES ASSUME ProfilesInv PROVE Notes!TypeOK /\ Notes!OwnFactsStay
  OBVIOUS
<1>1. Notes!TypeOK
  <2>1. Notes!Writers = Writers
    BY DEF Notes!Writers, Writers
  <2>2. /\ \A u \in Users : Cardinality(profile[u]) <= MaxFacts
        /\ \A w \in Writers : rounds[w] \in 0..MaxRounds
    BY DEF ProfilesInv, NotesType
  <2> QED
    BY <2>1, <2>2, SameCardinality DEF Notes!TypeOK
<1>2. ASSUME NEW u \in Users, Notes!Forgotten(u) PROVE Cardinality(authors[u]) > 1
  <2>1. PICK v \in authors[u], w \in authors[u] : v # w
    BY <1>2 DEF ProfilesInv, Notes!Forgotten, Alone
  <2>2. IsFiniteSet(authors[u]) /\ {v, w} \subseteq authors[u]
    BY FS_Subset, UsersAssumption DEF ProfilesInv, NotesType, Writers
  <2>3. Cardinality({v, w}) = 2
    <3>1. IsFiniteSet({v}) /\ Cardinality({v}) = 1
      BY FS_Singleton
    <3>2. Cardinality({v} \cup {w}) = Cardinality({v}) + 1
      BY <2>1, <3>1, FS_AddElement
    <3> QED
      BY <3>1, <3>2
  <2>4. Cardinality({v, w}) <= Cardinality(authors[u]) /\ Cardinality(authors[u]) \in Nat
    BY <2>2, FS_Subset, FS_CardinalityType
  <2> QED
    BY <2>3, <2>4
<1>3. Notes!OwnFactsStay
  BY <1>2, SameCardinality DEF Notes!OwnFactsStay
<1> QED
  BY <1>1, <1>3

--------------------------------------------------------------------------------
(* Attention. *)

\* A time is its day and its second of the day, and that is in one minute.
LEMMA DivMod ==
  ASSUME NEW t \in Nat
  PROVE  /\ t % 86400 \in Nat /\ t % 86400 < 86400 /\ t \div 86400 \in Nat
         /\ t = 86400 * (t \div 86400) + (t % 86400)
<1>1. t % 86400 >= 0 /\ t % 86400 < 86400 /\ t % 86400 \in Int
  BY SMT
<1>2. t = 86400 * (t \div 86400) + (t % 86400)
  BY SMT
<1>3. t \div 86400 \in Nat
  BY SMT
<1>5. t % 86400 \in Nat
  BY <1>1, SMT
<1> QED
  BY <1>1, <1>2, <1>3, <1>5, SMT

LEMMA MinuteOf ==
  ASSUME NEW r \in Nat, r < 86400
  PROVE  r \div 60 \in Nat /\ r \div 60 < 1440 /\ 60 * (r \div 60) <= r /\ r < 60 * (r \div 60) + 60
<1>1. r \div 60 \in Nat /\ r \div 60 < 1440
  BY SMT
<1>2. 60 * (r \div 60) <= r 
  BY SMT
<1>3. r < 60 * (r \div 60) + 60
  BY SMT
<1> QED
  BY <1>1, <1>2, <1>3, SMT

LEMMA TimeOfDay ==
  ASSUME NEW t \in Nat
  PROVE  \E r \in Nat, q \in Nat, a \in Nat :
           /\ r = t % 86400 /\ q = t \div 86400 /\ a = (t % 86400) \div 60
           /\ t = 86400 * q + r /\ r < 86400 /\ a < 1440
           /\ 60 * a <= r /\ r < 60 * a + 60
<1>1. PICK r \in Nat, q \in Nat : r = t % 86400 /\ q = t \div 86400 /\ t = 86400 * q + r /\ r < 86400
  BY DivMod, SMT
<1>2. PICK a \in Nat : a = r \div 60 /\ 60 * a <= r /\ r < 60 * a + 60 /\ a < 1440
  BY <1>1, MinuteOf, SMT
<1> QED
  BY <1>1, <1>2, SMT

\* What the rules write, and what is read of it.
LEMMA ClockMinutes ==
  ASSUME NEW t \in Nat, NEW a \in Nat, a < 1440, a = (t % 86400) \div 60
  PROVE  /\ Hearing!HHmm(t) \in Nat /\ Hearing!HHmm(t) <= 2359
         /\ Hearing!MinutesOf(Hearing!HHmm(t)) = a
<1>1. Hearing!HHmm(t) = (a \div 60) * 100 + (a % 60)
  BY DEF Hearing!HHmm, Hearing!Day, Hearing!Minute
<1>2. PICK h \in Nat, r \in Nat : h = a \div 60 /\ r = a % 60 /\ h < 24 /\ r < 60 /\ a = 60 * h + r
  <2>1. a \div 60 \in Nat /\ a \div 60 < 24
    BY SMT
  <2>2. a % 60 >= 0 /\ a % 60 < 60 /\ a % 60 \in Int
    BY SMT
  <2>3. a = 60 * (a \div 60) + (a % 60)
    BY SMT
  <2> QED
    BY <2>1, <2>2, <2>3, SMT
<1>3. PICK n \in Nat : n = h * 100 + r /\ n = Hearing!HHmm(t)
  BY <1>1, <1>2, SMT
<1>4. n \div 100 = h /\ n % 100 = r
  BY <1>2, <1>3, SMT
<1>5. Hearing!MinutesOf(n) = (n \div 100) * 60 + (n % 100)
  BY DEF Hearing!MinutesOf
<1>6. Hearing!MinutesOf(n) = a
  BY <1>2, <1>4, <1>5, SMT
<1>7. n <= 2359
  BY <1>2, <1>3, SMT
<1> QED
  BY <1>3, <1>6, <1>7

\* The clock's distance is at most m one way around or the other.
LEMMA AroundIs ==
  ASSUME NEW a \in Nat, a < 1440, NEW b \in Nat, b < 1440, NEW m \in Nat
  PROVE  /\ Hearing!Around(b, a) \in Nat /\ Hearing!Around(b, a) <= 720
         /\ (Hearing!Around(b, a) <= m) <=> \/ (a - b <= m /\ b - a <= m)
                                            \/ (b > a /\ 1440 - (b - a) <= m)
                                            \/ (a > b /\ 1440 - (a - b) <= m)
<1> DEFINE d == Hearing!AbsDiff(b, a)
           x == Hearing!Around(b, a)
<1>1. d \in Nat /\ d < 1440 /\ (b < a => d = a - b) /\ (~(b < a) => d = b - a)
  BY SMT DEF Hearing!AbsDiff
<1>2. x = Hearing!Least(d, 1440 - d)
  BY SMT DEF Hearing!Around
<1> HIDE DEF d, x
<1>3. (d < 1440 - d => x = d) /\ (~(d < 1440 - d) => x = 1440 - d)
  BY <1>1, <1>2, SMT DEF Hearing!Least
<1>4. x \in Nat /\ x <= 720
  BY <1>1, <1>3, SMT
<1>5. CASE b < a
  <2>1. d = a - b
    BY <1>1, <1>5, SMT
  <2> QED
    BY <1>3, <1>4, <1>5, <2>1, SMT DEF x
<1>6. CASE b >= a
  <2>1. d = b - a
    BY <1>1, <1>6, SMT
  <2> QED
    BY <1>3, <1>4, <1>6, <2>1, SMT DEF x
<1> QED
  BY <1>5, <1>6, SMT

\* How far apart two moments are on the clock, and how much time has passed: the
\* clock does not tell by how many days.
LEMMA AroundAndSince ==
  ASSUME NEW at \in Nat, NEW t \in Nat, at <= t, NEW m \in Nat
  PROVE  \E a \in Nat, b \in Nat, e \in Nat :
           /\ a = (at % 86400) \div 60 /\ b = (t % 86400) \div 60 /\ e = (t - at) \div 86400
           /\ a < 1440 /\ b < 1440
           /\ t - at <= 60 * m => Hearing!Around(b, a) <= m
           /\ Hearing!Around(b, a) <= m =>
                \E k \in 0..e + 1 : Hearing!AbsDiff(t - at, k * 86400) < 60 * m + 60
<1>1. PICK r \in Nat, q \in Nat, a \in Nat :
        /\ r = at % 86400 /\ q = at \div 86400 /\ a = (at % 86400) \div 60
        /\ at = 86400 * q + r /\ r < 86400 /\ a < 1440
        /\ 60 * a <= r /\ r < 60 * a + 60
  BY TimeOfDay, SMT
<1>2. PICK s \in Nat, p \in Nat, b \in Nat :
        /\ b = (t % 86400) \div 60 /\ t = 86400 * p + s /\ s < 86400 /\ b < 1440
        /\ 60 * b <= s /\ s < 60 * b + 60
  BY TimeOfDay, SMT
<1>3. PICK d \in Nat : d = t - at
  BY SMT
<1>4. PICK e \in Nat : e = d \div 86400 /\ d < 86400 * e + 86400
  <2>1. PICK r1 \in Nat, e \in Nat : e = d \div 86400 /\ d = 86400 * e + r1 /\ r1 < 86400
    BY TimeOfDay, SMT
  <2> QED
    BY <2>1, SMT
<1>5. d = 86400 * (p - q) + (s - r)
  BY <1>1, <1>2, <1>3, SMT
<1>6. /\ 60 * a <= r /\ r < 60 * a + 60 /\ r < 86400 /\ a < 1440
      /\ 60 * b <= s /\ s < 60 * b + 60 /\ s < 86400 /\ b < 1440
      /\ d = 86400 * (p - q) + (s - r) /\ d < 86400 * e + 86400
  BY <1>1, <1>2, <1>4, <1>5
<1> USE <1>6
<1>7. Hearing!Around(b, a) \in Nat /\ Hearing!Around(b, a) <= 720
  BY AroundIs, SMT
<1>8. ASSUME d <= 60 * m PROVE Hearing!Around(b, a) <= m
  <2>1. CASE m >= 720
    BY <1>7, <2>1, SMT
  <2>2. CASE m < 720
    <3>1. p - q = 0 \/ p - q = 1
      BY <1>8, <2>2, SMT
    <3>2. CASE p - q = 0
      <4>1. a - b <= m /\ b - a <= m
        BY <1>8, <3>2, SMT
      <4> QED
        BY <4>1, AroundIs, SMT
    <3>3. CASE p - q = 1
      <4>1. a > b /\ 1440 - (a - b) <= m
        BY <1>8, <2>2, <3>3, SMT
      <4> QED
        BY <4>1, AroundIs, SMT
    <3> QED
      BY <3>1, <3>2, <3>3, SMT
  <2> QED
    BY <2>1, <2>2, SMT
<1>9. ASSUME Hearing!Around(b, a) <= m
      PROVE  \E k \in 0..e + 1 : Hearing!AbsDiff(d, k * 86400) < 60 * m + 60
  <2>1. ASSUME NEW k \in Int, 0 <= k, 86400 * k < d + 86400,
               d - 86400 * k < 60 * m + 60, 86400 * k - d < 60 * m + 60
        PROVE  \E i \in 0..e + 1 : Hearing!AbsDiff(d, i * 86400) < 60 * m + 60
    <3>1. k \in 0..e + 1
      BY <2>1, SMT
    <3>2. Hearing!AbsDiff(d, k * 86400) < 60 * m + 60
      BY <2>1, SMT DEF Hearing!AbsDiff
    <3> QED
      BY <3>1, <3>2, SMT
  <2>2. CASE a - b <= m /\ b - a <= m
    <3>1. 0 <= p - q /\ 86400 * (p - q) < d + 86400 /\ p - q \in Int
      BY SMT
    <3>2. d - 86400 * (p - q) < 60 * m + 60 /\ 86400 * (p - q) - d < 60 * m + 60
      BY <2>2, SMT
    <3> QED
      BY <2>1, <3>1, <3>2, SMT
  <2>3. CASE b > a /\ 1440 - (b - a) <= m
    <3>0. PICK k \in Int : k = p - q + 1
      BY SMT
    <3>1. 0 <= k /\ 86400 * k < d + 86400
      BY <2>3, <3>0, SMT
    <3>2. d - 86400 * k < 60 * m + 60 /\ 86400 * k - d < 60 * m + 60
      BY <2>3, <3>0, SMT
    <3> QED
      BY <2>1, <3>1, <3>2, SMT
  <2>4. CASE a > b /\ 1440 - (a - b) <= m
    <3>0. PICK k \in Int : k = p - q - 1
      BY SMT
    <3>1. 0 <= k /\ 86400 * k < d + 86400
      BY <2>4, <3>0, SMT
    <3>2. d - 86400 * k < 60 * m + 60 /\ 86400 * k - d < 60 * m + 60
      BY <2>4, <3>0, SMT
    <3> QED
      BY <2>1, <3>1, <3>2, SMT
  <2> QED
    BY <1>9, <2>2, <2>3, <2>4, AroundIs, SMT
<1>10. e = (t - at) \div 86400
  BY <1>3, <1>4, SMT
<1> QED
  BY <1>1, <1>2, <1>3, <1>8, <1>9, <1>10, SMT

Epochs(at) == [at |-> at, form |-> "epoch"]
Clocks(at) == [at |-> at, form |-> "clock"]

\* A user's row is what the last answer was kept as.
Kept(u) ==
  \/ answer[u] = Hearing!Never /\ stamp[u] = NoStamp
  \/ \E at \in Nat : at <= now /\ answer[u] = Epochs(at) /\ stamp[u] = Hearing!Epoch + at
  \/ \E at \in Nat : at <= now /\ answer[u] = Clocks(at) /\ stamp[u] = Hearing!HHmm(at)

AttentionInv ==
  /\ now \in Nat /\ DOMAIN stamp = Users /\ DOMAIN answer = Users
  /\ \A u \in Users : Kept(u)
  /\ Hearing!WindowIsTrue

\* The seconds' form says exactly whether the window has passed.
LEMMA EpochsAreTrue ==
  ASSUME now \in Nat, NEW u \in Users, NEW at \in Nat, at <= now,
         answer[u] = Epochs(at), stamp[u] = Hearing!Epoch + at
  PROVE  /\ Hearing!Owed(u) => Hearing!Within(stamp[u], now)
         /\ Hearing!Spent(u) => ~Hearing!Within(stamp[u], now)
<1>1. answer[u].at = at /\ answer[u].form = "epoch" /\ answer[u] # Hearing!Never
  BY SMT DEF Epochs, Hearing!Never
<1>2. Hearing!Since(u) = now - at /\ Hearing!Lasts(u) = Window
  BY <1>1, SMT DEF Hearing!Since, Hearing!Lasts
<1>3. (Hearing!Owed(u) => now - at <= Window) /\ (Hearing!Spent(u) => now - at > Window)
  BY <1>1, <1>2, SMT DEF Hearing!Owed, Hearing!Spent
<1>4. Hearing!Within(stamp[u], now) <=> now - at <= Window
  BY WindowAssumption, SMT DEF Hearing!Within, Hearing!Epoch, Hearing!HHmmMax
<1> QED
  BY <1>3, <1>4, WindowAssumption, SMT

\* The clock's form says it to the minute.
LEMMA ClocksAreTrue ==
  ASSUME now \in Nat, NEW u \in Users, NEW at \in Nat, at <= now,
         answer[u] = Clocks(at), stamp[u] = Hearing!HHmm(at)
  PROVE  /\ Hearing!Owed(u) /\ ~Hearing!Midnight(u) => Hearing!Within(stamp[u], now)
         /\ Hearing!Spent(u) => ~Hearing!Within(stamp[u], now)
<1> DEFINE m == Hearing!Most(1, Window \div Hearing!Minute)
<1>1. answer[u].at = at /\ answer[u].form = "clock" /\ answer[u] # Hearing!Never
  BY SMT DEF Clocks, Hearing!Never
<1>2. Hearing!Since(u) = now - at /\ Hearing!Lasts(u) = 60 * m /\ (Hearing!Midnight(u) <=> Hearing!HHmm(at) = 0)
  BY <1>1, SMT DEF Hearing!Since, Hearing!Lasts, Hearing!Midnight, Hearing!Minute
<1>3. m \in Nat /\ 60 * m + 60 <= Hearing!Most(Window, Hearing!Minute) + Hearing!Minute
  <2>1. PICK w \in Nat : w = Window \div 60 /\ 60 * w <= Window
    BY WindowAssumption, SMT
  <2> QED
    BY <2>1, WindowAssumption, SMT DEF Hearing!Most, Hearing!Minute
<1> HIDE DEF m
<1>4. PICK a \in Nat, b \in Nat, e \in Nat :
        /\ a = (at % 86400) \div 60 /\ b = (now % 86400) \div 60 /\ e = (now - at) \div 86400
        /\ a < 1440 /\ b < 1440
        /\ now - at <= 60 * m => Hearing!Around(b, a) <= m
        /\ Hearing!Around(b, a) <= m =>
             \E k \in 0..e + 1 : Hearing!AbsDiff(now - at, k * 86400) < 60 * m + 60
  BY <1>3, AroundAndSince
<1>5. /\ Hearing!HHmm(at) \in Nat /\ Hearing!HHmm(at) <= 2359
      /\ Hearing!MinutesOf(Hearing!HHmm(at)) = a
  BY <1>4, ClockMinutes
<1>6. Hearing!Within(stamp[u], now) <=> Hearing!HHmm(at) # 0 /\ Hearing!Around(b, a) <= m
  BY <1>4, <1>5, WindowAssumption, SMT DEF Hearing!Within, Hearing!HHmmMax, Hearing!Day, Hearing!Minute, m
<1>7. Hearing!Owed(u) => now - at <= 60 * m
  BY <1>2 DEF Hearing!Owed
<1>8. ASSUME Hearing!Spent(u), Hearing!Around(b, a) <= m PROVE FALSE
  <2>1. \A k \in 0..e + 1 :
          Hearing!AbsDiff(now - at, k * 86400) >= Hearing!Most(Window, Hearing!Minute) + Hearing!Minute
    BY <1>1, <1>2, <1>4, <1>8, SMT DEF Hearing!Spent, Hearing!Day
  <2>2. PICK k \in 0..e + 1 : Hearing!AbsDiff(now - at, k * 86400) < 60 * m + 60
    BY <1>4, <1>8
  <2>3. Hearing!AbsDiff(now - at, k * 86400) \in Int /\ Hearing!Most(Window, Hearing!Minute) + Hearing!Minute \in Int
    BY WindowAssumption, SMT DEF Hearing!AbsDiff, Hearing!Most, Hearing!Minute
  <2> QED
    BY <1>3, <2>1, <2>2, <2>3, SMT
<1> QED
  BY <1>2, <1>4, <1>6, <1>7, <1>8, SMT

LEMMA Weighed ==
  ASSUME AttentionInv, NEW u \in Users
  PROVE  /\ Hearing!Owed(u) /\ ~Hearing!Midnight(u) => Hearing!Within(stamp[u], now)
         /\ Hearing!Spent(u) => ~Hearing!Within(stamp[u], now)
<1>1. CASE answer[u] = Hearing!Never /\ stamp[u] = NoStamp
  BY <1>1 DEF Hearing!Owed, Hearing!Within
<1> QED
  BY <1>1, EpochsAreTrue, ClocksAreTrue DEF AttentionInv, Kept

LEMMA AttentionInit == ASSUME Hearing!Init PROVE AttentionInv
  BY WindowAssumption DEF Hearing!Init, Hearing!WindowIsTrue, Hearing!Nothing, AttentionInv, Kept

LEMMA AttentionStep ==
  ASSUME AttentionInv, Hearing!Next \/ UNCHANGED attention
  PROVE  AttentionInv'
<1>1. CASE UNCHANGED attention
  BY <1>1 DEF attention, AttentionInv, Kept, Hearing!WindowIsTrue
<1>2. ASSUME NEW u \in Users, Hearing!Answer(u) \/ Hearing!Rule(u) PROVE AttentionInv'
  <2>0. CASE UNCHANGED Hearing!vars
    BY <2>0 DEF Hearing!vars, AttentionInv, Kept, Hearing!WindowIsTrue
  <2>1. CASE /\ stamp' = [stamp EXCEPT ![u] = Hearing!Epoch + now]
             /\ answer' = [answer EXCEPT ![u] = Epochs(now)]
             /\ UNCHANGED <<now, heard>>
    BY <2>1, SMT DEF AttentionInv, Kept, Hearing!WindowIsTrue
  <2>2. CASE /\ stamp' = [stamp EXCEPT ![u] = Hearing!HHmm(now)]
             /\ answer' = [answer EXCEPT ![u] = Clocks(now)]
             /\ UNCHANGED <<now, heard>>
    BY <2>2, SMT DEF AttentionInv, Kept, Hearing!WindowIsTrue
  <2> QED
    BY <1>2, <2>0, <2>1, <2>2 DEF Hearing!Answer, Hearing!Rule, Epochs, Clocks
<1>3. ASSUME NEW u \in Users, NEW m \in Hearing!Addresses, NEW fails \in BOOLEAN, Hearing!Hear(u, m, fails)
      PROVE  AttentionInv'
  <2>1. UNCHANGED <<now, stamp, answer>>
    BY <1>3 DEF Hearing!Hear
  <2>2. Hearing!WindowIsTrue'
    <3>1. PICK within \in BOOLEAN :
            /\ within <=> (Window > 0 /\ ~fails /\ Hearing!Within(stamp[u], now))
            /\ heard' = [attended |-> within \/ Hearing!Candidate(m), addressed |-> Hearing!Candidate(m), failed |-> fails,
                         owed |-> Hearing!Owed(u) /\ ~Hearing!Midnight(u), spent |-> Hearing!Spent(u)]
      BY <1>3 DEF Hearing!Hear
    <3>2. Window > 0
      BY WindowAssumption
    <3>3. /\ heard'.attended = (within \/ Hearing!Candidate(m)) /\ heard'.addressed = Hearing!Candidate(m)
          /\ heard'.failed = fails /\ heard'.owed = (Hearing!Owed(u) /\ ~Hearing!Midnight(u))
          /\ heard'.spent = Hearing!Spent(u)
      BY <3>1
    <3> QED
      BY <3>1, <3>2, <3>3, Weighed DEF Hearing!WindowIsTrue
  <2> QED
    BY <2>1, <2>2 DEF AttentionInv, Kept
<1>4. CASE Hearing!Tick
  <2>1. now' \in Nat /\ now < now' /\ UNCHANGED <<stamp, answer, heard>>
    BY <1>4, WindowAssumption, SMT DEF Hearing!Tick, AttentionInv
  <2> QED
    BY <2>1, SMT DEF AttentionInv, Kept, Hearing!WindowIsTrue
<1> QED
  BY <1>1, <1>2, <1>3, <1>4 DEF Hearing!Next

LEMMA AttentionHolds == AttentionInv => Hearing!TypeOK /\ Hearing!WindowIsTrue
<1> SUFFICES ASSUME AttentionInv, NEW u \in Users
             PROVE  \/ stamp[u] = NoStamp
                    \/ stamp[u] \in Nat /\ (stamp[u] <= 2359 \/ stamp[u] >= Hearing!Epoch)
  BY DEF AttentionInv, Hearing!TypeOK
<1>1. ASSUME NEW at \in Nat PROVE Hearing!HHmm(at) \in Nat /\ Hearing!HHmm(at) <= 2359
  <2>1. PICK a \in Nat : a < 1440 /\ a = (at % 86400) \div 60
    BY TimeOfDay
  <2> QED
    BY <2>1, ClockMinutes
<1>2. ASSUME NEW at \in Nat PROVE Hearing!Epoch + at \in Nat /\ Hearing!Epoch + at >= Hearing!Epoch
  BY SMT DEF Hearing!Epoch
<1>3. Kept(u)
  BY DEF AttentionInv
<1> QED
  BY <1>1, <1>2, <1>3, SMT DEF Kept

--------------------------------------------------------------------------------
(* OneBot. *)

Spots == {"idle", "fetching", "writing", "waiting", "done"}
Sendable == {"api", "text"} \cup Remote
Pictured == [url : Sendable, ok : BOOLEAN]

\* run() is not told to go on once stop() was called, and has nothing left to do after it.
LinkInv ==
  /\ running \in BOOLEAN /\ stopping \in {"no", "closing", "draining", "done"}
  /\ conn \in {"off", "opening", "up", "sleeping", "ended"}
  /\ backoff \in 1..MaxBackoff /\ drops \in 0..MaxDrops
  /\ stopping # "no" => ~running
  /\ stopping = "done" => ready = <<>> /\ working = {}

CallsInv ==
  /\ stage \in [Callers -> Spots] /\ job \in [Callers -> Sendable]
  /\ got \in [Callers -> Adapter!Outcomes]
  /\ reply \in [Callers -> {"none", "ok", "rejected", "lost"}]
  /\ pending \subseteq {c \in Callers : stage[c] = "waiting"} /\ wire \subseteq Callers
  /\ preflight \in Seq(Pictured) /\ Len(preflight) <= CacheSize
  /\ \A m, n \in 1..Len(preflight) : m # n => preflight[m].url # preflight[n].url

\* What a task is made of: an event and what it publishes, or an answer.
Published == {<<"message">>, <<"notice">>, <<"notice", "synthetic">>, <<"synthetic">>, <<>>}
EventTasks == [what : {"event"}, n : Nat, shapes : Published]
AnswerTasks == [what : {"answer"}, of : Callers, ok : BOOLEAN]
IsEvent(i) == ready[i].what = "event"

\* Events wait in the order they were read, and were read after all the log has; a
\* task at work is the only one of its event, which the log has, and what it has left
\* to publish the log has not.
LineInv ==
  /\ frames \in 0..MaxFrames
  /\ ready \in Seq(EventTasks \cup AnswerTasks)
  /\ \A i \in 1..Len(ready) : IsEvent(i) => ready[i].n \in 1..frames
  /\ \A i, j \in 1..Len(ready) : i < j /\ IsEvent(i) /\ IsEvent(j) => ready[i].n < ready[j].n
Shown == {"message", "notice", "synthetic"}
LogInv ==
  /\ log \in Seq(Nat \X Shown)
  /\ \A k \in 1..Len(log) :
       log[k][1] <= frames /\ \A i \in 1..Len(ready) : IsEvent(i) => log[k][1] < ready[i].n
  /\ Adapter!InOrder
WorkInv ==
  /\ working \subseteq [n : 1..frames, left : {<<>>, <<"synthetic">>}]
  /\ \A w \in working : \E k \in 1..Len(log) : log[k][1] = w.n
  /\ \A w \in working : w.left # <<>> => \A k \in 1..Len(log) : log[k] # <<w.n, "synthetic">>
  /\ \A v, w \in working : v.n = w.n => v = w

AdapterInv == LinkInv /\ CallsInv /\ LineInv /\ LogInv /\ WorkInv

LEMMA AdapterInit ==
  ASSUME IF part = "bot" THEN \E start \in Begun : Adapter!InitAfter(start[1], start[2]) ELSE Adapter!Init
  PROVE  AdapterInv
<1>1. PICK n \in 0..MaxFrames, gone \in SUBSET Callers : Adapter!InitAfter(n, gone)
  <2>1. CASE part = "bot"
    <3>1. PICK start \in Begun : Adapter!InitAfter(start[1], start[2])
      BY <2>1
    <3>2. start[1] \in 0..MaxFrames /\ start[2] \in SUBSET Callers
      BY AdapterAssumption
    <3> QED
      BY <3>1, <3>2
  <2>2. CASE part # "bot"
    <3>1. 0 \in 0..MaxFrames /\ {} \in SUBSET Callers
      BY AdapterAssumption
    <3> QED
      BY <2>2, <3>1 DEF Adapter!Init
  <2> QED
    BY <2>1, <2>2
<1> USE AdapterAssumption, <1>1 DEF Adapter!InitAfter
<1>2. running \in BOOLEAN
  BY Zenon
<1>3. LinkInv
  BY <1>2 DEF LinkInv
<1>4. CallsInv
  BY DEF CallsInv, Spots, Sendable, Adapter!Outcomes
<1>5. LineInv
  BY DEF LineInv
<1>6. LogInv
  BY DEF LogInv, Shown, Adapter!InOrder
<1>7. WorkInv
  BY DEF WorkInv
<1> QED
  BY <1>3, <1>4, <1>5, <1>6, <1>7 DEF AdapterInv

\* Where run() stands.
LEMMA HangupLink ==
  ASSUME LinkInv, NEW orderly \in BOOLEAN, Adapter!Hangup(orderly)
  PROVE  /\ conn' \in {"opening", "sleeping", "ended"} /\ backoff' \in 1..MaxBackoff
         /\ UNCHANGED <<running, ready, working>>
<1>1. conn' \in {"opening", "sleeping", "ended"} /\ backoff' \in {1, backoff}
  BY Zenon DEF Adapter!Hangup, Adapter!Retry
<1>2. UNCHANGED <<running, ready, working>>
  BY DEF Adapter!Hangup, Adapter!tasks
<1> QED
  BY <1>1, <1>2, AdapterAssumption DEF LinkInv

LEMMA LinkStep == ASSUME LinkInv, Adapter!Next PROVE LinkInv'
<1> USE AdapterAssumption
<1>1. CASE Adapter!Run
  BY <1>1 DEF LinkInv, Adapter!Run, Adapter!tasks
<1>2. CASE Adapter!Open
  BY <1>2 DEF LinkInv, Adapter!Open, Adapter!tasks
<1>3. CASE Adapter!WakeUp
  <2>1. backoff' \in 1..MaxBackoff
    BY <1>3 DEF LinkInv, Adapter!WakeUp
  <2>2. conn' \in {"opening", "ended"} /\ UNCHANGED <<stopping, running, drops, ready, working>>
    BY <1>3, Zenon DEF Adapter!WakeUp, Adapter!tasks
  <2> QED
    BY <2>1, <2>2 DEF LinkInv
<1>4. CASE Adapter!Stop
  <2>1. /\ running' \in BOOLEAN /\ ~running' /\ stopping' \in {"closing", "draining"}
        /\ UNCHANGED <<conn, backoff, drops, ready, working>>
    BY <1>4, Zenon DEF Adapter!Stop, Adapter!tasks
  <2> QED
    BY <2>1 DEF LinkInv
<1>5. CASE Adapter!Closed
  <2>1. stopping = "closing" /\ stopping' = "draining" /\ UNCHANGED drops
    BY <1>5 DEF Adapter!Closed
  <2>2. CASE Adapter!Hangup(TRUE)
    BY <2>1, <2>2, HangupLink DEF LinkInv
  <2>3. CASE UNCHANGED <<running, conn, backoff, Adapter!calls, Adapter!tasks>>
    BY <2>1, <2>3 DEF LinkInv, Adapter!tasks
  <2> QED
    BY <1>5, <2>2, <2>3 DEF Adapter!Closed
<1>6. CASE Adapter!Drain
  BY <1>6 DEF LinkInv, Adapter!Drain, Adapter!link
<1>7. CASE Adapter!ReadAfterStop
  <2>1. Adapter!Hangup(TRUE) /\ UNCHANGED <<stopping, drops>>
    BY <1>7 DEF Adapter!ReadAfterStop
  <2> QED
    BY <2>1, HangupLink DEF LinkInv
<1>8. CASE Adapter!Start
  <2>1. UNCHANGED <<stopping, running, conn, backoff, drops>> /\ ready # <<>>
    BY <1>8 DEF Adapter!Start, Adapter!link
  <2> QED
    BY <2>1 DEF LinkInv
<1>9. ASSUME NEW b \in BOOLEAN, Adapter!Refuse(b) PROVE LinkInv'
  <2>1. drops' \in 0..MaxDrops /\ UNCHANGED <<stopping, ready, working, backoff>>
    BY <1>9 DEF LinkInv, Adapter!Refuse, Adapter!Retry, Adapter!tasks
  <2>2. conn' \in {"ended", "sleeping"}
    BY <1>9, Zenon DEF Adapter!Refuse, Adapter!Retry
  <2>3. running' \in BOOLEAN /\ (running' => running)
    BY <1>9, Zenon DEF LinkInv, Adapter!Refuse
  <2> QED
    BY <2>1, <2>2, <2>3 DEF LinkInv
<1>10. ASSUME NEW b \in BOOLEAN, Adapter!Drop(b) PROVE LinkInv'
  <2>1. drops' \in 0..MaxDrops /\ UNCHANGED stopping /\ Adapter!Hangup(b)
    BY <1>10 DEF LinkInv, Adapter!Drop
  <2> QED
    BY <2>1, HangupLink DEF LinkInv
<1>11. ASSUME NEW task, Adapter!Spawn(task) PROVE LinkInv'
  BY <1>11 DEF LinkInv, Adapter!Spawn, Adapter!link
<1>12. ASSUME NEW task \in working, Adapter!Handled(task) PROVE LinkInv'
  BY <1>12 DEF LinkInv, Adapter!Handled, Adapter!link
<1>13. CASE UNCHANGED <<stopping, Adapter!link, Adapter!tasks>>
  BY <1>13 DEF LinkInv, Adapter!link, Adapter!tasks
<1>14. ASSUME NEW c \in Callers, NEW what, Adapter!Call(c, what) PROVE LinkInv'
  BY <1>13, <1>14 DEF Adapter!Call
<1>15. ASSUME NEW n \in 1..CacheSize, Adapter!Expire(n) PROVE LinkInv'
  BY <1>13, <1>15 DEF Adapter!Expire
<1>16. ASSUME NEW c \in Callers, Adapter!Work(c) PROVE LinkInv'
  BY <1>13, <1>16 DEF Adapter!Work, Adapter!Register, Adapter!WriteFails, Adapter!Answered, Adapter!TimeOut, Adapter!Fetch
<1> QED
  BY <1>1, <1>2, <1>3, <1>4, <1>5, <1>6, <1>7, <1>8, <1>9, <1>10, <1>11, <1>12, <1>14, <1>15, <1>16
  DEF Adapter!Next, Adapter!ReadEvent, Adapter!ReadAnswer

--------------------------------------------------------------------------------
LEMMA CallsSame ==
  ASSUME CallsInv, UNCHANGED Adapter!calls
  PROVE  CallsInv'
BY DEF CallsInv, Adapter!calls

LEMMA PendingFails ==
  ASSUME CallsInv, Adapter!FailPending, UNCHANGED <<stage, job, got, preflight>>, wire' \subseteq wire
  PROVE  CallsInv'
<1>1. reply' \in [Callers -> {"none", "ok", "rejected", "lost"}] /\ pending' = {}
  BY DEF CallsInv, Adapter!FailPending
<1> QED
  BY <1>1 DEF CallsInv

LEMMA HangupCalls ==
  ASSUME CallsInv, NEW orderly \in BOOLEAN, Adapter!Hangup(orderly)
  PROVE  CallsInv'
<1>1. Adapter!FailPending /\ wire' = {} /\ UNCHANGED <<stage, job, got, preflight>>
  BY DEF Adapter!Hangup
<1> QED
  BY <1>1, PendingFails

\* A call that goes on or ends while nobody's future changes.
LEMMA CallMoves ==
  ASSUME CallsInv, NEW c \in Callers, stage[c] # "waiting",
         stage' \in {[stage EXCEPT ![c] = to] : to \in Spots}, got' \in [Callers -> Adapter!Outcomes],
         job' \in [Callers -> Sendable], wire' \subseteq Callers, UNCHANGED <<pending, reply>>,
         preflight' \in Seq(Pictured), Len(preflight') <= CacheSize,
         \A m, n \in 1..Len(preflight') : m # n => preflight'[m].url # preflight'[n].url
  PROVE  CallsInv'
BY DEF CallsInv, Spots

LEMMA PreparedMoves ==
  ASSUME CallsInv, NEW c \in Callers, NEW ok, Adapter!Prepared(c, ok) \/ Adapter!Write(c)
  PROVE  /\ stage' \in {[stage EXCEPT ![c] = to] : to \in Spots}
         /\ got' \in [Callers -> Adapter!Outcomes] /\ wire' \subseteq Callers
<1>1. Adapter!Write(c) \/ (Adapter!End(c, "empty") /\ UNCHANGED wire)
  BY Zenon DEF Adapter!Prepared
<1> QED
  BY <1>1 DEF CallsInv, Adapter!Write, Adapter!End, Adapter!Outcomes, Spots

\* The preflight cache holds no picture twice and no more than it may.
LEMMA CachedKeeps ==
  ASSUME CallsInv, NEW picked \in Sendable, NEW ok \in BOOLEAN, NEW new, new = Adapter!Cached(picked, ok)
  PROVE  /\ new \in Seq(Pictured) /\ Len(new) <= CacheSize
         /\ \A m, n \in 1..Len(new) : m # n => new[m].url # new[n].url
<1> DEFINE held == IF Len(preflight) >= CacheSize THEN Tail(preflight) ELSE preflight
           entry == [url |-> picked, ok |-> ok]
<1>1. entry \in Pictured /\ entry.url = picked
  BY DEF Pictured
<1>2. /\ held \in Seq(Pictured) /\ Len(held) < CacheSize
      /\ \A m, n \in 1..Len(held) : m # n => held[m].url # held[n].url
  <2>0. CacheSize \in Nat \ {0} /\ Len(preflight) \in Nat /\ Len(preflight) <= CacheSize
    BY AdapterAssumption DEF CallsInv
  <2>1. CASE Len(preflight) >= CacheSize
    <3>1. held = Tail(preflight) /\ preflight # <<>> /\ preflight \in Seq(Pictured)
      BY <2>0, <2>1 DEF CallsInv
    <3>2. /\ Tail(preflight) \in Seq(Pictured) /\ Len(Tail(preflight)) = Len(preflight) - 1
          /\ \A m \in 1..Len(Tail(preflight)) : Tail(preflight)[m] = preflight[m + 1]
      BY <3>1
    <3> HIDE DEF held
    <3> QED
      BY <2>0, <3>1, <3>2 DEF CallsInv
  <2>2. CASE ~(Len(preflight) >= CacheSize)
    BY <2>0, <2>2 DEF CallsInv
  <2> QED
    BY <2>1, <2>2
<1>3. new = IF \E n \in DOMAIN held : held[n].url = picked
            THEN [n \in DOMAIN held |-> IF held[n].url = picked THEN entry ELSE held[n]]
            ELSE Append(held, entry)
  BY DEF Adapter!Cached
<1> HIDE DEF held, entry
<1>4. CacheSize \in Nat /\ Len(held) \in Nat /\ DOMAIN held = 1..Len(held)
  BY <1>2, AdapterAssumption
<1>5. CASE \E n \in DOMAIN held : held[n].url = picked
  <2>1. new = [n \in 1..Len(held) |-> IF held[n].url = picked THEN entry ELSE held[n]]
    BY <1>3, <1>4, <1>5
  <2>2. \A n \in 1..Len(held) : new[n] \in Pictured /\ new[n].url = held[n].url
    BY <1>1, <1>2, <2>1
  <2>3. new \in Seq(Pictured) /\ Len(new) = Len(held)
    BY <1>4, <2>1, <2>2
  <2> QED
    BY <1>2, <1>4, <2>2, <2>3
<1>6. CASE ~\E n \in DOMAIN held : held[n].url = picked
  <2>1. new = Append(held, entry)
    BY <1>3, <1>6
  <2>2. /\ new \in Seq(Pictured) /\ Len(new) = Len(held) + 1 /\ new[Len(held) + 1] = entry
        /\ \A n \in 1..Len(held) : new[n] = held[n]
    BY <1>1, <1>2, <2>1
  <2> QED
    BY <1>1, <1>2, <1>4, <1>6, <2>2
<1> QED
  BY <1>5, <1>6

LEMMA ExpireKeeps ==
  ASSUME CallsInv, NEW n \in 1..CacheSize, Adapter!Expire(n)
  PROVE  CallsInv'
<1> DEFINE len == Len(preflight)
<1>1. preflight \in Seq(Pictured) /\ len \in Nat /\ n \in 1..len /\ DOMAIN preflight = 1..len
  BY DEF CallsInv, Adapter!Expire
<1>2. preflight' = [i \in 1..(len - 1) |-> IF i < n THEN preflight[i] ELSE preflight[i + 1]]
  BY DEF Adapter!Expire
<1>3. \A i \in 1..(len - 1) : preflight'[i] \in Pictured
  BY <1>1, <1>2
<1>4. preflight' \in Seq(Pictured) /\ Len(preflight') = len - 1
  BY <1>1, <1>2, <1>3
<1>5. \A i, j \in 1..(len - 1) : i # j => preflight'[i].url # preflight'[j].url
  BY <1>1, <1>2 DEF CallsInv
<1>6. Len(preflight') <= CacheSize
  BY <1>1, <1>4, AdapterAssumption DEF CallsInv
<1> QED
  BY <1>4, <1>5, <1>6 DEF CallsInv, Adapter!Expire, Adapter!tasks

LEMMA WorkKeeps ==
  ASSUME CallsInv, NEW c \in Callers, Adapter!Work(c)
  PROVE  CallsInv'
<1>1. CASE Adapter!Register(c)
  <2>1. /\ stage' = [stage EXCEPT ![c] = "waiting"] /\ pending' = pending \cup {c}
        /\ UNCHANGED <<job, got, reply, wire, preflight>>
    BY <1>1 DEF Adapter!Register
  <2> QED
    BY <2>1 DEF CallsInv, Spots
<1>2. CASE Adapter!WriteFails(c)
  <2>1. stage' \in {[stage EXCEPT ![c] = to] : to \in Spots} /\ got' \in [Callers -> Adapter!Outcomes]
    BY <1>2 DEF CallsInv, Adapter!WriteFails, Adapter!End, Adapter!Outcomes, Spots
  <2>2. stage[c] # "waiting" /\ UNCHANGED <<job, pending, reply, wire, preflight>>
    BY <1>2 DEF Adapter!WriteFails
  <2> QED
    BY <2>1, <2>2, CallMoves DEF CallsInv
<1>3. ASSUME Adapter!Answered(c) \/ Adapter!TimeOut(c) PROVE CallsInv'
  <2>1. /\ \E r \in Adapter!Outcomes : Adapter!End(c, r)
        /\ pending' = pending \ {c} /\ UNCHANGED <<job, reply, wire, preflight>>
    BY <1>3 DEF CallsInv, Adapter!Answered, Adapter!TimeOut, Adapter!Outcomes
  <2> QED
    BY <2>1 DEF CallsInv, Adapter!End, Spots
<1>4. ASSUME NEW ok \in BOOLEAN, Adapter!Fetch(c, ok) PROVE CallsInv'
  <2>1. /\ stage[c] = "fetching" /\ preflight' = Adapter!Cached(job[c], ok) /\ Adapter!Prepared(c, ok)
        /\ UNCHANGED <<job, pending, reply>>
    BY <1>4 DEF Adapter!Fetch
  <2>2. job[c] \in Sendable
    BY DEF CallsInv
  <2>3. /\ preflight' \in Seq(Pictured) /\ Len(preflight') <= CacheSize
        /\ \A m, n \in 1..Len(preflight') : m # n => preflight'[m].url # preflight'[n].url
    BY <2>1, <2>2, CachedKeeps
  <2> QED
    BY <2>1, <2>3, PreparedMoves, CallMoves DEF CallsInv
<1> QED
  BY <1>1, <1>2, <1>3, <1>4 DEF Adapter!Work

LEMMA CallKeeps ==
  ASSUME CallsInv, NEW c \in Callers, NEW what \in Sendable, Adapter!Call(c, what)
  PROVE  CallsInv'
<1>1. /\ stage[c] = "idle" /\ job' = [job EXCEPT ![c] = what]
      /\ UNCHANGED <<pending, reply, preflight>>
  BY DEF Adapter!Call
<1> DEFINE Moved == /\ stage' \in {[stage EXCEPT ![c] = to] : to \in Spots}
                    /\ got' \in [Callers -> Adapter!Outcomes] /\ wire' \subseteq Callers
<1>2. Moved
  <2>1. CASE stage' = [stage EXCEPT ![c] = "fetching"] /\ UNCHANGED <<got, wire>>
    BY <2>1 DEF CallsInv, Spots
  <2>2. CASE Adapter!Write(c)
    BY <2>2, PreparedMoves
  <2>3. ASSUME NEW n \in DOMAIN preflight, Adapter!Prepared(c, preflight[n].ok) PROVE Moved
    BY <2>3, PreparedMoves
  <2> QED
    BY <2>1, <2>2, <2>3 DEF Adapter!Call
<1> QED
  BY <1>1, <1>2, CallMoves DEF CallsInv

LEMMA StartCalls == ASSUME CallsInv, Adapter!Start PROVE CallsInv'
<1>1. UNCHANGED <<stage, job, got, pending, wire, preflight>>
  BY DEF Adapter!Start
<1>2. reply' = reply \/ \E c \in pending, r \in {"ok", "rejected"} : reply' = [reply EXCEPT ![c] = r]
  BY Zenon DEF Adapter!Start
<1> QED
  BY <1>1, <1>2 DEF CallsInv

LEMMA CallsStep == ASSUME CallsInv, Adapter!Next PROVE CallsInv'
<1>1. ASSUME \/ Adapter!Run \/ Adapter!Open \/ Adapter!WakeUp \/ Adapter!Stop
             \/ \E b \in BOOLEAN : Adapter!Refuse(b)
             \/ \E task \in working : Adapter!Handled(task)
      PROVE  CallsInv'
  BY <1>1, CallsSame DEF Adapter!Run, Adapter!Open, Adapter!WakeUp, Adapter!Stop, Adapter!Refuse, Adapter!Handled
<1>2. ASSUME NEW b \in BOOLEAN, Adapter!Hangup(b) PROVE CallsInv'
  BY <1>2, HangupCalls
<1>3. ASSUME \/ Adapter!Closed \/ Adapter!ReadAfterStop \/ \E b \in BOOLEAN : Adapter!Drop(b)
      PROVE  CallsInv'
  BY <1>2, <1>3, CallsSame DEF Adapter!Closed, Adapter!ReadAfterStop, Adapter!Drop
<1>4. CASE Adapter!Drain
  BY <1>4, PendingFails DEF Adapter!Drain
<1>5. ASSUME NEW task, Adapter!Spawn(task), wire' \subseteq wire PROVE CallsInv'
  BY <1>5 DEF CallsInv, Adapter!Spawn
<1>6. ASSUME NEW kind \in Adapter!Kinds, Adapter!ReadEvent(kind) PROVE CallsInv'
  BY <1>5, <1>6 DEF Adapter!ReadEvent
<1>7. ASSUME NEW c \in Callers, NEW ok \in BOOLEAN, Adapter!ReadAnswer(c, ok) PROVE CallsInv'
  BY <1>5, <1>7 DEF Adapter!ReadAnswer
<1> QED
  BY <1>1, <1>3, <1>4, <1>6, <1>7, StartCalls, WorkKeeps, CallKeeps, ExpireKeeps DEF Adapter!Next, Sendable

\* Adapter!InOrder of a log.
Fresh(s, i) == \A k \in 1..(i - 1) : s[k][1] # s[i][1]
Apart(s, i, j) ==
  /\ s[i] # s[j]
  /\ Fresh(s, i) /\ Fresh(s, j) => s[i][1] < s[j][1]
  /\ s[i][1] = s[j][1] => s[j][2] = "synthetic"
Orderly(s) == \A i, j \in 1..Len(s) : i < j => Apart(s, i, j)

LEMMA InOrderIsOrderly == ASSUME log \in Seq(Nat \X Shown) PROVE Adapter!InOrder <=> Orderly(log)
<1>1. DOMAIN log = 1..Len(log)
  OBVIOUS
<1>2. ASSUME NEW i PROVE Adapter!Foremost(i) <=> Fresh(log, i)
  BY DEF Adapter!Foremost, Fresh
<1> QED
  BY <1>1, <1>2, Zenon DEF Adapter!InOrder, Orderly, Apart

\* What a task publishes goes to the end of the log.
LEMMA OrderlyAppends ==
  ASSUME NEW s \in Seq(Nat \X Shown), Orderly(s), NEW n \in Nat, NEW shape \in Shown,
         NEW t, t = Append(s, <<n, shape>>),
         \/ \A k \in 1..Len(s) : s[k][1] < n
         \/ /\ shape = "synthetic" /\ \A k \in 1..Len(s) : s[k] # <<n, shape>>
            /\ \E k \in 1..Len(s) : s[k][1] = n
  PROVE  Orderly(t)
<1> DEFINE len == Len(s)
<1>1. /\ len \in Nat /\ Len(t) = len + 1 /\ t[len + 1] = <<n, shape>>
      /\ \A k \in 1..len : t[k] = s[k] /\ s[k][1] \in Nat
  OBVIOUS
<1> HIDE DEF len
<1>2. ASSUME NEW i \in 1..len, NEW j \in 1..len, i < j
      PROVE  Apart(t, i, j)
  <2>1. t[i] = s[i] /\ t[j] = s[j]
    BY <1>1
  <2>2. (Fresh(t, i) => Fresh(s, i)) /\ (Fresh(t, j) => Fresh(s, j))
    <3>1. \A k \in 1..(i - 1) : t[k] = s[k]
      BY <1>1
    <3>2. \A k \in 1..(j - 1) : t[k] = s[k]
      BY <1>1
    <3> QED
      BY <2>1, <3>1, <3>2 DEF Fresh
  <2>3. Apart(s, i, j)
    BY <1>2 DEF Orderly, len
  <2> QED
    BY <2>1, <2>2, <2>3 DEF Apart
<1>3. ASSUME NEW i \in 1..len, NEW j, j = len + 1
      PROVE  Apart(t, i, j)
  <2>1. t[i] = s[i] /\ t[j] = <<n, shape>> /\ t[j][1] = n /\ t[j][2] = shape /\ s[i][1] \in Nat
    BY <1>1, <1>3
  <2>2. CASE \A k \in 1..len : s[k][1] < n
    <3>1. s[i][1] < n /\ s[i][1] # n
      BY <2>1, <2>2
    <3>2. t[i][1] < t[j][1] /\ t[i][1] # t[j][1]
      BY <2>1, <3>1
    <3> QED
      BY <3>2 DEF Apart
  <2>3. CASE /\ shape = "synthetic" /\ \A k \in 1..len : s[k] # <<n, shape>>
             /\ \E k \in 1..len : s[k][1] = n
    <3>1. ~Fresh(t, j)
      <4>1. PICK k \in 1..len : s[k][1] = n
        BY <2>3
      <4>2. k \in 1..(j - 1) /\ t[k] = s[k]
        BY <1>1, <1>3
      <4>3. t[k][1] = t[j][1]
        BY <2>1, <4>1, <4>2
      <4> QED
        BY <4>2, <4>3 DEF Fresh
    <3>2. s[i] # <<n, shape>>
      BY <2>3
    <3> QED
      BY <2>1, <2>3, <3>1, <3>2 DEF Apart
  <2> QED
    BY <2>2, <2>3 DEF len
<1>4. ASSUME NEW i \in 1..(len + 1), NEW j \in 1..(len + 1), i < j
      PROVE  Apart(t, i, j)
  <2>1. i \in 1..len /\ (j \in 1..len \/ j = len + 1)
    BY <1>1, <1>4
  <2>2. CASE j \in 1..len
    BY <1>2, <1>4, <2>1, <2>2
  <2>3. CASE j = len + 1
    BY <1>3, <2>1, <2>3
  <2> QED
    BY <2>1, <2>2, <2>3
<1>5. Len(t) = len + 1
  BY <1>1
<1> QED
  BY <1>4, <1>5 DEF Orderly

\* The same of the log of the model.
LEMMA Logged ==
  ASSUME log \in Seq(Nat \X Shown), Adapter!InOrder, NEW n \in Nat, NEW shape \in Shown,
         log' = Append(log, <<n, shape>>),
         \/ \A k \in 1..Len(log) : log[k][1] < n
         \/ /\ shape = "synthetic" /\ \A k \in 1..Len(log) : log[k] # <<n, shape>>
            /\ \E k \in 1..Len(log) : log[k][1] = n
  PROVE  /\ log' \in Seq(Nat \X Shown) /\ Len(log') = Len(log) + 1 /\ Len(log) \in Nat
         /\ \A k \in 1..Len(log) : log'[k] = log[k]
         /\ log'[Len(log) + 1] = <<n, shape>> /\ log'[Len(log) + 1][1] = n
         /\ Adapter!InOrder'
<1>1. /\ log' \in Seq(Nat \X Shown) /\ Len(log') = Len(log) + 1 /\ Len(log) \in Nat
      /\ \A k \in 1..Len(log) : log'[k] = log[k]
      /\ log'[Len(log) + 1] = <<n, shape>>
  OBVIOUS
<1>2. Orderly(log)
  BY InOrderIsOrderly
<1>3. Orderly(log')
  BY <1>2, OrderlyAppends
<1>4. Adapter!InOrder'
  <2> SUFFICES ASSUME NEW i \in DOMAIN log', NEW j \in DOMAIN log', i < j
               PROVE  /\ log'[i] # log'[j]
                      /\ Adapter!Foremost(i)' /\ Adapter!Foremost(j)' => log'[i][1] < log'[j][1]
                      /\ log'[i][1] = log'[j][1] => log'[j][2] = "synthetic"
    BY DEF Adapter!InOrder
  <2>1. i \in 1..Len(log') /\ j \in 1..Len(log')
    BY <1>1
  <2>2. Apart(log', i, j)
    BY <1>3, <2>1 DEF Orderly
  <2> QED
    BY <2>2 DEF Apart, Fresh, Adapter!Foremost
<1> QED
  BY <1>1, <1>4

--------------------------------------------------------------------------------
TasksInv == LineInv /\ LogInv /\ WorkInv

LEMMA TasksSame ==
  ASSUME TasksInv, UNCHANGED Adapter!tasks
  PROVE  TasksInv'
BY DEF TasksInv, LineInv, LogInv, WorkInv, IsEvent, Adapter!tasks, Adapter!InOrder, Adapter!Foremost

\* A frame's task goes to the end of the line, after every event that was read.
LEMMA QueuedLast ==
  ASSUME TasksInv, NEW task \in EventTasks \cup AnswerTasks, ready' = Append(ready, task),
         frames' \in {frames, frames + 1}, frames' <= MaxFrames,
         task.what = "event" => task.n = frames' /\ frames' = frames + 1,
         UNCHANGED <<log, working>>
  PROVE  TasksInv'
<1> USE AdapterAssumption
<1>1. /\ ready \in Seq(EventTasks \cup AnswerTasks) /\ Len(ready) \in Nat /\ frames \in 0..MaxFrames
      /\ frames' \in 0..MaxFrames /\ frames <= frames'
  BY DEF TasksInv, LineInv
<1>2. /\ ready' \in Seq(EventTasks \cup AnswerTasks) /\ Len(ready') = Len(ready) + 1
      /\ \A i \in 1..Len(ready) : ready'[i] = ready[i]
      /\ ready'[Len(ready) + 1] = task
  BY <1>1
<1>3. LineInv'
  <2>1. \A i \in 1..Len(ready') : ready'[i].what = "event" => ready'[i].n \in 1..frames'
    BY <1>1, <1>2 DEF TasksInv, LineInv, IsEvent
  <2>2. \A i, j \in 1..Len(ready') :
          i < j /\ ready'[i].what = "event" /\ ready'[j].what = "event" => ready'[i].n < ready'[j].n
    BY <1>1, <1>2 DEF TasksInv, LineInv, IsEvent
  <2> QED
    BY <1>1, <1>2, <2>1, <2>2 DEF LineInv, IsEvent
<1>4. LogInv'
  <2>1. \A k \in 1..Len(log) : log[k][1] \in Nat /\ log[k][1] <= frames
    BY DEF TasksInv, LogInv
  <2>2. \A k \in 1..Len(log) :
         log[k][1] <= frames' /\ \A i \in 1..Len(ready') : ready'[i].what = "event" => log[k][1] < ready'[i].n
    BY <1>1, <1>2, <2>1 DEF TasksInv, LogInv, IsEvent
  <2> QED
    BY <2>2 DEF TasksInv, LogInv, IsEvent, Adapter!InOrder, Adapter!Foremost
<1>5. WorkInv'
  <2>1. working \subseteq [n : 1..frames', left : {<<>>, <<"synthetic">>}]
    BY <1>1 DEF TasksInv, WorkInv
  <2> QED
    BY <2>1 DEF TasksInv, WorkInv
<1> QED
  BY <1>3, <1>4, <1>5 DEF TasksInv

LEMMA ReadEventKeeps ==
  ASSUME TasksInv, NEW kind \in Adapter!Kinds, Adapter!ReadEvent(kind)
  PROVE  TasksInv'
<1> DEFINE task == [what |-> "event", n |-> frames + 1, shapes |-> Adapter!Shapes(kind)]
<1>1. frames \in Nat /\ frames < MaxFrames /\ frames' = frames + 1 /\ MaxFrames \in Nat
  BY AdapterAssumption DEF TasksInv, LineInv, Adapter!ReadEvent
<1>2. Adapter!Shapes(kind) \in Published
  BY DEF Adapter!Kinds, Adapter!Shapes, Published
<1>3. task \in EventTasks /\ task.what = "event" /\ task.n = frames + 1
  BY <1>1, <1>2 DEF EventTasks
<1>4. ready' = Append(ready, task) /\ UNCHANGED <<log, working>>
  BY DEF Adapter!ReadEvent, Adapter!Spawn
<1> HIDE DEF task
<1> QED
  BY <1>1, <1>3, <1>4, QueuedLast

LEMMA ReadAnswerKeeps ==
  ASSUME TasksInv, NEW c \in Callers, NEW ok \in BOOLEAN, Adapter!ReadAnswer(c, ok)
  PROVE  TasksInv'
<1> DEFINE task == [what |-> "answer", of |-> c, ok |-> ok]
<1>1. frames \in Nat /\ frames <= MaxFrames /\ frames' = frames
  BY AdapterAssumption DEF TasksInv, LineInv, Adapter!ReadAnswer
<1>2. task \in AnswerTasks /\ task.what = "answer"
  BY DEF AnswerTasks
<1>3. ready' = Append(ready, task) /\ UNCHANGED <<log, working>>
  BY DEF Adapter!ReadAnswer, Adapter!Spawn
<1> HIDE DEF task
<1> QED
  BY <1>1, <1>2, <1>3, QueuedLast

\* The line without its head.
LEMMA LineMoves ==
  ASSUME TasksInv, ready # <<>>, ready' = Tail(ready), UNCHANGED frames
  PROVE  /\ LineInv' /\ Head(ready) \in EventTasks \cup AnswerTasks
         /\ \A i \in 1..Len(ready') : i + 1 \in 1..Len(ready) /\ ready'[i] = ready[i + 1]
         /\ Head(ready) = ready[1] /\ 1 \in 1..Len(ready)
<1>1. /\ ready \in Seq(EventTasks \cup AnswerTasks) /\ Len(ready) \in Nat \ {0}
      /\ ready' \in Seq(EventTasks \cup AnswerTasks) /\ Len(ready') = Len(ready) - 1
      /\ \A i \in 1..Len(ready') : i + 1 \in 1..Len(ready) /\ ready'[i] = ready[i + 1]
      /\ Head(ready) = ready[1] /\ 1 \in 1..Len(ready) /\ Head(ready) \in EventTasks \cup AnswerTasks
  BY DEF TasksInv, LineInv
<1>2. LineInv'
  <2>1. \A i \in 1..Len(ready') : ready'[i].what = "event" => ready'[i].n \in 1..frames
    BY <1>1 DEF TasksInv, LineInv, IsEvent
  <2>2. \A i, j \in 1..Len(ready') :
          i < j /\ ready'[i].what = "event" /\ ready'[j].what = "event" => ready'[i].n < ready'[j].n
    BY <1>1 DEF TasksInv, LineInv, IsEvent
  <2> QED
    BY <1>1, <2>1, <2>2 DEF TasksInv, LineInv, IsEvent
<1> QED
  BY <1>1, <1>2

\* Event n publishes a shape: the log gets it, and nothing in the line was read before.
LEMMA LogGrows ==
  ASSUME LogInv, UNCHANGED frames, frames \in Nat, NEW n \in 1..frames, NEW shape \in Shown,
         log' = Append(log, <<n, shape>>),
         \/ \A k \in 1..Len(log) : log[k][1] < n
         \/ /\ shape = "synthetic" /\ \A k \in 1..Len(log) : log[k] # <<n, shape>>
            /\ \E k \in 1..Len(log) : log[k][1] = n,
         \A i \in 1..Len(ready') :
           ready'[i].what = "event" =>
             n < ready'[i].n /\ \E j \in 1..Len(ready) : ready'[i] = ready[j]
  PROVE  LogInv'
<1>1. log \in Seq(Nat \X Shown) /\ Adapter!InOrder /\ n \in Nat
  BY DEF LogInv
<1>2. /\ log' \in Seq(Nat \X Shown) /\ Len(log') = Len(log) + 1 /\ Len(log) \in Nat
      /\ \A k \in 1..Len(log) : log'[k] = log[k]
      /\ log'[Len(log) + 1] = <<n, shape>> /\ log'[Len(log) + 1][1] = n
      /\ Adapter!InOrder'
  BY <1>1, Logged
<1>3. ASSUME NEW k \in 1..Len(log')
      PROVE  log'[k][1] <= frames /\
               \A i \in 1..Len(ready') : ready'[i].what = "event" => log'[k][1] < ready'[i].n
  <2>1. CASE k \in 1..Len(log)
    BY <1>2, <2>1 DEF LogInv, IsEvent
  <2>2. CASE k = Len(log) + 1
    BY <1>2, <2>2
  <2> QED
    BY <1>2, <2>1, <2>2
<1> QED
  BY <1>2, <1>3 DEF LogInv, IsEvent

\* The task of event n joins those at work, or takes the place it had there.
LEMMA WorkGrows ==
  ASSUME WorkInv, log \in Seq(Nat \X Shown), UNCHANGED frames, NEW n \in 1..frames, NEW shape \in Shown,
         frames \in Nat, log' = Append(log, <<n, shape>>), NEW others, others \subseteq working, \A w \in others : w.n # n,
         NEW left \in {<<>>, <<"synthetic">>},
         working' = others \cup {[n |-> n, left |-> left]},
         left # <<>> => shape # "synthetic" /\ \A k \in 1..Len(log) : log[k][1] < n
  PROVE  WorkInv'
<1> DEFINE new == [n |-> n, left |-> left]
<1>1. /\ Len(log') = Len(log) + 1 /\ Len(log) \in Nat
      /\ \A k \in 1..Len(log) : log'[k] = log[k] /\ log[k][1] \in Nat
      /\ log'[Len(log) + 1] = <<n, shape>>
  OBVIOUS
<1>2. /\ new \in [n : 1..frames, left : {<<>>, <<"synthetic">>}] /\ new.n = n /\ new.left = left
      /\ working' = others \cup {new}
  OBVIOUS
<1> HIDE DEF new
<1>3. working' \subseteq [n : 1..frames', left : {<<>>, <<"synthetic">>}]
  BY <1>2 DEF WorkInv
<1>4. ASSUME NEW w \in working' PROVE \E k \in 1..Len(log') : log'[k][1] = w.n
  <2>1. CASE w \in others
    <3>1. PICK k \in 1..Len(log) : log[k][1] = w.n
      BY <2>1 DEF WorkInv
    <3>2. k \in 1..Len(log') /\ log'[k][1] = w.n
      BY <1>1, <3>1
    <3> QED
      BY <3>2
  <2>2. CASE w = new
    <3>1. Len(log) + 1 \in 1..Len(log') /\ log'[Len(log) + 1][1] = w.n
      BY <1>1, <1>2, <2>2
    <3> QED
      BY <3>1
  <2> QED
    BY <1>2, <2>1, <2>2
<1>5. ASSUME NEW w \in working', w.left # <<>>, NEW k \in 1..Len(log')
      PROVE  log'[k] # <<w.n, "synthetic">>
  <2>1. CASE w \in others /\ k \in 1..Len(log)
    BY <1>1, <1>5, <2>1 DEF WorkInv
  <2>2. CASE w \in others /\ k = Len(log) + 1
    BY <1>1, <2>2
  <2>3. CASE w = new /\ k \in 1..Len(log)
    <3>1. log[k][1] < n /\ log[k][1] \in Nat /\ log'[k] = log[k]
      BY <1>1, <1>2, <1>5, <2>3
    <3>2. log'[k][1] # n
      BY <3>1
    <3> QED
      BY <1>2, <2>3, <3>2
  <2>4. CASE w = new /\ k = Len(log) + 1
    BY <1>1, <1>2, <1>5, <2>4
  <2> QED
    BY <1>1, <1>2, <2>1, <2>2, <2>3, <2>4
<1>6. ASSUME NEW v \in working', NEW w \in working', v.n = w.n PROVE v = w
  <2>1. CASE v \in others /\ w \in others
    BY <1>6, <2>1 DEF WorkInv
  <2> QED
    BY <1>2, <1>6, <2>1
<1> QED
  BY <1>3, <1>4, <1>5, <1>6 DEF WorkInv

LEMMA StartKeeps == ASSUME TasksInv, Adapter!Start PROVE TasksInv'
<1> DEFINE task == Head(ready)
<1>1. ready # <<>> /\ ready' = Tail(ready) /\ UNCHANGED frames
  BY DEF Adapter!Start
<1>2. /\ LineInv' /\ task \in EventTasks \cup AnswerTasks
      /\ \A i \in 1..Len(ready') : i + 1 \in 1..Len(ready) /\ ready'[i] = ready[i + 1]
      /\ task = ready[1] /\ 1 \in 1..Len(ready)
  BY <1>1, LineMoves
<1>3. CASE UNCHANGED <<working, log>>
  <2>1. LogInv'
    <3>1. \A k \in 1..Len(log), i \in 1..Len(ready') : ready'[i].what = "event" => log[k][1] < ready'[i].n
      BY <1>2 DEF TasksInv, LogInv, IsEvent
    <3> QED
      BY <1>1, <1>3, <3>1 DEF TasksInv, LogInv, IsEvent, Adapter!InOrder, Adapter!Foremost
  <2>2. WorkInv'
    BY <1>1, <1>3 DEF TasksInv, WorkInv
  <2> QED
    BY <1>2, <2>1, <2>2 DEF TasksInv
<1>4. CASE /\ task.what = "event" /\ task.shapes # <<>>
           /\ log' = Append(log, <<task.n, Head(task.shapes)>>)
           /\ working' = working \cup {[n |-> task.n, left |-> Tail(task.shapes)]}
  <2>1. task \in EventTasks /\ task.n \in 1..frames /\ frames \in Nat
    BY <1>2, <1>4, AdapterAssumption DEF EventTasks, AnswerTasks, TasksInv, LineInv, IsEvent
  <2>2. /\ Head(task.shapes) \in Shown /\ Tail(task.shapes) \in {<<>>, <<"synthetic">>}
        /\ Tail(task.shapes) # <<>> => Head(task.shapes) # "synthetic"
    <3>1. task.shapes \in {<<"message">>, <<"notice">>, <<"notice", "synthetic">>, <<"synthetic">>}
      BY <1>4, <2>1 DEF EventTasks, Published
    <3>2. CASE \E s \in Shown : task.shapes = <<s>>
      <4>1. PICK s \in Shown : task.shapes = <<s>>
        BY <3>2
      <4>2. Head(<<s>>) = s /\ Tail(<<s>>) = <<>>
        OBVIOUS
      <4>3. Head(task.shapes) = s /\ Tail(task.shapes) = <<>>
        BY <4>1, <4>2, Zenon
      <4> QED
        BY <4>3, Zenon
    <3>3. CASE task.shapes = <<"notice", "synthetic">>
      <4>1. Head(<<"notice", "synthetic">>) = "notice" /\ Tail(<<"notice", "synthetic">>) = <<"synthetic">>
        OBVIOUS
      <4>2. Head(task.shapes) = "notice" /\ Tail(task.shapes) = <<"synthetic">>
        BY <3>3, <4>1, Zenon
      <4> QED
        BY <4>2 DEF Shown
    <3> QED
      BY <3>1, <3>2, <3>3, Zenon DEF Shown
  <2>3. \A k \in 1..Len(log) : log[k][1] < task.n
    BY <1>2, <1>4 DEF TasksInv, LogInv, IsEvent
  <2>4. ASSUME NEW i \in 1..Len(ready'), ready'[i].what = "event"
        PROVE  task.n < ready'[i].n /\ \E j \in 1..Len(ready) : ready'[i] = ready[j]
    <3>1. ready'[i] = ready[i + 1] /\ i + 1 \in 1..Len(ready) /\ 1 < i + 1 /\ ready[1].what = "event"
      BY <1>2, <1>4
    <3>2. task.n < ready'[i].n
      BY <1>2, <2>4, <3>1 DEF TasksInv, LineInv, IsEvent
    <3> QED
      BY <3>1, <3>2
  <2>5. LogInv /\ WorkInv /\ log \in Seq(Nat \X Shown)
    BY DEF TasksInv, LogInv
  <2>6. PICK shape \in Shown, left \in {<<>>, <<"synthetic">>} :
          /\ shape = Head(task.shapes) /\ left = Tail(task.shapes) /\ (left # <<>> => shape # "synthetic")
    BY <2>2, Zenon
  <2>7. log' = Append(log, <<task.n, shape>>) /\ working' = working \cup {[n |-> task.n, left |-> left]}
    BY <1>4, <2>6, Zenon
  <2> HIDE DEF task
  <2>8. LogInv'
    BY <1>1, <2>1, <2>3, <2>4, <2>5, <2>7, LogGrows
  <2>9. \A w \in working : w.n # task.n
    BY <2>1, <2>3, <2>5 DEF WorkInv
  <2>10. WorkInv'
    BY <1>1, <2>1, <2>3, <2>5, <2>6, <2>7, <2>9, WorkGrows
  <2> QED
    BY <1>2, <2>8, <2>10 DEF TasksInv
<1> QED
  BY <1>3, <1>4 DEF Adapter!Start

LEMMA HandledKeeps ==
  ASSUME TasksInv, NEW task \in working, Adapter!Handled(task)
  PROVE  TasksInv'
<1>0. UNCHANGED <<ready, frames>>
  BY DEF Adapter!Handled
<1>1. task \in [n : 1..frames, left : {<<>>, <<"synthetic">>}] /\ frames \in Nat
  BY AdapterAssumption DEF TasksInv, WorkInv, LineInv
<1>2. LineInv'
  BY <1>0 DEF TasksInv, LineInv, IsEvent
<1>3. CASE task.left = <<>>
  <2>1. working' = working \ {task} /\ UNCHANGED log
    BY <1>3 DEF Adapter!Handled
  <2>2. LogInv' /\ WorkInv'
    BY <1>0, <2>1 DEF TasksInv, LogInv, WorkInv, IsEvent, Adapter!InOrder, Adapter!Foremost
  <2> QED
    BY <1>2, <2>2 DEF TasksInv
<1>4. CASE task.left # <<>>
  <2>1. task.left = <<"synthetic">> /\ Head(task.left) = "synthetic" /\ Tail(task.left) = <<>>
    <3>1. task.left = <<"synthetic">>
      BY <1>1, <1>4
    <3>2. Head(<<"synthetic">>) = "synthetic" /\ Tail(<<"synthetic">>) = <<>>
      OBVIOUS
    <3> QED
      BY <3>1, <3>2
  <2>2. /\ log' = Append(log, <<task.n, "synthetic">>)
        /\ working' = (working \ {task}) \cup {[task EXCEPT !.left = Tail(@)]}
    BY <1>4, <2>1 DEF Adapter!Handled
  <2>3. [task EXCEPT !.left = Tail(@)] = [n |-> task.n, left |-> <<>>]
    <3>1. \A rest : [task EXCEPT !.left = rest] = [n |-> task.n, left |-> rest]
      BY <1>1
    <3> QED
      BY <2>1, <3>1, Zenon
  <2>4. /\ \A k \in 1..Len(log) : log[k] # <<task.n, "synthetic">>
        /\ \E k \in 1..Len(log) : log[k][1] = task.n
    BY <1>4 DEF TasksInv, WorkInv
  <2>5. LogInv /\ WorkInv /\ log \in Seq(Nat \X Shown) /\ task.n \in 1..frames /\ "synthetic" \in Shown
    BY <1>1 DEF TasksInv, LogInv, Shown
  <2>6. ASSUME NEW i \in 1..Len(ready'), ready'[i].what = "event"
        PROVE  task.n < ready'[i].n /\ \E j \in 1..Len(ready) : ready'[i] = ready[j]
    BY <1>0, <2>4, <2>5, <2>6 DEF LogInv, IsEvent
  <2>7. LogInv'
    BY <1>0, <1>1, <2>2, <2>4, <2>5, <2>6, LogGrows
  <2>8. \A w \in working \ {task} : w.n # task.n
    BY <2>5 DEF WorkInv
  <2>9. working' = (working \ {task}) \cup {[n |-> task.n, left |-> <<>>]}
    BY <2>2, <2>3, Zenon
  <2>10. WorkInv'
    BY <1>0, <1>1, <2>2, <2>5, <2>8, <2>9, WorkGrows
  <2> QED
    BY <1>2, <2>7, <2>10 DEF TasksInv
<1> QED
  BY <1>3, <1>4

LEMMA DrainKeeps == ASSUME TasksInv, Adapter!Drain PROVE TasksInv'
<1>1. ready' = <<>> /\ working' = {} /\ UNCHANGED <<log, frames>>
  BY DEF Adapter!Drain
<1>2. LineInv' /\ WorkInv'
  BY <1>1 DEF TasksInv, LineInv, WorkInv
<1>3. LogInv'
  BY <1>1 DEF TasksInv, LogInv, Adapter!InOrder, Adapter!Foremost
<1> QED
  BY <1>2, <1>3 DEF TasksInv

LEMMA TasksStep == ASSUME TasksInv, Adapter!Next PROVE TasksInv'
<1>1. ASSUME \/ Adapter!Run \/ Adapter!Open \/ Adapter!WakeUp \/ Adapter!Stop
             \/ \E b \in BOOLEAN : Adapter!Refuse(b)
             \/ \E c \in Callers, what \in {"api", "text"} \cup Remote : Adapter!Call(c, what)
             \/ \E n \in 1..CacheSize : Adapter!Expire(n)
      PROVE  TasksInv'
  BY <1>1, TasksSame
  DEF Adapter!Run, Adapter!Open, Adapter!WakeUp, Adapter!Stop, Adapter!Refuse, Adapter!Call, Adapter!Expire
<1>2. ASSUME NEW b \in BOOLEAN, Adapter!Hangup(b) PROVE TasksInv'
  BY <1>2, TasksSame DEF Adapter!Hangup
<1>3. ASSUME \/ Adapter!Closed \/ Adapter!ReadAfterStop \/ \E b \in BOOLEAN : Adapter!Drop(b)
      PROVE  TasksInv'
  BY <1>2, <1>3, TasksSame DEF Adapter!Closed, Adapter!ReadAfterStop, Adapter!Drop
<1>4. ASSUME NEW c \in Callers, Adapter!Work(c) PROVE TasksInv'
  BY <1>4, TasksSame
  DEF Adapter!Work, Adapter!Register, Adapter!WriteFails, Adapter!Answered, Adapter!TimeOut, Adapter!Fetch
<1> QED
  BY <1>1, <1>3, <1>4, ReadEventKeeps, ReadAnswerKeeps, StartKeeps, HandledKeeps, DrainKeeps DEF Adapter!Next

LEMMA AdapterStep ==
  ASSUME AdapterInv, Adapter!Next \/ UNCHANGED adapter
  PROVE  AdapterInv'
<1>1. LinkInv /\ CallsInv /\ TasksInv
  BY DEF AdapterInv, TasksInv
<1>2. CASE Adapter!Next
  BY <1>1, <1>2, LinkStep, CallsStep, TasksStep DEF AdapterInv, TasksInv
<1>3. CASE UNCHANGED adapter
  <2>1. /\ UNCHANGED <<stopping, Adapter!link, Adapter!calls, Adapter!tasks>>
        /\ UNCHANGED <<running, conn, backoff, drops, ready, working>>
    BY <1>3 DEF adapter, Adapter!link, Adapter!calls, Adapter!tasks
  <2>2. LinkInv'
    BY <1>1, <2>1 DEF LinkInv
  <2> QED
    BY <1>1, <2>1, <2>2, CallsSame, TasksSame DEF AdapterInv, TasksInv
<1> QED
  BY <1>2, <1>3

LEMMA AdapterHolds ==
  AdapterInv => Adapter!TypeOK /\ Adapter!InOrder /\ Adapter!StopIsQuiet
<1> SUFFICES ASSUME AdapterInv PROVE Adapter!TypeOK /\ Adapter!InOrder /\ Adapter!StopIsQuiet
  OBVIOUS
<1>1. running \in BOOLEAN
  BY Zenon DEF AdapterInv, LinkInv
<1>2. \A task \in working : task.n \in 1..frames
  BY DEF AdapterInv, WorkInv
<1>3. DOMAIN preflight = 1..Len(preflight)
  BY DEF AdapterInv, CallsInv
<1>4. /\ stopping \in {"no", "closing", "draining", "done"}
      /\ conn \in {"off", "opening", "up", "sleeping", "ended"} /\ backoff \in 1..MaxBackoff
      /\ frames \in 0..MaxFrames /\ drops \in 0..MaxDrops
  BY DEF AdapterInv, LinkInv, LineInv
<1>5. CallsInv
  BY DEF AdapterInv
<1>6. Adapter!TypeOK
  BY <1>1, <1>2, <1>3, <1>4, <1>5, Zenon DEF CallsInv, Spots, Sendable, Adapter!TypeOK
<1>7. Adapter!InOrder /\ Adapter!StopIsQuiet
  BY DEF AdapterInv, LogInv, LinkInv, Adapter!StopIsQuiet
<1> QED
  BY <1>6, <1>7

--------------------------------------------------------------------------------
(* Lifecycle. *)

Versions == Files \X (0..MaxEdits)
Works == [pc : {"idle", "waiting", "running", "done"}, kind : {"none", "event", "web", "timer", "batch"},
          matched : Versions \cup {Process!None}, runs : Versions \cup {Process!None}]
Stages == {"new", "up", "scheduler", "adapters", "agents", "store", "stopped"}

RulesInv ==
  /\ disk \in [Files -> [version : 0..MaxEdits, ok : BOOLEAN]] /\ edits \in 0..MaxEdits
  /\ script \subseteq Versions
  /\ extras \in Seq(SUBSET Process!Bootstrapped)

\* What one job may be while stop() has come this far: waiting only for what is
\* matched, running a timer only as the one that fires, and of the kinds that are
\* ended already only done.
Sound(j) ==
  /\ work[j].pc = "waiting" => work[j].kind \in {"event", "web"}
  /\ work[j].pc = "idle" => work[j].kind = "none"
  /\ work[j].pc = "running" /\ work[j].kind = "timer" <=> j = firing
  /\ work[j].runs = Process!None \/ work[j].runs = work[j].matched
  /\ phase \in {"adapters", "agents", "store", "stopped"} /\ work[j].kind = "timer" => work[j].pc = "done"
  /\ phase \in {"agents", "store", "stopped"} /\ work[j].kind = "event" => work[j].pc = "done"

JobsInv ==
  /\ work \in [Jobs -> Works] /\ firing \in Jobs \cup {"none"}
  /\ phase \in Stages
  /\ \A j \in Jobs : Sound(j)

FlagsInv == serving \in BOOLEAN /\ kv \in {"open", "closed"}

ProcessInv == RulesInv /\ JobsInv /\ FlagsInv

LEMMA ProcessInit ==
  ASSUME Process!Init
  PROVE  ProcessInv
<1> USE ProcessAssumption
<1>1. /\ disk \in [Files -> [version : {0}, ok : BOOLEAN]] /\ edits = 0 /\ script = Process!Compiled
      /\ extras = <<Process!Bootstrapped>> /\ work = [j \in Jobs |-> Process!Idle]
      /\ phase = "new" /\ firing = "none" /\ serving = FALSE /\ kv = "open"
  BY DEF Process!Init
<1>2. RulesInv
  <2>1. disk \in [Files -> [version : 0..MaxEdits, ok : BOOLEAN]] /\ edits \in 0..MaxEdits
    BY <1>1
  <2>2. script \subseteq Versions
    BY <1>1, <2>1 DEF Process!Compiled, Process!Readable, Versions
  <2>3. extras \in Seq(SUBSET Process!Bootstrapped)
    BY <1>1
  <2> QED
    BY <2>1, <2>2, <2>3 DEF RulesInv
<1>3. JobsInv
  BY <1>1 DEF JobsInv, Sound, Works, Stages, Process!Idle, Process!None
<1>4. FlagsInv
  BY <1>1, Zenon DEF FlagsInv
<1> QED
  BY <1>2, <1>3, <1>4 DEF ProcessInv

--------------------------------------------------------------------------------
LEMMA RulesSame == ASSUME RulesInv, UNCHANGED Process!rules PROVE RulesInv'
BY DEF RulesInv, Process!rules

LEMMA SwapKeeps ==
  ASSUME RulesInv, NEW new \in [Files -> [version : 0..MaxEdits, ok : BOOLEAN]], Process!Swap(new)
  PROVE  script' \subseteq Versions /\ extras' \in Seq(SUBSET Process!Bootstrapped)
<1> DEFINE accepted == {f \in Files : new[f].ok}
<1>1. CASE UNCHANGED <<script, extras>>
  BY <1>1 DEF RulesInv
<1>2. CASE script' = {<<f, new[f].version>> : f \in accepted} /\ extras' = Append(extras, Process!Refreshed)
  <2>1. script' \subseteq Versions
    BY <1>2 DEF Versions
  <2>2. Process!Refreshed \in SUBSET Process!Bootstrapped
    BY DEF Process!Bootstrapped
  <2>3. extras' \in Seq(SUBSET Process!Bootstrapped)
    BY <1>2, <2>2 DEF RulesInv
  <2> QED
    BY <2>1, <2>3
<1> QED
  BY <1>1, <1>2, Zenon DEF Process!Swap

LEMMA WrittenTypes ==
  ASSUME RulesInv, edits < MaxEdits, NEW f \in Files, NEW ok \in BOOLEAN
  PROVE  /\ Process!Written(f, ok) \in [Files -> [version : 0..MaxEdits, ok : BOOLEAN]]
         /\ edits + 1 \in 0..MaxEdits
<1>1. edits + 1 \in 0..MaxEdits
  BY ProcessAssumption DEF RulesInv
<1>2. [version |-> edits + 1, ok |-> ok] \in [version : 0..MaxEdits, ok : BOOLEAN]
  BY <1>1
<1> QED
  BY <1>1, <1>2, Zenon DEF RulesInv, Process!Written

LEMMA RulesStep == ASSUME RulesInv, Process!Next PROVE RulesInv'
<1>1. ASSUME NEW f \in Files, NEW ok \in BOOLEAN, Process!Edit(f, ok) PROVE RulesInv'
  <2>1. edits < MaxEdits /\ edits' = edits + 1 /\ disk' = Process!Written(f, ok) /\ UNCHANGED <<script, extras>>
    BY <1>1 DEF Process!Edit
  <2> QED
    BY <2>1, WrittenTypes DEF RulesInv
<1>2. CASE Process!Reload
  <2>1. Process!Swap(disk) /\ UNCHANGED <<disk, edits>>
    BY <1>2 DEF Process!Reload
  <2> QED
    BY <2>1, SwapKeeps DEF RulesInv
<1>3. ASSUME NEW f \in Files, Process!Save(f) PROVE RulesInv'
  <2> DEFINE new == Process!Written(f, TRUE)
  <2>1. edits < MaxEdits /\ edits' = edits + 1 /\ disk' = new /\ Process!Swap(new)
    BY <1>3 DEF Process!Save
  <2>2. new \in [Files -> [version : 0..MaxEdits, ok : BOOLEAN]] /\ edits + 1 \in 0..MaxEdits
    BY <2>1, WrittenTypes
  <2> HIDE DEF new
  <2> QED
    BY <2>1, <2>2, SwapKeeps DEF RulesInv
<1>4. CASE Process!Start \/ Process!Stop \/ Process!Stopping
  BY <1>4, RulesSame
  DEF Process!Start, Process!Stop, Process!Stopping, Process!Join, Process!StopAdapters, Process!StopAgents,
      Process!CloseStore, Process!StopWebUI
<1>5. ASSUME NEW j \in Jobs, NEW h, NEW kind, Process!Match(j, kind, h) PROVE RulesInv'
  BY <1>5, RulesSame DEF Process!Match
<1>6. ASSUME NEW j \in Jobs, \/ Process!Answer(j) \/ Process!Dispatch(j) \/ Process!Finish(j) \/ Process!Touch(j)
                             \/ \E f \in Files : Process!Fire(j, f)
      PROVE  RulesInv'
  BY <1>6, RulesSame DEF Process!Answer, Process!Dispatch, Process!Finish, Process!Touch, Process!Fire
<1> QED
  BY <1>1, <1>2, <1>3, <1>4, <1>5, <1>6 DEF Process!Next

LEMMA FlagsStep == ASSUME FlagsInv, Process!Next PROVE FlagsInv'
<1>1. ASSUME NEW f \in Files, Process!Save(f) \/ \E ok \in BOOLEAN : Process!Edit(f, ok) PROVE FlagsInv'
  BY <1>1 DEF FlagsInv, Process!Save, Process!Edit
<1>2. CASE Process!Reload \/ Process!Stop \/ Process!Join \/ Process!StopAdapters \/ Process!StopAgents
  BY <1>2 DEF FlagsInv, Process!Reload, Process!Stop, Process!Join, Process!StopAdapters, Process!StopAgents
<1>3. CASE Process!Start \/ Process!CloseStore
  BY <1>3 DEF FlagsInv, Process!Start, Process!CloseStore
<1>4. CASE Process!StopWebUI
  <2>1. serving' = FALSE /\ UNCHANGED kv
    BY <1>4 DEF Process!StopWebUI
  <2> QED
    BY <2>1, Zenon DEF FlagsInv
<1>5. ASSUME NEW j \in Jobs, NEW h, NEW kind, Process!Match(j, kind, h) PROVE FlagsInv'
  BY <1>5 DEF FlagsInv, Process!Match
<1>6. ASSUME NEW j \in Jobs, \/ Process!Answer(j) \/ Process!Dispatch(j) \/ Process!Finish(j) \/ Process!Touch(j)
                             \/ \E f \in Files : Process!Fire(j, f)
      PROVE  FlagsInv'
  BY <1>6 DEF FlagsInv, Process!Answer, Process!Dispatch, Process!Finish, Process!Touch, Process!Fire
<1> QED
  BY <1>1, <1>2, <1>3, <1>4, <1>5, <1>6 DEF Process!Next, Process!Stopping

--------------------------------------------------------------------------------
LEMMA JobsSame == ASSUME JobsInv, UNCHANGED <<work, firing, phase>> PROVE JobsInv'
BY DEF JobsInv, Sound

\* One job becomes another, which is sound, and the others stay.
LEMMA JobMoves ==
  ASSUME JobsInv, NEW j \in Jobs, NEW to \in Works, work' = [work EXCEPT ![j] = to],
         firing' \in Jobs \cup {"none"}, UNCHANGED phase,
         \A i \in Jobs \ {j} : i = firing <=> i = firing',
         to.pc = "waiting" => to.kind \in {"event", "web"},
         to.pc = "idle" => to.kind = "none",
         to.pc = "running" /\ to.kind = "timer" <=> j = firing',
         to.runs = Process!None \/ to.runs = to.matched,
         phase \in {"adapters", "agents", "store", "stopped"} /\ to.kind = "timer" => to.pc = "done",
         phase \in {"agents", "store", "stopped"} /\ to.kind = "event" => to.pc = "done"
  PROVE  JobsInv'
<1>1. work' \in [Jobs -> Works] /\ work'[j] = to /\ \A i \in Jobs \ {j} : work'[i] = work[i]
  BY DEF JobsInv
<1>2. ASSUME NEW i \in Jobs PROVE Sound(i)'
  <2>1. CASE i = j
    BY <1>1, <2>1 DEF Sound
  <2>2. CASE i # j
    BY <1>1, <2>2 DEF JobsInv, Sound
  <2> QED
    BY <2>1, <2>2
<1> QED
  BY <1>1, <1>2 DEF JobsInv

\* A move of stop() ends the jobs of some kinds, and goes on when they are done.
LEMMA StopMoves ==
  ASSUME JobsInv, NEW kinds, work' = Process!Cancelled(kinds), phase' \in Stages,
         \/ "timer" \in kinds /\ firing' = "none"
         \/ "timer" \notin kinds /\ firing' = firing,
         phase' \in {"adapters", "agents", "store", "stopped"} =>
           phase \in {"adapters", "agents", "store", "stopped"} \/ "timer" \in kinds,
         phase' \in {"agents", "store", "stopped"} =>
           phase \in {"agents", "store", "stopped"} \/ "event" \in kinds
  PROVE  JobsInv'
<1> DEFINE ended(j) == work[j].kind \in kinds /\ work[j].pc # "done"
<1>1. work \in [Jobs -> Works]
  BY DEF JobsInv
<1>2. ASSUME NEW j \in Jobs
      PROVE  /\ work'[j] \in Works /\ work'[j].kind = work[j].kind /\ work'[j].matched = work[j].matched
             /\ work'[j].runs = work[j].runs
             /\ ended(j) => work'[j].pc = "done"
             /\ ~ended(j) => work'[j].pc = work[j].pc
  <2>1. work'[j] = IF ended(j) THEN [work[j] EXCEPT !.pc = "done"] ELSE work[j]
    BY DEF Process!Cancelled
  <2>2. work[j] \in Works
    BY <1>1
  <2> HIDE DEF ended
  <2> QED
    BY <2>1, <2>2 DEF Works
<1>3. work' \in [Jobs -> Works]
  <2>1. work' = [j \in Jobs |-> work'[j]]
    BY DEF Process!Cancelled
  <2> QED
    BY <1>2, <2>1
<1>4. ASSUME NEW j \in Jobs PROVE Sound(j)'
  BY <1>2, <1>4, ProcessAssumption DEF JobsInv, Sound
<1> QED
  BY <1>3, <1>4 DEF JobsInv

\* A move that ends nothing.
LEMMA StopWaits ==
  ASSUME JobsInv, UNCHANGED <<work, firing>>, phase' \in Stages,
         phase' \in {"adapters", "agents", "store", "stopped"} =>
           phase \in {"adapters", "agents", "store", "stopped"},
         phase' \in {"agents", "store", "stopped"} => phase \in {"agents", "store", "stopped"}
  PROVE  JobsInv'
BY DEF JobsInv, Sound

LEMMA StoppingKeeps ==
  ASSUME JobsInv, Process!Start \/ Process!Stop \/ Process!Stopping
  PROVE  JobsInv'
<1>1. CASE Process!Start \/ Process!Stop \/ Process!StopAgents \/ Process!CloseStore
  BY <1>1, StopWaits DEF Stages, Process!Start, Process!Stop, Process!StopAgents, Process!CloseStore
<1>2. CASE Process!Join
  BY <1>2, StopMoves DEF Stages, Process!Join
<1>3. CASE Process!StopAdapters
  BY <1>3, StopMoves DEF Stages, Process!StopAdapters
<1>4. CASE Process!StopWebUI
  BY <1>4, StopMoves DEF JobsInv, Stages, Process!StopWebUI
<1> QED
  BY <1>1, <1>2, <1>3, <1>4 DEF Process!Stopping

LEMMA MatchKeeps ==
  ASSUME JobsInv, RulesInv, NEW j \in Jobs, NEW kind \in {"event", "web"}, NEW h \in script,
         Process!Match(j, kind, h)
  PROVE  JobsInv'
<1> DEFINE to == [pc |-> "waiting", kind |-> kind, matched |-> h, runs |-> Process!None]
<1>1. to \in Works /\ to.pc = "waiting" /\ to.kind = kind /\ to.runs = Process!None
  BY DEF RulesInv, Works
<1>2. work' = [work EXCEPT ![j] = to] /\ UNCHANGED <<phase, firing>> /\ work[j].pc = "idle"
  BY DEF Process!Match
<1>3. kind = "event" => phase \in {"up", "scheduler"}
  BY DEF Process!Match
<1> HIDE DEF to
<1>4. j # firing
  BY <1>2 DEF JobsInv, Sound
<1> QED
  BY <1>1, <1>2, <1>3, <1>4, JobMoves DEF JobsInv

LEMMA AnswerKeeps ==
  ASSUME JobsInv, NEW j \in Jobs, Process!Answer(j)
  PROVE  JobsInv'
<1> DEFINE to == [work[j] EXCEPT !.pc = "running", !.kind = "batch"]
<1>1. work[j] \in Works /\ work[j].pc = "idle" /\ j # firing
      /\ (work[j].runs = Process!None \/ work[j].runs = work[j].matched)
  BY DEF JobsInv, Sound, Process!Answer
<1>2. /\ to \in Works /\ to.pc = "running" /\ to.kind = "batch"
      /\ to.runs = work[j].runs /\ to.matched = work[j].matched
  BY <1>1 DEF Works
<1>3. work' = [work EXCEPT ![j] = to] /\ UNCHANGED <<phase, firing>>
  BY DEF Process!Answer
<1> HIDE DEF to
<1> QED
  BY <1>1, <1>2, <1>3, JobMoves DEF JobsInv

LEMMA DispatchKeeps ==
  ASSUME JobsInv, NEW j \in Jobs, Process!Dispatch(j)
  PROVE  JobsInv'
<1> DEFINE to == [work[j] EXCEPT !.pc = "running", !.runs = work[j].matched]
<1>1. /\ work[j] \in Works /\ work[j].pc = "waiting" /\ j # firing
      /\ work[j].kind \in {"event", "web"}
      /\ (work[j].kind = "event" => phase \notin {"agents", "store", "stopped"})
  BY DEF JobsInv, Sound, Process!Dispatch
<1>2. /\ to \in Works /\ to.pc = "running" /\ to.kind = work[j].kind
      /\ to.runs = work[j].matched /\ to.matched = work[j].matched
  BY <1>1 DEF Works
<1>3. work' = [work EXCEPT ![j] = to] /\ UNCHANGED <<phase, firing>>
  BY DEF Process!Dispatch, Process!Handler
<1> HIDE DEF to
<1> QED
  BY <1>1, <1>2, <1>3, JobMoves DEF JobsInv

LEMMA FireKeeps ==
  ASSUME JobsInv, RulesInv, NEW j \in Jobs, NEW f \in Files, Process!Fire(j, f)
  PROVE  JobsInv'
<1> DEFINE h == CHOOSE x \in script : x[1] = f
           to == [pc |-> "running", kind |-> "timer", matched |-> h, runs |-> h]
<1>1. h \in script
  BY DEF Process!Fire
<1>2. /\ to \in Works /\ to.pc = "running" /\ to.kind = "timer" /\ to.runs = to.matched
  BY <1>1 DEF RulesInv, Works
<1>3. /\ work' = [work EXCEPT ![j] = to] /\ firing' = j /\ UNCHANGED phase
      /\ firing = "none" /\ phase = "up"
  BY DEF Process!Fire
<1> HIDE DEF to
<1> QED
  BY <1>2, <1>3, JobMoves, ProcessAssumption DEF JobsInv

LEMMA FinishKeeps ==
  ASSUME JobsInv, NEW j \in Jobs, Process!Finish(j)
  PROVE  JobsInv'
<1> DEFINE to == [work[j] EXCEPT !.pc = "done"]
<1>1. work[j] \in Works /\ (work[j].runs = Process!None \/ work[j].runs = work[j].matched)
  BY DEF JobsInv, Sound
<1>2. /\ to \in Works /\ to.pc = "done" /\ to.runs = work[j].runs /\ to.matched = work[j].matched
  BY <1>1 DEF Works
<1>3. /\ work' = [work EXCEPT ![j] = to] /\ UNCHANGED phase
      /\ firing' = IF firing = j THEN "none" ELSE firing
  BY DEF Process!Finish, Process!Done
<1> HIDE DEF to
<1>4. j # firing' /\ firing' \in Jobs \cup {"none"} /\ \A i \in Jobs \ {j} : i = firing <=> i = firing'
  BY <1>3, ProcessAssumption DEF JobsInv
<1> QED
  BY <1>1, <1>2, <1>3, <1>4, JobMoves

LEMMA JobsStep == ASSUME JobsInv, RulesInv, Process!Next PROVE JobsInv'
<1>1. ASSUME NEW f \in Files, Process!Save(f) \/ \E ok \in BOOLEAN : Process!Edit(f, ok) PROVE JobsInv'
  BY <1>1, JobsSame DEF Process!Save, Process!Edit
<1>2. CASE Process!Reload
  BY <1>2, JobsSame DEF Process!Reload
<1>3. ASSUME NEW j \in Jobs, Process!Touch(j) PROVE JobsInv'
  BY <1>3, JobsSame DEF Process!Touch
<1> QED
  BY <1>1, <1>2, <1>3, StoppingKeeps, MatchKeeps, AnswerKeeps, DispatchKeeps, FireKeeps, FinishKeeps DEF Process!Next

LEMMA ProcessStep ==
  ASSUME ProcessInv, Process!Next \/ UNCHANGED process
  PROVE  ProcessInv'
<1>1. CASE Process!Next
  BY <1>1, RulesStep, JobsStep, FlagsStep DEF ProcessInv
<1>2. CASE UNCHANGED process
  <2>1. UNCHANGED <<Process!rules, work, firing, phase, serving, kv>>
    BY <1>2 DEF process, Process!rules
  <2>2. FlagsInv'
    BY <2>1 DEF ProcessInv, FlagsInv
  <2> QED
    BY <2>1, <2>2, RulesSame, JobsSame DEF ProcessInv
<1> QED
  BY <1>1, <1>2

LEMMA ProcessHolds ==
  ProcessInv => Process!TypeOK /\ Process!RunsWhatItMatched /\ Process!CloseIsLast
<1> SUFFICES ASSUME ProcessInv PROVE Process!TypeOK /\ Process!RunsWhatItMatched /\ Process!CloseIsLast
  OBVIOUS
<1>1. \A j \in Jobs : Sound(j) /\ work[j] \in Works
  BY DEF ProcessInv, JobsInv
<1>2. \A n \in DOMAIN extras : extras[n] \subseteq Process!Bootstrapped
  BY DEF ProcessInv, RulesInv
<1>3. phase \in {Process!Phases[n] : n \in DOMAIN Process!Phases}
  <2>1. Process!Phases \in Seq(Stages) /\ DOMAIN Process!Phases = 1..7
    BY DEF Process!Phases, Stages
  <2>2. phase \in Stages
    BY DEF ProcessInv, JobsInv
  <2>3. \E n \in 1..7 : Process!Phases[n] = phase
    <3>1. /\ Process!Phases[1] = "new" /\ Process!Phases[2] = "up" /\ Process!Phases[3] = "scheduler"
          /\ Process!Phases[4] = "adapters" /\ Process!Phases[5] = "agents" /\ Process!Phases[6] = "store"
          /\ Process!Phases[7] = "stopped"
      BY DEF Process!Phases
    <3> QED
      BY <2>2, <3>1 DEF Stages
  <2> QED
    BY <2>1, <2>3
<1>4. \A j \in Jobs : /\ work[j].pc \in {"idle", "waiting", "running", "done"}
                      /\ work[j].pc = "running" /\ work[j].kind = "timer" <=> j = firing
  BY <1>1 DEF Sound, Works
<1>5. Process!TypeOK
  BY <1>2, <1>3, <1>4, Zenon DEF ProcessInv, RulesInv, FlagsInv, Versions, Process!TypeOK
<1>6. Process!RunsWhatItMatched
  BY <1>1 DEF Sound, Process!RunsWhatItMatched
<1>7. Process!CloseIsLast
  BY <1>1 DEF Sound, Process!CloseIsLast
<1> QED
  BY <1>5, <1>6, <1>7

--------------------------------------------------------------------------------
(* DailySummary. *)

Words == [role : {"user", "assistant", "tool"}, turn : Nat]

DaysType ==
  /\ today \in Days!Days /\ mark \in 0..today /\ date \in 0..today
  /\ turned \in Seq(Words) /\ kept \in Seq(Words) /\ folded \subseteq Words
  /\ batch \in {"idle", "preparing", "marking", "answering"} /\ force \in BOOLEAN
  /\ turns \in 0..MaxTurns /\ since \in 0..turns /\ due \in [Days!Days -> Nat]
  /\ failed \in Nat /\ lates \in Nat /\ restarts \in Nat
  /\ batch # "idle" => date \in Days!Days

\* A question of turn n is in s, or in the summary.
Told(s, n) == \E m \in Days!Range(s) \cup folded : m.turn = n /\ m.role = "user"

\* As long as nothing failed, the stored row has what the history has.
StoredInv ==
  /\ \A n \in since + 1..turns : Told(turned, n) \/ (failed > 0 /\ restarts > 0)
  /\ failed = 0 => \A n \in since + 1..turns : Told(kept, n)

MarkingInv == batch = "marking" => force /\ Len(turned) <= 2 * Keep

\* Day d can get a summary though nothing fails, comes late or restarts from now on: it
\* is about to be made, the day is not marked, or its mark is about to be overwritten.
Owes(d) ==
  \/ d > today
  \/ batch = "preparing" /\ force /\ date = d
  \/ d = today /\ mark # d /\ ~(batch = "marking" /\ date = d)
  \/ d = today /\ batch \in {"preparing", "marking"} /\ force /\ date # d

DueInv ==
  \A d \in Days!Days : /\ due[d] <= 1 + failed + lates + restarts
                       /\ Owes(d) => due[d] + 1 <= 1 + failed + lates + restarts

DaysInv == DaysType /\ StoredInv /\ MarkingInv /\ DueInv

LEMMA DaysInit == ASSUME Days!Init PROVE DaysInv
<1>1. DaysType
  <2>1. <<>> \in Seq(Words)
    BY EmptySeq
  <2>2. due = [d \in Days!Days |-> 0] /\ due \in [Days!Days -> Nat]
    BY DEF Days!Init
  <2>3. 1 \in Days!Days /\ 0 \in 0..MaxTurns /\ 0 \in 0..0 /\ 0 \in 0..1
    BY DaysAssumption DEF Days!Days
  <2> QED
    BY <2>1, <2>2, <2>3 DEF Days!Init, DaysType
<1>2. StoredInv /\ MarkingInv
  BY DEF Days!Init, StoredInv, MarkingInv
<1>3. DueInv
  BY DEF Days!Init, DueInv, Days!Days
<1> QED
  BY <1>1, <1>2, <1>3 DEF DaysInv

\* The newest k of a sequence and what stands before them are all of it.
LEMMA Halves ==
  ASSUME NEW E, NEW s \in Seq(E), NEW k \in Nat, Len(s) > k
  PROVE  \E o, w :
         /\ o = SubSeq(s, 1, Len(s) - k) /\ w = SubSeq(s, Len(s) - k + 1, Len(s))
         /\ o \in Seq(E) /\ w \in Seq(E) /\ Len(w) = k
         /\ Days!Range(s) = Days!Range(o) \cup Days!Range(w)
         /\ Days!Range(s) \subseteq E
<1> DEFINE old == SubSeq(s, 1, Len(s) - k)
           new == SubSeq(s, Len(s) - k + 1, Len(s))
<1>1. Len(s) \in Nat /\ \A i \in 1..Len(s) : s[i] \in E
  BY LenProperties, ElementOfSeq
<1>2. /\ old \in Seq(E) /\ Len(old) = Len(s) - k /\ \A i \in 1..Len(s) - k : old[i] = s[i]
  <2>1. \A i \in 1..Len(s) - k : s[i] \in E
    BY <1>1
  <2>2. /\ old \in Seq(E)
        /\ Len(old) = IF 1 <= Len(s) - k THEN Len(s) - k - 1 + 1 ELSE 0
        /\ \A i \in 1..Len(s) - k - 1 + 1 : old[i] = s[1 + i - 1]
    BY <1>1, <2>1, SubSeqProperties
  <2> QED
    BY <1>1, <2>2
<1>3. /\ new \in Seq(E) /\ Len(new) = k /\ \A i \in 1..k : new[i] = s[Len(s) - k + i]
  <2>1. \A i \in Len(s) - k + 1..Len(s) : s[i] \in E
    BY <1>1
  <2>2. /\ new \in Seq(E)
        /\ Len(new) = IF Len(s) - k + 1 <= Len(s) THEN Len(s) - (Len(s) - k + 1) + 1 ELSE 0
        /\ \A i \in 1..Len(s) - (Len(s) - k + 1) + 1 : new[i] = s[Len(s) - k + 1 + i - 1]
    BY <1>1, <2>1, SubSeqProperties
  <2> QED
    BY <1>1, <2>2
<1>4. /\ Days!Range(s) = {s[i] : i \in 1..Len(s)} /\ Days!Range(old) = {old[i] : i \in 1..Len(s) - k}
      /\ Days!Range(new) = {new[i] : i \in 1..k}
  BY <1>1, <1>2, <1>3, LenProperties DEF Days!Range
<1>5. \A i \in 1..Len(s) : s[i] \in Days!Range(old) \cup Days!Range(new)
  <2> TAKE i \in 1..Len(s)
  <2>1. CASE i <= Len(s) - k
    BY <1>1, <1>2, <1>4, <2>1
  <2>2. CASE i > Len(s) - k
    <3>1. i - (Len(s) - k) \in 1..k /\ Len(s) - k + (i - (Len(s) - k)) = i
      BY <1>1, <2>2
    <3> QED
      BY <1>3, <1>4, <3>1
  <2> QED
    BY <1>1, <2>1, <2>2
<1>6. Days!Range(old) \subseteq Days!Range(s)
  BY <1>1, <1>2, <1>4
<1>7. Days!Range(new) \subseteq Days!Range(s)
  <2>1. \A i \in 1..k : Len(s) - k + i \in 1..Len(s)
    BY <1>1
  <2> QED
    BY <1>3, <1>4, <2>1
<1>8. old = SubSeq(s, 1, Len(s) - k) /\ new = SubSeq(s, Len(s) - k + 1, Len(s))
  OBVIOUS
<1> HIDE DEF old, new
<1>9. Days!Range(s) = Days!Range(old) \cup Days!Range(new) /\ Days!Range(s) \subseteq E
  BY <1>1, <1>4, <1>5, <1>6, <1>7
<1> QED
  BY <1>2, <1>3, <1>8, <1>9

\* What is stored of a sequence has all its questions.
LEMMA WholeKeeps ==
  ASSUME NEW s \in Seq(Words)
  PROVE  /\ Days!Whole(s) \in Seq(Words)
         /\ \A m \in Days!Range(s) : m.role = "user" => m \in Days!Range(Days!Whole(s))
<1>1. CASE ~(s # <<>> /\ Head(s).role = "tool")
  BY <1>1 DEF Days!Whole
<1>2. CASE s # <<>> /\ Head(s).role = "tool"
  <2>1. /\ Days!Whole(s) = Tail(s) /\ Len(s) \in Nat /\ Len(s) > 0 /\ Head(s) = s[1]
        /\ Tail(s) \in Seq(Words) /\ Len(Tail(s)) = Len(s) - 1
        /\ \A i \in 1..Len(s) - 1 : Tail(s)[i] = s[i + 1]
    BY <1>2, LenProperties, EmptySeq, HeadTailProperties DEF Days!Whole
  <2>2. Days!Range(s) = {s[i] : i \in 1..Len(s)} /\ Days!Range(Tail(s)) = {Tail(s)[i] : i \in 1..Len(s) - 1}
    BY <2>1, LenProperties DEF Days!Range
  <2>3. \A i \in 1..Len(s) : s[i].role = "user" => s[i] \in Days!Range(Tail(s))
    <3> SUFFICES ASSUME NEW i \in 1..Len(s), s[i].role = "user" PROVE s[i] \in Days!Range(Tail(s))
      OBVIOUS
    <3>1. i # 1
      BY <1>2, <2>1
    <3>2. i - 1 \in 1..Len(s) - 1 /\ i - 1 + 1 = i
      BY <2>1, <3>1
    <3> QED
      BY <2>1, <2>2, <3>2
  <2> QED
    BY <2>1, <2>2, <2>3
<1> QED
  BY <1>1, <1>2

\* Appending an answer keeps what was there, and adds its question.
LEMMA RecordAdds ==
  ASSUME NEW s \in Seq(Words), NEW n \in Nat
  PROVE  /\ s \o Days!Record(n) \in Seq(Words)
         /\ Days!Range(s) \cup {[role |-> "user", turn |-> n]} \subseteq Days!Range(s \o Days!Record(n))
<1> DEFINE r == Days!Record(n)
<1>1. r \in Seq(Words) /\ Len(r) = 3 /\ r[1] = [role |-> "user", turn |-> n]
  BY DEF Days!Record, Words
<1> HIDE DEF r
<1>2. /\ s \o r \in Seq(Words) /\ Len(s \o r) = Len(s) + 3 /\ Len(s) \in Nat
      /\ \A i \in 1..Len(s) : (s \o r)[i] = s[i]
      /\ (s \o r)[Len(s) + 1] = r[1]
  <2>1. Len(s) \in Nat
    BY LenProperties
  <2>2. /\ s \o r \in Seq(Words) /\ Len(s \o r) = Len(s) + 3
        /\ \A i \in 1..Len(s) + 3 : (s \o r)[i] = IF i <= Len(s) THEN s[i] ELSE r[i - Len(s)]
    <3>1. /\ s \o r \in Seq(Words) /\ Len(s \o r) = Len(s) + Len(r)
          /\ \A i \in 1..Len(s) + Len(r) : (s \o r)[i] = IF i <= Len(s) THEN s[i] ELSE r[i - Len(s)]
      BY <1>1, ConcatProperties
    <3> QED
      BY <1>1, <3>1
  <2>3. Len(s) + 1 \in 1..Len(s) + 3 /\ ~(Len(s) + 1 <= Len(s)) /\ Len(s) + 1 - Len(s) = 1
    BY <2>1
  <2>4. \A i \in 1..Len(s) : i \in 1..Len(s) + 3 /\ i <= Len(s)
    BY <2>1
  <2> QED
    BY <2>1, <2>2, <2>3, <2>4
<1>3. Days!Range(s) = {s[i] : i \in 1..Len(s)} /\ Days!Range(s \o r) = {(s \o r)[i] : i \in 1..Len(s) + 3}
  BY <1>2, LenProperties DEF Days!Range
<1>4. \A i \in 1..Len(s) : i \in 1..Len(s) + 3
  BY <1>2
<1>5. Len(s) + 1 \in 1..Len(s) + 3
  BY <1>2
<1>6. \A i \in 1..Len(s) : s[i] \in Days!Range(s \o r)
  BY <1>2, <1>3, <1>4
<1>7. r[1] \in Days!Range(s \o r)
  BY <1>2, <1>3, <1>5
<1> QED
  BY <1>1, <1>2, <1>3, <1>6, <1>7 DEF r

LEMMA DaysSame == ASSUME DaysInv, UNCHANGED days PROVE DaysInv'
BY DEF days, DaysInv, DaysType, StoredInv, Told, MarkingInv, DueInv, Owes

\* What fails is counted.
LEMMA FaultsGrow ==
  ASSUME failed \in Nat, NEW fails \in BOOLEAN, Days!Failing(fails)
  PROVE  failed' \in Nat /\ failed' = IF fails THEN failed + 1 ELSE failed
BY DEF Days!Failing

LEMMA BeginKeeps ==
  ASSUME DaysInv, NEW tardy \in BOOLEAN, NEW fails \in BOOLEAN, Days!Begin(tardy, fails)
  PROVE  DaysInv'
<1> USE DEF Days!store, Days!session
<1>1. DaysType /\ StoredInv /\ MarkingInv /\ DueInv
  BY DEF DaysInv
<1>2. /\ batch = "idle" /\ batch' = "preparing" /\ date' = (IF tardy THEN today - 1 ELSE today) /\ date' \in Days!Days
      /\ lates' = (IF tardy THEN lates + 1 ELSE lates) /\ force' = (~fails /\ mark # date')
      /\ UNCHANGED <<today, mark, kept, folded, turned, turns, since, due, restarts>>
  BY DEF Days!Begin
<1>3. failed' \in Nat /\ failed <= failed' /\ lates' \in Nat /\ lates <= lates' /\ (failed = 0 => failed' = 0 \/ failed' > 0)
      /\ (failed' = 0 => failed = 0) /\ (failed > 0 => failed' > 0) /\ (tardy => lates' >= lates + 1)
  BY <1>1, <1>2, FaultsGrow DEF Days!Begin, DaysType
<1>4. DaysType'
  <2>1. date' \in 0..today'
    BY <1>1, <1>2 DEF DaysType, Days!Days
  <2>2. force' \in BOOLEAN
    BY <1>2
  <2> QED
    BY <1>1, <1>2, <1>3, <2>1, <2>2 DEF DaysType
<1>5. StoredInv'
  BY <1>1, <1>2, <1>3 DEF StoredInv, Told
<1>6. MarkingInv'
  BY <1>2 DEF MarkingInv
<1>7. DueInv'
  <2> SUFFICES ASSUME NEW d \in Days!Days
               PROVE  /\ due'[d] <= 1 + failed' + lates' + restarts'
                      /\ Owes(d)' => due'[d] + 1 <= 1 + failed' + lates' + restarts'
    BY DEF DueInv
  <2>1. /\ due[d] \in Nat /\ due[d] <= 1 + failed + lates + restarts /\ restarts \in Nat /\ failed \in Nat /\ lates \in Nat
        /\ Owes(d) => due[d] + 1 <= 1 + failed + lates + restarts
    BY <1>1 DEF DaysType, DueInv
  <2>2. CASE tardy
    BY <1>2, <1>3, <2>1, <2>2
  <2>3. CASE ~tardy
    <3>1. Owes(d)' => Owes(d)
      BY <1>1, <1>2, <2>3 DEF Owes, DaysType
    <3> QED
      BY <1>2, <1>3, <2>1, <3>1
  <2> QED
    BY <2>2, <2>3
<1> QED
  BY <1>4, <1>5, <1>6, <1>7 DEF DaysInv

\* What is folded is in the summary before it leaves the history.
LEMMA PrepareStores ==
  ASSUME DaysInv, NEW fails \in BOOLEAN, NEW unstored \in BOOLEAN, Days!Prepare(fails, unstored)
  PROVE  /\ turned' \in Seq(Words) /\ kept' \in Seq(Words) /\ folded' \subseteq Words
         /\ StoredInv' /\ MarkingInv'
<1> DEFINE folds == force /\ ~Days!TooShort /\ ~fails
           old == Days!Older
           new == Days!Recent
<1>1. DaysType /\ StoredInv /\ MarkingInv /\ Keep \in Nat
  BY DaysAssumption DEF DaysInv
<1>2. /\ failed' \in Nat /\ failed' = IF fails \/ unstored THEN failed + 1 ELSE failed
      /\ UNCHANGED <<turns, since, force, restarts>> /\ failed \in Nat
      /\ batch' = (IF force /\ (folds \/ Days!TooShort) THEN "marking" ELSE "answering")
  <2>1. (fails \/ unstored) \in BOOLEAN /\ Days!Failing(fails \/ unstored)
    BY DEF Days!Prepare
  <2> QED
    BY <1>1, <2>1, FaultsGrow DEF Days!Prepare, Days!Marked, DaysType
<1>3. CASE ~folds
  <2>1. UNCHANGED <<turned, kept, folded>>
    BY <1>3 DEF Days!Prepare
  <2>2. StoredInv'
    BY <1>1, <1>2, <2>1 DEF StoredInv, Told
  <2>3. MarkingInv'
    BY <1>1, <1>2, <1>3, <2>1 DEF MarkingInv, Days!TooShort
  <2> QED
    BY <1>1, <2>1, <2>2, <2>3 DEF DaysType
<1>4. CASE folds
  <2>1. /\ folded' = folded \cup Days!Range(old) /\ turned' = new
        /\ kept' = IF ~unstored THEN Days!Whole(new) ELSE kept
    BY <1>4 DEF Days!Prepare
  <2>2. turned \in Seq(Words) /\ 2 * Keep \in Nat /\ Len(turned) \in Nat
    BY <1>1, LenProperties DEF DaysType
  <2>3. Len(turned) > 2 * Keep
    BY <1>4, <2>2 DEF Days!TooShort
  <2>4. old = SubSeq(turned, 1, Len(turned) - 2 * Keep) /\ new = SubSeq(turned, Len(turned) - 2 * Keep + 1, Len(turned))
    BY DEF Days!Older, Days!Recent
  <2> HIDE DEF folds, old, new
  <2>5. /\ old \in Seq(Words) /\ new \in Seq(Words) /\ Len(new) = 2 * Keep
        /\ Days!Range(turned) = Days!Range(old) \cup Days!Range(new) /\ Days!Range(turned) \subseteq Words
    <3>1. PICK k \in Nat : k = 2 * Keep
      BY <2>2
    <3>2. Len(turned) > k
      BY <2>3, <3>1
    <3>3. PICK o, w :
            /\ o = SubSeq(turned, 1, Len(turned) - k) /\ w = SubSeq(turned, Len(turned) - k + 1, Len(turned))
            /\ o \in Seq(Words) /\ w \in Seq(Words) /\ Len(w) = k
            /\ Days!Range(turned) = Days!Range(o) \cup Days!Range(w)
            /\ Days!Range(turned) \subseteq Words
      BY <2>2, <3>2, Halves
    <3>4. o = old /\ w = new
      BY <2>4, <3>1, <3>3
    <3> QED
      BY <3>1, <3>3, <3>4
  <2>6. /\ Days!Whole(new) \in Seq(Words)
        /\ \A m \in Days!Range(new) : m.role = "user" => m \in Days!Range(Days!Whole(new))
    BY <2>5, WholeKeeps
  <2>7. \A n \in Nat : Told(turned, n) => Told(turned, n)'
    BY <2>1, <2>5 DEF Told
  <2>8. ASSUME ~unstored PROVE \A n \in Nat : Told(turned, n) => Told(kept, n)'
    BY <2>1, <2>5, <2>6, <2>8 DEF Told
  <2>9. \A n \in since + 1..turns : n \in Nat
    BY <1>1 DEF DaysType
  <2>10. \A n \in since' + 1..turns' : Told(turned, n)' \/ (failed' > 0 /\ restarts' > 0)
    BY <1>1, <1>2, <2>7, <2>9 DEF StoredInv
  <2>11. ASSUME failed' = 0 PROVE \A n \in since' + 1..turns' : Told(kept, n)'
    <3>1. ~unstored /\ failed = 0
      BY <1>2, <2>11
    <3> QED
      BY <1>1, <1>2, <2>8, <2>9, <3>1 DEF StoredInv
  <2>12. StoredInv'
    BY <2>10, <2>11 DEF StoredInv
  <2>13. MarkingInv'
    <3>1. force
      BY <1>4 DEF folds
    <3> QED
      BY <1>2, <2>1, <2>2, <2>5, <3>1 DEF MarkingInv
  <2> QED
    BY <1>1, <2>1, <2>5, <2>6, <2>12, <2>13 DEF DaysType
<1> QED
  BY <1>3, <1>4

LEMMA PrepareKeeps ==
  ASSUME DaysInv, NEW fails \in BOOLEAN, NEW unstored \in BOOLEAN, Days!Prepare(fails, unstored)
  PROVE  DaysInv'
<1> DEFINE folds == force /\ ~Days!TooShort /\ ~fails
<1>1. DaysType /\ DueInv
  BY DEF DaysInv
<1>2. /\ turned' \in Seq(Words) /\ kept' \in Seq(Words) /\ folded' \subseteq Words
      /\ StoredInv' /\ MarkingInv'
  BY PrepareStores
<1>3. /\ batch = "preparing" /\ UNCHANGED <<today, mark, turns, since, date, force, lates, restarts>>
      /\ batch' = (IF force /\ (folds \/ Days!TooShort) THEN "marking" ELSE "answering")
      /\ due' = (IF folds THEN [due EXCEPT ![date] = due[date] + 1] ELSE due)
  BY DEF Days!Prepare, Days!Marked
<1>4. failed \in Nat /\ failed' \in Nat /\ failed <= failed'
  <2>1. (fails \/ unstored) \in BOOLEAN /\ Days!Failing(fails \/ unstored)
    BY DEF Days!Prepare
  <2> QED
    BY <1>1, <2>1, FaultsGrow DEF DaysType
<1>5. date \in Days!Days /\ date \in Nat /\ due[date] \in Nat /\ date <= today /\ today \in Nat /\ force \in BOOLEAN
  BY <1>1, <1>3 DEF DaysType, Days!Days
<1> HIDE DEF folds
<1>6. due' \in [Days!Days -> Nat]
  BY <1>1, <1>3, <1>5 DEF DaysType
<1>7. DaysType'
  BY <1>1, <1>2, <1>3, <1>4, <1>5, <1>6 DEF DaysType
<1>8. DueInv'
  <2> SUFFICES ASSUME NEW d \in Days!Days
               PROVE  /\ due'[d] <= 1 + failed' + lates' + restarts'
                      /\ Owes(d)' => due'[d] + 1 <= 1 + failed' + lates' + restarts'
    BY DEF DueInv
  <2>1. /\ due[d] \in Nat /\ due[d] <= 1 + failed + lates + restarts /\ restarts \in Nat /\ failed \in Nat /\ lates \in Nat
        /\ Owes(d) => due[d] + 1 <= 1 + failed + lates + restarts
    BY <1>1 DEF DaysType, DueInv
  <2>2. CASE folds /\ d = date
    <3>1. Owes(d) /\ due'[d] = due[d] + 1
      BY <1>1, <1>3, <1>5, <2>2 DEF Owes, folds, DaysType
    <3>2. batch' = "marking" /\ date' = d /\ ~(d > today')
      <4>1. force
        BY <2>2 DEF folds
      <4>2. batch' = "marking"
        BY <1>3, <2>2, <4>1
      <4> QED
        BY <1>3, <1>5, <2>2, <4>2
    <3>3. ~Owes(d)'
      BY <3>2 DEF Owes
    <3> QED
      BY <1>3, <1>4, <2>1, <3>1, <3>3
  <2>3. CASE ~(folds /\ d = date)
    <3>1. due'[d] = due[d]
      BY <1>1, <1>3, <2>3 DEF DaysType
    <3>2. Owes(d)' => Owes(d)
      BY <1>3, <1>5 DEF Owes
    <3> QED
      BY <1>3, <1>4, <2>1, <3>1, <3>2
  <2> QED
    BY <2>2, <2>3
<1> QED
  BY <1>2, <1>7, <1>8 DEF DaysInv

LEMMA MarkKeeps ==
  ASSUME DaysInv, NEW fails \in BOOLEAN, Days!Mark(fails)
  PROVE  DaysInv'
<1>1. DaysType /\ StoredInv /\ MarkingInv /\ DueInv
  BY DEF DaysInv
<1>2. /\ batch = "marking" /\ batch' = "answering" /\ mark' = (IF fails THEN mark ELSE date)
      /\ UNCHANGED <<today, kept, folded, turned, turns, since, date, force, due, lates, restarts>>
  BY DEF Days!Mark, Days!session
<1>3. failed \in Nat /\ failed' \in Nat /\ failed' = IF fails THEN failed + 1 ELSE failed
  BY <1>1, FaultsGrow DEF Days!Mark, DaysType
<1>4. DaysType'
  <2>1. mark' \in 0..today'
    BY <1>1, <1>2 DEF DaysType
  <2> QED
    BY <1>1, <1>2, <1>3, <2>1 DEF DaysType
<1>5. StoredInv'
  BY <1>1, <1>2, <1>3 DEF StoredInv, Told
<1>6. MarkingInv'
  BY <1>2 DEF MarkingInv
<1>7. DueInv'
  <2> SUFFICES ASSUME NEW d \in Days!Days
               PROVE  /\ due'[d] <= 1 + failed' + lates' + restarts'
                      /\ Owes(d)' => due'[d] + 1 <= 1 + failed' + lates' + restarts'
    BY DEF DueInv
  <2>1. /\ due[d] \in Nat /\ due[d] <= 1 + failed + lates + restarts /\ restarts \in Nat /\ failed \in Nat /\ lates \in Nat
        /\ Owes(d) => due[d] + 1 <= 1 + failed + lates + restarts
    BY <1>1 DEF DaysType, DueInv
  <2>2. CASE fails
    BY <1>2, <1>3, <2>1, <2>2
  <2>3. CASE ~fails
    <3>1. Owes(d)' => Owes(d)
      BY <1>1, <1>2, <2>3 DEF Owes, MarkingInv
    <3> QED
      BY <1>2, <1>3, <2>1, <2>3, <3>1
  <2> QED
    BY <2>2, <2>3
<1> QED
  BY <1>4, <1>5, <1>6, <1>7 DEF DaysInv

LEMMA AnsweredKeeps ==
  ASSUME DaysInv, NEW says \in BOOLEAN, NEW fails \in BOOLEAN, Days!Answer(says, fails)
  PROVE  DaysInv'
<1>1. DaysType /\ StoredInv /\ DueInv
  BY DEF DaysInv
<1>2. /\ batch = "answering" /\ batch' = "idle"
      /\ turns' = (IF says THEN turns + 1 ELSE turns) /\ turns' <= MaxTurns
      /\ turned' = (IF says THEN turned \o Days!Record(turns') ELSE turned)
      /\ kept' = (IF says /\ ~fails THEN Days!Whole(turned') ELSE kept)
      /\ UNCHANGED <<today, mark, folded, since, date, force, due, lates, restarts>>
  BY DEF Days!Answer
<1>3. failed \in Nat /\ failed' \in Nat /\ failed' = IF fails /\ says THEN failed + 1 ELSE failed
  <2>1. (fails /\ says) \in BOOLEAN /\ Days!Failing(fails /\ says)
    BY DEF Days!Answer
  <2> QED
    BY <1>1, <2>1, FaultsGrow DEF DaysType
<1>4. turns' \in Nat /\ turns \in Nat /\ since \in Nat /\ since <= turns /\ turns <= turns' /\ MaxTurns \in Nat
  BY <1>1, <1>2, DaysAssumption DEF DaysType
<1>5. MarkingInv'
  BY <1>2 DEF MarkingInv
<1>6. DueInv'
  <2>1. \A d \in Days!Days : Owes(d)' => Owes(d)
    BY <1>2 DEF Owes
  <2>2. \A d \in Days!Days : due[d] \in Nat
    BY <1>1 DEF DaysType
  <2>3. lates \in Nat /\ restarts \in Nat
    BY <1>1 DEF DaysType
  <2> QED
    BY <1>1, <1>2, <1>3, <2>1, <2>2, <2>3 DEF DueInv
<1>7. CASE ~says
  <2>1. DaysType'
    BY <1>1, <1>2, <1>3, <1>7 DEF DaysType
  <2>2. StoredInv'
    BY <1>1, <1>2, <1>3, <1>7 DEF StoredInv, Told
  <2> QED
    BY <1>5, <1>6, <2>1, <2>2 DEF DaysInv
<1>8. CASE says
  <2>1. turned' = turned \o Days!Record(turns') /\ turned \in Seq(Words) /\ kept \in Seq(Words)
    BY <1>1, <1>2, <1>8 DEF DaysType
  <2>2. turned' \in Seq(Words) /\ Days!Range(turned) \cup {[role |-> "user", turn |-> turns']} \subseteq Days!Range(turned')
    BY <1>4, <2>1, RecordAdds
  <2>3. /\ Days!Whole(turned') \in Seq(Words)
        /\ \A m \in Days!Range(turned') : m.role = "user" => m \in Days!Range(Days!Whole(turned'))
    BY <2>2, WholeKeeps
  <2>4. kept' \in Seq(Words) /\ since' \in 0..turns' /\ turns' \in 0..MaxTurns
    BY <1>2, <1>4, <2>1, <2>3
  <2>5. DaysType'
    BY <1>1, <1>2, <1>3, <2>2, <2>4 DEF DaysType
  <2>6. \A n \in Nat : Told(turned, n) => Told(turned, n)'
    BY <1>2, <2>2 DEF Told
  <2>7. \A n : n = turns' => Told(turned, n)'
    <3> SUFFICES ASSUME NEW n, n = turns' PROVE \E m \in Days!Range(turned') \cup folded' : m.turn = n /\ m.role = "user"
      BY DEF Told
    <3>1. [role |-> "user", turn |-> n] \in Days!Range(turned') \cup folded'
      BY <2>2
    <3> QED
      BY <3>1
  <2>8. \A n \in since' + 1..turns' : n \in Nat /\ (n \in since + 1..turns \/ n = turns')
    BY <1>2, <1>4, <1>8
  <2>9. \A n \in since' + 1..turns' : Told(turned, n)' \/ (failed' > 0 /\ restarts' > 0)
    BY <1>1, <1>2, <1>3, <2>6, <2>7, <2>8 DEF StoredInv
  <2>10. ASSUME failed' = 0 PROVE \A n \in since' + 1..turns' : Told(kept, n)'
    <3>1. kept' = Days!Whole(turned')
      BY <1>2, <1>3, <1>8, <2>10
    <3>2. \A n \in Nat : Told(turned, n)' => Told(kept, n)'
      BY <2>3, <3>1 DEF Told
    <3> QED
      BY <2>8, <2>9, <2>10, <3>2
  <2>11. StoredInv'
    BY <2>9, <2>10 DEF StoredInv
  <2> QED
    BY <1>5, <1>6, <2>5, <2>11 DEF DaysInv
<1> QED
  BY <1>7, <1>8

LEMMA MidnightKeeps == ASSUME DaysInv, Days!Midnight PROVE DaysInv'
<1>1. DaysType /\ StoredInv /\ MarkingInv /\ DueInv
  BY DEF DaysInv
<1>2. /\ today < MaxDays /\ today' = today + 1
      /\ UNCHANGED <<mark, kept, folded, turned, turns, since, batch, date, force, due, failed, lates, restarts>>
  BY DEF Days!Midnight, Days!store, Days!session, Days!bounds
<1>3. today \in Nat /\ today' \in Days!Days /\ mark \in 0..today' /\ date \in 0..today'
  BY <1>1, <1>2, DaysAssumption DEF DaysType, Days!Days
<1>4. DaysType'
  BY <1>1, <1>2, <1>3 DEF DaysType
<1>5. StoredInv' /\ MarkingInv'
  BY <1>1, <1>2 DEF StoredInv, Told, MarkingInv
<1>6. \A d \in Days!Days : Owes(d)' => Owes(d)
  BY <1>2, <1>3 DEF Owes, Days!Days
<1>7. DueInv'
  BY <1>1, <1>2, <1>6 DEF DueInv
<1> QED
  BY <1>4, <1>5, <1>7 DEF DaysInv

\* A question that was stored is there again.
LEMMA RestartKeeps == ASSUME DaysInv, Days!Restart PROVE DaysInv'
<1>1. DaysType /\ StoredInv /\ DueInv
  BY DEF DaysInv
<1>2. /\ restarts' = restarts + 1 /\ batch' = "idle" /\ turned' = Days!Whole(kept)
      /\ UNCHANGED <<today, mark, kept, folded, turns, since, date, force, due, failed, lates>>
  BY DEF Days!Restart, Days!store
<1>3. /\ Days!Whole(kept) \in Seq(Words)
      /\ \A m \in Days!Range(kept) : m.role = "user" => m \in Days!Range(Days!Whole(kept))
  BY <1>1, WholeKeeps DEF DaysType
<1>4. DaysType'
  BY <1>1, <1>2, <1>3 DEF DaysType
<1>5. \A n \in Nat : Told(kept, n) => Told(turned, n)' /\ Told(kept, n)'
  BY <1>2, <1>3 DEF Told
<1>6. failed \in Nat /\ restarts' > 0 /\ \A n \in since + 1..turns : n \in Nat
  BY <1>1, <1>2 DEF DaysType
<1>7. failed = 0 \/ failed > 0
  BY <1>6
<1>8. StoredInv' /\ MarkingInv'
  BY <1>1, <1>2, <1>5, <1>6, <1>7 DEF StoredInv, MarkingInv
<1>9. DueInv'
  <2>1. \A d \in Days!Days : due[d] \in Nat
    BY <1>1 DEF DaysType
  <2>2. failed \in Nat /\ lates \in Nat /\ restarts \in Nat
    BY <1>1 DEF DaysType
  <2> QED
    BY <1>1, <1>2, <2>1, <2>2 DEF DueInv
<1> QED
  BY <1>4, <1>8, <1>9 DEF DaysInv

LEMMA ForgetKeeps == ASSUME DaysInv, Days!Reset PROVE DaysInv'
<1>1. DaysType /\ DueInv
  BY DEF DaysInv
<1>2. /\ batch = "idle" /\ turned' = <<>> /\ kept' = <<>> /\ folded' = {} /\ since' = turns
      /\ UNCHANGED <<today, mark, turns, batch, date, force, due, failed, lates, restarts>>
  BY DEF Days!Reset, Days!bounds
<1>3. <<>> \in Seq(Words) /\ turns \in Nat /\ turns \in 0..turns
  BY <1>1, EmptySeq DEF DaysType
<1>4. DaysType'
  BY <1>1, <1>2, <1>3 DEF DaysType
<1>5. since' + 1..turns' = {}
  BY <1>2, <1>3
<1>6. StoredInv' /\ MarkingInv'
  BY <1>2, <1>5 DEF StoredInv, MarkingInv
<1>7. DueInv'
  BY <1>1, <1>2 DEF DueInv, Owes
<1> QED
  BY <1>4, <1>6, <1>7 DEF DaysInv

LEMMA DaysStep == ASSUME DaysInv, Days!Next \/ UNCHANGED days PROVE DaysInv'
BY DaysSame, BeginKeeps, PrepareKeeps, MarkKeeps, AnsweredKeeps, MidnightKeeps, RestartKeeps, ForgetKeeps DEF Days!Next

LEMMA DaysHold ==
  DaysInv => Days!TypeOK /\ Days!MarkedIsFolded /\ Days!OncePerDay /\ Days!NothingIsLost
<1> SUFFICES ASSUME DaysInv PROVE Days!TypeOK /\ Days!MarkedIsFolded /\ Days!OncePerDay /\ Days!NothingIsLost
  OBVIOUS
<1>1. DaysType /\ StoredInv /\ MarkingInv /\ DueInv
  BY DEF DaysInv
<1>2. Days!TypeOK
  BY <1>1 DEF DaysType, Days!TypeOK
<1>3. Days!MarkedIsFolded
  BY <1>1 DEF MarkingInv, Days!MarkedIsFolded, Days!TooShort
<1>4. Days!OncePerDay
  BY <1>1 DEF DueInv, Days!OncePerDay
<1>5. Days!NothingIsLost
  BY <1>1 DEF StoredInv, Told, Days!NothingIsLost
<1> QED
  BY <1>2, <1>3, <1>4, <1>5

--------------------------------------------------------------------------------
(* The whole. *)

IInv == ImagesInv /\ StickersInv /\ ProfilesInv /\ AttentionInv /\ DaysInv /\ AdapterInv /\ ProcessInv

LEMMA Invariance == Spec => []IInv
<1>1. Init => IInv
  BY ImagesInit, StickersInit, ProfilesInit, AttentionInit, DaysInit, AdapterInit, ProcessInit DEF Init, IInv
<1>2. IInv /\ [Next]_vars => IInv'
  BY StepOfOne, ImagesStep, StickersStep, ProfilesStep, AttentionStep, DaysStep, AdapterStep, ProcessStep DEF IInv
<1> QED
  BY <1>1, <1>2, PTL DEF Spec

\* images.py, sticker_tools.py: one task at a time downloads a picture, and never one
\* that is cached; a listed sticker has its file and is sent, unless a write may fail
\* and two save the same picture.
THEOREM PicturesHold == Spec => []PicturesAreKept
<1>1. IInv => PicturesAreKept
  BY ImagesHold, StickersHold DEF IInv, PicturesAreKept
<1> QED
  BY <1>1, Invariance, PTL

\* profile.py, group_batch.py: what one conversation alone wrote of a user is all
\* there, but for the clamp; and whoever was answered is attended for the window and
\* at most a minute longer, whichever form the time is kept in. Whatever fails, comes
\* late or restarts, a group's question is in its history or in its daily summary, and
\* a summary that was due is made once a day but for what failed, came late or stopped.
THEOREM UsersHold == Spec => []UsersAreKnown
<1>1. IInv => UsersAreKnown
  BY ProfilesHold, AttentionHolds, DaysHold DEF IInv, UsersAreKnown
<1> QED
  BY <1>1, Invariance, PTL

\* adapter.py: whatever connects, drops, answers and stops when, every event reaches the
\* subscribers once and in the order it was read, a notice before what imitates a
\* trigger, and no event is at work once stop() has returned; the preflight cache
\* keeps to its size and holds a picture once.
THEOREM BotHolds == Spec => []BotIsOrderly
<1>1. IInv => BotIsOrderly
  BY AdapterHolds DEF IInv, BotIsOrderly
<1> QED
  BY <1>1, Invariance, PTL

\* bootstrap.py: however often the rules are edited, saved and reloaded, a command runs
\* the handler it was matched with; and when stop() closes the store, no event and no
\* timer is at work.
THEOREM LifeHolds == Spec => []LifeIsOrderly
<1>1. IInv => LifeIsOrderly
  BY ProcessHolds DEF IInv, LifeIsOrderly
<1> QED
  BY <1>1, Invariance, PTL
================================================================================

----------------------------- MODULE RouterProofs -----------------------------
(***************************************************************************)
(* Proofs about the router, for every set of deliveries and events and     *)
(* every limit.                                                            *)
(*                                                                         *)
(* The argument: a permit is in the semaphore or with a task, and changes  *)
(* hands one at a time; one comes free beside an event that waits only     *)
(* behind a task just handed one, and the last such task to resume passes  *)
(* it on.  A lock is held by exactly one running task; it is               *)
(* given up either with nobody waiting or with one waiter woken, and a     *)
(* woken task is alone on a free lock, so what it takes nobody else took.  *)
(* The store has one session per key, and every task was handed a session  *)
(* of its own key: two dispatches of a conversation that overlap were      *)
(* handed different sessions, and at most one of those is stored.          *)
(***************************************************************************)
EXTENDS Router, Maxima, SequenceTheorems, TLAPS

EventIds == {e.id : e \in Events}

\* What the helpers do to pc.
LEMMA PermitReleasedMoves ==
  ASSUME TypeOK, NEW d \in Deliveries, pc[d] # "queued", NEW next \in Places,
         PermitReleased(d, next)
  PROVE  /\ pc' \in [Deliveries -> Places] /\ permits' \in Nat /\ pc'[d] = next
         /\ \A e \in Deliveries \ {d} :
              pc'[e] = pc[e] \/ (pc[e] = "queued" /\ pc'[e] = "handed")
<1>1. CASE Queued = {} /\ permits' = permits + 1 /\ pc' = [pc EXCEPT ![d] = next]
  BY <1>1 DEF TypeOK
<1>2. ASSUME NEW h \in First(Queued), permits' = permits,
             pc' = [pc EXCEPT ![d] = next, ![h] = "handed"]
      PROVE  /\ pc' \in [Deliveries -> Places] /\ permits' \in Nat /\ pc'[d] = next
             /\ \A e \in Deliveries \ {d} :
                  pc'[e] = pc[e] \/ (pc[e] = "queued" /\ pc'[e] = "handed")
  BY <1>2 DEF TypeOK, First, Queued, Places
<1> QED
  BY <1>1, <1>2 DEF PermitReleased

LEMMA PermitTakenMoves ==
  ASSUME TypeOK, NEW d \in Deliveries, PermitTaken(d)
  PROVE  /\ pc[d] = "handed" /\ pc' \in [Deliveries -> Places] /\ permits' \in Nat
         /\ pc'[d] = "granted"
         /\ \A e \in Deliveries \ {d} :
              pc'[e] = pc[e] \/ (pc[e] = "queued" /\ pc'[e] = "handed")
         /\ UNCHANGED <<event, cache, store, locked>>
<1>1. /\ pc[d] = "handed" /\ pc \in [Deliveries -> Places] /\ permits \in Nat
      /\ UNCHANGED <<event, cache, store, locked>> /\ {"granted", "handed"} \subseteq Places
  BY DEF PermitTaken, TypeOK, Places
<1>2. CASE pc' = [pc EXCEPT ![d] = "granted"] /\ UNCHANGED permits
  BY <1>1, <1>2
<1>3. ASSUME permits > 0, NEW h \in First(Queued), permits' = permits - 1,
             pc' = [pc EXCEPT ![d] = "granted", ![h] = "handed"]
      PROVE  /\ pc' \in [Deliveries -> Places] /\ permits' \in Nat /\ pc'[d] = "granted"
             /\ \A e \in Deliveries \ {d} :
                  pc'[e] = pc[e] \/ (pc[e] = "queued" /\ pc'[e] = "handed")
  BY <1>1, <1>3 DEF First, Queued
<1> QED
  BY <1>1, <1>2, <1>3 DEF PermitTaken

LEMMA WakeFirstMoves ==
  ASSUME TypeOK, NEW s, NEW d \in Deliveries, pc[d] # "waiting", NEW next \in Places,
         WakeFirst(s, d, next)
  PROVE  /\ pc' \in [Deliveries -> Places] /\ pc'[d] = next
         /\ \/ /\ Waiters(s) = {}
               /\ \A e \in Deliveries \ {d} : pc'[e] = pc[e]
            \/ \E h \in Waiters(s) :
                 /\ h # d /\ pc'[h] = "woken"
                 /\ \A e \in Deliveries \ {d, h} : pc'[e] = pc[e]
<1>1. CASE Waiters(s) = {} /\ pc' = [pc EXCEPT ![d] = next]
  BY <1>1 DEF TypeOK
<1>2. ASSUME NEW h \in First(Waiters(s)), pc' = [pc EXCEPT ![d] = next, ![h] = "woken"]
      PROVE  /\ pc' \in [Deliveries -> Places] /\ pc'[d] = next
             /\ h \in Waiters(s) /\ h # d /\ pc'[h] = "woken"
             /\ \A e \in Deliveries \ {d, h} : pc'[e] = pc[e]
  BY <1>2 DEF TypeOK, First, Waiters, Places
<1> QED
  BY <1>1, <1>2 DEF WakeFirst

\* Tickets and places in the LRU order are natural numbers.
LEMMA TicketType ==
  ASSUME TypeOK, NEW W \in SUBSET Deliveries
  PROVE  Ticket(W) \in Nat
<1>1. IsFiniteSet(W) /\ \A d \in W : turn[d] \in Nat
  BY FiniteAssumption, FS_Subset DEF TypeOK
<1>2. Max({turn[d] : d \in W} \cup {0}) \in Nat
  BY <1>1, MaxOfValues
<1> QED
  BY <1>2 DEF Ticket

\* get_or_create hands out a session that was stored, or the one it built.
LEMMA GetOrCreateType ==
  ASSUME TypeOK, NEW d \in Deliveries, GetOrCreate(d)
  PROVE  /\ session' \in [Deliveries -> Deliveries \cup {None}]
         /\ session'[d] \in Deliveries
         /\ \A e \in Deliveries \ {d} : session'[e] = session[e]
         /\ stored' \subseteq Deliveries /\ used' \in [Deliveries -> Nat]
<1> DEFINE last == 1 + Max({used[s] : s \in stored} \cup {0})
<1>1. last \in Nat
  <2>1. IsFiniteSet(stored) /\ \A s \in stored : used[s] \in Nat
    BY FiniteAssumption, FS_Subset DEF TypeOK
  <2>2. Max({used[s] : s \in stored} \cup {0}) \in Nat
    BY <2>1, MaxOfValues
  <2> QED
    BY <2>2
<1> HIDE DEF last
<1>2. ASSUME NEW s \in Found(KeyOf(d)),
             session' = [session EXCEPT ![d] = s],
             used' = [used EXCEPT ![s] = last],
             UNCHANGED stored
      PROVE  /\ session' \in [Deliveries -> Deliveries \cup {None}]
             /\ session'[d] \in Deliveries
             /\ \A e \in Deliveries \ {d} : session'[e] = session[e]
             /\ stored' \subseteq Deliveries /\ used' \in [Deliveries -> Nat]
  BY <1>1, <1>2 DEF Found, TypeOK
<1>3. ASSUME session' = [session EXCEPT ![d] = d],
             stored' \in Kept(d),
             used' = [s \in Deliveries |->
                      IF s \notin stored' THEN 0 ELSE IF s = d THEN last ELSE used[s]]
      PROVE  /\ session' \in [Deliveries -> Deliveries \cup {None}]
             /\ session'[d] \in Deliveries
             /\ \A e \in Deliveries \ {d} : session'[e] = session[e]
             /\ stored' \subseteq Deliveries /\ used' \in [Deliveries -> Nat]
  <2>1. stored' \subseteq Deliveries
    BY <1>3 DEF Kept, TypeOK
  <2> QED
    BY <1>1, <1>3, <2>1 DEF TypeOK
<1> QED
  BY <1>2, <1>3 DEF GetOrCreate, last

LEMMA TicketsDroppedType ==
  ASSUME TypeOK, TicketsDropped
  PROVE  turn' \in [Deliveries -> Nat]
BY DEF TicketsDropped, TypeOK


LEMMA RememberType ==
  ASSUME NEW id \in EventIds, seen \in Seq(EventIds)
  PROVE  Remember(id) \in Seq(EventIds)
<1>1. Append(seen, id) \in Seq(EventIds) /\ Append(seen, id) # <<>>
  BY AppendProperties
<1>2. Tail(Append(seen, id)) \in Seq(EventIds)
  BY <1>1, HeadTailProperties
<1> QED
  BY <1>1, <1>2 DEF Remember

LEMMA ReceiveType ==
  ASSUME TypeOK, NEW d \in Deliveries, Receive(d)
  PROVE  TypeOK'
<1>1. PICK e \in Events :
        /\ event' = [event EXCEPT ![d] = e]
        /\ \/ /\ pc' = [pc EXCEPT ![d] = "done"]
              /\ UNCHANGED <<cache, permits, turn>>
           \/ /\ seen' = Remember(e.id)
              /\ accepted' = Append(accepted, e.id)
              /\ PermitAsked(d)
  BY DEF Receive
<1>2. pc[d] = "idle" /\ UNCHANGED <<store, locked>>
  BY DEF Receive
<1>3. event' \in [Deliveries -> Events \cup {None}] /\ e # None
  BY <1>1, NoneAssumption DEF TypeOK
<1>4. seen' \in Seq(EventIds) /\ accepted' \in Seq(EventIds)
  <2>1. e.id \in EventIds /\ seen \in Seq(EventIds) /\ accepted \in Seq(EventIds)
    BY DEF EventIds, TypeOK
  <2>2. CASE UNCHANGED cache
    BY <2>1, <2>2 DEF cache
  <2>3. CASE seen' = Remember(e.id) /\ accepted' = Append(accepted, e.id)
    <3>1. Remember(e.id) \in Seq(EventIds) /\ Append(accepted, e.id) \in Seq(EventIds)
      BY <2>1, RememberType, AppendProperties
    <3> QED
      BY <2>3, <3>1
  <2> QED
    BY <1>1, <2>2, <2>3
<1>5. /\ pc' \in [Deliveries -> Places] /\ permits' \in Nat /\ turn' \in [Deliveries -> Nat]
      /\ \A c \in Deliveries \ {d} : pc'[c] = pc[c]
      /\ pc'[d] \in {"done", "granted", "queued"}
  <2>1. Ticket(Queued) \in Nat
    BY TicketType DEF Queued
  <2>2. CASE PermitAsked(d)
    <3>1. CASE permits > 0 /\ permits' = permits - 1
               /\ pc' = [pc EXCEPT ![d] = "granted"] /\ UNCHANGED turn
      BY <3>1 DEF TypeOK, Places
    <3>2. CASE pc' = [pc EXCEPT ![d] = "queued"]
               /\ turn' = [turn EXCEPT ![d] = Ticket(Queued)] /\ UNCHANGED permits
      BY <3>2, <2>1 DEF TypeOK, Places
    <3> QED
      BY <2>2, <3>1, <3>2 DEF PermitAsked
  <2>3. CASE pc' = [pc EXCEPT ![d] = "done"] /\ UNCHANGED <<cache, permits, turn>>
    BY <2>3 DEF TypeOK, Places
  <2> QED
    BY <1>1, <2>2, <2>3
<1>6. \A c \in Deliveries : event'[c] = None <=> pc'[c] = "idle"
  BY <1>1, <1>2, <1>3, <1>5 DEF TypeOK
<1>7. \A c \in Deliveries :
        pc'[c] \in {"try", "waiting", "woken", "running"} => session'[c] # None
  BY <1>2, <1>5 DEF TypeOK, store
<1> QED
  BY <1>2, <1>3, <1>4, <1>5, <1>6, <1>7 DEF TypeOK, EventIds, store

\* A step of a delivered task that leaves its event and the cache alone.
LEMMA TaskType ==
  ASSUME TypeOK, NEW d \in Deliveries, pc[d] # "idle",
         UNCHANGED <<event, cache>>,
         pc' \in [Deliveries -> Places], pc'[d] # "idle",
         \A e \in Deliveries \ {d} :
            pc'[e] = pc[e] \/ (pc[e] = "queued" /\ pc'[e] = "handed")
                           \/ (pc[e] = "waiting" /\ pc'[e] = "woken"),
         turn' \in [Deliveries -> Nat], permits' \in Nat,
         session' \in [Deliveries -> Deliveries \cup {None}],
         \A e \in Deliveries \ {d} : session'[e] = session[e],
         pc'[d] \in {"try", "waiting", "woken", "running"} => session'[d] # None,
         stored' \subseteq Deliveries, used' \in [Deliveries -> Nat],
         locked' \subseteq Deliveries
  PROVE  TypeOK'
<1>1. event' \in [Deliveries -> Events \cup {None}]
      /\ seen' \in Seq({e.id : e \in Events}) /\ accepted' \in Seq({e.id : e \in Events})
  BY DEF TypeOK, cache
<1>2. \A e \in Deliveries : event'[e] = None <=> pc'[e] = "idle"
  BY DEF TypeOK
<1>3. \A e \in Deliveries :
        pc'[e] \in {"try", "waiting", "woken", "running"} => session'[e] # None
  BY DEF TypeOK
<1> QED
  BY <1>1, <1>2, <1>3 DEF TypeOK

LEMMA TypeStep == TypeOK /\ [Next]_vars => TypeOK'
<1> SUFFICES ASSUME TypeOK, [Next]_vars PROVE TypeOK'
  OBVIOUS
<1>0. /\ pc \in [Deliveries -> Places] /\ turn \in [Deliveries -> Nat]
      /\ permits \in Nat
      /\ session \in [Deliveries -> Deliveries \cup {None}]
      /\ stored \subseteq Deliveries /\ used \in [Deliveries -> Nat]
      /\ locked \subseteq Deliveries
      /\ \A e \in Deliveries :
           pc[e] \in {"try", "waiting", "woken", "running"} => session[e] \in Deliveries
  BY DEF TypeOK
<1>1. ASSUME NEW d \in Deliveries, Receive(d) PROVE TypeOK'
  BY <1>1, ReceiveType
<1>2. ASSUME NEW d \in Deliveries, PermitTimeout(d) PROVE TypeOK'
  <2>1. turn' \in [Deliveries -> Nat]
    BY <1>2, TicketsDroppedType DEF PermitTimeout
  <2>2. CASE pc[d] = "queued" /\ pc' = [pc EXCEPT ![d] = "busy"] /\ UNCHANGED permits
    BY <1>0, <1>2, <2>1, <2>2, TaskType DEF PermitTimeout, store, Places
  <2>3. CASE pc[d] = "handed" /\ PermitReleased(d, "busy")
    <3>1. "busy" \in Places
      BY DEF Places
    <3> QED
      BY <1>0, <1>2, <2>1, <2>3, <3>1, PermitReleasedMoves, TaskType DEF PermitTimeout, store
  <2> QED
    BY <1>2, <2>2, <2>3 DEF PermitTimeout
<1>12. ASSUME NEW d \in Deliveries, PermitTaken(d) PROVE TypeOK'
  <2>1. turn' \in [Deliveries -> Nat]
    BY <1>12, TicketsDroppedType DEF PermitTaken
  <2> QED
    BY <1>0, <1>12, <2>1, PermitTakenMoves, TaskType DEF store
<1>3. ASSUME NEW d \in Deliveries, Refused(d) \/ Answer(d) PROVE TypeOK'
  BY <1>0, <1>3, TaskType DEF Refused, Answer, Starts, store, Places
<1>4. ASSUME NEW d \in Deliveries, Ignore(d) \/ Reply(d) PROVE TypeOK'
  <2>1. turn' \in [Deliveries -> Nat] /\ "done" \in Places
    BY <1>4, TicketsDroppedType DEF Ignore, Reply, Places
  <2>2. PermitReleased(d, "done") /\ pc[d] \in {"granted", "reply"}
    BY <1>4 DEF Ignore, Reply, Starts
  <2>3. UNCHANGED <<event, cache, store, locked>>
    BY <1>4 DEF Ignore, Reply
  <2> QED
    BY <1>0, <2>1, <2>2, <2>3, PermitReleasedMoves, TaskType DEF store
<1>5. ASSUME NEW d \in Deliveries, Cancel(d) \/ RateLimited(d) PROVE TypeOK'
  BY <1>0, <1>5, GetOrCreateType, TaskType DEF Cancel, RateLimited, Starts, Places
<1>6. ASSUME NEW d \in Deliveries, Enter(d) PROVE TypeOK'
  <2>1. pc' \in [Deliveries -> Places]
    BY <1>0, <1>6 DEF Enter, Places
  <2>2. pc[d] # "idle" /\ pc'[d] = "try" /\ \A e \in Deliveries \ {d} : pc'[e] = pc[e]
    BY <1>0, <1>6 DEF Enter, Starts
  <2>3. UNCHANGED <<event, turn, permits, cache, locked>> /\ GetOrCreate(d)
    BY <1>6 DEF Enter
  <2>4. session'[d] # None
    BY <2>3, GetOrCreateType, NoneAssumption
  <2> QED
    BY <1>0, <2>1, <2>2, <2>3, <2>4, GetOrCreateType, TaskType
<1>7. ASSUME NEW d \in Deliveries, TryLock(d) PROVE TypeOK'
  <2>1. session[d] \in Deliveries /\ session[d] # None
    BY <1>0, <1>7, NoneAssumption DEF TryLock
  <2>2. Ticket(Waiters(session[d])) \in Nat
    BY TicketType DEF Waiters
  <2>3. CASE locked' = locked \cup {session[d]} /\ pc' = [pc EXCEPT ![d] = "running"]
             /\ UNCHANGED turn
    BY <1>0, <1>7, <2>1, <2>3, TaskType DEF TryLock, store, Places
  <2>4. CASE pc' = [pc EXCEPT ![d] = "waiting"] /\ UNCHANGED locked
             /\ turn' = [turn EXCEPT ![d] = Ticket(Waiters(session[d]))]
    BY <1>0, <1>7, <2>1, <2>2, <2>4, TaskType DEF TryLock, store, Places
  <2> QED
    BY <1>7, <2>3, <2>4 DEF TryLock
<1>8. ASSUME NEW d \in Deliveries, Resume(d) PROVE TypeOK'
  <2>1. session[d] \in Deliveries /\ session[d] # None
    BY <1>0, <1>8, NoneAssumption DEF Resume
  <2> QED
    BY <1>0, <1>8, <2>1, TaskType DEF Resume, store, Places
<1>9. ASSUME NEW d \in Deliveries, LockTimeout(d) PROVE TypeOK'
  <2>1. turn' \in [Deliveries -> Nat] /\ "reply" \in Places
    BY <1>9, TicketsDroppedType DEF LockTimeout, Places
  <2>2. CASE pc[d] = "waiting" /\ pc' = [pc EXCEPT ![d] = "reply"]
    BY <1>0, <1>9, <2>1, <2>2, TaskType DEF LockTimeout, store
  <2>3. CASE pc[d] = "woken" /\ WakeFirst(session[d], d, "reply")
    <3>1. /\ pc' \in [Deliveries -> Places] /\ pc'[d] = "reply"
          /\ \A e \in Deliveries \ {d} :
               pc'[e] = pc[e] \/ (pc[e] = "waiting" /\ pc'[e] = "woken")
      BY <2>1, <2>3, WakeFirstMoves DEF Waiters
    <3> QED
      BY <1>0, <1>9, <2>1, <2>3, <3>1, TaskType DEF LockTimeout, store
  <2> QED
    BY <1>9, <2>2, <2>3 DEF LockTimeout
<1>10. ASSUME NEW d \in Deliveries, Finish(d) PROVE TypeOK'
  <2>1. turn' \in [Deliveries -> Nat] /\ "reply" \in Places
    BY <1>10, TicketsDroppedType DEF Finish, Places
  <2>2. pc[d] = "running" /\ WakeFirst(session[d], d, "reply")
    BY <1>10 DEF Finish
  <2>3. /\ pc' \in [Deliveries -> Places] /\ pc'[d] = "reply"
        /\ \A e \in Deliveries \ {d} :
             pc'[e] = pc[e] \/ (pc[e] = "waiting" /\ pc'[e] = "woken")
    BY <2>1, <2>2, WakeFirstMoves DEF Waiters
  <2> QED
    BY <1>0, <1>10, <2>1, <2>2, <2>3, TaskType DEF Finish, store
<1>11. CASE UNCHANGED vars
  BY <1>11 DEF vars, TypeOK
<1> QED
  BY <1>1, <1>2, <1>3, <1>4, <1>5, <1>6, <1>7, <1>8, <1>9, <1>10, <1>11, <1>12
     DEF Next, Progress

\* Every variable keeps its type.
THEOREM TypeCorrect == Spec => []TypeOK
<1>1. Init => TypeOK
  BY LimitsAssumption DEF Init, TypeOK, Places
<1> QED
  BY <1>1, TypeStep, PTL DEF Spec

-----------------------------------------------------------------------------
(* Permits.                                                                *)

LEMMA InsideFinite ==
  IsFiniteSet(Inside) /\ Cardinality(Inside) \in Nat
BY FiniteAssumption, FS_Subset, FS_CardinalityType DEF Inside

\* Nobody enters, leaves or is handed a permit, and the queue does not grow.
LEMMA NobodyMoves ==
  ASSUME PermitsConserved, Inside' = Inside, Queued' \subseteq Queued,
         Handed \subseteq Handed', UNCHANGED permits
  PROVE  PermitsConserved'
BY DEF PermitsConserved

LEMMA Exchanged ==
  ASSUME NEW S, IsFiniteSet(S), NEW a \in S, NEW b, b \notin S
  PROVE  Cardinality((S \ {a}) \cup {b}) = Cardinality(S)
<1>1. IsFiniteSet(S \ {a}) /\ Cardinality(S \ {a}) = Cardinality(S) - 1
      /\ Cardinality(S) \in Nat
  BY FS_RemoveElement, FS_CardinalityType
<1> DEFINE rest == S \ {a}
<1>2. IsFiniteSet(rest) /\ b \notin rest
  BY <1>1
<1> HIDE DEF rest
<1>3. Cardinality(rest \cup {b}) = Cardinality(rest) + 1
  BY <1>2, FS_AddElement
<1> QED
  BY <1>1, <1>3 DEF rest

\* A release gives the permit back or to somebody else.
LEMMA ReleaseConserves ==
  ASSUME TypeOK, PermitsConserved, NEW d \in Inside, NEW next \in {"busy", "done"},
         PermitReleased(d, next)
  PROVE  PermitsConserved'
<1>0. /\ d \in Deliveries /\ pc \in [Deliveries -> Places] /\ permits \in Nat
      /\ IsFiniteSet(Inside) /\ Cardinality(Inside) \in Nat
  BY InsideFinite DEF Inside, TypeOK
<1>1. CASE Queued = {} /\ permits' = permits + 1 /\ pc' = [pc EXCEPT ![d] = next]
  <2>1. Inside' = Inside \ {d} /\ Queued' = {}
    BY <1>0, <1>1 DEF Inside, Queued
  <2>2. Cardinality(Inside') = Cardinality(Inside) - 1
    BY <1>0, <2>1, FS_RemoveElement
  <2> QED
    BY <1>0, <1>1, <2>1, <2>2 DEF PermitsConserved
<1>2. ASSUME NEW h \in First(Queued), UNCHANGED permits,
             pc' = [pc EXCEPT ![d] = next, ![h] = "handed"]
      PROVE  PermitsConserved'
  <2>1. h \in Deliveries /\ pc[h] = "queued" /\ h # d
    BY DEF First, Queued, Inside
  <2>2. Inside' = (Inside \ {d}) \cup {h} /\ h \notin Inside
    BY <1>0, <1>2, <2>1 DEF Inside
  <2>3. Cardinality(Inside') = Cardinality(Inside)
    BY <1>0, <2>2, Exchanged
  <2>4. h \in Handed'
    BY <1>0, <1>2, <2>1 DEF Handed
  <2> QED
    BY <1>2, <2>3, <2>4 DEF PermitsConserved
<1> QED
  BY <1>1, <1>2 DEF PermitReleased

LEMMA AskConserves ==
  ASSUME TypeOK, PermitsConserved, NEW d \in Deliveries, pc[d] = "idle", PermitAsked(d)
  PROVE  PermitsConserved'
<1>0. /\ pc \in [Deliveries -> Places] /\ permits \in Nat /\ d \notin Inside
      /\ IsFiniteSet(Inside) /\ Cardinality(Inside) \in Nat
  BY InsideFinite DEF Inside, TypeOK
<1>1. CASE permits > 0 /\ Queued \cup Handed = {} /\ permits' = permits - 1
           /\ pc' = [pc EXCEPT ![d] = "granted"]
  <2>1. Inside' = Inside \cup {d} /\ Queued' = {}
    BY <1>0, <1>1 DEF Inside, Queued
  <2>2. Cardinality(Inside') = Cardinality(Inside) + 1
    BY <1>0, <2>1, FS_AddElement
  <2> QED
    BY <1>0, <1>1, <2>1, <2>2 DEF PermitsConserved
<1>2. CASE (permits = 0 \/ Queued \cup Handed # {}) /\ pc' = [pc EXCEPT ![d] = "queued"]
           /\ UNCHANGED permits
  <2>1. Inside' = Inside /\ Handed' = Handed
    BY <1>0, <1>2 DEF Inside, Handed
  <2>2. permits > 0 => Handed # {}
    BY <1>2 DEF PermitsConserved
  <2> QED
    BY <1>0, <1>2, <2>1, <2>2 DEF PermitsConserved
<1> QED
  BY <1>1, <1>2 DEF PermitAsked

\* A task that resumes with its permit leaves none behind, or hands it on.
LEMMA TakeConserves ==
  ASSUME TypeOK, PermitsConserved, NEW d \in Deliveries, PermitTaken(d)
  PROVE  PermitsConserved'
<1>0. /\ pc[d] = "handed" /\ pc \in [Deliveries -> Places] /\ permits \in Nat
      /\ IsFiniteSet(Inside) /\ Cardinality(Inside) \in Nat
  BY InsideFinite DEF PermitTaken, TypeOK
<1>1. CASE (permits = 0 \/ Queued = {}) /\ pc' = [pc EXCEPT ![d] = "granted"]
           /\ UNCHANGED permits
  <2>1. Inside' = Inside /\ Queued' = Queued
    BY <1>0, <1>1 DEF Inside, Queued
  <2> QED
    BY <1>0, <1>1, <2>1 DEF PermitsConserved
<1>2. ASSUME permits > 0, NEW h \in First(Queued), permits' = permits - 1,
             pc' = [pc EXCEPT ![d] = "granted", ![h] = "handed"]
      PROVE  PermitsConserved'
  <2>1. h \in Deliveries /\ pc[h] = "queued" /\ h # d /\ h \notin Inside
    BY <1>0 DEF First, Queued, Inside
  <2>2. Inside' = Inside \cup {h} /\ h \in Handed'
    BY <1>0, <1>2, <2>1 DEF Inside, Handed
  <2>3. Cardinality(Inside') = Cardinality(Inside) + 1
    BY <1>0, <2>1, <2>2, FS_AddElement
  <2> QED
    BY <1>0, <1>2, <2>2, <2>3 DEF PermitsConserved
<1> QED
  BY <1>1, <1>2 DEF PermitTaken

LEMMA PermitsStep == TypeOK /\ PermitsConserved /\ [Next]_vars => PermitsConserved'
<1> SUFFICES ASSUME TypeOK, PermitsConserved, [Next]_vars PROVE PermitsConserved'
  OBVIOUS
<1>0. pc \in [Deliveries -> Places]
  BY DEF TypeOK
<1>1. ASSUME NEW d \in Deliveries, Receive(d) PROVE PermitsConserved'
  <2>1. pc[d] = "idle"
    BY <1>1 DEF Receive
  <2>2. CASE pc' = [pc EXCEPT ![d] = "done"] /\ UNCHANGED permits
    BY <1>0, <2>1, <2>2, NobodyMoves DEF Inside, Queued, Handed
  <2>3. CASE PermitAsked(d)
    BY <2>1, <2>3, AskConserves
  <2> QED
    BY <1>1, <2>2, <2>3 DEF Receive
<1>2. ASSUME NEW d \in Deliveries, PermitTimeout(d) PROVE PermitsConserved'
  <2>1. CASE pc[d] = "queued" /\ pc' = [pc EXCEPT ![d] = "busy"] /\ UNCHANGED permits
    BY <1>0, <2>1, NobodyMoves DEF Inside, Queued, Handed
  <2>2. CASE pc[d] = "handed" /\ PermitReleased(d, "busy")
    BY <2>2, ReleaseConserves DEF Inside
  <2> QED
    BY <1>2, <2>1, <2>2 DEF PermitTimeout
<1>9. ASSUME NEW d \in Deliveries, PermitTaken(d) PROVE PermitsConserved'
  BY <1>9, TakeConserves
<1>3. ASSUME NEW d \in Deliveries, Ignore(d) \/ Reply(d) PROVE PermitsConserved'
  <2>1. PermitReleased(d, "done") /\ d \in Inside
    BY <1>3 DEF Ignore, Reply, Starts, Inside
  <2> QED
    BY <2>1, ReleaseConserves
<1>4. ASSUME NEW d \in Deliveries, Refused(d) PROVE PermitsConserved'
  BY <1>0, <1>4, NobodyMoves DEF Refused, Inside, Queued, Handed
<1>5. ASSUME NEW d \in Deliveries,
             Answer(d) \/ Cancel(d) \/ Enter(d) \/ RateLimited(d) \/ Resume(d)
      PROVE  PermitsConserved'
  BY <1>0, <1>5, NobodyMoves
     DEF Answer, Cancel, Enter, RateLimited, Resume, Starts, Inside, Queued, Handed
<1>6. ASSUME NEW d \in Deliveries, TryLock(d) PROVE PermitsConserved'
  <2>1. pc[d] = "try" /\ UNCHANGED permits
        /\ \E p \in {"running", "waiting"} : pc' = [pc EXCEPT ![d] = p]
    BY <1>6 DEF TryLock
  <2> QED
    BY <1>0, <2>1, NobodyMoves DEF Inside, Queued, Handed
<1>7. ASSUME NEW d \in Deliveries, LockTimeout(d) \/ Finish(d) PROVE PermitsConserved'
  <2>1. UNCHANGED permits
    BY <1>7 DEF LockTimeout, Finish
  <2>2. CASE pc[d] = "waiting" /\ pc' = [pc EXCEPT ![d] = "reply"]
    BY <1>0, <2>1, <2>2, NobodyMoves DEF Inside, Queued, Handed
  <2>3. CASE pc[d] \in {"woken", "running"} /\ WakeFirst(session[d], d, "reply")
    <3>1. /\ pc'[d] = "reply"
          /\ \A e \in Deliveries \ {d} :
               pc'[e] = pc[e] \/ (pc[e] = "waiting" /\ pc'[e] = "woken")
      BY <2>3, WakeFirstMoves DEF Waiters, Places
    <3>2. Inside' = Inside /\ Queued' \subseteq Queued /\ Handed \subseteq Handed'
      BY <2>3, <3>1 DEF Inside, Queued, Handed
    <3> QED
      BY <2>1, <3>2, NobodyMoves
  <2> QED
    BY <1>7, <2>2, <2>3 DEF LockTimeout, Finish
<1>8. CASE UNCHANGED vars
  BY <1>8, NobodyMoves DEF vars, Inside, Queued, Handed
<1> QED
  BY <1>1, <1>2, <1>3, <1>4, <1>5, <1>6, <1>7, <1>8, <1>9 DEF Next, Progress

\* No timeout, crash of a handler or refusal loses or invents a permit; and a
\* permit is free beside an event that waits only until a task just handed one
\* resumes and passes it on.
THEOREM PermitsAreConserved == Spec => []PermitsConserved
<1>1. ASSUME Init PROVE PermitsConserved
  <2>1. Inside = {} /\ Queued = {} /\ permits = MaxConcurrent
    BY <1>1 DEF Init, Inside, Queued
  <2> QED
    BY <2>1, FS_EmptySet, LimitsAssumption DEF PermitsConserved
<1> QED
  BY <1>1, PermitsStep, TypeCorrect, PTL DEF Spec

-----------------------------------------------------------------------------
(* Session locks.                                                          *)

Runs(d) == pc[d] = "running"

\* A lock is held by one running task; a woken task is alone on a free lock.
Locks ==
  /\ NoStuckSession
  /\ \A d \in Deliveries : Runs(d) => session[d] \in locked
  /\ \A d \in Deliveries : pc[d] = "woken" => session[d] \notin locked
  /\ \A d, e \in Deliveries :
       (Runs(d) /\ Runs(e) /\ session[d] = session[e]) => d = e
  /\ \A d, e \in Deliveries :
       (pc[d] = "woken" /\ pc[e] = "woken" /\ session[d] = session[e]) => d = e

AtLock == {"waiting", "woken", "running"}

\* A step that moves nobody at a lock.
LEMMA LocksUnmoved ==
  ASSUME Locks, UNCHANGED locked,
         \A e \in Deliveries : pc[e] \in AtLock \/ pc'[e] \in AtLock =>
            pc'[e] = pc[e] /\ session'[e] = session[e]
  PROVE  Locks'
<1>1. NoStuckSession'
  <2>1. \A s \in locked' : \E d \in Deliveries : pc'[d] = "running" /\ session'[d] = s
    BY DEF Locks, NoStuckSession, AtLock
  <2>2. ASSUME NEW d \in Deliveries, pc'[d] = "waiting", session'[d] \notin locked'
        PROVE  Woken(session[d])' # {}
    <3>1. pc[d] = "waiting" /\ session'[d] = session[d]
      BY <2>2 DEF AtLock
    <3>2. PICK e \in Deliveries : pc[e] = "woken" /\ session[e] = session[d]
      BY <2>2, <3>1 DEF Locks, NoStuckSession, Woken
    <3>3. pc'[e] = "woken" /\ session'[e] = session'[d]
      BY <3>1, <3>2 DEF AtLock
    <3> QED
      BY <3>3 DEF Woken
  <2> QED
    BY <2>1, <2>2 DEF NoStuckSession
<1>2. /\ \A d \in Deliveries : Runs(d)' => session'[d] \in locked'
      /\ \A d \in Deliveries : pc'[d] = "woken" => session'[d] \notin locked'
  BY DEF Locks, Runs, AtLock
<1>3. \A d, e \in Deliveries :
        (Runs(d)' /\ Runs(e)' /\ session'[d] = session'[e]) => d = e
  BY DEF Locks, Runs, AtLock
<1>4. \A d, e \in Deliveries :
        (pc'[d] = "woken" /\ pc'[e] = "woken" /\ session'[d] = session'[e]) => d = e
  BY DEF Locks, AtLock
<1> QED
  BY <1>1, <1>2, <1>3, <1>4 DEF Locks

\* A release of the lock, or a woken task that gives up: somebody is woken
\* unless nobody waits.
LEMMA WakeLocks ==
  ASSUME TypeOK, Locks, NEW d \in Deliveries, UNCHANGED session,
         \/ Runs(d) /\ locked' = locked \ {session[d]}
         \/ pc[d] = "woken" /\ UNCHANGED locked,
         WakeFirst(session[d], d, "reply")
  PROVE  Locks'
<1> DEFINE s == session[d]
<1>1. /\ s \notin locked' /\ \A e \in Deliveries \ {d} : Runs(e) => session[e] # s
      /\ \A e \in Deliveries \ {d} : pc[e] = "woken" => session[e] # s
      /\ locked' = locked \ {s}
  BY DEF Locks, Runs
<1>2. /\ pc'[d] = "reply"
      /\ \/ /\ Waiters(s) = {}
            /\ \A e \in Deliveries \ {d} : pc'[e] = pc[e]
         \/ \E h \in Waiters(s) :
              /\ h # d /\ pc'[h] = "woken"
              /\ \A e \in Deliveries \ {d, h} : pc'[e] = pc[e]
  BY WakeFirstMoves DEF Runs, Places
<1>3. CASE Waiters(s) = {} /\ \A e \in Deliveries \ {d} : pc'[e] = pc[e]
  <2>1. \A e \in Deliveries : pc[e] = "waiting" => session[e] # s
    BY <1>3 DEF Waiters
  <2>2. NoStuckSession'
    <3>1. ASSUME NEW t \in locked' PROVE \E c \in Deliveries : Runs(c)' /\ session'[c] = t
      <4>1. PICK c \in Deliveries : pc[c] = "running" /\ session[c] = t
        BY <1>1, <3>1 DEF Locks, NoStuckSession
      <4> QED
        BY <1>1, <1>3, <3>1, <4>1 DEF Runs
    <3>2. ASSUME NEW e \in Deliveries, pc'[e] = "waiting", session'[e] \notin locked'
          PROVE  Woken(session[e])' # {}
      <4>1. pc[e] = "waiting" /\ session[e] # s /\ session[e] \notin locked
        BY <1>1, <1>2, <1>3, <2>1, <3>2
      <4>2. PICK c \in Deliveries : pc[c] = "woken" /\ session[c] = session[e]
        BY <4>1 DEF Locks, NoStuckSession, Woken
      <4>3. pc'[c] = "woken"
        BY <1>3, <4>1, <4>2
      <4> QED
        BY <4>2, <4>3 DEF Woken
    <3> QED
      BY <3>1, <3>2 DEF NoStuckSession, Runs
  <2> QED
    BY <1>1, <1>2, <1>3, <2>2 DEF Locks, Runs
<1>4. ASSUME NEW h \in Waiters(s), h # d, pc'[h] = "woken",
             \A e \in Deliveries \ {d, h} : pc'[e] = pc[e]
      PROVE  Locks'
  <2>1. h \in Deliveries /\ pc[h] = "waiting" /\ session[h] = s
    BY DEF Waiters
  <2>2. NoStuckSession'
    <3>1. ASSUME NEW t \in locked' PROVE \E c \in Deliveries : Runs(c)' /\ session'[c] = t
      <4>1. PICK c \in Deliveries : pc[c] = "running" /\ session[c] = t
        BY <1>1, <3>1 DEF Locks, NoStuckSession
      <4> QED
        BY <1>1, <1>4, <2>1, <3>1, <4>1 DEF Runs
    <3>2. ASSUME NEW e \in Deliveries, pc'[e] = "waiting", session'[e] \notin locked'
          PROVE  Woken(session[e])' # {}
      <4>0. pc[e] = "waiting"
        BY <1>2, <1>4, <3>2
      <4>1. CASE session[e] = s
        BY <1>4, <2>1, <4>1 DEF Woken
      <4>2. CASE session[e] # s
        <5>1. PICK c \in Deliveries : pc[c] = "woken" /\ session[c] = session[e]
          BY <1>1, <3>2, <4>0, <4>2 DEF Locks, NoStuckSession, Woken
        <5>2. pc'[c] = "woken"
          BY <1>4, <2>1, <4>2, <5>1
        <5> QED
          BY <5>1, <5>2 DEF Woken
      <4> QED
        BY <4>1, <4>2
    <3> QED
      BY <3>1, <3>2 DEF NoStuckSession, Runs
  <2>3. \A e \in Deliveries : Runs(e)' => Runs(e) /\ e # d
    BY <1>2, <1>4 DEF Runs
  <2>4. \A e \in Deliveries : pc'[e] = "woken" => e = h \/ (pc[e] = "woken" /\ session[e] # s)
    BY <1>1, <1>2, <1>4
  <2> QED
    BY <1>1, <2>1, <2>2, <2>3, <2>4 DEF Locks, Runs
<1> QED
  BY <1>2, <1>3, <1>4

\* Taking a free lock.
LEMMA TakeLocks ==
  ASSUME TypeOK, Locks, NEW d \in Deliveries, UNCHANGED session,
         locked' = locked \cup {session[d]},
         pc' = [pc EXCEPT ![d] = "running"],
         \/ pc[d] = "woken"
         \/ pc[d] = "try" /\ session[d] \notin locked /\ Woken(session[d]) = {}
  PROVE  Locks'
<1> DEFINE s == session[d]
<1>1. s \notin locked /\ pc'[d] = "running" /\ \A e \in Deliveries \ {d} : pc'[e] = pc[e]
  BY DEF Locks, TypeOK
<1>2. \A e \in Deliveries \ {d} : session[e] = s => pc[e] # "running" /\ pc[e] # "woken"
  BY <1>1 DEF Locks, Runs, Woken
<1>3. NoStuckSession'
  <2>1. ASSUME NEW t \in locked' PROVE \E c \in Deliveries : Runs(c)' /\ session'[c] = t
    BY <1>1, <2>1 DEF Locks, NoStuckSession, Runs
  <2>2. ASSUME NEW e \in Deliveries, pc'[e] = "waiting", session'[e] \notin locked'
        PROVE  Woken(session[e])' # {}
    <3>1. pc[e] = "waiting" /\ session[e] # s /\ session[e] \notin locked
      BY <1>1, <2>2
    <3>2. PICK c \in Deliveries : pc[c] = "woken" /\ session[c] = session[e]
      BY <3>1 DEF Locks, NoStuckSession, Woken
    <3>3. pc'[c] = "woken"
      BY <1>1, <3>1, <3>2
    <3> QED
      BY <3>2, <3>3 DEF Woken
  <2> QED
    BY <2>1, <2>2 DEF NoStuckSession, Runs
<1> QED
  BY <1>1, <1>2, <1>3 DEF Locks, Runs

LEMMA LocksStep == TypeOK /\ Locks /\ [Next]_vars => Locks'
<1> SUFFICES ASSUME TypeOK, Locks, [Next]_vars PROVE Locks'
  OBVIOUS
<1>0. pc \in [Deliveries -> Places]
  BY DEF TypeOK
<1>1. ASSUME NEW d \in Deliveries, Receive(d) PROVE Locks'
  <2>1. pc[d] = "idle" /\ UNCHANGED <<session, locked>>
    BY <1>1 DEF Receive, store
  <2>2. \E p \in {"done", "granted", "queued"} : pc' = [pc EXCEPT ![d] = p]
    BY <1>1 DEF Receive, PermitAsked
  <2> QED
    BY <1>0, <2>1, <2>2, LocksUnmoved DEF AtLock
<1>2. ASSUME NEW d \in Deliveries, PermitTimeout(d) \/ Ignore(d) \/ Reply(d)
      PROVE  Locks'
  <2>1. UNCHANGED <<session, locked>>
    BY <1>2 DEF PermitTimeout, Ignore, Reply, store
  <2>2. CASE pc[d] = "queued" /\ pc' = [pc EXCEPT ![d] = "busy"]
    BY <1>0, <2>1, <2>2, LocksUnmoved DEF AtLock
  <2>3. ASSUME NEW next \in {"busy", "done"}, pc[d] \in {"handed", "granted", "reply"},
               PermitReleased(d, next)
        PROVE  Locks'
    <3>1. /\ pc'[d] = next
          /\ \A e \in Deliveries \ {d} :
               pc'[e] = pc[e] \/ (pc[e] = "queued" /\ pc'[e] = "handed")
      BY <2>3, PermitReleasedMoves DEF Places
    <3> QED
      BY <2>1, <2>3, <3>1, LocksUnmoved DEF AtLock
  <2> QED
    BY <1>2, <2>2, <2>3 DEF PermitTimeout, Ignore, Reply, Starts
<1>10. ASSUME NEW d \in Deliveries, PermitTaken(d) PROVE Locks'
  BY <1>10, PermitTakenMoves, LocksUnmoved DEF store, AtLock
<1>3. ASSUME NEW d \in Deliveries, Refused(d) \/ Answer(d) PROVE Locks'
  BY <1>0, <1>3, LocksUnmoved DEF Refused, Answer, Starts, store, AtLock
<1>4. ASSUME NEW d \in Deliveries, Cancel(d) \/ RateLimited(d) \/ Enter(d) PROVE Locks'
  <2>1. /\ pc[d] = "granted" /\ UNCHANGED locked
        /\ \E p \in {"reply", "try"} : pc' = [pc EXCEPT ![d] = p]
    BY <1>4 DEF Cancel, RateLimited, Enter, Starts
  <2>2. \A e \in Deliveries \ {d} : session'[e] = session[e]
    BY <1>4, GetOrCreateType DEF Cancel, RateLimited, Enter
  <2> QED
    BY <1>0, <2>1, <2>2, LocksUnmoved DEF AtLock
<1>5. ASSUME NEW d \in Deliveries, TryLock(d) PROVE Locks'
  <2>1. pc[d] = "try" /\ UNCHANGED session
    BY <1>5 DEF TryLock, store
  <2>2. CASE /\ session[d] \notin locked
             /\ Waiters(session[d]) \cup Woken(session[d]) = {}
    BY <1>5, <2>1, <2>2, TakeLocks DEF TryLock
  <2>3. CASE ~ (/\ session[d] \notin locked
                /\ Waiters(session[d]) \cup Woken(session[d]) = {})
    <3>1. pc' = [pc EXCEPT ![d] = "waiting"] /\ UNCHANGED locked
      BY <1>5, <2>3 DEF TryLock
    <3>2. pc'[d] = "waiting" /\ \A e \in Deliveries \ {d} : pc'[e] = pc[e]
      BY <1>0, <3>1
    <3>3. session[d] \in locked \/ Woken(session[d]) # {}
      <4>1. ASSUME NEW w \in Waiters(session[d]) 
            PROVE  session[d] \in locked \/ Woken(session[d]) # {}
        BY DEF Locks, NoStuckSession, Waiters
      <4> QED
        BY <2>3, <4>1
    <3>4. ASSUME NEW e \in Deliveries, Woken(session[e]) # {} PROVE Woken(session[e])' # {}
      BY <2>1, <3>2, <3>4 DEF Woken
    <3>5. NoStuckSession'
      <4>1. \A t \in locked' : \E c \in Deliveries : pc'[c] = "running" /\ session'[c] = t
        BY <2>1, <3>1, <3>2 DEF Locks, NoStuckSession
      <4>2. \A e \in Deliveries :
              pc'[e] = "waiting" => session[e] \in locked \/ Woken(session[e])' # {}
        BY <3>2, <3>3, <3>4 DEF Locks, NoStuckSession
      <4> QED
        BY <2>1, <3>1, <4>1, <4>2 DEF NoStuckSession
    <3> QED
      BY <2>1, <3>1, <3>2, <3>5 DEF Locks, Runs
  <2> QED
    BY <2>2, <2>3
<1>6. ASSUME NEW d \in Deliveries, Resume(d) PROVE Locks'
  BY <1>6, TakeLocks DEF Resume, store
<1>7. ASSUME NEW d \in Deliveries, LockTimeout(d) PROVE Locks'
  <2>1. UNCHANGED <<session, locked>>
    BY <1>7 DEF LockTimeout, store
  <2>2. CASE pc[d] = "waiting" /\ pc' = [pc EXCEPT ![d] = "reply"]
    <3>1. pc'[d] = "reply" /\ \A e \in Deliveries \ {d} : pc'[e] = pc[e]
      BY <1>0, <2>2
    <3>2. \A e \in Deliveries : Woken(session[e]) # {} => Woken(session[e])' # {}
      BY <2>1, <2>2, <3>1 DEF Woken
    <3>3. NoStuckSession'
      <4>1. \A t \in locked' : \E c \in Deliveries : pc'[c] = "running" /\ session'[c] = t
        BY <2>1, <2>2, <3>1 DEF Locks, NoStuckSession
      <4>2. \A e \in Deliveries :
              pc'[e] = "waiting" => session[e] \in locked \/ Woken(session[e])' # {}
        BY <3>1, <3>2 DEF Locks, NoStuckSession
      <4> QED
        BY <2>1, <4>1, <4>2 DEF NoStuckSession
    <3> QED
      BY <2>1, <2>2, <3>1, <3>3 DEF Locks, Runs
  <2>3. CASE pc[d] = "woken" /\ WakeFirst(session[d], d, "reply")
    BY <2>1, <2>3, WakeLocks
  <2> QED
    BY <1>7, <2>2, <2>3 DEF LockTimeout
<1>8. ASSUME NEW d \in Deliveries, Finish(d) PROVE Locks'
  BY <1>8, WakeLocks DEF Finish, Runs, store
<1>9. CASE UNCHANGED vars
  BY <1>9, LocksUnmoved DEF vars, store
<1> QED
  BY <1>1, <1>2, <1>3, <1>4, <1>5, <1>6, <1>7, <1>8, <1>9, <1>10 DEF Next, Progress

LEMMA LocksInvariant == Spec => []Locks
<1>1. Init => Locks
  BY DEF Init, Locks, NoStuckSession, Runs
<1> QED
  BY <1>1, LocksStep, TypeCorrect, PTL DEF Spec

\* No session stays locked behind a task that has left it, and no event waits
\* for a session that nobody holds or is about to take.
THEOREM NoSessionIsStuck == Spec => []NoStuckSession
<1>1. Locks => NoStuckSession
  BY DEF Locks
<1> QED
  BY <1>1, LocksInvariant, PTL

-----------------------------------------------------------------------------
(* Sessions.                                                               *)

\* One stored session per key, and tasks hold sessions of their own key.
Sessions ==
  /\ \A s \in stored : event[s] # None
  /\ \A s, t \in stored : KeyOf(s) = KeyOf(t) => s = t
  /\ \A d \in Deliveries : session[d] # None =>
       event[d] # None /\ event[session[d]] # None /\ KeyOf(session[d]) = KeyOf(d)

\* The two outcomes of get_or_create.
LEMMA GetOrCreateFinds ==
  ASSUME TypeOK, NEW d \in Deliveries, GetOrCreate(d)
  PROVE  \/ /\ session'[d] \in stored /\ KeyOf(session'[d]) = KeyOf(d)
            /\ UNCHANGED stored
         \/ /\ session'[d] = d /\ stored' \in Kept(d)
            /\ \A s \in stored : KeyOf(s) # KeyOf(d)
BY DEF GetOrCreate, Found, TypeOK

LEMMA SessionsStep == TypeOK /\ Sessions /\ [Next]_vars => Sessions'
<1> SUFFICES ASSUME TypeOK, Sessions, [Next]_vars PROVE Sessions'
  OBVIOUS
<1>1. CASE UNCHANGED <<event, session, stored>>
  BY <1>1 DEF Sessions, KeyOf
<1>2. ASSUME NEW d \in Deliveries, Receive(d) PROVE Sessions'
  <2>1. /\ pc[d] = "idle" /\ UNCHANGED <<session, stored>>
        /\ \E e \in Events : event' = [event EXCEPT ![d] = e]
    BY <1>2 DEF Receive, store
  <2>2. event[d] = None
    BY <2>1 DEF TypeOK
  <2>3. d \notin stored /\ \A c \in Deliveries : session[c] # d /\ (c = d => session[c] = None)
    BY <2>2, NoneAssumption DEF Sessions, TypeOK
  <2>4. \A c \in Deliveries \ {d} : event'[c] = event[c]
    BY <2>1 DEF TypeOK
  <2>5. \A c \in Deliveries : session[c] # None => session[c] \in Deliveries
    BY DEF TypeOK
  <2>6. stored \subseteq Deliveries
    BY DEF TypeOK
  <2> QED
    BY <2>1, <2>3, <2>4, <2>5, <2>6 DEF Sessions, KeyOf
<1>3. ASSUME NEW d \in Deliveries, Cancel(d) \/ RateLimited(d) \/ Enter(d) PROVE Sessions'
  <2>1. UNCHANGED event /\ GetOrCreate(d) /\ event[d] # None
    BY <1>3 DEF Cancel, RateLimited, Enter, Starts, TypeOK
  <2>2. \A e \in Deliveries \ {d} : session'[e] = session[e]
    BY <2>1, GetOrCreateType
  <2>3. CASE session'[d] \in stored /\ KeyOf(session'[d]) = KeyOf(d) /\ UNCHANGED stored
    BY <2>1, <2>2, <2>3 DEF Sessions, KeyOf
  <2>4. CASE session'[d] = d /\ stored' \in Kept(d) /\ \A s \in stored : KeyOf(s) # KeyOf(d)
    <3>1. stored' \subseteq stored \cup {d}
      BY <2>4 DEF Kept
    <3> QED
      BY <2>1, <2>2, <2>4, <3>1 DEF Sessions, KeyOf
  <2> QED
    BY <2>1, <2>3, <2>4, GetOrCreateFinds
<1>4. ASSUME NEW d \in Deliveries,
             PermitTaken(d) \/ PermitTimeout(d) \/ Refused(d) \/ Answer(d) \/ Ignore(d)
             \/ TryLock(d) \/ Resume(d) \/ LockTimeout(d) \/ Reply(d) \/ Finish(d)
      PROVE  UNCHANGED <<event, session, stored>>
  BY <1>4 DEF PermitTaken, PermitTimeout, Refused, Answer, Ignore, TryLock, Resume, LockTimeout,
              Reply, Finish, store
<1>5. CASE UNCHANGED vars
  BY <1>1, <1>5 DEF vars, store
<1> QED
  BY <1>1, <1>2, <1>3, <1>4, <1>5 DEF Next, Progress

LEMMA SessionsInvariant == Spec => []Sessions
<1>1. Init => Sessions
  BY DEF Init, Sessions
<1> QED
  BY <1>1, SessionsStep, TypeCorrect, PTL DEF Spec

\* Two dispatches of one conversation overlap only when one of them holds a
\* session that was evicted.
THEOREM StoredSessionsSerialise == Spec => []StoredSerialised
<1>1. TypeOK /\ Locks /\ Sessions => StoredSerialised
  <2> SUFFICES ASSUME TypeOK, Locks, Sessions, NEW d \in Deliveries, NEW e \in Deliveries,
                      Runs(d), session[d] \in stored,
                      Runs(e), session[e] \in stored,
                      KeyOf(d) = KeyOf(e)
               PROVE  d = e
    BY DEF StoredSerialised, Runs, KeyOf
  <2>1. session[d] # None /\ session[e] # None
    BY DEF TypeOK, Runs
  <2>2. KeyOf(session[d]) = KeyOf(session[e])
    BY <2>1 DEF Sessions
  <2> QED
    BY <2>2 DEF Sessions, Locks
<1> QED
  BY <1>1, TypeCorrect, LocksInvariant, SessionsInvariant, PTL

-----------------------------------------------------------------------------
(* When the store has room for every conversation, nothing is evicted.     *)

KeySet == {e.key : e \in Events}

Roomy == IsFiniteSet(KeySet) /\ Cardinality(KeySet) <= MaxSessions

LEMMA RoomForOne ==
  ASSUME TypeOK, Sessions, Roomy, NEW d \in Deliveries, event[d] # None,
         \A s \in stored : KeyOf(s) # KeyOf(d)
  PROVE  Kept(d) = {stored \cup {d}}
<1> DEFINE f == [s \in stored |-> KeyOf(s)]
           others == KeySet \ {KeyOf(d)}
<1>1. /\ stored \subseteq Deliveries /\ KeyOf(d) \in KeySet
      /\ \A s \in stored : KeyOf(s) \in KeySet
  BY DEF TypeOK, Sessions, KeyOf, KeySet
<1>2. f \in Injection(stored, others)
  <2>1. f \in [stored -> others]
    BY <1>1
  <2>2. \A s, t \in stored : f[s] = f[t] => s = t
    BY DEF Sessions
  <2> QED
    BY <2>1, <2>2 DEF Injection, IsInjective
<1>3. IsFiniteSet(others) /\ Cardinality(others) = Cardinality(KeySet) - 1
  BY <1>1, FS_RemoveElement DEF Roomy
<1>4. Cardinality(stored) <= Cardinality(others) /\ IsFiniteSet(stored)
  BY <1>2, <1>3, FS_Injection
<1>5. Cardinality(stored) \in Nat /\ Cardinality(KeySet) \in Nat
  BY <1>4, FS_CardinalityType DEF Roomy
<1>6. Cardinality(stored) < MaxSessions
  BY <1>3, <1>4, <1>5, LimitsAssumption DEF Roomy
<1> QED
  BY <1>6 DEF Kept

\* The sessions in use are stored.
NotEvicted ==
  \A d \in Deliveries :
     pc[d] \in {"try"} \cup AtLock => session[d] \in stored

LEMMA NotEvictedStep ==
  TypeOK /\ Sessions /\ Roomy /\ NotEvicted /\ [Next]_vars => NotEvicted'
<1> SUFFICES ASSUME TypeOK, Sessions, Roomy, NotEvicted, [Next]_vars PROVE NotEvicted'
  OBVIOUS
<1>0. pc \in [Deliveries -> Places]
  BY DEF TypeOK
<1>1. ASSUME NEW d \in Deliveries, Cancel(d) \/ RateLimited(d) \/ Enter(d)
      PROVE  NotEvicted'
  <2>1. GetOrCreate(d) /\ event[d] # None
    BY <1>1 DEF Cancel, RateLimited, Enter, Starts, TypeOK
  <2>2. session'[d] \in stored' /\ stored \subseteq stored'
    <3>1. CASE session'[d] \in stored /\ UNCHANGED stored
      BY <3>1
    <3>2. CASE session'[d] = d /\ stored' \in Kept(d) /\ \A s \in stored : KeyOf(s) # KeyOf(d)
      BY <2>1, <3>2, RoomForOne
    <3> QED
      BY <2>1, <3>1, <3>2, GetOrCreateFinds
  <2>3. \A e \in Deliveries \ {d} : pc'[e] = pc[e] /\ session'[e] = session[e]
    BY <1>0, <1>1, <2>1, GetOrCreateType DEF Cancel, RateLimited, Enter
  <2> QED
    BY <2>2, <2>3 DEF NotEvicted
<1>2. ASSUME UNCHANGED <<session, stored>>,
             \A e \in Deliveries :
                pc'[e] \in {"try"} \cup AtLock => pc[e] \in {"try"} \cup AtLock
      PROVE  NotEvicted'
  BY <1>2 DEF NotEvicted
<1>3. ASSUME NEW d \in Deliveries, Receive(d) PROVE NotEvicted'
  <2>1. UNCHANGED <<session, stored>>
        /\ \E p \in {"done", "granted", "queued"} : pc' = [pc EXCEPT ![d] = p]
    BY <1>3 DEF Receive, PermitAsked, store
  <2> QED
    BY <1>0, <1>2, <2>1 DEF AtLock
<1>4. ASSUME NEW d \in Deliveries, PermitTimeout(d) \/ Ignore(d) \/ Reply(d)
      PROVE  NotEvicted'
  <2>1. UNCHANGED <<session, stored>>
    BY <1>4 DEF PermitTimeout, Ignore, Reply, store
  <2>2. CASE pc' = [pc EXCEPT ![d] = "busy"]
    BY <1>0, <1>2, <2>1, <2>2 DEF AtLock
  <2>3. ASSUME NEW next \in {"busy", "done"}, pc[d] # "queued", PermitReleased(d, next)
        PROVE  NotEvicted'
    <3>1. pc'[d] = next /\ \A e \in Deliveries \ {d} : pc'[e] = pc[e] \/ pc'[e] = "handed"
      BY <2>3, PermitReleasedMoves DEF Places
    <3> QED
      BY <1>2, <2>1, <3>1 DEF AtLock
  <2> QED
    BY <1>4, <2>2, <2>3 DEF PermitTimeout, Ignore, Reply, Starts
<1>9. ASSUME NEW d \in Deliveries, PermitTaken(d) PROVE NotEvicted'
  <2>1. /\ UNCHANGED <<session, stored>> /\ pc'[d] = "granted"
        /\ \A e \in Deliveries \ {d} : pc'[e] = pc[e] \/ pc'[e] = "handed"
    BY <1>9, PermitTakenMoves DEF store
  <2> QED
    BY <1>2, <2>1 DEF AtLock
<1>5. ASSUME NEW d \in Deliveries, Refused(d) \/ Answer(d) PROVE NotEvicted'
  BY <1>0, <1>2, <1>5 DEF Refused, Answer, store, AtLock
<1>6. ASSUME NEW d \in Deliveries, TryLock(d) \/ Resume(d) PROVE NotEvicted'
  <2>1. /\ UNCHANGED <<session, stored>> /\ pc[d] \in {"try"} \cup AtLock
        /\ \E p \in Places : pc' = [pc EXCEPT ![d] = p]
    BY <1>6 DEF TryLock, Resume, store, AtLock, Places
  <2> QED
    BY <1>0, <1>2, <2>1
<1>7. ASSUME NEW d \in Deliveries, LockTimeout(d) \/ Finish(d) PROVE NotEvicted'
  <2>1. UNCHANGED <<session, stored>>
    BY <1>7 DEF LockTimeout, Finish, store
  <2>2. CASE pc' = [pc EXCEPT ![d] = "reply"]
    BY <1>0, <1>2, <2>1, <2>2 DEF AtLock
  <2>3. CASE pc[d] \in {"woken", "running"} /\ WakeFirst(session[d], d, "reply")
    <3>1. /\ pc'[d] = "reply"
          /\ \A e \in Deliveries \ {d} :
               pc'[e] = pc[e] \/ (pc[e] = "waiting" /\ pc'[e] = "woken")
      BY <2>3, WakeFirstMoves DEF Waiters, Places
    <3> QED
      BY <1>2, <2>1, <3>1 DEF AtLock
  <2> QED
    BY <1>7, <2>2, <2>3 DEF LockTimeout, Finish
<1>8. CASE UNCHANGED vars
  BY <1>2, <1>8 DEF vars, store
<1> QED
  BY <1>1, <1>3, <1>4, <1>5, <1>6, <1>7, <1>8, <1>9 DEF Next, Progress

\* At most one dispatch of a conversation runs at any time, when the store has
\* room for all conversations (RouterOverlap shows it does not hold without).
THEOREM ConversationsSerialise == ASSUME Roomy PROVE Spec => []Serialised
<1>1. Init => NotEvicted
  BY DEF Init, NotEvicted, AtLock
<1>2. TypeOK /\ Sessions /\ NotEvicted /\ [Next]_vars => NotEvicted'
  BY NotEvictedStep
<1>3. NotEvicted /\ StoredSerialised => Serialised
  BY DEF NotEvicted, StoredSerialised, Serialised, AtLock
<1> QED
  BY <1>1, <1>2, <1>3, TypeCorrect, SessionsInvariant, StoredSessionsSerialise, PTL DEF Spec

-----------------------------------------------------------------------------
(* Eviction.                                                               *)

\* A session is not evicted while a dispatch runs on it.
THEOREM RunningSessionsStay == Spec => EvictionSparesRunning
<1>1. ASSUME TypeOK, Locks, Sessions, [Next]_vars,
             NEW d \in Deliveries, pc[d] = "running", session[d] \in stored
      PROVE  session[d] \in stored'
  <2>1. session[d] \in locked
    BY <1>1 DEF Locks, Runs
  <2>2. ASSUME NEW e \in Deliveries, GetOrCreate(e) PROVE session[d] \in stored'
    <3>1. CASE stored' \in Kept(e) /\ Found(KeyOf(e)) = {}
      <4>1. session[d] # e
        BY <1>1, <3>1 DEF Found
      <4>2. \A v \in Victim(e) : v # session[d]
        BY <1>1, <2>1, <4>1 DEF Victim, Oldest
      <4> QED
        BY <1>1, <3>1, <4>1, <4>2 DEF Kept
    <3> QED
      BY <1>1, <2>2, <3>1 DEF GetOrCreate
  <2>3. CASE UNCHANGED stored
    BY <1>1, <2>3
  <2>4. ASSUME NEW e \in Deliveries, Receive(e) \/ Progress(e) \/ Finish(e)
        PROVE  UNCHANGED stored \/ GetOrCreate(e)
    BY <2>4 DEF Receive, Progress, PermitTaken, PermitTimeout, Refused, Answer, Ignore, Cancel, Enter,
                RateLimited, TryLock, Resume, LockTimeout, Reply, Finish, store
  <2>5. CASE UNCHANGED vars
    BY <2>3, <2>5 DEF vars
  <2> QED
    BY <1>1, <2>2, <2>3, <2>4, <2>5 DEF Next
<1>2. TypeOK /\ Locks /\ Sessions /\ [Next]_vars =>
        [\A d \in Deliveries :
            (pc[d] = "running" /\ session[d] \in stored) => session[d] \in stored']_vars
  BY <1>1
<1> QED
  BY <1>2, TypeCorrect, LocksInvariant, SessionsInvariant, PTL DEF Spec, EvictionSparesRunning

-----------------------------------------------------------------------------
(* The idempotency cache.                                                  *)

\* The cache holds the last MaxSeen accepted ids.
Window ==
  /\ RedeliveryDeclined
  /\ Len(seen) <= Len(accepted) /\ Len(seen) <= MaxSeen
  /\ Len(seen) < Len(accepted) => Len(seen) = MaxSeen
  /\ \A i \in 1 .. Len(seen) : seen[i] = accepted[Len(accepted) - Len(seen) + i]

LEMMA AcceptWindow ==
  ASSUME TypeOK, Window, NEW id \in EventIds,
         \A i \in DOMAIN seen : seen[i] # id,
         seen' = Remember(id), accepted' = Append(accepted, id)
  PROVE  Window'
<1>1. PICK n \in Nat, m \in Nat :
        /\ n = Len(seen) /\ m = Len(accepted)
        /\ DOMAIN seen = 1 .. n /\ DOMAIN accepted = 1 .. m
  BY LenProperties DEF TypeOK, EventIds
<1>2. seen \in Seq(EventIds) /\ accepted \in Seq(EventIds)
  BY DEF TypeOK, EventIds
<1>3. MaxSeen \in Nat /\ MaxSeen > 0
  BY LimitsAssumption
<1>4. n <= m /\ n <= MaxSeen /\ (n < m => n = MaxSeen)
  BY <1>1 DEF Window
<1>5. \A i \in 1 .. n : seen[i] = accepted[m - n + i] /\ seen[i] # id
  BY <1>1 DEF Window
<1>6. \A i, j \in 1 .. m : (i < j /\ accepted[i] = accepted[j]) => j - i > MaxSeen
  BY <1>1 DEF Window, RedeliveryDeclined
<1>7. /\ Len(accepted') = m + 1 /\ DOMAIN accepted' = 1 .. m + 1
      /\ \A i \in 1 .. m : accepted'[i] = accepted[i]
      /\ accepted'[m + 1] = id
  BY <1>1, <1>2, AppendProperties, LenProperties
<1>8. PICK all \in Seq(EventIds) :
        /\ all = Append(seen, id) /\ all # <<>> /\ Len(all) = n + 1
        /\ \A i \in 1 .. n : all[i] = seen[i]
        /\ all[n + 1] = id
  <2> DEFINE a == Append(seen, id)
  <2>1. /\ a \in Seq(EventIds) /\ a # <<>> /\ Len(a) = Len(seen) + 1
        /\ \A i \in 1 .. Len(seen) : a[i] = seen[i]
        /\ a[Len(seen) + 1] = id
    BY <1>2, AppendProperties
  <2> HIDE DEF a
  <2>2. /\ Len(a) = n + 1 /\ \A i \in 1 .. n : a[i] = seen[i]
        /\ a[n + 1] = id
    BY <1>1, <2>1
  <2> QED
    BY <2>1, <2>2 DEF a
<1>9. Len(Tail(all)) = n /\ \A i \in 1 .. n : Tail(all)[i] = all[i + 1]
  <2>1. Len(Tail(all)) = Len(all) - 1 /\ \A i \in 1 .. Len(Tail(all)) : Tail(all)[i] = all[i + 1]
    BY <1>8, HeadTailProperties
  <2> QED
    BY <1>1, <1>8, <2>1
<1>10. RedeliveryDeclined'
  <2> SUFFICES ASSUME NEW i \in 1 .. m + 1, NEW j \in 1 .. m + 1,
                      i < j, accepted'[i] = accepted'[j]
               PROVE  j - i > MaxSeen
    BY <1>7 DEF RedeliveryDeclined
  <2>1. CASE j <= m
    <3>1. i \in 1 .. m /\ j \in 1 .. m
      BY <1>1, <2>1
    <3> QED
      BY <1>6, <1>7, <3>1
  <2>2. CASE j = m + 1
    <3>1. i \in 1 .. m /\ accepted[i] = id
      BY <1>1, <1>7, <2>2
    <3>2. CASE i > m - n
      <4>1. PICK k \in 1 .. n : m - n + k = i
        <5>1. i - (m - n) \in 1 .. n /\ m - n + (i - (m - n)) = i
          BY <1>1, <1>4, <3>1, <3>2
        <5> QED
          BY <5>1
      <4> QED
        BY <1>5, <3>1, <4>1
    <3>3. CASE i <= m - n
      BY <1>1, <1>3, <1>4, <2>2, <3>1, <3>3
    <3> QED
      BY <1>1, <3>1, <3>2, <3>3
  <2> QED
    BY <1>1, <2>1, <2>2
<1>11. CASE n + 1 > MaxSeen
  <2>1. seen' = Tail(all)
    BY <1>1, <1>3, <1>8, <1>11 DEF Remember
  <2>2. n = MaxSeen
    BY <1>1, <1>3, <1>4, <1>11
  <2>3. ASSUME NEW i \in 1 .. n PROVE seen'[i] = accepted'[(m + 1) - n + i]
    <3>1. CASE i < n
      <4>1. PICK k \in 1 .. n : k = i + 1 /\ m - n + k \in 1 .. m /\ m - n + k = (m + 1) - n + i
        BY <1>1, <1>4, <3>1
      <4>2. seen'[i] = seen[k]
        BY <1>8, <1>9, <2>1, <4>1
      <4> QED
        BY <1>5, <1>7, <4>1, <4>2
    <3>2. CASE i = n
      <4>1. (m + 1) - n + i = m + 1
        BY <1>1, <3>2
      <4>2. seen'[i] = id
        BY <1>8, <1>9, <2>1, <3>2
      <4> QED
        BY <1>7, <4>1, <4>2
    <3>3. i < n \/ i = n
      BY <1>1
    <3> QED
      BY <3>1, <3>2, <3>3
  <2>4. Len(seen') = n /\ n <= m + 1 /\ n <= MaxSeen /\ (n < m + 1 => n = MaxSeen)
    BY <1>1, <1>4, <1>9, <2>1, <2>2
  <2> QED
    BY <1>7, <1>10, <2>3, <2>4 DEF Window
<1>12. CASE ~(n + 1 > MaxSeen)
  <2>1. seen' = all
    BY <1>1, <1>3, <1>8, <1>12 DEF Remember
  <2>2. n = m
    BY <1>1, <1>3, <1>4, <1>12
  <2>3. ASSUME NEW i \in 1 .. n + 1 PROVE seen'[i] = accepted'[i]
    <3>1. CASE i \in 1 .. n
      <4>1. m - n + i = i
        BY <1>1, <2>2, <3>1
      <4> QED
        BY <1>5, <1>7, <1>8, <2>1, <2>2, <3>1, <4>1
    <3>2. CASE i = n + 1
      BY <1>7, <1>8, <2>1, <2>2, <3>2
    <3>3. i \in 1 .. n \/ i = n + 1
      BY <1>1
    <3> QED
      BY <3>1, <3>2, <3>3
  <2>4. /\ Len(seen') = n + 1 /\ n + 1 <= MaxSeen /\ Len(accepted') = n + 1
        /\ \A i \in 1 .. n + 1 : (n + 1) - (n + 1) + i = i
    BY <1>1, <1>3, <1>7, <1>8, <1>12, <2>1, <2>2
  <2> QED
    BY <1>1, <1>10, <2>3, <2>4 DEF Window
<1> QED
  BY <1>11, <1>12

\* A redelivery is declined until MaxSeen other events have been accepted.
THEOREM RedeliveriesDeclined == Spec => []RedeliveryDeclined
<1>1. Init => Window
  BY LimitsAssumption DEF Init, Window, RedeliveryDeclined
<1>2. ASSUME TypeOK, Window, [Next]_vars PROVE Window'
  <2>1. CASE UNCHANGED cache
    BY <2>1, <1>2 DEF cache, Window, RedeliveryDeclined
  <2>2. ASSUME NEW d \in Deliveries, Receive(d) PROVE Window'
    <3>1. CASE UNCHANGED cache
      BY <2>1, <3>1
    <3>2. ASSUME NEW e \in Events, \A i \in DOMAIN seen : seen[i] # e.id,
                 seen' = Remember(e.id), accepted' = Append(accepted, e.id)
          PROVE  Window'
      <4>1. e.id \in EventIds
        BY DEF EventIds
      <4> QED
        BY <1>2, <3>2, <4>1, AcceptWindow
    <3> QED
      BY <2>2, <3>1, <3>2 DEF Receive
  <2>3. ASSUME NEW d \in Deliveries, Progress(d) \/ Finish(d) PROVE UNCHANGED cache
    BY <2>3 DEF Progress, PermitTaken, PermitTimeout, Refused, Answer, Ignore, Cancel, Enter,
                RateLimited, TryLock, Resume, LockTimeout, Reply, Finish
  <2>4. CASE UNCHANGED vars
    BY <2>1, <2>4 DEF vars, cache
  <2> QED
    BY <1>2, <2>1, <2>2, <2>3, <2>4 DEF Next
<1>3. Window => RedeliveryDeclined
  BY DEF Window
<1> QED
  BY <1>1, <1>2, <1>3, TypeCorrect, PTL DEF Spec
=============================================================================

--------------------------- MODULE GroupBatchProofs ---------------------------
(***************************************************************************)
(* Proofs about group batches, for every set of configurations, every      *)
(* number of tasks, messages, resets and evictions.                        *)
(*                                                                         *)
(* The argument: a task of the group is its flush loop exactly while it is *)
(* the flush task; taking a batch ends that, so a task that answers never  *)
(* touches its successor's place.  A waiting loop's alarm is set before    *)
(* every deadline at which its buffer becomes ready.  Only the head of the *)
(* line answers.  A message is new when it enters the buffer and leaves it *)
(* with the one batch that takes it, together with the buffer's mark.  A   *)
(* /reset makes every batch stale that was taken before it began, so that  *)
(* a current batch is one taken since; and it drops the session on which   *)
(* an older one may still be waiting to record.                            *)
(***************************************************************************)
EXTENDS GroupBatch, Maxima, SequenceTheorems, TLAPS

BatchType ==
  [messages : SUBSET Messages, generation : Nat, stamp : Nat, attended : BOOLEAN,
   session : Nat, rounds : 0..MaxRounds, sent : 0..MaxReplies]
SessionType == [history : SUBSET Nat, hydrated : BOOLEAN, seats : Seq(Tasks \cup Resets)]

\* Whoever works on a session works on one that was created; a reply is handed
\* out while one is left.
Placed ==
  /\ \A t \in Tasks : pc[t] \in WorkPlaces => batch[t].session \in 1..Len(sessions)
  /\ \A t \in Tasks : pc[t] = "sending" => batch[t].sent < MaxReplies
  /\ \A r \in Resets : reset[r] = "clearing_group" => target[r] \in 1..Len(sessions)

\* A task with a batch is in the line, and only its head works.
Lined ==
  /\ \A t \in Tasks : pc[t] = "queued" => \E i \in 1..Len(line) : line[i] = t
  /\ \A t \in Tasks : pc[t] \in WorkPlaces => line # <<>> /\ Head(line) = t

TypeInv == TypeOK /\ Placed /\ Lined

\* What a step of a task with a batch may do.
Moves(t) ==
  /\ \E p \in WorkPlaces \cup {"none"}, b \in BatchType :
       /\ pc' = [pc EXCEPT ![t] = p] /\ batch' = [batch EXCEPT ![t] = b]
       /\ (p \in {"sending", "recording"} /\ p # pc[t]) => Current(t)
       /\ \/ p = "none" /\ b = NoBatch /\ LetGo(t) /\ line' = Tail(line)
          \/ /\ p # "none" /\ UNCHANGED <<flushTask, line>>
             /\ b.messages = batch[t].messages /\ b.attended = batch[t].attended
             /\ b.generation = batch[t].generation /\ b.stamp = batch[t].stamp
             /\ pc[t] # "queued" => b.session = batch[t].session
             /\ b.session \in 1..Len(sessions') /\ (p = "sending" => b.sent < MaxReplies)
  /\ sessions' \in Seq(SessionType) /\ Len(sessions) <= Len(sessions')
  /\ row' \in SUBSET Nat /\ strayed' \in BOOLEAN

-----------------------------------------------------------------------------
\* Changing one session keeps the number of sessions, and their type.
LEMMA SessionUpdated ==
  ASSUME sessions \in Seq(SessionType), NEW s \in 1..Len(sessions), NEW v \in SessionType
  PROVE  /\ [sessions EXCEPT ![s] = v] \in Seq(SessionType)
         /\ Len([sessions EXCEPT ![s] = v]) = Len(sessions)
  BY ExceptSeq

LEMMA SeatsType ==
  ASSUME sessions \in Seq(SessionType), NEW s \in 1..Len(sessions)
  PROVE  /\ sessions[s] \in SessionType
         /\ sessions[s].history \in SUBSET Nat
         /\ sessions[s].seats \in Seq(Tasks \cup Resets)
         /\ sessions[s].seats # <<>> => Tail(sessions[s].seats) \in Seq(Tasks \cup Resets)
<1>1. sessions[s] \in SessionType
  BY ElementOfSeq
<1>2. sessions[s].seats \in Seq(Tasks \cup Resets) /\ sessions[s].history \in SUBSET Nat
  BY <1>1 DEF SessionType
<1>3. sessions[s].seats # <<>> => Tail(sessions[s].seats) \in Seq(Tasks \cup Resets)
  BY <1>2, HeadTailProperties
<1> QED
  BY <1>1, <1>2, <1>3

\* Taking a seat.
LEMMA SeatedType ==
  ASSUME sessions \in Seq(SessionType), NEW s \in 1..Len(sessions),
         NEW u \in Tasks \cup Resets
  PROVE  Seated(s, u) \in Seq(SessionType) /\ Len(Seated(s, u)) = Len(sessions)
<1> DEFINE v == [sessions[s] EXCEPT !.seats = Append(sessions[s].seats, u)]
<1>1. Append(sessions[s].seats, u) \in Seq(Tasks \cup Resets) /\ sessions[s] \in SessionType
  BY SeatsType, AppendProperties
<1>2. v \in SessionType
  BY <1>1 DEF SessionType
<1>3. Seated(s, u) = [sessions EXCEPT ![s] = v]
  BY DEF Seated
<1> HIDE DEF v
<1> QED
  BY <1>2, <1>3, SessionUpdated

LEMMA SessionChanged ==
  ASSUME NEW x \in SessionType, NEW h, NEW q
  PROVE  [x EXCEPT !.history = h, !.seats = q] =
           [history |-> h, hydrated |-> x.hydrated, seats |-> q]
<1> DEFINE y == [x EXCEPT !.history = h]
<1>1. y = [history |-> h, hydrated |-> x.hydrated, seats |-> x.seats]
  BY DEF SessionType
<1>2. [x EXCEPT !.history = h, !.seats = q] = [y EXCEPT !.seats = q]
  OBVIOUS
<1> HIDE DEF y
<1>3. [y EXCEPT !.seats = q] = [history |-> h, hydrated |-> x.hydrated, seats |-> q]
  BY <1>1
<1> QED
  BY <1>2, <1>3

\* Leaving it, with a new history.
LEMMA LeftType ==
  ASSUME sessions \in Seq(SessionType), NEW s \in 1..Len(sessions),
         NEW h \in SUBSET Nat, NEW q \in Seq(Tasks \cup Resets), NEW b \in BOOLEAN
  PROVE  LET new == [sessions EXCEPT ![s] = [history |-> h, hydrated |-> b, seats |-> q]]
         IN new \in Seq(SessionType) /\ Len(new) = Len(sessions)
<1>1. [history |-> h, hydrated |-> b, seats |-> q] \in SessionType
  BY DEF SessionType
<1> QED
  BY <1>1, SessionUpdated

LEMMA OpenType ==
  ASSUME TypeInv, NEW s, NEW u \in Tasks \cup Resets, Open(s, u)
  PROVE  /\ sessions' \in Seq(SessionType) /\ Len(sessions) <= Len(sessions')
         /\ s \in 1..Len(sessions') /\ current' \in 0..Len(sessions')
<1>0. sessions \in Seq(SessionType) /\ Len(sessions) \in Nat /\ current \in 0..Len(sessions)
  BY LenProperties DEF TypeInv, TypeOK, SessionType
<1>1. CASE current # 0 /\ s = current /\ sessions' = Seated(s, u) /\ UNCHANGED current
  BY <1>0, <1>1, SeatedType
<1>2. CASE /\ current = 0 /\ s = Len(sessions) + 1 /\ current' = s
           /\ sessions' = Append(sessions, [NewSession EXCEPT !.seats = <<u>>])
  <2>1. <<u>> \in Seq(Tasks \cup Resets)
    OBVIOUS
  <2>2. [NewSession EXCEPT !.seats = <<u>>] \in SessionType
    BY <2>1 DEF NewSession, SessionType
  <2>3. sessions' \in Seq(SessionType) /\ Len(sessions') = Len(sessions) + 1
    BY <1>0, <1>2, <2>2, AppendProperties
  <2> QED
    BY <1>0, <1>2, <2>3
<1> QED
  BY <1>1, <1>2 DEF Open

-----------------------------------------------------------------------------
\* Every step of a task with a batch, one operator at a time.
LEMMA InitialBatch == NoBatch \in BatchType
  BY SettingsAssumption DEF NoBatch, BatchType, Messages

LEMMA WorkerFacts ==
  ASSUME TypeInv, NEW t \in Tasks
  PROVE  /\ pc \in [Tasks -> Places] /\ batch \in [Tasks -> BatchType]
         /\ batch[t] \in BatchType
         /\ sessions \in Seq(SessionType) /\ Len(sessions) \in Nat
         /\ row \in SUBSET Nat /\ strayed \in BOOLEAN
         /\ pc[t] \in WorkPlaces => batch[t].session \in 1..Len(sessions)
<1>1. batch \in [Tasks -> BatchType]
  BY DEF TypeInv, TypeOK, BatchType
<1>2. sessions \in Seq(SessionType) /\ Len(sessions) \in Nat
  BY LenProperties DEF TypeInv, TypeOK, SessionType
<1> QED
  BY <1>1, <1>2 DEF TypeInv, TypeOK, Placed

LEMMA LeaveMoves ==
  ASSUME TypeInv, NEW t \in Tasks, Leave(t), UNCHANGED <<sessions, row, strayed>>
  PROVE  Moves(t)
<1>1. /\ pc' = [pc EXCEPT ![t] = "none"] /\ batch' = [batch EXCEPT ![t] = NoBatch]
      /\ LetGo(t) /\ line' = Tail(line)
  BY DEF Leave, Ends
<1>2. /\ sessions' \in Seq(SessionType) /\ Len(sessions) <= Len(sessions')
      /\ row' \in SUBSET Nat /\ strayed' \in BOOLEAN
  BY WorkerFacts
<1> QED
  BY <1>1, <1>2, InitialBatch DEF Moves

LEMMA SavedType ==
  ASSUME TypeInv, NEW s, NEW h \in SUBSET Nat, Saved(s, h)
  PROVE  row' \in SUBSET Nat /\ strayed' \in BOOLEAN
<1>1. row \in SUBSET Nat /\ strayed \in BOOLEAN /\ (strayed \/ s # current) \in BOOLEAN
  BY DEF TypeInv, TypeOK
<1> QED
  BY <1>1 DEF Saved

LEMMA RecordedMoves ==
  ASSUME TypeInv, NEW t \in Tasks, pc[t] \in WorkPlaces,
         NEW q \in Seq(Tasks \cup Resets), Recorded(t, q)
  PROVE  Moves(t)
<1> DEFINE s == batch[t].session
           h == sessions[s].history \cup {batch[t].stamp}
           new == [history |-> h, hydrated |-> sessions[s].hydrated, seats |-> q]
<1>1. s \in 1..Len(sessions) /\ sessions \in Seq(SessionType) /\ Len(sessions) \in Nat
  BY WorkerFacts
<1>2. sessions[s] \in SessionType /\ batch[t].stamp \in Nat
  BY <1>1, SeatsType, WorkerFacts DEF BatchType
<1>3. h \in SUBSET Nat /\ sessions[s].hydrated \in BOOLEAN
  BY <1>2 DEF SessionType
<1>4. sessions' = [sessions EXCEPT ![s].history = h, ![s].seats = q] /\ Saved(s, h) /\ Leave(t)
  BY DEF Recorded
<1> HIDE DEF h, s
<1>5. sessions' = [sessions EXCEPT ![s] = new]
  <2>1. [sessions[s] EXCEPT !.history = h, !.seats = q] = new
    BY <1>2, SessionChanged
  <2>2. sessions' = [sessions EXCEPT ![s] = [sessions[s] EXCEPT !.history = h, !.seats = q]]
    BY <1>1, <1>4
  <2> QED
    BY <2>1, <2>2
<1>6. sessions' \in Seq(SessionType) /\ Len(sessions') = Len(sessions)
  BY <1>1, <1>3, <1>5, LeftType
<1>7. row' \in SUBSET Nat /\ strayed' \in BOOLEAN
  BY <1>3, <1>4, SavedType
<1>8. /\ pc' = [pc EXCEPT ![t] = "none"] /\ batch' = [batch EXCEPT ![t] = NoBatch]
      /\ LetGo(t) /\ line' = Tail(line)
  BY <1>4 DEF Leave, Ends
<1>9. sessions' \in Seq(SessionType) /\ Len(sessions) <= Len(sessions')
  BY <1>1, <1>6
<1> QED
  BY <1>7, <1>8, <1>9, InitialBatch DEF Moves

LEMMA ConcludeMoves ==
  ASSUME TypeInv, NEW t \in Tasks, pc[t] \in WorkPlaces, Conclude(t)
  PROVE  Moves(t)
<1> DEFINE s == batch[t].session
<1>0. s \in 1..Len(sessions) /\ sessions \in Seq(SessionType) /\ Len(sessions) \in Nat
  BY WorkerFacts
<1>1. CASE Recorded(t, <<>>)
  <2>1. <<>> \in Seq(Tasks \cup Resets)
    OBVIOUS
  <2> QED
    BY <1>1, <2>1, RecordedMoves
<1>2. CASE /\ Current(t) /\ pc' = [pc EXCEPT ![t] = "recording"]
           /\ sessions' = Seated(s, t)
           /\ UNCHANGED <<batch, line, row, strayed, flushTask>>
  <2>1. sessions' \in Seq(SessionType) /\ Len(sessions') = Len(sessions)
    BY <1>0, <1>2, SeatedType
  <2>2. batch' = [batch EXCEPT ![t] = batch[t]] /\ batch[t] \in BatchType
    BY <1>2, WorkerFacts
  <2>3. row' \in SUBSET Nat /\ strayed' \in BOOLEAN
    BY <1>2, WorkerFacts
  <2>4. /\ s \in 1..Len(sessions') /\ Len(sessions) <= Len(sessions')
        /\ "recording" \in WorkPlaces \cup {"none"} /\ UNCHANGED <<flushTask, line>>
    BY <1>0, <1>2, <2>1 DEF WorkPlaces
  <2> QED
    BY <1>2, <2>1, <2>2, <2>3, <2>4 DEF Moves
<1>3. CASE Leave(t) /\ UNCHANGED <<sessions, row, strayed>>
  BY <1>3, LeaveMoves
<1> QED
  BY <1>1, <1>2, <1>3 DEF Conclude

\* A step to another place that changes nothing but the batch's own counters.
LEMMA StaysMoves ==
  ASSUME TypeInv, NEW t \in Tasks, pc[t] \in WorkPlaces,
         NEW p \in WorkPlaces, NEW b \in BatchType,
         pc' = [pc EXCEPT ![t] = p], batch' = [batch EXCEPT ![t] = b],
         b.messages = batch[t].messages, b.attended = batch[t].attended,
         b.generation = batch[t].generation, b.stamp = batch[t].stamp,
         b.session = batch[t].session,
         p \in {"sending", "recording"} => Current(t),
         p = "sending" => b.sent < MaxReplies,
         UNCHANGED kept
  PROVE  Moves(t)
<1>1. UNCHANGED <<line, flushTask, sessions, row, strayed>>
  BY DEF kept
<1>2. /\ sessions' \in Seq(SessionType) /\ Len(sessions) <= Len(sessions')
      /\ row' \in SUBSET Nat /\ strayed' \in BOOLEAN
  BY <1>1, WorkerFacts
<1>3. b.session \in 1..Len(sessions') /\ p # "none"
  BY <1>1, WorkerFacts DEF WorkPlaces
<1> QED
  BY <1>1, <1>2, <1>3 DEF Moves

LEMMA AskMoves ==
  ASSUME TypeInv, NEW t \in Tasks, pc[t] \in WorkPlaces, Ask(t)
  PROVE  Moves(t)
<1>1. CASE /\ batch[t].rounds < MaxRounds /\ pc' = [pc EXCEPT ![t] = "answering"]
           /\ batch' = [batch EXCEPT ![t].rounds = @ + 1] /\ UNCHANGED kept
  <2> DEFINE b == [batch[t] EXCEPT !.rounds = batch[t].rounds + 1]
  <2>1. batch[t] \in BatchType /\ MaxRounds \in Nat
    BY WorkerFacts, SettingsAssumption
  <2>2. batch[t].rounds + 1 \in 0..MaxRounds
    BY <1>1, <2>1 DEF BatchType
  <2>3. b \in BatchType /\ b.messages = batch[t].messages /\ b.attended = batch[t].attended
        /\ b.generation = batch[t].generation /\ b.stamp = batch[t].stamp
        /\ b.session = batch[t].session
    BY <2>1, <2>2 DEF BatchType
  <2>4. batch' = [batch EXCEPT ![t] = b] /\ "answering" \in WorkPlaces
    BY <1>1 DEF WorkPlaces
  <2> HIDE DEF b
  <2> QED
    BY <1>1, <2>3, <2>4, StaysMoves
<1> QED
  BY <1>1, ConcludeMoves DEF Ask

LEMMA SendMoves ==
  ASSUME TypeInv, NEW t \in Tasks, pc[t] \in WorkPlaces, Send(t)
  PROVE  Moves(t)
<1>1. /\ batch[t].sent < MaxReplies /\ Current(t) /\ UNCHANGED kept
      /\ pc' = [pc EXCEPT ![t] = "sending"] /\ batch' = [batch EXCEPT ![t] = batch[t]]
  BY WorkerFacts DEF Send
<1>2. batch[t] \in BatchType /\ "sending" \in WorkPlaces
  BY WorkerFacts DEF WorkPlaces
<1> QED
  BY <1>1, <1>2, StaysMoves

LEMMA UseToolMoves ==
  ASSUME TypeInv, NEW t \in Tasks, pc[t] \in WorkPlaces, UseTool(t)
  PROVE  Moves(t)
<1>1. /\ UNCHANGED kept
      /\ pc' = [pc EXCEPT ![t] = "using_tool"] /\ batch' = [batch EXCEPT ![t] = batch[t]]
  BY WorkerFacts DEF UseTool
<1>2. batch[t] \in BatchType /\ "using_tool" \in WorkPlaces
  BY WorkerFacts DEF WorkPlaces
<1> QED
  BY <1>1, <1>2, StaysMoves

\* Other changes of one session.
LEMMA HistoryWritten ==
  ASSUME NEW q \in Seq(SessionType), NEW s \in 1..Len(q), NEW h \in SUBSET Nat
  PROVE  /\ [q EXCEPT ![s].history = h] \in Seq(SessionType)
         /\ Len([q EXCEPT ![s].history = h]) = Len(q)
<1> DEFINE v == [q[s] EXCEPT !.history = h]
<1>1. v \in SessionType
  <2>1. q[s] \in SessionType
    BY ElementOfSeq
  <2> QED
    BY <2>1 DEF SessionType
<1>2. [q EXCEPT ![s].history = h] = [q EXCEPT ![s] = v]
  OBVIOUS
<1> HIDE DEF v
<1> QED
  BY <1>1, <1>2, ExceptSeq

LEMMA HydratedMarked ==
  ASSUME NEW q \in Seq(SessionType), NEW s \in 1..Len(q)
  PROVE  /\ [q EXCEPT ![s].hydrated = TRUE] \in Seq(SessionType)
         /\ Len([q EXCEPT ![s].hydrated = TRUE]) = Len(q)
<1> DEFINE v == [q[s] EXCEPT !.hydrated = TRUE]
<1>1. v \in SessionType
  <2>1. q[s] \in SessionType
    BY ElementOfSeq
  <2> QED
    BY <2>1 DEF SessionType
<1>2. [q EXCEPT ![s].hydrated = TRUE] = [q EXCEPT ![s] = v]
  OBVIOUS
<1> HIDE DEF v
<1>3. [q EXCEPT ![s] = v] \in Seq(SessionType) /\ Len([q EXCEPT ![s] = v]) = Len(q)
  BY <1>1, ExceptSeq
<1> QED
  BY <1>2, <1>3, Zenon

LEMMA SeatLeft ==
  ASSUME sessions \in Seq(SessionType), NEW s \in 1..Len(sessions), sessions[s].seats # <<>>
  PROVE  Left(s) \in Seq(SessionType) /\ Len(Left(s)) = Len(sessions)
<1> DEFINE v == [sessions[s] EXCEPT !.seats = Tail(sessions[s].seats)]
<1>1. v \in SessionType
  BY SeatsType DEF SessionType
<1>2. Left(s) = [sessions EXCEPT ![s] = v]
  BY DEF Left
<1> HIDE DEF v
<1> QED
  BY <1>1, <1>2, SessionUpdated

\* A step to another place that changes the sessions.
LEMMA WorksMoves ==
  ASSUME TypeInv, NEW t \in Tasks, pc[t] \in WorkPlaces,
         NEW p \in WorkPlaces \ {"sending", "recording"},
         pc' = [pc EXCEPT ![t] = p], UNCHANGED <<flushTask, batch, line>>,
         sessions' \in Seq(SessionType), Len(sessions') = Len(sessions),
         row' \in SUBSET Nat, strayed' \in BOOLEAN
  PROVE  Moves(t)
<1>1. batch' = [batch EXCEPT ![t] = batch[t]] /\ batch[t] \in BatchType
  BY WorkerFacts
<1>2. batch[t].session \in 1..Len(sessions') /\ Len(sessions) <= Len(sessions')
  BY WorkerFacts
<1>3. p # "none" /\ p \in WorkPlaces \cup {"none"}
  BY DEF WorkPlaces
<1> QED
  BY <1>1, <1>2, <1>3 DEF Moves

LEMMA HydrateMoves ==
  ASSUME TypeInv, NEW t \in Tasks, Hydrate(t)
  PROVE  Moves(t)
<1> DEFINE s == batch[t].session
           loaded(h) == [Left(s) EXCEPT ![s].history = h, ![s].hydrated = TRUE]
<1>1. pc[t] \in WorkPlaces /\ "looking" \in WorkPlaces \ {"sending", "recording"}
  BY DEF Hydrate, WorkPlaces
<1>2. s \in 1..Len(sessions) /\ sessions \in Seq(SessionType) /\ row \in SUBSET Nat
      /\ strayed \in BOOLEAN
  BY <1>1, WorkerFacts
<1>3. sessions[s].seats # <<>> /\ sessions[s].history \in SUBSET Nat
  BY <1>2, SeatsType DEF Hydrate, First
<1>4. Left(s) \in Seq(SessionType) /\ Len(Left(s)) = Len(sessions)
  BY <1>2, <1>3, SeatLeft
<1>5. ASSUME NEW h \in SUBSET Nat
      PROVE  loaded(h) \in Seq(SessionType) /\ Len(loaded(h)) = Len(sessions)
  <2> DEFINE q == Left(s)
             w == [q EXCEPT ![s].history = h]
  <2>1. loaded(h) = [w EXCEPT ![s].hydrated = TRUE]
    OBVIOUS
  <2> HIDE DEF q
  <2>2. w \in Seq(SessionType) /\ Len(w) = Len(sessions)
    <3>1. q \in Seq(SessionType) /\ Len(q) = Len(sessions) /\ s \in 1..Len(q)
      BY <1>2, <1>4 DEF q
    <3> QED
      BY <3>1, HistoryWritten
  <2> HIDE DEF w
  <2> QED
    BY <1>2, <2>1, <2>2, HydratedMarked
<1>6. sessions' = loaded(sessions[s].history) \/ sessions' = loaded(row)
  BY DEF Hydrate
<1>7. sessions' \in Seq(SessionType) /\ Len(sessions') = Len(sessions)
  <2> HIDE DEF loaded
  <2> QED
    BY <1>2, <1>3, <1>5, <1>6
<1>8. /\ pc' = [pc EXCEPT ![t] = "looking"] /\ UNCHANGED <<flushTask, batch, line>>
      /\ row' \in SUBSET Nat /\ strayed' \in BOOLEAN
  BY <1>2 DEF Hydrate
<1> QED
  BY <1>1, <1>7, <1>8, WorksMoves

LEMMA LookMoves ==
  ASSUME TypeInv, NEW t \in Tasks, Look(t)
  PROVE  Moves(t)
<1>1. pc[t] \in WorkPlaces /\ "preparing" \in WorkPlaces \ {"sending", "recording"}
  BY DEF Look, WorkPlaces
<1>2. batch[t].session \in 1..Len(sessions) /\ sessions \in Seq(SessionType)
      /\ row \in SUBSET Nat /\ strayed \in BOOLEAN
  BY <1>1, WorkerFacts
<1>3. sessions' \in Seq(SessionType) /\ Len(sessions') = Len(sessions)
  BY <1>2, SeatedType DEF Look
<1>4. /\ pc' = [pc EXCEPT ![t] = "preparing"] /\ UNCHANGED <<flushTask, batch, line>>
      /\ row' \in SUBSET Nat /\ strayed' \in BOOLEAN
  BY <1>2 DEF Look
<1> QED
  BY <1>1, <1>3, <1>4, WorksMoves

LEMMA PrepareMoves ==
  ASSUME TypeInv, NEW t \in Tasks, Prepare(t)
  PROVE  Moves(t)
<1> DEFINE s == batch[t].session
<1>1. pc[t] \in WorkPlaces /\ "probing" \in WorkPlaces \ {"sending", "recording"}
  BY DEF Prepare, WorkPlaces
<1>2. s \in 1..Len(sessions) /\ sessions \in Seq(SessionType) /\ row \in SUBSET Nat
      /\ strayed \in BOOLEAN
  BY <1>1, WorkerFacts
<1>3. sessions[s].seats # <<>> /\ sessions[s].history \in SUBSET Nat
  BY <1>2, SeatsType DEF Prepare, First
<1>4. Left(s) \in Seq(SessionType) /\ Len(Left(s)) = Len(sessions)
  BY <1>2, <1>3, SeatLeft
<1>5. pc' = [pc EXCEPT ![t] = "probing"] /\ UNCHANGED <<flushTask, batch, line>>
  BY DEF Prepare
<1>6. ASSUME NEW some \in SUBSET sessions[s].history, Saved(s, some),
             sessions' = [Left(s) EXCEPT ![s].history = some]
      PROVE  Moves(t)
  <2>1. some \in SUBSET Nat
    BY <1>3
  <2>2. sessions' \in Seq(SessionType) /\ Len(sessions') = Len(sessions)
    <3> DEFINE q == Left(s)
    <3>1. q \in Seq(SessionType) /\ s \in 1..Len(q) /\ Len(q) = Len(sessions)
      BY <1>2, <1>4
    <3>2. sessions' = [q EXCEPT ![s].history = some]
      BY <1>6
    <3> HIDE DEF q
    <3> QED
      BY <2>1, <3>1, <3>2, HistoryWritten
  <2>3. row' \in SUBSET Nat /\ strayed' \in BOOLEAN
    BY <1>6, <2>1, SavedType
  <2> QED
    BY <1>1, <1>5, <2>2, <2>3, WorksMoves
<1>7. CASE sessions' = Left(s) /\ UNCHANGED <<row, strayed>>
  <2>1. row' \in SUBSET Nat /\ strayed' \in BOOLEAN
    BY <1>2, <1>7
  <2> QED
    BY <1>1, <1>4, <1>5, <1>7, <2>1, WorksMoves
<1> QED
  BY <1>6, <1>7 DEF Prepare

LEMMA SentMoves ==
  ASSUME TypeInv, NEW t \in Tasks, Sent(t)
  PROVE  Moves(t)
<1>1. pc[t] \in WorkPlaces /\ batch[t].sent < MaxReplies /\ "using_tool" \in WorkPlaces
  BY DEF Sent, WorkPlaces, TypeInv, Placed
<1>2. CASE /\ batch' = [batch EXCEPT ![t].sent = @ + 1]
           /\ pc' = [pc EXCEPT ![t] = "using_tool"]
           /\ UNCHANGED <<line, flushTask, sessions, row, strayed>>
  <2> DEFINE b == [batch[t] EXCEPT !.sent = batch[t].sent + 1]
  <2>1. batch[t] \in BatchType /\ MaxReplies \in Nat
    BY WorkerFacts, SettingsAssumption
  <2>2. batch[t].sent + 1 \in 0..MaxReplies
    BY <1>1, <2>1 DEF BatchType
  <2>3. b \in BatchType /\ b.messages = batch[t].messages /\ b.attended = batch[t].attended
        /\ b.generation = batch[t].generation /\ b.stamp = batch[t].stamp
        /\ b.session = batch[t].session
    BY <2>1, <2>2 DEF BatchType
  <2>4. batch' = [batch EXCEPT ![t] = b] /\ UNCHANGED kept
    BY <1>2 DEF kept
  <2> HIDE DEF b
  <2> QED
    BY <1>1, <1>2, <2>3, <2>4, StaysMoves
<1> QED
  BY <1>1, <1>2, ConcludeMoves DEF Sent, kept

LEMMA RecordMoves ==
  ASSUME TypeInv, NEW t \in Tasks, Record(t)
  PROVE  Moves(t)
<1>1. pc[t] \in WorkPlaces
  BY DEF Record, WorkPlaces
<1>2. batch[t].session \in 1..Len(sessions) /\ sessions \in Seq(SessionType)
  BY <1>1, WorkerFacts
<1>3. Tail(sessions[batch[t].session].seats) \in Seq(Tasks \cup Resets)
  BY <1>2, SeatsType DEF Record, First
<1> QED
  BY <1>1, <1>3, RecordedMoves DEF Record

LEMMA StartMoves ==
  ASSUME TypeInv, NEW t \in Tasks, Start(t)
  PROVE  Moves(t) /\ current' \in 0..Len(sessions')
<1>1. CASE Current(t)
  <2>1. PICK s \in 1..Len(sessions) + 1 :
           Open(s, t) /\ batch' = [batch EXCEPT ![t].session = s]
    BY <1>1 DEF Start
  <2>2. /\ sessions' \in Seq(SessionType) /\ Len(sessions) <= Len(sessions')
        /\ s \in 1..Len(sessions') /\ current' \in 0..Len(sessions')
    BY <2>1, OpenType
  <2> DEFINE b == [batch[t] EXCEPT !.session = s]
  <2>3. /\ b \in BatchType /\ b.messages = batch[t].messages /\ b.attended = batch[t].attended
        /\ b.generation = batch[t].generation /\ b.stamp = batch[t].stamp
        /\ b.session = s
    <3>1. s \in Nat /\ batch[t] \in BatchType
      BY <2>1, WorkerFacts
    <3> QED
      BY <3>1 DEF BatchType
  <2>4. batch' = [batch EXCEPT ![t] = b]
    BY <2>1
  <2>5. /\ pc' = [pc EXCEPT ![t] = "hydrating"] /\ UNCHANGED <<line, flushTask, row, strayed>>
        /\ row' \in SUBSET Nat /\ strayed' \in BOOLEAN
    BY <1>1, WorkerFacts DEF Start
  <2>6. "hydrating" \in WorkPlaces \cup {"none"} /\ pc[t] = "queued"
    BY DEF WorkPlaces, Start
  <2> HIDE DEF b
  <2> QED
    BY <2>2, <2>3, <2>4, <2>5, <2>6 DEF Moves
<1>2. CASE ~Current(t)
  <2>1. Leave(t) /\ UNCHANGED <<sessions, current, row, strayed>>
    BY <1>2 DEF Start
  <2>2. current' \in 0..Len(sessions')
    BY <2>1 DEF TypeInv, TypeOK
  <2> QED
    BY <2>1, <2>2, LeaveMoves
<1> QED
  BY <1>1, <1>2

\* What every step of a task with a batch has in common.
LEMMA WorkMoves ==
  ASSUME TypeInv, NEW t \in Tasks, Work(t)
  PROVE  /\ Moves(t) /\ UNCHANGED others /\ current' \in 0..Len(sessions')
         /\ pc[t] \in WorkPlaces \cup {"queued"}
         /\ line \in Seq(Tasks) /\ line # <<>> /\ Head(line) = t
<1> USE DEF WorkPlaces
<1>0. /\ line \in Seq(Tasks) /\ current \in 0..Len(sessions) /\ Len(sessions) \in Nat
      /\ \A u \in Tasks : pc[u] = "queued" => line # <<>>
  <2>1. line \in Seq(Tasks) /\ current \in 0..Len(sessions) /\ Len(sessions) \in Nat
    BY WorkerFacts DEF TypeInv, TypeOK
  <2>2. ASSUME NEW u \in Tasks, pc[u] = "queued", line = <<>> PROVE FALSE
    <3>1. PICK i \in 1..Len(line) : line[i] = u
      BY <2>2 DEF TypeInv, Lined
    <3>2. Len(line) = 0
      BY <2>2
    <3> QED
      BY <3>1, <3>2
  <2> QED
    BY <2>1, <2>2
<1>1. pc[t] \in WorkPlaces \cup {"queued"} /\ UNCHANGED others
  BY DEF Work, Start, Hydrate, Look, Prepare, Probe, Answer, Continue, Sent, Record
<1>2. line # <<>> /\ Head(line) = t
  <2>1. CASE pc[t] = "queued"
    BY <1>0, <2>1 DEF Work, Start, Hydrate, Look, Prepare, Probe, Answer, Continue, Sent, Record
  <2>2. CASE pc[t] \in WorkPlaces
    BY <2>2 DEF TypeInv, Lined
  <2> QED
    BY <1>1, <2>1, <2>2
<1>3. CASE Start(t)
  BY <1>0, <1>1, <1>2, <1>3, StartMoves
<1>4. ASSUME Moves(t), UNCHANGED current
      PROVE  current' \in 0..Len(sessions')
  <2>1. Len(sessions) <= Len(sessions') /\ sessions' \in Seq(SessionType)
    BY <1>4 DEF Moves
  <2>2. Len(sessions') \in Nat
    BY <2>1, LenProperties
  <2> QED
    BY <1>0, <1>4, <2>1, <2>2
<1>5. CASE Hydrate(t)
  BY <1>0, <1>1, <1>2, <1>4, <1>5, HydrateMoves DEF Hydrate
<1>6. CASE Look(t)
  BY <1>0, <1>1, <1>2, <1>4, <1>6, LookMoves DEF Look
<1>7. CASE Prepare(t)
  BY <1>0, <1>1, <1>2, <1>4, <1>7, PrepareMoves DEF Prepare
<1>8. CASE Probe(t)
  <2>1. Moves(t)
    BY <1>8, AskMoves, LeaveMoves DEF Probe
  <2> QED
    BY <1>0, <1>1, <1>2, <1>4, <1>8, <2>1 DEF Probe
<1>9. CASE Answer(t)
  <2>1. Moves(t)
    BY <1>9, ConcludeMoves, AskMoves, UseToolMoves, SendMoves DEF Answer
  <2> QED
    BY <1>0, <1>1, <1>2, <1>4, <1>9, <2>1 DEF Answer
<1>10. CASE Continue(t)
  <2>1. Moves(t)
    BY <1>10, ConcludeMoves, AskMoves, SendMoves DEF Continue
  <2> QED
    BY <1>0, <1>1, <1>2, <1>4, <1>10, <2>1 DEF Continue
<1>11. CASE Sent(t)
  BY <1>0, <1>1, <1>2, <1>4, <1>11, SentMoves DEF Sent
<1>12. CASE Record(t)
  BY <1>0, <1>1, <1>2, <1>4, <1>12, RecordMoves DEF Record
<1> QED
  BY <1>3, <1>5, <1>6, <1>7, <1>8, <1>9, <1>10, <1>11, <1>12 DEF Work

\* The wait of a loop ends before each of its deadlines.
LEMMA DeadlineIsNear ==
  ASSUME TypeInv
  PROVE  /\ Deadline \in Nat
         /\ settings.hold > age => Deadline <= settings.hold
         /\ (/\ attention \/ ~settings.require \/ settings.probe
             /\ settings.window > age) => Deadline <= settings.window
<1> DEFINE ends == {settings.hold} \cup
                     IF attention \/ ~settings.require \/ settings.probe
                       THEN {settings.window} ELSE {}
           ahead == {d \in ends : d > age}
<1>1. settings.hold \in Nat /\ settings.window \in Nat /\ age \in Nat
  BY SettingsAssumption DEF TypeInv, TypeOK
<1>2. ends \in SUBSET Nat
  BY <1>1
<1>3. ahead \in SUBSET Nat
  BY <1>2
<1>4. Deadline = IF ahead = {} THEN age ELSE Min(ahead)
  BY DEF Deadline
<1>5. /\ settings.hold > age => settings.hold \in ahead
      /\ (/\ attention \/ ~settings.require \/ settings.probe
          /\ settings.window > age) => settings.window \in ahead
  OBVIOUS
<1> HIDE DEF ahead, ends
<1>6. CASE ahead = {}
  BY <1>1, <1>4, <1>5, <1>6
<1>7. CASE ahead # {}
  <2>1. \E n \in ahead : \A m \in ahead : n <= m
    BY <1>3, <1>7, Least
  <2>2. Min(ahead) \in ahead /\ \A m \in ahead : Min(ahead) <= m
    BY <2>1 DEF Min
  <2> QED
    BY <1>3, <1>4, <1>5, <1>7, <2>2
<1> QED
  BY <1>6, <1>7

-----------------------------------------------------------------------------
\* Types, places and the line are kept by every step.
LEMMA InitTypeInv == ASSUME Init PROVE TypeInv
<1> USE DEF Init
<1>1. /\ pc \in [Tasks -> Places] /\ \A t \in Tasks : pc[t] = "none"
      /\ reset \in [Resets -> ResetPlaces] /\ \A r \in Resets : reset[r] = "none"
  BY DEF Places, ResetPlaces
<1>2. batch \in [Tasks -> BatchType]
  BY InitialBatch
<1>3. /\ <<>> \in Seq(Tasks) /\ <<>> \in Seq(SessionType) /\ Len(<<>>) = 0
      /\ Cardinality({}) = 0
  BY FS_EmptySet
<1>4. TypeOK
  <2>1. /\ alarm \in [Tasks -> Nat] /\ target \in [Resets -> Nat] /\ row \in SUBSET Nat
        /\ line \in Seq(Tasks) /\ sessions \in Seq(SessionType) /\ current \in 0..Len(sessions)
    BY <1>3
  <2>2. Cardinality(buffer) <= Capacity
    BY <1>3, SettingsAssumption
  <2> QED
    BY <1>1, <1>2, <2>1, <2>2 DEF TypeOK, BatchType, SessionType
<1>5. Placed
  BY <1>1 DEF Placed, WorkPlaces
<1>6. Lined
  BY <1>1 DEF Lined, WorkPlaces
<1> QED
  BY <1>4, <1>5, <1>6 DEF TypeInv

\* Tasks that stop working, or work no more than before.
LEMMA LinedFrame ==
  ASSUME TypeInv, UNCHANGED line,
         \A t \in Tasks : pc'[t] \in WorkPlaces \cup {"queued"} => pc'[t] = pc[t]
  PROVE  Lined'
  BY DEF TypeInv, Lined, WorkPlaces

LEMMA PlacedFrame ==
  ASSUME TypeInv, UNCHANGED batch, Len(sessions) <= Len(sessions'),
         sessions' \in Seq(SessionType),
         \A t \in Tasks : pc'[t] \in WorkPlaces => pc'[t] = pc[t],
         \A r \in Resets : reset'[r] = "clearing_group" =>
           \/ reset[r] = "clearing_group" /\ target'[r] = target[r]
           \/ target'[r] \in 1..Len(sessions')
  PROVE  Placed'
<1>1. sessions \in Seq(SessionType) /\ Len(sessions) \in Nat /\ Len(sessions') \in Nat
  BY LenProperties DEF TypeInv, TypeOK, SessionType
<1>2. \A t \in Tasks : pc'[t] \in WorkPlaces => batch'[t].session \in 1..Len(sessions')
  <2> TAKE t \in Tasks
  <2> HAVE pc'[t] \in WorkPlaces
  <2>1. batch[t].session \in 1..Len(sessions)
    BY DEF TypeInv, Placed
  <2> QED
    BY <1>1, <2>1
<1>3. \A t \in Tasks : pc'[t] = "sending" => batch'[t].sent < MaxReplies
  BY DEF TypeInv, Placed, WorkPlaces
<1>4. \A r \in Resets : reset'[r] = "clearing_group" => target'[r] \in 1..Len(sessions')
  <2> TAKE r \in Resets
  <2> HAVE reset'[r] = "clearing_group"
  <2>1. CASE reset[r] = "clearing_group" /\ target'[r] = target[r]
    <3>1. target[r] \in 1..Len(sessions)
      BY <2>1 DEF TypeInv, Placed
    <3> QED
      BY <1>1, <2>1, <3>1
  <2> QED
    BY <2>1
<1> QED
  BY <1>2, <1>3, <1>4 DEF Placed

\* The line after its head has left.
LEMMA WorkLined ==
  ASSUME TypeInv, NEW t \in Tasks, Work(t)
  PROVE  Lined' /\ line' \in Seq(Tasks)
<1>1. line \in Seq(Tasks) /\ line # <<>> /\ Head(line) = t /\ Len(line) \in Nat
  BY WorkMoves, LenProperties
<1>2. Tail(line) \in Seq(Tasks) /\ Len(Tail(line)) = Len(line) - 1 /\ line[1] = t
      /\ \A i \in 1..Len(Tail(line)) : Tail(line)[i] = line[i + 1]
  BY <1>1, HeadTailProperties
<1>3. PICK p \in WorkPlaces \cup {"none"} :
        /\ pc' = [pc EXCEPT ![t] = p]
        /\ \/ p = "none" /\ line' = Tail(line)
           \/ p # "none" /\ UNCHANGED line
  BY WorkMoves DEF Moves
<1>4. \A u \in Tasks : pc'[u] = IF u = t THEN p ELSE pc[u]
  BY <1>3 DEF TypeInv, TypeOK
<1>5. \A u \in Tasks \ {t} : pc[u] \notin WorkPlaces
  BY <1>1 DEF TypeInv, Lined
<1>6. CASE p = "none" /\ line' = Tail(line)
  <2>1. \A u \in Tasks : pc'[u] \notin WorkPlaces
    BY <1>4, <1>5, <1>6 DEF WorkPlaces
  <2>2. ASSUME NEW u \in Tasks, pc'[u] = "queued"
        PROVE  \E i \in 1..Len(line') : line'[i] = u
    <3>1. u # t /\ pc[u] = "queued"
      BY <1>4, <1>6, <2>2
    <3>2. PICK i \in 1..Len(line) : line[i] = u
      BY <3>1 DEF TypeInv, Lined
    <3>3. i # 1 /\ i - 1 \in 1..Len(Tail(line))
      BY <1>1, <1>2, <3>1, <3>2
    <3>4. Tail(line)[i - 1] = line[(i - 1) + 1] /\ (i - 1) + 1 = i
      BY <1>2, <3>3
    <3> QED
      BY <1>6, <3>2, <3>3, <3>4
  <2> QED
    BY <1>2, <1>6, <2>1, <2>2 DEF Lined
<1>7. CASE p # "none" /\ UNCHANGED line
  <2>1. \A u \in Tasks : pc'[u] \in WorkPlaces => u = t
    BY <1>4, <1>5
  <2>2. \A u \in Tasks : pc'[u] = "queued" => pc[u] = "queued"
    BY <1>4, <1>7 DEF WorkPlaces
  <2> QED
    BY <1>1, <1>7, <2>1, <2>2 DEF Lined, TypeInv
<1> QED
  BY <1>3, <1>6, <1>7

LEMMA WorkKeepsType ==
  ASSUME TypeInv, NEW t \in Tasks, Work(t)
  PROVE  TypeInv'
<1>1. PICK p \in WorkPlaces \cup {"none"}, b \in BatchType :
       /\ pc' = [pc EXCEPT ![t] = p] /\ batch' = [batch EXCEPT ![t] = b]
       /\ \/ p = "none" /\ b = NoBatch /\ LetGo(t) /\ line' = Tail(line)
          \/ /\ p # "none" /\ UNCHANGED <<flushTask, line>>
             /\ b.session \in 1..Len(sessions') /\ (p = "sending" => b.sent < MaxReplies)
  <2>1. Moves(t)
    BY WorkMoves
  <2> QED
    BY <2>1 DEF Moves
<1>2. /\ sessions' \in Seq(SessionType) /\ Len(sessions) <= Len(sessions')
      /\ row' \in SUBSET Nat /\ strayed' \in BOOLEAN /\ current' \in 0..Len(sessions')
      /\ UNCHANGED others
  BY WorkMoves DEF Moves
<1>3. pc' \in [Tasks -> Places] /\ \A u \in Tasks : pc'[u] = IF u = t THEN p ELSE pc[u]
  BY <1>1 DEF TypeInv, TypeOK, Places
<1>4. /\ batch' \in [Tasks -> BatchType]
      /\ \A u \in Tasks : batch'[u] = IF u = t THEN b ELSE batch[u]
  BY <1>1, WorkerFacts
<1>5. flushTask' \in Tasks \cup {None}
  BY <1>1 DEF LetGo, TypeInv, TypeOK
<1>6. line' \in Seq(Tasks) /\ Lined'
  BY WorkLined
<1>7. TypeOK'
  BY <1>2, <1>3, <1>4, <1>5, <1>6
     DEF TypeInv, TypeOK, BatchType, SessionType, others, buffered, clears, inbox
<1>8. Placed'
  <2>1. Len(sessions) \in Nat /\ Len(sessions') \in Nat /\ UNCHANGED <<reset, target>>
    BY <1>2, WorkerFacts, LenProperties DEF others, clears
  <2>2. ASSUME NEW u \in Tasks, pc'[u] \in WorkPlaces
        PROVE  batch'[u].session \in 1..Len(sessions')
    <3>1. CASE u = t
      BY <1>1, <1>3, <1>4, <2>2, <3>1 DEF WorkPlaces
    <3>2. CASE u # t
      <4>1. batch[u].session \in 1..Len(sessions)
        BY <1>3, <2>2, <3>2 DEF TypeInv, Placed
      <4> QED
        BY <1>2, <1>4, <2>1, <3>2, <4>1
    <3> QED
      BY <3>1, <3>2
  <2>3. \A u \in Tasks : pc'[u] = "sending" => batch'[u].sent < MaxReplies
    BY <1>1, <1>3, <1>4 DEF TypeInv, Placed
  <2>4. ASSUME NEW r \in Resets, reset'[r] = "clearing_group"
        PROVE  target'[r] \in 1..Len(sessions')
    <3>1. target[r] \in 1..Len(sessions)
      BY <2>1, <2>4 DEF TypeInv, Placed
    <3> QED
      BY <1>2, <2>1, <3>1
  <2> QED
    BY <2>2, <2>3, <2>4 DEF Placed
<1> QED
  BY <1>6, <1>7, <1>8 DEF TypeInv

\* The steps of the buffer and its loop.
LEMMA BufferKeepsType ==
  ASSUME TypeInv,
         UNCHANGED <<settings, sessions, current, row, strayed, reset, target, begun,
                     forgotten, evictions>>,
         pc' \in [Tasks -> Places], batch' \in [Tasks -> BatchType],
         \A t \in Tasks : pc'[t] \in WorkPlaces => pc'[t] = pc[t] /\ batch'[t] = batch[t],
         buffer' \subseteq Messages, Cardinality(buffer') <= Capacity,
         attention' \in BOOLEAN, age' \in Nat, wakeup' \in BOOLEAN,
         flushTask' \in Tasks \cup {None}, generation' \in Nat, closed' \in BOOLEAN,
         alarm' \in [Tasks -> Nat], line' \in Seq(Tasks), Lined',
         arrived' \subseteq Messages, calls' \subseteq arrived'
  PROVE  TypeInv'
<1>1. TypeOK'
  BY DEF TypeInv, TypeOK, BatchType
<1>2. Placed'
  <2>1. ASSUME NEW u \in Tasks, pc'[u] \in WorkPlaces
        PROVE  batch'[u].session \in 1..Len(sessions')
    BY <2>1 DEF TypeInv, Placed
  <2>2. \A u \in Tasks : pc'[u] = "sending" => batch'[u].sent < MaxReplies
    BY DEF TypeInv, Placed, WorkPlaces
  <2>3. \A r \in Resets : reset'[r] = "clearing_group" => target'[r] \in 1..Len(sessions')
    BY DEF TypeInv, Placed
  <2> QED
    BY <2>1, <2>2, <2>3 DEF Placed
<1> QED
  BY <1>1, <1>2 DEF TypeInv

LEMMA EnqueueKeepsType ==
  ASSUME TypeInv, NEW m \in Messages, Enqueue(m)
  PROVE  TypeInv'
<1>1. PICK call \in BOOLEAN :
        attention' = Attention(call) /\ calls' = IF call THEN calls \cup {m} ELSE calls
  BY DEF Enqueue
<1>2. \/ UNCHANGED <<flushTask, pc>>
      \/ \E t \in Tasks : pc[t] = "none" /\ pc' = [pc EXCEPT ![t] = "ready"] /\ flushTask' = t
  BY DEF Enqueue
<1>3. /\ pc' \in [Tasks -> Places] /\ flushTask' \in Tasks \cup {None}
      /\ \A t \in Tasks : pc'[t] \in WorkPlaces \cup {"queued"} => pc'[t] = pc[t]
  BY <1>2 DEF TypeInv, TypeOK, Places, LoopPlaces, WorkPlaces
<1>4. /\ UNCHANGED <<settings, age, generation, closed, alarm, batch, line, group, clears, evictions>>
      /\ wakeup' = TRUE /\ arrived' = arrived \cup {m}
      /\ buffer' \in SUBSET (buffer \cup {m}) /\ Cardinality(buffer') <= Capacity
  BY DEF Enqueue, Trimmed
<1>5. Lined'
  BY <1>3, <1>4, LinedFrame
<1>6. /\ attention' \in BOOLEAN /\ arrived' \subseteq Messages /\ calls' \subseteq arrived'
      /\ buffer' \subseteq Messages
  <2>1. attention' \in BOOLEAN
    BY <1>1 DEF Attention, TypeInv, TypeOK
  <2> QED
    BY <1>1, <1>4, <2>1 DEF TypeInv, TypeOK
<1>7. batch' \in [Tasks -> BatchType]
  BY <1>4, WorkerFacts DEF TypeInv, TypeOK, BatchType
<1> QED
  BY <1>3, <1>4, <1>5, <1>6, <1>7, BufferKeepsType DEF TypeInv, TypeOK, group, clears

LEMMA TickKeepsType ==
  ASSUME TypeInv, Tick
  PROVE  TypeInv'
<1>1. Lined'
  BY LinedFrame DEF Tick
<1>2. age' \in Nat /\ batch' \in [Tasks -> BatchType]
  BY DEF Tick, TypeInv, TypeOK, BatchType
<1> QED
  BY <1>1, <1>2, BufferKeepsType DEF Tick, TypeInv, TypeOK, group, clears, inbox

\* A loop has at most ended.
LEMMA LoopLined ==
  ASSUME TypeInv, NEW t \in Tasks, NEW p \in {"none", "ready", "waiting"},
         pc' = [pc EXCEPT ![t] = p], UNCHANGED line
  PROVE  /\ Lined' /\ pc' \in [Tasks -> Places]
         /\ \A u \in Tasks : pc'[u] \in WorkPlaces => pc'[u] = pc[u]
<1>1. \A u \in Tasks : pc'[u] \in WorkPlaces \cup {"queued"} => pc'[u] = pc[u]
  BY DEF TypeInv, TypeOK, WorkPlaces
<1>2. pc' \in [Tasks -> Places]
  BY DEF TypeInv, TypeOK, Places, LoopPlaces
<1> QED
  BY <1>1, <1>2, LinedFrame

LEMMA LoopKeepsType ==
  ASSUME TypeInv, NEW t \in Tasks, Loop(t)
  PROVE  TypeInv'
<1>0. batch \in [Tasks -> BatchType] /\ Cardinality({}) = 0 /\ 0 <= Capacity
  BY SettingsAssumption, FS_EmptySet DEF TypeInv, TypeOK, BatchType
<1>1. CASE Retire(t)
  <2>1. pc' = [pc EXCEPT ![t] = "none"] /\ UNCHANGED line /\ flushTask' \in Tasks \cup {None}
    BY <1>1 DEF Retire, Ends, LetGo, TypeInv, TypeOK
  <2>2. Lined' /\ pc' \in [Tasks -> Places] /\ \A u \in Tasks : pc'[u] \in WorkPlaces => pc'[u] = pc[u]
    BY <2>1, LoopLined
  <2> QED
    BY <1>0, <1>1, <2>1, <2>2, BufferKeepsType DEF Retire, TypeInv, TypeOK, group, clears, inbox
<1>2. CASE Take(t)
  <2>1. NewBatch \in BatchType
    BY SettingsAssumption DEF NewBatch, BatchType, TypeInv, TypeOK
  <2>2. batch' = [batch EXCEPT ![t] = NewBatch]
    BY <1>2 DEF Take
  <2>3. pc' = [pc EXCEPT ![t] = "queued"] /\ line' = Append(line, t) /\ ResetState
    BY <1>2 DEF Take
  <2>4. /\ batch' \in [Tasks -> BatchType] /\ pc' \in [Tasks -> Places]
        /\ \A u \in Tasks : pc'[u] \in WorkPlaces => pc'[u] = pc[u] /\ batch'[u] = batch[u]
    BY <1>0, <2>1, <2>2, <2>3 DEF TypeInv, TypeOK, Places, WorkPlaces
  <2>5. /\ line \in Seq(Tasks) /\ Len(line) \in Nat /\ line' \in Seq(Tasks)
        /\ Len(line') = Len(line) + 1 /\ line'[Len(line) + 1] = t
        /\ \A i \in 1..Len(line) : line'[i] = line[i]
    BY <2>3, AppendProperties, LenProperties DEF TypeInv, TypeOK
  <2>6. Lined'
    <3>1. ASSUME NEW u \in Tasks, pc'[u] = "queued"
          PROVE  \E i \in 1..Len(line') : line'[i] = u
      <4>1. CASE u = t
        BY <2>5, <4>1
      <4>2. CASE u # t
        <5>1. pc[u] = "queued"
          BY <2>3, <3>1, <4>2 DEF TypeInv, TypeOK
        <5>2. PICK i \in 1..Len(line) : line[i] = u
          BY <5>1 DEF TypeInv, Lined
        <5>3. i \in 1..Len(line') /\ line'[i] = u
          BY <2>5, <5>2
        <5> QED
          BY <5>3
      <4> QED
        BY <4>1, <4>2
    <3>2. ASSUME NEW u \in Tasks, pc'[u] \in WorkPlaces
          PROVE  line' # <<>> /\ Head(line') = u
      <4>1. line # <<>> /\ Head(line) = u
        BY <2>4, <3>2 DEF TypeInv, Lined
      <4>2. Len(line) >= 1 /\ line[1] = u
        BY <2>5, <4>1, EmptySeq, HeadTailProperties
      <4>3. Len(line') # 0 /\ line'[1] = u
        BY <2>5, <4>2
      <4>4. line' # <<>>
        BY <4>3
      <4> QED
        BY <2>5, <4>3, <4>4, HeadTailProperties
    <3> QED
      BY <3>1, <3>2 DEF Lined
  <2>7. /\ buffer' = {} /\ attention' = FALSE /\ age' = 0 /\ flushTask' = None
        /\ UNCHANGED <<settings, wakeup, generation, closed, alarm, sessions, current, row,
                        strayed, reset, target, begun, forgotten, arrived, calls, evictions>>
    BY <1>2, <2>3 DEF Take, ResetState, group, clears, inbox
  <2>8. /\ buffer' \subseteq Messages /\ Cardinality(buffer') <= Capacity /\ age' \in Nat
        /\ flushTask' \in Tasks \cup {None} /\ attention' \in BOOLEAN /\ wakeup' \in BOOLEAN
        /\ generation' \in Nat /\ closed' \in BOOLEAN /\ alarm' \in [Tasks -> Nat]
        /\ arrived' \subseteq Messages /\ calls' \subseteq arrived'
    BY <1>0, <2>7 DEF TypeInv, TypeOK
  <2> QED
    BY <2>4, <2>5, <2>6, <2>7, <2>8, BufferKeepsType
<1>3. CASE Drop(t)
  <2>1. pc' = [pc EXCEPT ![t] = "none"] /\ UNCHANGED line
    BY <1>3 DEF Drop, Ends
  <2>2. Lined' /\ pc' \in [Tasks -> Places] /\ \A u \in Tasks : pc'[u] \in WorkPlaces => pc'[u] = pc[u]
    BY <2>1, LoopLined
  <2> QED
    BY <1>0, <1>3, <2>1, <2>2, BufferKeepsType
       DEF Drop, ResetState, TypeInv, TypeOK, group, clears, inbox
<1>4. CASE Wait(t)
  <2>1. pc' = [pc EXCEPT ![t] = "waiting"] /\ UNCHANGED line
    BY <1>4 DEF Wait
  <2>2. Lined' /\ pc' \in [Tasks -> Places] /\ \A u \in Tasks : pc'[u] \in WorkPlaces => pc'[u] = pc[u]
    BY <2>1, LoopLined
  <2>3. alarm' \in [Tasks -> Nat]
    BY <1>4, DeadlineIsNear DEF Wait, TypeInv, TypeOK
  <2> QED
    BY <1>0, <1>4, <2>1, <2>2, <2>3, BufferKeepsType
       DEF Wait, TypeInv, TypeOK, group, clears, inbox
<1>5. CASE Wake(t)
  <2>1. pc' = [pc EXCEPT ![t] = "ready"] /\ UNCHANGED line
    BY <1>5 DEF Wake
  <2>2. Lined' /\ pc' \in [Tasks -> Places] /\ \A u \in Tasks : pc'[u] \in WorkPlaces => pc'[u] = pc[u]
    BY <2>1, LoopLined
  <2>3. alarm' \in [Tasks -> Nat]
    BY <1>5 DEF Wake, TypeInv, TypeOK
  <2> QED
    BY <1>0, <1>5, <2>1, <2>2, <2>3, BufferKeepsType
       DEF Wake, state, buffered, TypeInv, TypeOK, group, clears, inbox
<1> QED
  BY <1>1, <1>2, <1>3, <1>4, <1>5 DEF Loop

\* /reset, stop() and eviction.
LEMMA CancelledType ==
  ASSUME TypeInv, pc' = Cancelled
  PROVE  /\ pc' \in [Tasks -> Places]
         /\ \A t \in Tasks : pc'[t] \in WorkPlaces \cup {"queued"} => pc'[t] = pc[t]
  BY DEF Cancelled, TypeInv, TypeOK, Places, WorkPlaces

LEMMA ClearsKeepType ==
  ASSUME TypeInv,
         UNCHANGED <<settings, batch, line, arrived, calls, wakeup>>,
         closed' = closed, strayed' = strayed,
         pc' \in [Tasks -> Places],
         \A t \in Tasks : pc'[t] \in WorkPlaces \cup {"queued"} => pc'[t] = pc[t],
         buffer' \subseteq Messages, Cardinality(buffer') <= Capacity,
         attention' \in BOOLEAN, age' \in Nat, flushTask' \in Tasks \cup {None},
         generation' \in Nat, alarm' \in [Tasks -> Nat],
         sessions' \in Seq(SessionType), Len(sessions) <= Len(sessions'),
         current' \in 0..Len(sessions'), row' \in SUBSET Nat,
         reset' \in [Resets -> ResetPlaces], target' \in [Resets -> Nat],
         \A r \in Resets : reset'[r] = "clearing_group" =>
           \/ reset[r] = "clearing_group" /\ target'[r] = target[r]
           \/ target'[r] \in 1..Len(sessions'),
         begun' \in Nat, forgotten' \in Nat, evictions' \in Nat
  PROVE  TypeInv'
<1>1. Lined'
  BY LinedFrame
<1>2. Placed'
  BY PlacedFrame DEF WorkPlaces
<1>3. TypeOK'
  BY DEF TypeInv, TypeOK, SessionType
<1> QED
  BY <1>1, <1>2, <1>3 DEF TypeInv

LEMMA BeginResetKeepsType ==
  ASSUME TypeInv, NEW r \in Resets, BeginReset(r)
  PROVE  TypeInv'
<1>1. /\ pc' \in [Tasks -> Places]
      /\ \A t \in Tasks : pc'[t] \in WorkPlaces \cup {"queued"} => pc'[t] = pc[t]
  BY CancelledType DEF BeginReset
<1>2. /\ buffer' \subseteq Messages /\ Cardinality(buffer') <= Capacity /\ attention' \in BOOLEAN
      /\ age' \in Nat /\ flushTask' \in Tasks \cup {None} /\ generation' \in Nat
      /\ alarm' \in [Tasks -> Nat] /\ begun' \in Nat
  <2>1. buffer' = {} /\ attention' = FALSE /\ age' = 0 /\ flushTask' = None
    BY DEF BeginReset, ResetState
  <2>2. Cardinality(buffer') <= Capacity
    <3>1. Cardinality(buffer') = 0
      BY <2>1, FS_EmptySet
    <3> QED
      BY <3>1, SettingsAssumption
  <2>3. generation' \in Nat
    <3>1. generation \in Nat
      BY DEF TypeInv, TypeOK
    <3>2. generation' = generation + 1 \/ generation' = generation
      BY DEF BeginReset
    <3> QED
      BY <3>1, <3>2
  <2>4. begun' \in Nat
    BY DEF BeginReset, Resets
  <2>5. alarm' \in [Tasks -> Nat]
    BY DEF BeginReset, TypeInv, TypeOK
  <2> QED
    BY <2>1, <2>2, <2>3, <2>4, <2>5
<1>3. /\ reset' \in [Resets -> ResetPlaces]
      /\ \A q \in Resets : reset'[q] = "clearing_group" => reset[q] = "clearing_group"
  BY DEF BeginReset, TypeInv, TypeOK, ResetPlaces
<1>4. UNCHANGED <<settings, wakeup, closed, batch, line, sessions, current, row, strayed,
                  target, forgotten, arrived, calls, evictions>>
  BY DEF BeginReset, group, inbox
<1>5. /\ sessions' \in Seq(SessionType) /\ Len(sessions) <= Len(sessions')
      /\ current' \in 0..Len(sessions') /\ row' \in SUBSET Nat /\ target' \in [Resets -> Nat]
      /\ forgotten' \in Nat /\ evictions' \in Nat
  <2>1. Len(sessions) \in Nat
    BY LenProperties DEF TypeInv, TypeOK, SessionType
  <2> QED
    BY <1>4, <2>1 DEF TypeInv, TypeOK, SessionType
<1> QED
  BY <1>1, <1>2, <1>3, <1>4, <1>5, ClearsKeepType

\* The parts that neither /reset's later steps nor an eviction touch.
LEMMA QuietType ==
  ASSUME TypeInv, UNCHANGED <<pc, state, alarm>>
  PROVE  /\ pc' \in [Tasks -> Places]
         /\ \A t \in Tasks : pc'[t] \in WorkPlaces \cup {"queued"} => pc'[t] = pc[t]
         /\ buffer' \subseteq Messages /\ Cardinality(buffer') <= Capacity
         /\ attention' \in BOOLEAN /\ age' \in Nat /\ flushTask' \in Tasks \cup {None}
         /\ generation' \in Nat /\ alarm' \in [Tasks -> Nat]
  BY DEF TypeInv, TypeOK, state, buffered

LEMMA ClearSenderKeepsType ==
  ASSUME TypeInv, NEW r \in Resets, ClearSender(r)
  PROVE  TypeInv'
<1>1. /\ UNCHANGED <<settings, closed, alarm, batch, line, arrived, calls, evictions, state, pc,
                     row, strayed, begun, forgotten>>
      /\ UNCHANGED wakeup
  BY DEF ClearSender, others2, inbox, state, buffered
<1>2. /\ row' \in SUBSET Nat /\ begun' \in Nat /\ forgotten' \in Nat /\ evictions' \in Nat
      /\ sessions \in Seq(SessionType) /\ Len(sessions) \in Nat
  BY <1>1, LenProperties DEF TypeInv, TypeOK, SessionType
<1>3. CASE /\ \E s \in 1..Len(sessions) + 1 : Open(s, r) /\ target' = [target EXCEPT ![r] = s]
           /\ reset' = [reset EXCEPT ![r] = "clearing_group"]
  <2>1. PICK s \in 1..Len(sessions) + 1 : Open(s, r) /\ target' = [target EXCEPT ![r] = s]
    BY <1>3
  <2>2. /\ sessions' \in Seq(SessionType) /\ Len(sessions) <= Len(sessions')
        /\ s \in 1..Len(sessions') /\ current' \in 0..Len(sessions')
    BY <2>1, OpenType
  <2>3. /\ target' \in [Resets -> Nat] /\ reset' \in [Resets -> ResetPlaces]
        /\ \A q \in Resets : reset'[q] = "clearing_group" =>
             \/ reset[q] = "clearing_group" /\ target'[q] = target[q]
             \/ target'[q] \in 1..Len(sessions')
    BY <1>2, <1>3, <2>1, <2>2 DEF TypeInv, TypeOK, ResetPlaces
  <2> QED
    BY <1>1, <1>2, <2>2, <2>3, QuietType, ClearsKeepType
<1>4. CASE /\ reset' = [reset EXCEPT ![r] = "failed"]
           /\ UNCHANGED <<sessions, current, target>>
  <2>1. /\ target' \in [Resets -> Nat] /\ reset' \in [Resets -> ResetPlaces]
        /\ \A q \in Resets : reset'[q] = "clearing_group" =>
             reset[q] = "clearing_group" /\ target'[q] = target[q]
    BY <1>4 DEF TypeInv, TypeOK, ResetPlaces
  <2>2. /\ sessions' \in Seq(SessionType) /\ Len(sessions) <= Len(sessions')
        /\ current' \in 0..Len(sessions')
    BY <1>2, <1>4 DEF TypeInv, TypeOK
  <2> QED
    BY <1>1, <1>2, <2>1, <2>2, QuietType, ClearsKeepType
<1> QED
  BY <1>3, <1>4 DEF ClearSender

LEMMA ClearGroupKeepsType ==
  ASSUME TypeInv, NEW r \in Resets, ClearGroup(r)
  PROVE  TypeInv'
<1> DEFINE s == target[r]
<1>1. /\ UNCHANGED <<settings, closed, alarm, batch, line, arrived, calls, evictions, state, pc,
                     strayed, begun>>
      /\ UNCHANGED wakeup
  BY DEF ClearGroup, others2, inbox, state, buffered
<1>2. /\ begun' \in Nat /\ evictions' \in Nat
      /\ sessions \in Seq(SessionType) /\ Len(sessions) \in Nat
  BY <1>1, LenProperties DEF TypeInv, TypeOK, SessionType
<1>3. s \in 1..Len(sessions) /\ sessions[s].seats # <<>>
  BY DEF ClearGroup, First, TypeInv, Placed
<1>4. sessions' \in Seq(SessionType) /\ Len(sessions') = Len(sessions)
  <2> DEFINE q == Left(s)
  <2>1. q \in Seq(SessionType) /\ Len(q) = Len(sessions) /\ s \in 1..Len(q)
    BY <1>2, <1>3, SeatLeft
  <2>2. sessions' = [q EXCEPT ![s].history = {}] /\ {} \in SUBSET Nat
    BY DEF ClearGroup
  <2> HIDE DEF q, s
  <2> QED
    BY <2>1, <2>2, HistoryWritten
<1>5. /\ target' \in [Resets -> Nat] /\ reset' \in [Resets -> ResetPlaces]
      /\ \A q \in Resets : reset'[q] = "clearing_group" =>
           reset[q] = "clearing_group" /\ target'[q] = target[q]
  BY DEF ClearGroup, TypeInv, TypeOK, ResetPlaces
<1>6. row' \in SUBSET Nat /\ current' \in 0..Len(sessions')
  BY <1>2, <1>4 DEF ClearGroup, TypeInv, TypeOK
<1>7. forgotten' \in Nat
  <2>1. forgotten \in Nat /\ r \in Nat
    BY DEF TypeInv, TypeOK, Resets
  <2>2. IsFiniteSet({forgotten, r}) /\ {forgotten, r} \in SUBSET Nat
    <3>1. {forgotten, r} = {forgotten} \cup {r}
      OBVIOUS
    <3>2. IsFiniteSet({forgotten})
      BY FS_Singleton
    <3>3. IsFiniteSet({forgotten} \cup {r})
      BY <3>2, FS_AddElement
    <3> QED
      BY <2>1, <3>1, <3>3
  <2>3. Max({forgotten, r}) \in Nat
    BY <2>2, MaxOfFinite
  <2> QED
    BY <2>1, <2>3 DEF ClearGroup
<1> QED
  BY <1>1, <1>2, <1>4, <1>5, <1>6, <1>7, QuietType, ClearsKeepType

LEMMA EvictKeepsType ==
  ASSUME TypeInv, Evict
  PROVE  TypeInv'
<1>1. UNCHANGED <<settings, closed, alarm, batch, line, arrived, calls, state, pc, wakeup,
                  sessions, row, strayed, reset, target, begun, forgotten>>
  BY DEF Evict, inbox, state, buffered, clears
<1>2. Len(sessions) \in Nat
  BY LenProperties DEF TypeInv, TypeOK, SessionType
<1>3. /\ sessions' \in Seq(SessionType) /\ Len(sessions) <= Len(sessions')
      /\ current' \in 0..Len(sessions') /\ evictions' \in Nat /\ row' \in SUBSET Nat
      /\ reset' \in [Resets -> ResetPlaces] /\ target' \in [Resets -> Nat]
      /\ begun' \in Nat /\ forgotten' \in Nat
  BY <1>1, <1>2 DEF Evict, TypeInv, TypeOK, SessionType
<1> QED
  BY <1>1, <1>3, QuietType, ClearsKeepType

LEMMA StopKeepsType ==
  ASSUME TypeInv, Stop
  PROVE  TypeInv'
<1>1. /\ pc' \in [Tasks -> Places]
      /\ \A t \in Tasks : pc'[t] \in WorkPlaces \cup {"queued"} => pc'[t] = pc[t]
  BY CancelledType DEF Stop
<1>2. /\ UNCHANGED <<settings, buffer, attention, age, generation, batch, line, sessions,
                     current, row, strayed, reset, target, begun, forgotten, arrived, calls,
                     evictions>>
      /\ closed' \in BOOLEAN /\ wakeup' \in BOOLEAN /\ flushTask' \in Tasks \cup {None}
  BY DEF Stop, group, clears, inbox
<1>3. /\ alarm' \in [Tasks -> Nat] /\ batch' \in [Tasks -> BatchType]
      /\ buffer' \subseteq Messages /\ Cardinality(buffer') <= Capacity /\ attention' \in BOOLEAN
      /\ age' \in Nat /\ generation' \in Nat /\ line' \in Seq(Tasks)
      /\ arrived' \subseteq Messages /\ calls' \subseteq arrived'
  BY <1>2 DEF Stop, TypeInv, TypeOK, BatchType
<1>4. Lined'
  BY <1>1, <1>2, LinedFrame
<1> QED
  BY <1>1, <1>2, <1>3, <1>4, BufferKeepsType

LEMMA NextKeepsType ==
  ASSUME TypeInv, [Next]_vars
  PROVE  TypeInv'
<1>1. CASE UNCHANGED vars
  BY <1>1 DEF vars, state, buffered, group, clears, inbox, TypeInv, TypeOK, Placed, Lined
<1> QED
  BY <1>1, EnqueueKeepsType, TickKeepsType, LoopKeepsType, WorkKeepsType, BeginResetKeepsType,
     ClearSenderKeepsType, ClearGroupKeepsType, EvictKeepsType, StopKeepsType DEF Next, Clear

\* Every variable keeps its type, the buffer its limit and every batch its
\* limits of rounds and replies, in every configuration.
THEOREM TypeCorrect == Spec => []TypeOK
<1>1. Init => TypeInv
  BY InitTypeInv
<1>2. TypeInv /\ [Next]_vars => TypeInv'
  BY NextKeepsType
<1>3. TypeInv => TypeOK
  BY DEF TypeInv
<1> QED
  BY <1>1, <1>2, <1>3, PTL DEF Spec

\* A batch that is answered is the head of the line: one at a time.
THEOREM Serial == Spec => []OneAtATime
<1>1. Init => TypeInv
  BY InitTypeInv
<1>2. TypeInv /\ [Next]_vars => TypeInv'
  BY NextKeepsType
<1>3. TypeInv => OneAtATime
  BY DEF TypeInv, Lined, OneAtATime
<1> QED
  BY <1>1, <1>2, <1>3, PTL DEF Spec

-----------------------------------------------------------------------------
\* The loop of the group is its flush task, and a buffer has one.
Watching ==
  /\ \A t \in Tasks : pc[t] \in LoopPlaces <=> flushTask = t
  /\ (~closed /\ buffer # {}) => flushTask # None

\* What a task with a batch leaves alone: everything of the buffer, and all the
\* others; its batch is what it was, or done with.
LEMMA WorkKeeps ==
  ASSUME TypeInv, Watching, NEW t \in Tasks, Work(t)
  PROVE  /\ UNCHANGED <<settings, buffer, attention, age, wakeup, generation, closed, alarm,
                        arrived, calls, flushTask>>
         /\ pc[t] \notin LoopPlaces /\ pc'[t] \notin LoopPlaces
         /\ (pc'[t] \in {"sending", "recording"} /\ pc'[t] # pc[t]) => Current(t)
         /\ \A u \in Tasks \ {t} : pc'[u] = pc[u] /\ batch'[u] = batch[u]
         /\ \/ batch'[t] = NoBatch /\ pc'[t] = "none"
            \/ /\ batch'[t].messages = batch[t].messages /\ batch'[t].attended = batch[t].attended
               /\ batch'[t].generation = batch[t].generation /\ batch'[t].stamp = batch[t].stamp
               /\ pc[t] # "queued" => batch'[t].session = batch[t].session
<1>1. PICK p \in WorkPlaces \cup {"none"}, b \in BatchType :
       /\ pc' = [pc EXCEPT ![t] = p] /\ batch' = [batch EXCEPT ![t] = b]
       /\ (p \in {"sending", "recording"} /\ p # pc[t]) => Current(t)
       /\ \/ p = "none" /\ b = NoBatch /\ LetGo(t)
          \/ /\ UNCHANGED flushTask
             /\ b.messages = batch[t].messages /\ b.attended = batch[t].attended
             /\ b.generation = batch[t].generation /\ b.stamp = batch[t].stamp
             /\ pc[t] # "queued" => b.session = batch[t].session
  BY WorkMoves DEF Moves
<1>2. UNCHANGED others /\ pc[t] \in WorkPlaces \cup {"queued"}
  BY WorkMoves
<1>3. pc[t] \notin LoopPlaces /\ p \notin LoopPlaces
  BY <1>2 DEF LoopPlaces, WorkPlaces
<1>4. UNCHANGED flushTask
  BY <1>1, <1>3 DEF LetGo, Watching
<1>5. /\ pc'[t] = p /\ batch'[t] = b
      /\ \A u \in Tasks \ {t} : pc'[u] = pc[u] /\ batch'[u] = batch[u]
  BY <1>1, WorkerFacts
<1> QED
  BY <1>1, <1>2, <1>3, <1>4, <1>5 DEF others, buffered, inbox

\* What every other step does to the flush task.
LEMMA InitWatching == ASSUME Init PROVE Watching
  BY SettingsAssumption DEF Init, Watching, LoopPlaces

LEMMA EnqueueWatches ==
  ASSUME TypeInv, Watching, NEW m \in Messages, Enqueue(m)
  PROVE  Watching'
<1>1. CASE UNCHANGED <<flushTask, pc>> /\ flushTask # None
  BY <1>1 DEF Watching
<1>2. ASSUME flushTask = None, NEW t \in Tasks,
             pc' = [pc EXCEPT ![t] = "ready"], flushTask' = t
      PROVE  Watching'
  <2>1. pc'[t] \in LoopPlaces /\ \A u \in Tasks \ {t} : pc'[u] = pc[u]
    BY <1>2 DEF TypeInv, TypeOK, LoopPlaces
  <2> QED
    BY <1>2, <2>1, SettingsAssumption DEF Watching
<1> QED
  BY <1>1, <1>2 DEF Enqueue

LEMMA LoopWatches ==
  ASSUME TypeInv, Watching, NEW t \in Tasks, Loop(t)
  PROVE  Watching'
<1>1. flushTask = t /\ \A u \in Tasks \ {t} : pc[u] \notin LoopPlaces
  <2>1. pc[t] \in LoopPlaces
    BY DEF Loop, Retire, Take, Drop, Wait, Wake, LoopPlaces
  <2> QED
    BY <2>1 DEF Watching
<1>2. t # None
  BY SettingsAssumption
<1>3. ASSUME NEW p \in {"none", "queued"}, pc' = [pc EXCEPT ![t] = p], flushTask' = None,
             closed' \/ buffer' = {}
      PROVE  Watching'
  <2>1. pc'[t] \notin LoopPlaces /\ \A u \in Tasks \ {t} : pc'[u] = pc[u]
    BY <1>3 DEF TypeInv, TypeOK, LoopPlaces
  <2> QED
    BY <1>1, <1>3, <2>1, SettingsAssumption DEF Watching
<1>4. ASSUME NEW p \in LoopPlaces, pc' = [pc EXCEPT ![t] = p], UNCHANGED flushTask
      PROVE  Watching'
  <2>1. pc'[t] \in LoopPlaces /\ \A u \in Tasks \ {t} : pc'[u] = pc[u]
    BY <1>4 DEF TypeInv, TypeOK
  <2> QED
    BY <1>1, <1>2, <1>4, <2>1 DEF Watching
<1>5. CASE Retire(t)
  BY <1>1, <1>3, <1>5 DEF Retire, Ends, LetGo
<1>6. CASE Take(t)
  BY <1>3, <1>6 DEF Take, ResetState
<1>7. CASE Drop(t)
  BY <1>3, <1>7 DEF Drop, Ends, ResetState
<1>8. CASE Wait(t)
  BY <1>4, <1>8 DEF Wait, LoopPlaces
<1>9. CASE Wake(t)
  BY <1>4, <1>9 DEF Wake, state, LoopPlaces
<1> QED
  BY <1>5, <1>6, <1>7, <1>8, <1>9 DEF Loop

\* A cancelled loop is none.
LEMMA NoLoop ==
  ASSUME TypeInv, Watching, pc' = Cancelled
  PROVE  \A t \in Tasks : pc'[t] \notin LoopPlaces
  BY DEF Cancelled, Watching, LoopPlaces, TypeInv, TypeOK

LEMMA NextWatches ==
  ASSUME TypeInv, Watching, [Next]_vars
  PROVE  Watching'
<1>1. CASE UNCHANGED vars
  BY <1>1 DEF vars, state, buffered, Watching
<1>2. CASE Tick
  BY <1>2 DEF Tick, Watching
<1>3. ASSUME NEW t \in Tasks, Work(t) PROVE Watching'
  BY <1>3, WorkKeeps DEF Watching
<1>4. ASSUME NEW r \in Resets, BeginReset(r) PROVE Watching'
  BY <1>4, NoLoop, SettingsAssumption DEF BeginReset, ResetState, Watching
<1>5. ASSUME NEW r \in Resets, Clear(r) PROVE Watching'
  BY <1>5 DEF Clear, ClearSender, ClearGroup, others2, state, buffered, Watching
<1>6. CASE Evict
  BY <1>6 DEF Evict, state, buffered, Watching
<1>7. CASE Stop
  BY <1>7, NoLoop, SettingsAssumption DEF Stop, Watching
<1> QED
  BY <1>1, <1>2, <1>3, <1>4, <1>5, <1>6, <1>7, EnqueueWatches, LoopWatches DEF Next

\* A buffer is never without its loop, in every configuration and for every
\* number of tasks, messages and resets.
THEOREM BufferWatched == Spec => []BufferIsWatched
<1>1. Init => TypeInv /\ Watching
  BY InitTypeInv, InitWatching
<1>2. TypeInv /\ Watching /\ [Next]_vars => TypeInv' /\ Watching'
  BY NextKeepsType, NextWatches
<1>3. TypeInv /\ Watching => BufferIsWatched
  BY DEF TypeInv, TypeOK, Watching, BufferIsWatched
<1> QED
  BY <1>1, <1>2, <1>3, PTL DEF Spec

-----------------------------------------------------------------------------
\* A loop that waits undisturbed has a buffer for which nothing can be done
\* before its alarm, which is set before each of the buffer's deadlines.
Alert(t) ==
  (pc[t] = "waiting" /\ ~wakeup) =>
     /\ buffer # {}
     /\ age < alarm[t] => ~FlushReady /\ ~DropReady
     /\ settings.hold > age => alarm[t] <= settings.hold
     /\ (/\ attention \/ ~settings.require \/ settings.probe
         /\ settings.window > age) => alarm[t] <= settings.window

Alerted == \A t \in Tasks : Alert(t)

\* The age of the buffer is all that changes while time passes: a deadline
\* that is reached was either reached before, or the alarm is.
LEMMA TickAlerts ==
  ASSUME TypeInv, Alerted, Tick
  PROVE  Alerted'
<1>1. /\ UNCHANGED <<settings, buffer, attention, wakeup, pc, alarm>> /\ age' = age + 1
  BY DEF Tick
<1>2. /\ settings.hold \in Nat /\ settings.window \in Nat /\ age \in Nat /\ alarm \in [Tasks -> Nat]
      /\ attention \in BOOLEAN /\ settings.probe \in BOOLEAN /\ settings.require \in BOOLEAN
  BY SettingsAssumption DEF TypeInv, TypeOK
<1>3. MayConsult => MayConsult'
  BY <1>1, <1>2 DEF MayConsult
<1>4. SUFFICES ASSUME NEW t \in Tasks, pc[t] = "waiting", ~wakeup PROVE Alert(t)'
  BY <1>1 DEF Alerted, Alert
<1>5. Alert(t)
  BY DEF Alerted
<1>6. ASSUME age' < alarm[t] PROVE ~FlushReady' /\ ~DropReady'
  <2>1. ~FlushReady /\ ~DropReady
    BY <1>1, <1>2, <1>4, <1>5, <1>6 DEF Alert
  <2>2. settings.hold > age => alarm[t] <= settings.hold
    BY <1>4, <1>5 DEF Alert
  <2>3. ~ (age' >= settings.hold) \/ age >= settings.hold
    BY <1>1, <1>2, <1>6, <2>2
  <2>4. ASSUME DropReady' PROVE FALSE
    BY <1>1, <1>3, <2>1, <2>3, <2>4 DEF DropReady
  <2>5. ASSUME FlushReady' PROVE FALSE
    <3>1. MayConsult'
      BY <2>5 DEF FlushReady
    <3>2. attention \/ ~settings.require \/ settings.probe
      BY <1>1, <3>1 DEF MayConsult
    <3>3. settings.window > age => alarm[t] <= settings.window
      BY <1>4, <1>5, <3>2 DEF Alert
    <3>4. ~ (age' >= settings.window) \/ age >= settings.window
      BY <1>1, <1>2, <1>6, <3>3
    <3>5. MayConsult
      BY <1>1, <3>1, <3>4 DEF MayConsult
    <3>6. \/ Cardinality(buffer) >= Capacity
          \/ age >= settings.window \/ age >= settings.hold
      BY <1>1, <2>3, <2>5, <3>4 DEF FlushReady
    <3> QED
      BY <2>1, <3>5, <3>6 DEF FlushReady
  <2> QED
    BY <2>4, <2>5
<1>7. /\ settings.hold > age' => settings.hold > age
      /\ settings.window > age' => settings.window > age
  BY <1>1, <1>2
<1> QED
  BY <1>1, <1>4, <1>5, <1>6, <1>7 DEF Alert

LEMMA WaitAlerts ==
  ASSUME TypeInv, NEW t \in Tasks, Wait(t)
  PROVE  Alert(t)'
<1>1. /\ UNCHANGED <<settings, buffer, attention, age>> /\ buffer # {}
      /\ ~FlushReady /\ ~DropReady /\ alarm' = [alarm EXCEPT ![t] = Deadline]
  BY DEF Wait
<1>2. alarm'[t] = Deadline
  BY <1>1 DEF TypeInv, TypeOK
<1>3. ~FlushReady' /\ ~DropReady'
  BY <1>1 DEF FlushReady, DropReady, MayConsult
<1> QED
  BY <1>1, <1>2, <1>3, DeadlineIsNear DEF Alert

\* Whoever leaves the buffer as it is, and no loop waiting that did not.
LEMMA AlertFrame ==
  ASSUME Alerted, UNCHANGED <<settings, buffer, attention, age, wakeup, alarm>>,
         \A t \in Tasks : pc'[t] = "waiting" => pc[t] = "waiting"
  PROVE  Alerted'
<1>1. FlushReady' <=> FlushReady
  BY DEF FlushReady, MayConsult
<1>2. DropReady' <=> DropReady
  BY DEF DropReady, MayConsult
<1> QED
  BY <1>1, <1>2 DEF Alerted, Alert

LEMMA NextAlerts ==
  ASSUME TypeInv, Watching, Watching', Alerted, [Next]_vars
  PROVE  Alerted'
<1>1. CASE UNCHANGED vars
  BY <1>1, AlertFrame DEF vars, state, buffered
<1>2. ASSUME NEW m \in Messages, Enqueue(m) PROVE Alerted'
  BY <1>2 DEF Enqueue, Alerted, Alert
<1>3. ASSUME NEW t \in Tasks, Work(t) PROVE Alerted'
  BY <1>3, WorkKeeps, AlertFrame DEF LoopPlaces
<1>4. ASSUME NEW t \in Tasks, Loop(t) PROVE Alerted'
  <2>1. ASSUME NEW u \in Tasks, pc'[u] = "waiting" PROVE flushTask' = u
    BY <2>1 DEF Watching, LoopPlaces
  <2>2. flushTask = t
    BY <1>4 DEF Loop, Retire, Take, Drop, Wait, Wake, Watching, LoopPlaces
  <2>3. CASE Wait(t)
    <3>1. flushTask' = t
      BY <2>2, <2>3 DEF Wait
    <3>2. \A u \in Tasks : pc'[u] = "waiting" => u = t
      BY <2>1, <3>1
    <3>3. Alert(t)'
      BY <2>3, WaitAlerts
    <3> QED
      BY <3>2, <3>3 DEF Alerted, Alert
  <2>4. ASSUME NEW u \in Tasks, pc'[u] = "waiting", ~Wait(t) PROVE FALSE
    <3>1. flushTask' = u
      BY <2>1, <2>4
    <3>2. pc'[t] # "waiting"
      BY <1>4, <2>4 DEF Loop, Retire, Take, Drop, Wake, Ends, TypeInv, TypeOK
    <3>3. flushTask' \in {t, None}
      BY <1>4, <2>2, <2>4
         DEF Loop, Retire, Take, Drop, Wake, LetGo, ResetState, state
    <3> QED
      BY <2>4, <3>1, <3>2, <3>3, SettingsAssumption
  <2> QED
    BY <2>3, <2>4 DEF Alerted, Alert
<1>5. ASSUME NEW r \in Resets, BeginReset(r) PROVE Alerted'
  BY <1>5, NoLoop DEF BeginReset, LoopPlaces, Alerted, Alert
<1>6. ASSUME NEW r \in Resets, Clear(r) PROVE Alerted'
  BY <1>6, AlertFrame DEF Clear, ClearSender, ClearGroup, others2, state, buffered
<1>7. CASE Evict
  BY <1>7, AlertFrame DEF Evict, state, buffered
<1>8. CASE Stop
  BY <1>8, NoLoop DEF Stop, LoopPlaces, Alerted, Alert
<1> QED
  BY <1>1, <1>2, <1>3, <1>4, <1>5, <1>6, <1>7, <1>8, TickAlerts DEF Next

\* No loop sleeps past the moment its buffer is ready, whatever the window,
\* the limit, the need for attention and the probe are.
THEOREM Punctual == Spec => []WakesInTime
<1>1. Init => TypeInv /\ Watching /\ Alerted
  <2>1. Init => Alerted
    BY DEF Init, Alerted, Alert
  <2> QED
    BY <2>1, InitTypeInv, InitWatching
<1>2. TypeInv /\ Watching /\ Alerted /\ [Next]_vars => TypeInv' /\ Watching' /\ Alerted'
  BY NextKeepsType, NextWatches, NextAlerts
<1>3. TypeInv /\ Watching /\ Alerted => WakesInTime
  <2>1. TypeInv => age \in Nat /\ \A t \in Tasks : alarm[t] \in Nat
    BY DEF TypeInv, TypeOK
  <2> QED
    BY <2>1 DEF Alerted, Alert, WakesInTime
<1> QED
  BY <1>1, <1>2, <1>3, PTL DEF Spec

-----------------------------------------------------------------------------
\* Every message is somewhere once at most, and its call for attention with it.
Marked ==
  /\ buffer \subseteq arrived
  /\ \A t \in Tasks : batch[t].messages \subseteq arrived
  /\ CallsAreHeard /\ TakenOnce

\* Batches keep their messages and marks, or give them up.
LEMMA MarkedFrame ==
  ASSUME Marked, UNCHANGED <<arrived, calls>>,
         buffer' = {} \/ (buffer' = buffer /\ attention' = attention),
         \A t \in Tasks :
            \/ batch'[t].messages = {}
            \/ batch'[t].messages = batch[t].messages /\ batch'[t].attended = batch[t].attended
  PROVE  Marked'
<1>1. buffer' \subseteq arrived' /\ \A t \in Tasks : batch'[t].messages \subseteq arrived'
  BY DEF Marked
<1>2. CallsAreHeard'
  BY DEF Marked, CallsAreHeard
<1>3. TakenOnce'
  BY DEF Marked, TakenOnce
<1> QED
  BY <1>1, <1>2, <1>3 DEF Marked

LEMMA EnqueueMarks ==
  ASSUME TypeInv, Marked, NEW m \in Messages, Enqueue(m)
  PROVE  Marked'
<1>1. /\ m \notin arrived /\ arrived' = arrived \cup {m} /\ UNCHANGED batch
      /\ buffer' \subseteq buffer \cup {m}
  BY DEF Enqueue, Trimmed
<1>2. PICK call \in BOOLEAN :
        attention' = (attention \/ call) /\ calls' = IF call THEN calls \cup {m} ELSE calls
  BY DEF Enqueue, Attention
<1>3. m \notin buffer /\ \A t \in Tasks : m \notin batch[t].messages
  BY <1>1 DEF Marked
<1>4. buffer' \subseteq arrived' /\ \A t \in Tasks : batch'[t].messages \subseteq arrived'
  BY <1>1 DEF Marked
<1>5. CallsAreHeard'
  <2>1. ASSUME buffer' \cap calls' # {} PROVE attention'
    <3>1. CASE call
      BY <1>2, <3>1
    <3>2. CASE ~call
      <4>1. calls' = calls /\ m \notin calls
        BY <1>1, <1>2, <3>2 DEF TypeInv, TypeOK
      <4>2. buffer \cap calls # {}
        BY <1>1, <2>1, <4>1
      <4> QED
        BY <1>2, <4>2 DEF Marked, CallsAreHeard
    <3> QED
      BY <3>1, <3>2
  <2>2. ASSUME NEW t \in Tasks, batch'[t].messages \cap calls' # {} PROVE batch'[t].attended
    <3>1. batch[t].messages \cap calls # {}
      BY <1>1, <1>2, <1>3, <2>2
    <3> QED
      BY <1>1, <3>1 DEF Marked, CallsAreHeard
  <2> QED
    BY <2>1, <2>2 DEF CallsAreHeard
<1>6. TakenOnce'
  BY <1>1, <1>3 DEF Marked, TakenOnce
<1> QED
  BY <1>4, <1>5, <1>6 DEF Marked

LEMMA TakeMarks ==
  ASSUME TypeInv, Marked, NEW t \in Tasks, Take(t)
  PROVE  Marked'
<1>1. /\ UNCHANGED <<arrived, calls>> /\ buffer' = {}
      /\ batch' = [batch EXCEPT ![t] = NewBatch]
  BY DEF Take, ResetState, inbox
<1>2. NewBatch.messages = buffer /\ NewBatch.attended = attention
  BY DEF NewBatch
<1>3. /\ batch'[t].messages = buffer /\ batch'[t].attended = attention
      /\ \A u \in Tasks \ {t} : batch'[u] = batch[u]
  BY <1>1, <1>2, WorkerFacts
<1>4. \A u \in Tasks : batch'[u].messages \subseteq arrived'
  BY <1>1, <1>3 DEF Marked
<1>5. CallsAreHeard'
  BY <1>1, <1>3 DEF Marked, CallsAreHeard
<1>6. TakenOnce'
  BY <1>1, <1>3 DEF Marked, TakenOnce
<1> QED
  BY <1>1, <1>4, <1>5, <1>6 DEF Marked

LEMMA NextMarks ==
  ASSUME TypeInv, Watching, Marked, [Next]_vars
  PROVE  Marked'
<1>1. CASE UNCHANGED vars
  BY <1>1, MarkedFrame DEF vars, state, buffered, inbox
<1>2. CASE Tick
  BY <1>2, MarkedFrame DEF Tick, inbox
<1>3. ASSUME NEW t \in Tasks, Work(t) PROVE Marked'
  BY <1>3, WorkKeeps, MarkedFrame DEF NoBatch
<1>4. ASSUME NEW t \in Tasks, Loop(t), ~Take(t) PROVE Marked'
  BY <1>4, MarkedFrame DEF Loop, Retire, Drop, Wait, Wake, ResetState, state, buffered, inbox
<1>5. ASSUME NEW r \in Resets, BeginReset(r) PROVE Marked'
  BY <1>5, MarkedFrame DEF BeginReset, ResetState, inbox
<1>6. ASSUME NEW r \in Resets, Clear(r) PROVE Marked'
  BY <1>6, MarkedFrame DEF Clear, ClearSender, ClearGroup, others2, state, buffered, inbox
<1>7. CASE Evict
  BY <1>7, MarkedFrame DEF Evict, state, buffered, inbox
<1>8. CASE Stop
  BY <1>8, MarkedFrame DEF Stop, inbox
<1> QED
  BY <1>1, <1>2, <1>3, <1>4, <1>5, <1>6, <1>7, <1>8, EnqueueMarks, TakeMarks DEF Next

LEMMA AllMarked == Spec => []Marked
<1>1. Init => TypeInv /\ Watching /\ Marked
  <2>1. Init => Marked
    BY DEF Init, Marked, CallsAreHeard, TakenOnce, NoBatch
  <2> QED
    BY <2>1, InitTypeInv, InitWatching
<1>2. TypeInv /\ Watching /\ Marked /\ [Next]_vars => TypeInv' /\ Watching' /\ Marked'
  BY NextKeepsType, NextWatches, NextMarks
<1> QED
  BY <1>1, <1>2, PTL DEF Spec

\* Who calls for attention is never taken for chatter.
THEOREM Heard == Spec => []CallsAreHeard
<1>1. Marked => CallsAreHeard
  BY DEF Marked
<1> QED
  BY <1>1, AllMarked, PTL

\* A message is taken by one batch at most.
THEOREM Taken == Spec => []TakenOnce
<1>1. Marked => TakenOnce
  BY DEF Marked
<1> QED
  BY <1>1, AllMarked, PTL

-----------------------------------------------------------------------------
\* A step that hands something to the sink, or starts a record, is a step of a
\* batch that is current.
LEMMA NextIsSilent ==
  ASSUME TypeInv, Watching, [Next]_vars, NEW t \in Tasks,
         pc'[t] \in {"sending", "recording"}, pc[t] # pc'[t]
  PROVE  Current(t)
<1>1. CASE UNCHANGED vars
  BY <1>1 DEF vars
<1>2. ASSUME NEW m \in Messages, Enqueue(m) PROVE FALSE
  BY <1>2 DEF Enqueue, TypeInv, TypeOK
<1>3. CASE Tick
  BY <1>3 DEF Tick
<1>4. ASSUME NEW u \in Tasks, Work(u) PROVE Current(t)
  BY <1>4, WorkKeeps
<1>5. ASSUME NEW u \in Tasks, Loop(u) PROVE FALSE
  BY <1>5 DEF Loop, Retire, Take, Drop, Wait, Wake, Ends, TypeInv, TypeOK
<1>6. ASSUME NEW r \in Resets, BeginReset(r) PROVE FALSE
  BY <1>6 DEF BeginReset, Cancelled, TypeInv, TypeOK
<1>7. ASSUME NEW r \in Resets, Clear(r) PROVE FALSE
  BY <1>7 DEF Clear, ClearSender, ClearGroup
<1>8. CASE Evict
  BY <1>8 DEF Evict
<1>9. CASE Stop
  BY <1>9 DEF Stop, Cancelled, TypeInv, TypeOK
<1> QED
  BY <1>1, <1>2, <1>3, <1>4, <1>5, <1>6, <1>7, <1>8, <1>9 DEF Next

\* What a /reset or stop() has made stale says nothing more and starts no
\* record.
THEOREM Silent == Spec => StaleIsSilent
<1>1. Init => TypeInv /\ Watching
  BY InitTypeInv, InitWatching
<1>2. TypeInv /\ Watching /\ [Next]_vars => TypeInv' /\ Watching'
  BY NextKeepsType, NextWatches
<1>3. TypeInv /\ Watching /\ [Next]_vars =>
        [\A t \in Tasks :
          (pc'[t] \in {"sending", "recording"} /\ pc[t] # pc'[t]) =>
             ~closed /\ batch[t].generation = generation]_vars
  BY NextIsSilent DEF Current
<1> QED
  BY <1>1, <1>2, <1>3, PTL DEF Spec, StaleIsSilent

-----------------------------------------------------------------------------
\* What a step of a task with a batch does to the histories: it adds what is
\* stored, or its own stamp while current or recording; it saves a history of
\* the stored session, unless it goes astray.
Added(t) == row \cup IF Current(t) \/ pc[t] = "recording" THEN {batch[t].stamp} ELSE {}
Grows(t) ==
  \A s \in 1..Len(sessions) :
     sessions'[s].history \subseteq
        sessions[s].history \cup IF s = batch[t].session THEN Added(t) ELSE {}
Keeps(t) ==
  \/ UNCHANGED <<row, strayed>>
  \/ /\ strayed' = (strayed \/ batch[t].session # current)
     /\ row' \subseteq sessions'[batch[t].session].history

LEMMA RecordedStores ==
  ASSUME TypeInv, NEW t \in Tasks, pc[t] \in WorkPlaces, NEW q, Recorded(t, q),
         Current(t) \/ pc[t] = "recording"
  PROVE  Grows(t) /\ Keeps(t)
<1> DEFINE s == batch[t].session
           h == sessions[s].history \cup {batch[t].stamp}
           v == [sessions[s] EXCEPT !.history = h]
           w == [v EXCEPT !.seats = q]
<1>1. s \in 1..Len(sessions) /\ sessions \in Seq(SessionType) /\ Len(sessions) \in Nat
  BY WorkerFacts
<1>2. sessions' = [sessions EXCEPT ![s] = w]
  <2>1. sessions' = [sessions EXCEPT ![s].history = h, ![s].seats = q]
    BY DEF Recorded
  <2> HIDE DEF h, s
  <2>2. sessions' = [sessions EXCEPT ![s] = [sessions[s] EXCEPT !.history = h, !.seats = q]]
    BY <1>1, <2>1
  <2>3. [sessions[s] EXCEPT !.history = h, !.seats = q] = w
    OBVIOUS
  <2> QED
    BY <2>2, <2>3
<1>3. w.history = h
  <2>1. sessions[s] \in SessionType
    BY <1>1, SeatsType
  <2> HIDE DEF s, h
  <2>2. v = [history |-> h, hydrated |-> sessions[s].hydrated, seats |-> sessions[s].seats]
    BY <2>1 DEF SessionType
  <2> HIDE DEF v
  <2> QED
    BY <2>2
<1> HIDE DEF w
<1>4. sessions'[s].history = h /\ \A i \in 1..Len(sessions) \ {s} : sessions'[i] = sessions[i]
  BY <1>1, <1>2, <1>3
<1>5. Grows(t)
  BY <1>4 DEF Grows, Added
<1>6. Keeps(t)
  BY <1>4 DEF Keeps, Recorded, Saved
<1> QED
  BY <1>5, <1>6

\* Seats do not matter.
LEMMA SeatedKeeps ==
  ASSUME sessions \in Seq(SessionType), NEW s \in 1..Len(sessions), NEW u
  PROVE  \A i \in 1..Len(sessions) : Seated(s, u)[i].history = sessions[i].history
<1> DEFINE v == [sessions[s] EXCEPT !.seats = Append(sessions[s].seats, u)]
<1>1. sessions[s] \in SessionType
  BY SeatsType
<1>2. v.history = sessions[s].history
  BY <1>1 DEF SessionType
<1>3. Seated(s, u) = [sessions EXCEPT ![s] = v]
  BY DEF Seated
<1>4. DOMAIN sessions = 1..Len(sessions)
  BY LenProperties
<1> HIDE DEF v
<1> QED
  BY <1>2, <1>3, <1>4

LEMMA LeftKeeps ==
  ASSUME sessions \in Seq(SessionType), NEW s \in 1..Len(sessions)
  PROVE  \A i \in 1..Len(sessions) : Left(s)[i].history = sessions[i].history
<1> DEFINE v == [sessions[s] EXCEPT !.seats = Tail(sessions[s].seats)]
<1>1. sessions[s] \in SessionType
  BY SeatsType
<1>2. v.history = sessions[s].history
  BY <1>1 DEF SessionType
<1>3. Left(s) = [sessions EXCEPT ![s] = v]
  BY DEF Left
<1>4. DOMAIN sessions = 1..Len(sessions)
  BY LenProperties
<1> HIDE DEF v
<1> QED
  BY <1>2, <1>3, <1>4

LEMMA OpenKeeps ==
  ASSUME TypeInv, NEW s, NEW u \in Tasks \cup Resets, Open(s, u)
  PROVE  /\ \A i \in 1..Len(sessions) : sessions'[i].history = sessions[i].history
         /\ \/ UNCHANGED current
            \/ current' = Len(sessions) + 1 /\ sessions'[current'].history = {}
<1>0. sessions \in Seq(SessionType) /\ Len(sessions) \in Nat /\ current \in 0..Len(sessions)
  BY LenProperties DEF TypeInv, TypeOK, SessionType
<1>1. CASE current # 0 /\ s = current /\ sessions' = Seated(s, u) /\ UNCHANGED current
  BY <1>0, <1>1, SeatedKeeps
<1>2. CASE /\ current = 0 /\ s = Len(sessions) + 1 /\ current' = s
           /\ sessions' = Append(sessions, [NewSession EXCEPT !.seats = <<u>>])
  <2> DEFINE new == [NewSession EXCEPT !.seats = <<u>>]
  <2>1. new \in SessionType /\ new.history = {}
    <3>1. <<u>> \in Seq(Tasks \cup Resets)
      OBVIOUS
    <3> QED
      BY <3>1 DEF NewSession, SessionType
  <2> HIDE DEF new
  <2>2. /\ sessions'[Len(sessions) + 1] = new
        /\ \A i \in 1..Len(sessions) : sessions'[i] = sessions[i]
    BY <1>0, <1>2, <2>1, AppendProperties DEF new
  <2> QED
    BY <1>2, <2>1, <2>2
<1> QED
  BY <1>1, <1>2 DEF Open

LEMMA ConcludeStores ==
  ASSUME TypeInv, NEW t \in Tasks, pc[t] \in WorkPlaces, Conclude(t)
  PROVE  Grows(t) /\ Keeps(t)
<1>0. batch[t].session \in 1..Len(sessions) /\ sessions \in Seq(SessionType)
  BY WorkerFacts
<1>1. CASE Recorded(t, <<>>) /\ Current(t)
  BY <1>1, RecordedStores
<1>2. CASE sessions' = Seated(batch[t].session, t) /\ UNCHANGED <<row, strayed>>
  BY <1>0, <1>2, SeatedKeeps DEF Grows, Keeps
<1>3. CASE UNCHANGED <<sessions, row, strayed>>
  BY <1>3 DEF Grows, Keeps
<1> QED
  BY <1>1, <1>2, <1>3 DEF Conclude

LEMMA AskStores ==
  ASSUME TypeInv, NEW t \in Tasks, pc[t] \in WorkPlaces, Ask(t)
  PROVE  Grows(t) /\ Keeps(t)
<1>1. CASE UNCHANGED kept
  BY <1>1 DEF kept, Grows, Keeps
<1> QED
  BY <1>1, ConcludeStores DEF Ask

LEMMA HydrateStores ==
  ASSUME TypeInv, NEW t \in Tasks, Hydrate(t)
  PROVE  Grows(t) /\ Keeps(t)
<1> DEFINE s == batch[t].session
           q == Left(s)
           w(h) == [q EXCEPT ![s].history = h]
           loaded(h) == [q EXCEPT ![s].history = h, ![s].hydrated = TRUE]
<1>1. pc[t] \in WorkPlaces
  BY DEF Hydrate, WorkPlaces
<1>2. s \in 1..Len(sessions) /\ sessions \in Seq(SessionType)
  BY <1>1, WorkerFacts
<1>3. sessions[s].seats # <<>>
  BY DEF Hydrate, First
<1>4. q \in Seq(SessionType) /\ Len(q) = Len(sessions) /\ s \in 1..Len(q)
  BY <1>2, <1>3, SeatLeft
<1>5. \A i \in 1..Len(sessions) : q[i].history = sessions[i].history
  BY <1>2, LeftKeeps
<1>6. sessions' = loaded(sessions[s].history) \/ sessions' = loaded(row)
  BY DEF Hydrate
<1>7. UNCHANGED <<row, strayed>>
  BY DEF Hydrate
<1> HIDE DEF q
<1>8. ASSUME NEW h PROVE /\ loaded(h)[s].history = h
                         /\ \A i \in 1..Len(sessions) \ {s} : loaded(h)[i] = q[i]
  <2> DEFINE x == [q[s] EXCEPT !.history = h]
             y == [x EXCEPT !.hydrated = TRUE]
  <2>1. q[s] \in SessionType
    BY <1>4, ElementOfSeq
  <2>2. x = [history |-> h, hydrated |-> q[s].hydrated, seats |-> q[s].seats]
    BY <2>1 DEF SessionType
  <2>3. loaded(h) = [w(h) EXCEPT ![s].hydrated = TRUE]
    OBVIOUS
  <2>4. w(h) = [q EXCEPT ![s] = x]
    OBVIOUS
  <2> HIDE DEF x
  <2>5. y.history = h
    BY <2>2
  <2> HIDE DEF y
  <2>6. w(h)[s] = x /\ \A i \in 1..Len(sessions) \ {s} : w(h)[i] = q[i]
    BY <1>4, <2>4
  <2>7. DOMAIN w(h) = 1..Len(q)
    BY <1>4, LenProperties
  <2> HIDE DEF loaded, w
  <2>8. loaded(h)[s] = [w(h)[s] EXCEPT !.hydrated = TRUE]
        /\ \A i \in 1..Len(sessions) \ {s} : loaded(h)[i] = w(h)[i]
    BY <1>4, <2>3, <2>7
  <2> QED
    BY <2>5, <2>6, <2>8 DEF y
<1> HIDE DEF loaded
<1>9. Grows(t)
  <2>1. CASE sessions' = loaded(sessions[s].history)
    BY <1>2, <1>5, <1>8, <2>1 DEF Grows
  <2>2. CASE sessions' = loaded(row)
    BY <1>2, <1>5, <1>8, <2>2 DEF Grows, Added
  <2> QED
    BY <1>6, <2>1, <2>2
<1> QED
  BY <1>7, <1>9 DEF Keeps

LEMMA PrepareStores ==
  ASSUME TypeInv, NEW t \in Tasks, Prepare(t)
  PROVE  Grows(t) /\ Keeps(t)
<1> DEFINE s == batch[t].session
           q == Left(s)
<1>1. pc[t] \in WorkPlaces
  BY DEF Prepare, WorkPlaces
<1>2. s \in 1..Len(sessions) /\ sessions \in Seq(SessionType)
  BY <1>1, WorkerFacts
<1>3. sessions[s].seats # <<>>
  BY DEF Prepare, First
<1>4. q \in Seq(SessionType) /\ Len(q) = Len(sessions) /\ s \in 1..Len(q)
  BY <1>2, <1>3, SeatLeft
<1>5. \A i \in 1..Len(sessions) : q[i].history = sessions[i].history
  BY <1>2, LeftKeeps
<1>6. ASSUME NEW some \in SUBSET sessions[s].history, Saved(s, some),
             sessions' = [q EXCEPT ![s].history = some]
      PROVE  Grows(t) /\ Keeps(t)
  <2> HIDE DEF q
  <2>1. q[s] \in SessionType
    BY <1>4, ElementOfSeq
  <2>2. sessions'[s] = [q[s] EXCEPT !.history = some]
        /\ \A i \in 1..Len(sessions) \ {s} : sessions'[i] = q[i]
    BY <1>4, <1>6
  <2>3. sessions'[s].history = some
    BY <2>1, <2>2 DEF SessionType
  <2> QED
    BY <1>5, <1>6, <2>2, <2>3 DEF Grows, Keeps, Saved
<1>7. CASE sessions' = q /\ UNCHANGED <<row, strayed>>
  BY <1>5, <1>7 DEF Grows, Keeps
<1> QED
  BY <1>6, <1>7 DEF Prepare

LEMMA WorkStores ==
  ASSUME TypeInv, NEW t \in Tasks, Work(t)
  PROVE  /\ Grows(t) /\ Keeps(t)
         /\ \/ UNCHANGED current
            \/ current' = Len(sessions) + 1 /\ sessions'[current'].history = {}
<1>1. CASE Start(t)
  <2>1. CASE Current(t)
    BY <1>1, <2>1, OpenKeeps DEF Start, Grows, Keeps
  <2>2. CASE ~Current(t)
    BY <1>1, <2>2 DEF Start, Grows, Keeps
  <2> QED
    BY <2>1, <2>2
<1>2. CASE Hydrate(t)
  BY <1>2, HydrateStores DEF Hydrate
<1>3. CASE Look(t)
  <2>1. pc[t] \in WorkPlaces
    BY <1>3 DEF Look, WorkPlaces
  <2>2. batch[t].session \in 1..Len(sessions) /\ sessions \in Seq(SessionType)
    BY <2>1, WorkerFacts
  <2> QED
    BY <1>3, <2>2, SeatedKeeps DEF Look, Grows, Keeps
<1>4. CASE Prepare(t)
  BY <1>4, PrepareStores DEF Prepare
<1>5. CASE Probe(t)
  BY <1>5, AskStores DEF Probe, WorkPlaces, Grows, Keeps
<1>6. CASE Answer(t)
  <2>1. pc[t] \in WorkPlaces /\ UNCHANGED current
    BY <1>6 DEF Answer, WorkPlaces
  <2> QED
    BY <1>6, <2>1, ConcludeStores, AskStores DEF Answer, UseTool, Send, kept, Grows, Keeps
<1>7. CASE Continue(t)
  <2>1. pc[t] \in WorkPlaces /\ UNCHANGED current
    BY <1>7 DEF Continue, WorkPlaces
  <2> QED
    BY <1>7, <2>1, ConcludeStores, AskStores DEF Continue, Send, kept, Grows, Keeps
<1>8. CASE Sent(t)
  <2>1. pc[t] \in WorkPlaces /\ UNCHANGED current
    BY <1>8 DEF Sent, WorkPlaces
  <2> QED
    BY <1>8, <2>1, ConcludeStores DEF Sent, kept, Grows, Keeps
<1>9. CASE Record(t)
  <2>1. pc[t] \in WorkPlaces
    BY <1>9 DEF Record, WorkPlaces
  <2> QED
    BY <1>9, <2>1, RecordedStores DEF Record
<1> QED
  BY <1>1, <1>2, <1>3, <1>4, <1>5, <1>6, <1>7, <1>8, <1>9 DEF Work

-----------------------------------------------------------------------------
\* A batch that is current was taken after the last /reset began.  One that was
\* not may still wait to record, but on a session that the reset has dropped.
Fresh(t) ==
  pc[t] \in WorkPlaces \cup {"queued"} =>
     /\ arrived # {} /\ batch[t].generation <= generation
     /\ batch[t].generation = generation => batch[t].stamp = begun

Late(h) == \A b \in h : b >= forgotten

Forgetting ==
  /\ forgotten <= begun
  /\ \A r \in Resets : reset[r] \in {"clearing_sender", "clearing_group"} => r <= begun
  /\ \A t \in Tasks : Fresh(t)
  /\ \A t \in Tasks : (pc[t] = "recording" /\ batch[t].session = current) =>
                         batch[t].stamp >= forgotten
  /\ ~strayed => Late(row) /\ (current # 0 => Late(sessions[current].history))

LEMMA WorkForgets ==
  ASSUME TypeInv, Watching, Forgetting, NEW t \in Tasks, Work(t)
  PROVE  Forgetting'
<1>1. /\ UNCHANGED <<begun, forgotten, reset, generation, arrived, closed>>
      /\ pc[t] \in WorkPlaces \cup {"queued"}
  BY WorkMoves DEF others, buffered, clears, inbox
<1>2. /\ \A u \in Tasks \ {t} : pc'[u] = pc[u] /\ batch'[u] = batch[u]
      /\ (pc'[t] \in {"sending", "recording"} /\ pc'[t] # pc[t]) => Current(t)
      /\ \/ pc'[t] = "none"
         \/ /\ batch'[t].generation = batch[t].generation /\ batch'[t].stamp = batch[t].stamp
            /\ pc[t] # "queued" => batch'[t].session = batch[t].session
  BY WorkKeeps
<1>3. /\ Grows(t) /\ Keeps(t)
      /\ \/ UNCHANGED current
         \/ current' = Len(sessions) + 1 /\ sessions'[current'].history = {}
  BY WorkStores
<1>4. /\ Len(sessions) \in Nat /\ current \in 0..Len(sessions) /\ begun \in Nat /\ forgotten \in Nat
      /\ \A u \in Tasks : batch[u].stamp \in Nat
  <2>1. \A u \in Tasks : batch[u] \in BatchType
    BY WorkerFacts
  <2> QED
    BY <2>1, WorkerFacts DEF TypeInv, TypeOK, BatchType
<1>5. Current(t) => batch[t].stamp >= forgotten
  BY <1>1, <1>4 DEF Forgetting, Fresh, Current
<1>6. \A u \in Tasks : Fresh(u)'
  <2>1. ASSUME NEW u \in Tasks \ {t} PROVE Fresh(u)'
    BY <1>1, <1>2, <2>1 DEF Forgetting, Fresh
  <2>2. Fresh(t)'
    BY <1>1, <1>2 DEF Forgetting, Fresh, WorkPlaces
  <2> QED
    BY <2>1, <2>2
<1>7. ASSUME NEW u \in Tasks, pc'[u] = "recording", batch'[u].session = current'
      PROVE  batch'[u].stamp >= forgotten'
  <2>1. CASE pc[u] # "recording"
    BY <1>1, <1>2, <1>5, <1>7, <2>1
  <2>2. CASE pc[u] = "recording"
    <3>1. batch'[u].session = batch[u].session /\ batch'[u].stamp = batch[u].stamp
      BY <1>2, <1>7, <2>2
    <3>2. batch[u].session \in 1..Len(sessions)
      BY <2>2, WorkerFacts DEF WorkPlaces
    <3>3. UNCHANGED current
      BY <1>3, <1>4, <1>7, <3>1, <3>2
    <3> QED
      BY <1>1, <1>7, <2>2, <3>1, <3>3 DEF Forgetting
  <2> QED
    BY <2>1, <2>2
<1>8. ASSUME ~strayed' PROVE Late(row)' /\ (current' # 0 => Late(sessions[current].history)')
  <2>1. ~strayed
    BY <1>3, <1>8 DEF Keeps
  <2>2. Late(row) /\ (current # 0 => Late(sessions[current].history))
    BY <2>1 DEF Forgetting
  <2>3. batch[t].session = current => \A b \in Added(t) : b >= forgotten
    BY <1>5, <2>2 DEF Forgetting, Added, Late
  <2>4. current' # 0 => \A b \in sessions'[current'].history : b >= forgotten
    <3>1. CASE UNCHANGED current
      BY <1>3, <1>4, <2>2, <2>3, <3>1 DEF Grows, Late
    <3>2. CASE sessions'[current'].history = {}
      BY <3>2
    <3> QED
      BY <1>3, <3>1, <3>2
  <2>5. \A b \in row' : b >= forgotten
    <3>1. CASE UNCHANGED row
      BY <2>2, <3>1 DEF Late
    <3>2. CASE batch[t].session = current /\ row' \subseteq sessions'[batch[t].session].history
      <4>1. CASE pc[t] \in WorkPlaces
        <5>1. current \in 1..Len(sessions)
          BY <3>2, <4>1, WorkerFacts
        <5> QED
          BY <1>3, <1>4, <2>2, <2>3, <3>2, <5>1 DEF Grows, Late
      <4>2. CASE pc[t] = "queued"
        <5>1. UNCHANGED row
          BY <4>2 DEF Work, Start, Hydrate, Look, Prepare, Probe, Answer, Continue, Sent, Record
        <5> QED
          BY <2>2, <5>1 DEF Late
      <4> QED
        BY <1>1, <4>1, <4>2
    <3> QED
      BY <1>3, <1>8, <3>1, <3>2 DEF Keeps
  <2> QED
    BY <1>1, <2>4, <2>5 DEF Late
<1> QED
  BY <1>1, <1>6, <1>7, <1>8 DEF Forgetting

\* A step that changes neither histories nor resets, and no batch.
LEMMA QuietForgets ==
  ASSUME Forgetting, UNCHANGED <<group, clears, generation, batch>>, arrived \subseteq arrived',
         \A t \in Tasks : pc'[t] \in WorkPlaces \cup {"queued"} => pc'[t] = pc[t]
  PROVE  Forgetting'
<1>1. UNCHANGED <<sessions, current, row, strayed, begun, forgotten, reset>>
  BY DEF group, clears
<1>2. \A t \in Tasks : Fresh(t)'
  BY <1>1 DEF Forgetting, Fresh
<1>3. \A t \in Tasks : pc'[t] = "recording" => pc[t] = "recording"
  BY DEF WorkPlaces
<1> QED
  BY <1>1, <1>2, <1>3 DEF Forgetting, Late

LEMMA TakeForgets ==
  ASSUME TypeInv, Marked, Forgetting, NEW t \in Tasks, Take(t)
  PROVE  Forgetting'
<1>1. /\ UNCHANGED <<sessions, current, row, strayed, begun, forgotten, reset, generation, arrived>>
      /\ batch' = [batch EXCEPT ![t] = NewBatch] /\ pc' = [pc EXCEPT ![t] = "queued"]
      /\ buffer # {}
  BY DEF Take, group, clears, inbox
<1>2. NewBatch.generation = generation /\ NewBatch.stamp = begun
  BY DEF NewBatch
<1>3. /\ pc'[t] = "queued" /\ batch'[t] = NewBatch
      /\ \A u \in Tasks \ {t} : pc'[u] = pc[u] /\ batch'[u] = batch[u]
  BY <1>1, WorkerFacts
<1>4. arrived # {} /\ generation \in Nat
  BY <1>1 DEF Marked, TypeInv, TypeOK
<1>5. \A u \in Tasks : Fresh(u)'
  BY <1>1, <1>2, <1>3, <1>4 DEF Forgetting, Fresh
<1>6. \A u \in Tasks : (pc'[u] = "recording" /\ batch'[u].session = current') =>
                           batch'[u].stamp >= forgotten'
  BY <1>1, <1>3 DEF Forgetting
<1> QED
  BY <1>1, <1>5, <1>6 DEF Forgetting, Late

LEMMA BeginResetForgets ==
  ASSUME TypeInv, Forgetting, NEW r \in Resets, BeginReset(r)
  PROVE  Forgetting'
<1>1. /\ UNCHANGED <<sessions, current, row, strayed, forgotten, arrived, batch>>
      /\ begun' = begun + 1 /\ begun \in Nat /\ forgotten \in Nat /\ generation \in Nat
      /\ arrived # {} => generation' = generation + 1
  BY DEF BeginReset, group, inbox, TypeInv, TypeOK
<1>2. \A t \in Tasks : pc'[t] \in WorkPlaces \cup {"queued"} => pc'[t] = pc[t]
  BY CancelledType DEF BeginReset
<1>3. \A t \in Tasks : batch[t].generation \in Nat
  BY WorkerFacts DEF BatchType
<1>4. \A t \in Tasks : Fresh(t)'
  BY <1>1, <1>2, <1>3 DEF Forgetting, Fresh
<1>5. \A q \in Resets : reset'[q] \in {"clearing_sender", "clearing_group"} => q <= begun'
  <2>1. r = begun + 1 /\ \A q \in Resets \ {r} : reset'[q] = reset[q]
    BY DEF BeginReset, TypeInv, TypeOK
  <2> QED
    BY <1>1, <2>1 DEF Forgetting, Resets
<1>6. \A t \in Tasks : pc'[t] = "recording" => pc[t] = "recording"
  BY <1>2 DEF WorkPlaces
<1>7. forgotten' <= begun'
  BY <1>1 DEF Forgetting
<1> QED
  BY <1>1, <1>4, <1>5, <1>6, <1>7 DEF Forgetting, Late

LEMMA ClearSenderForgets ==
  ASSUME TypeInv, Forgetting, NEW r \in Resets, ClearSender(r)
  PROVE  Forgetting'
<1>1. /\ UNCHANGED <<row, strayed, begun, forgotten, arrived, generation, batch, pc>>
  BY DEF ClearSender, others2, inbox, state, buffered
<1>2. \A q \in Resets : reset'[q] \in {"clearing_sender", "clearing_group"} =>
          reset[q] \in {"clearing_sender", "clearing_group"}
  BY DEF ClearSender, TypeInv, TypeOK
<1>3. /\ \A i \in 1..Len(sessions) : sessions'[i].history = sessions[i].history
      /\ \/ UNCHANGED current
         \/ current' = Len(sessions) + 1 /\ sessions'[current'].history = {}
  BY OpenKeeps DEF ClearSender
<1>4. Len(sessions) \in Nat /\ current \in 0..Len(sessions)
  BY LenProperties DEF TypeInv, TypeOK, SessionType
<1>5. \A t \in Tasks : Fresh(t)'
  BY <1>1 DEF Forgetting, Fresh
<1>6. ASSUME NEW t \in Tasks, pc'[t] = "recording", batch'[t].session = current'
      PROVE  batch'[t].stamp >= forgotten'
  <2>1. batch[t].session \in 1..Len(sessions) /\ pc[t] = "recording"
    BY <1>1, <1>6, WorkerFacts DEF WorkPlaces
  <2>2. UNCHANGED current
    BY <1>1, <1>3, <1>4, <1>6, <2>1
  <2> QED
    BY <1>1, <1>6, <2>1, <2>2 DEF Forgetting
<1>7. ASSUME ~strayed, current' # 0 PROVE \A b \in sessions'[current'].history : b >= forgotten
  <2>1. CASE UNCHANGED current
    <3>1. sessions'[current].history = sessions[current].history
      BY <1>3, <1>4, <1>7, <2>1
    <3> QED
      BY <1>7, <2>1, <3>1 DEF Forgetting, Late
  <2> QED
    BY <1>3, <2>1
<1>8. ~strayed' => Late(row)' /\ (current' # 0 => Late(sessions[current].history)')
  BY <1>1, <1>7 DEF Forgetting, Late
<1>9. \A q \in Resets : reset'[q] \in {"clearing_sender", "clearing_group"} => q <= begun'
  BY <1>1, <1>2 DEF Forgetting
<1> QED
  BY <1>1, <1>5, <1>6, <1>8, <1>9 DEF Forgetting

LEMMA ClearGroupForgets ==
  ASSUME TypeInv, Forgetting, NEW r \in Resets, ClearGroup(r)
  PROVE  Forgetting'
<1> DEFINE s == target[r]
           q == Left(s)
<1>1. /\ UNCHANGED <<strayed, begun, arrived, generation, batch, pc>>
  BY DEF ClearGroup, others2, inbox, state, buffered
<1>2. /\ Len(sessions) \in Nat /\ current \in 0..Len(sessions) /\ sessions \in Seq(SessionType)
      /\ s \in 1..Len(sessions) /\ sessions[s].seats # <<>>
  BY LenProperties DEF ClearGroup, First, TypeInv, TypeOK, Placed, SessionType
<1>3. \A i \in 1..Len(sessions) : sessions'[i].history \subseteq sessions[i].history
  <2>1. q \in Seq(SessionType) /\ Len(q) = Len(sessions) /\ s \in 1..Len(q)
    BY <1>2, SeatLeft
  <2>2. \A i \in 1..Len(sessions) : q[i].history = sessions[i].history
    BY <1>2, LeftKeeps
  <2>3. sessions' = [q EXCEPT ![s].history = {}]
    BY DEF ClearGroup
  <2> HIDE DEF q, s
  <2>4. q[s] \in SessionType
    BY <2>1, ElementOfSeq
  <2>5. sessions'[s] = [q[s] EXCEPT !.history = {}]
        /\ \A i \in 1..Len(sessions) \ {s} : sessions'[i] = q[i]
    <3> DEFINE w == [q[s] EXCEPT !.history = {}]
    <3>1. sessions' = [q EXCEPT ![s] = w]
      BY <2>3
    <3>2. DOMAIN q = 1..Len(sessions)
      BY <2>1, LenProperties
    <3> HIDE DEF w
    <3>3. sessions'[s] = w /\ \A i \in 1..Len(sessions) \ {s} : sessions'[i] = q[i]
      BY <2>1, <3>1, <3>2
    <3> QED
      BY <3>3 DEF w
  <2>6. sessions'[s].history = {}
    BY <2>4, <2>5 DEF SessionType
  <2> QED
    BY <2>2, <2>5, <2>6
<1>4. \A p \in Resets : reset'[p] \in {"clearing_sender", "clearing_group"} =>
          reset[p] \in {"clearing_sender", "clearing_group"}
  BY DEF ClearGroup, TypeInv, TypeOK
<1>5. \A t \in Tasks : Fresh(t)'
  BY <1>1 DEF Forgetting, Fresh
<1>6. \A p \in Resets : reset'[p] \in {"clearing_sender", "clearing_group"} => p <= begun'
  BY <1>1, <1>4 DEF Forgetting
<1>7. CASE row' = {} /\ current' = 0 /\ forgotten' = Max({forgotten, r})
  <2>1. forgotten \in Nat /\ r \in Nat /\ begun \in Nat /\ r <= begun /\ forgotten <= begun
    BY DEF ClearGroup, Forgetting, TypeInv, TypeOK, Resets
  <2>2. Max({forgotten, r}) \in {forgotten, r}
    <3>1. \E x \in {forgotten, r} : \A y \in {forgotten, r} : x >= y
      BY <2>1
    <3> QED
      BY <3>1 DEF Max
  <2>3. forgotten' <= begun'
    BY <1>1, <1>7, <2>1, <2>2
  <2>4. \A t \in Tasks : pc'[t] = "recording" => batch'[t].session # 0
    <3>1. \A t \in Tasks : pc[t] = "recording" => batch[t].session \in 1..Len(sessions)
      BY WorkerFacts DEF WorkPlaces
    <3> QED
      BY <1>1, <1>2, <3>1
  <2> QED
    BY <1>5, <1>6, <1>7, <2>3, <2>4 DEF Forgetting, Late
<1>8. CASE row' \in {row, {}} /\ UNCHANGED <<current, forgotten>>
  <2>1. ~strayed => \A b \in row' : b >= forgotten
    BY <1>8 DEF Forgetting, Late
  <2>2. (~strayed /\ current # 0) => \A b \in sessions'[current].history : b >= forgotten
    BY <1>2, <1>3 DEF Forgetting, Late
  <2>3. ~strayed' => Late(row)' /\ (current' # 0 => Late(sessions[current].history)')
    BY <1>1, <1>8, <2>1, <2>2 DEF Late
  <2> QED
    BY <1>1, <1>5, <1>6, <1>8, <2>3 DEF Forgetting
<1> QED
  BY <1>7, <1>8 DEF ClearGroup

LEMMA EvictForgets ==
  ASSUME TypeInv, Forgetting, Evict
  PROVE  Forgetting'
<1>1. /\ UNCHANGED <<sessions, row, strayed, begun, forgotten, reset, arrived, generation, batch, pc>>
      /\ current' = 0
  BY DEF Evict, clears, inbox, state, buffered
<1>2. \A t \in Tasks : Fresh(t)'
  BY <1>1 DEF Forgetting, Fresh
<1>3. \A t \in Tasks : pc'[t] = "recording" => batch'[t].session # 0
  <2>1. \A t \in Tasks : pc[t] = "recording" => batch[t].session \in 1..Len(sessions)
    BY WorkerFacts DEF WorkPlaces
  <2> QED
    BY <1>1, <2>1, WorkerFacts
<1> QED
  BY <1>1, <1>2, <1>3 DEF Forgetting, Late

LEMMA NextForgets ==
  ASSUME TypeInv, Watching, Marked, Forgetting, [Next]_vars
  PROVE  Forgetting'
<1>1. CASE UNCHANGED vars
  BY <1>1, QuietForgets DEF vars, state, buffered, inbox
<1>2. ASSUME NEW m \in Messages, Enqueue(m) PROVE Forgetting'
  <2>1. \A t \in Tasks : pc'[t] \in WorkPlaces \cup {"queued"} => pc'[t] = pc[t]
    BY <1>2 DEF Enqueue, WorkPlaces, TypeInv, TypeOK
  <2> QED
    BY <1>2, <2>1, QuietForgets DEF Enqueue
<1>3. CASE Tick
  BY <1>3, QuietForgets DEF Tick, inbox
<1>4. ASSUME NEW t \in Tasks, Loop(t), ~Take(t) PROVE Forgetting'
  <2>1. \A u \in Tasks : pc'[u] \in WorkPlaces \cup {"queued"} => pc'[u] = pc[u]
    BY <1>4 DEF Loop, Retire, Drop, Wait, Wake, Ends, WorkPlaces, TypeInv, TypeOK
  <2> QED
    BY <1>4, <2>1, QuietForgets DEF Loop, Retire, Drop, Wait, Wake, state, buffered, inbox
<1>5. CASE Stop
  <2>1. \A t \in Tasks : pc'[t] \in WorkPlaces \cup {"queued"} => pc'[t] = pc[t]
    BY <1>5, CancelledType DEF Stop
  <2> QED
    BY <1>5, <2>1, QuietForgets DEF Stop, inbox
<1> QED
  BY <1>1, <1>2, <1>3, <1>4, <1>5, WorkForgets, TakeForgets, BeginResetForgets,
     ClearSenderForgets, ClearGroupForgets, EvictForgets DEF Next, Clear

\* What a completed /reset forgot stays forgotten, whatever is under way and
\* in whatever order it ends, unless a batch saves a session that is not stored.
THEOREM Forgotten == Spec => []ResetForgets
<1>1. Init => TypeInv /\ Watching /\ Marked /\ Forgetting
  <2>1. Init => Marked
    BY DEF Init, Marked, CallsAreHeard, TakenOnce, NoBatch
  <2>2. Init => Forgetting
    BY DEF Init, Forgetting, Fresh, Late, WorkPlaces
  <2> QED
    BY <2>1, <2>2, InitTypeInv, InitWatching
<1>2. TypeInv /\ Watching /\ Marked /\ Forgetting /\ [Next]_vars =>
        TypeInv' /\ Watching' /\ Marked' /\ Forgetting'
  BY NextKeepsType, NextWatches, NextMarks, NextForgets
<1>3. Forgetting => ResetForgets
  BY DEF Forgetting, Late, ResetForgets
<1> QED
  BY <1>1, <1>2, <1>3, PTL DEF Spec
===============================================================================

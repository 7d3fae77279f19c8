--------------------------- MODULE SchedulerProofs ---------------------------
(***************************************************************************)
(* Proofs about the scheduler, for every set of keys, periods and delays,  *)
(* every number of tasks, instants and crashes, and both stores.           *)
(*                                                                         *)
(* The argument: a live task is one of _task_index.  Every path that puts  *)
(* an id there also writes its row and pushes its heap entry, and every    *)
(* path that takes a row or a heap entry away takes the id out of the      *)
(* index first or is the callback of that very task.  Ids only grow within *)
(* one life of the process, so a fresh id is in none of the containers.    *)
(***************************************************************************)
EXTENDS Scheduler, Maxima, TLAPS

\* The counter resumes at the largest surviving id.
LEMMA MaxOfIds ==
  ASSUME NEW S, S \subseteq Ids, S # {}
  PROVE  Max(S) \in S /\ \A i \in S : i <= Max(S)
BY MaxOfBounded, BoundsAssumption DEF Ids

\* A new row gets a natural number as its position.
LEMMA NextPosType ==
  ASSUME store \subseteq Ids, saved \in [Ids -> Row]
  PROVE  NextPos \in Nat
<1>1. CASE Durable \/ store = {}
  BY <1>1 DEF NextPos
<1>2. CASE ~Durable /\ store # {}
  <2> DEFINE f == [i \in store |-> saved[i].pos]
             P == {saved[i].pos : i \in store}
  <2>1. \A i \in store : f[i] \in Nat /\ f[i] = saved[i].pos
    BY DEF Row
  <2>2. PICK m \in store : \A j \in store : f[j] <= f[m]
    <3> HIDE DEF f
    <3> QED
      BY <2>1, <1>2, LargestValue, BoundsAssumption DEF Ids
  <2>3. saved[m].pos \in P /\ \A p \in P : saved[m].pos >= p
    BY <2>1, <2>2
  <2>4. Max(P) \in P
    BY <2>3 DEF Max
  <2>5. Max(P) \in Nat
    BY <2>1, <2>4
  <2> QED
    BY <2>5, <1>2 DEF NextPos
<1> QED
  BY <1>1, <1>2

-----------------------------------------------------------------------------
(* Type correctness.                                                       *)

LEMMA IdsAreNat == \A i \in Ids : i \in Nat /\ 1 <= i /\ i <= MaxId
BY BoundsAssumption DEF Ids

LEMMA BlankTask == Blank \in Task /\ NoRow \in Row
BY DEF Blank, NoRow, Task, Row

\* schedule() and schedule_recurring() differ in the task they build only.
LEMMA AddType ==
  ASSUME TypeOK, NEW t \in Task, Add(t)
  PROVE  TypeOK'
<1> DEFINE id == counter + 1
<1>1. id \in Ids /\ counter' = id
  BY BoundsAssumption DEF Add, TypeOK, Ids
<1>2. task' \in [Ids -> Task] /\ queue' \subseteq Ids
  BY <1>1 DEF Add, TypeOK
<1>3. Replaced(t.key) \subseteq store
  BY DEF Replaced, UnderKey
<1>4. index' \subseteq Ids /\ cancelled' \subseteq Ids
  BY <1>1, <1>3 DEF Add, TypeOK, Unindexed
<1>5. store' \subseteq Ids
  BY <1>1 DEF Add, TypeOK, Deleted
<1>6. saved' \in [Ids -> Row]
  <2>1. NextPos \in Nat
    BY NextPosType DEF TypeOK
  <2>2. Wiped(Replaced(t.key)) \in [Ids -> Row]
    BY BlankTask DEF Wiped, TypeOK
  <2>3. [task |-> t, pos |-> NextPos] \in Row
    BY <2>1 DEF Row
  <2> QED
    BY <2>2, <2>3, <1>1 DEF Add
<1>7. revoked' \subseteq Ids /\ revokedNow' \subseteq Ids /\ spent' \subseteq Ids
  BY <1>3 DEF Add, TypeOK
<1>8. UNCHANGED <<now, tick, running, phase, current, crashes>>
  BY DEF Add, loop
<1> QED
  BY <1>1, <1>2, <1>4, <1>5, <1>6, <1>7, <1>8 DEF TypeOK, Ids

\* Scheduling a new task is Add of a well-formed task.
LEMMA SchedulingAdds ==
  ASSUME TypeOK, Schedule \/ ScheduleRecurring
  PROVE  \E t \in Task : Add(t)
<1>1. CASE Schedule
  <2>1. PICK k \in Keys \cup {NoKey}, d \in Delays :
          Add([key |-> k, period |-> 0, at |-> now + Clamped(d)])
    BY <1>1 DEF Schedule
  <2>2. now + Clamped(d) \in Nat
    BY TimesAssumption DEF Clamped, TypeOK, Delays
  <2>3. [key |-> k, period |-> 0, at |-> now + Clamped(d)] \in Task
    BY <2>2 DEF Task
  <2> QED
    BY <2>1, <2>3
<1>2. CASE ScheduleRecurring
  <2>1. PICK k \in Keys \cup {NoKey}, p \in Periods, d \in Delays \cup Periods :
          /\ d \in {p} \cup {x \in Delays : now + x >= 0}
          /\ Add([key |-> k, period |-> p, at |-> now + d])
    BY <1>2 DEF ScheduleRecurring
  <2>2. [key |-> k, period |-> p, at |-> now + d] \in Task
    <3>1. now + d \in Nat
      <4>1. CASE d = p
        BY <4>1, TimesAssumption DEF TypeOK
      <4>2. CASE d \in Delays /\ now + d >= 0
        BY <4>2, TimesAssumption DEF TypeOK, Delays
      <4> QED
        BY <2>1, <4>1, <4>2
    <3> QED
      BY <3>1 DEF Task
  <2> QED
    BY <2>1, <2>2
<1> QED
  BY <1>1, <1>2

LEMMA TypeStep == TypeOK /\ [Next]_vars => TypeOK'
<1> SUFFICES ASSUME TypeOK, [Next]_vars PROVE TypeOK'
  OBVIOUS
<1> USE DEF TypeOK, memory, loop, disk, history
<1>1. CASE Tick
  BY <1>1 DEF Tick
<1>2. CASE Schedule \/ ScheduleRecurring
  <2> USE DEF TypeOK
  <2>1. PICK t \in Task : Add(t)
    BY <1>2, SchedulingAdds
  <2> QED
    BY <2>1, AddType
<1>3. ASSUME NEW id \in Ids, Cancel(id) PROVE TypeOK'
  <2>1. saved' \in [Ids -> Row]
    BY <1>3, BlankTask DEF Cancel, Wiped
  <2>2. store' \subseteq Ids
    BY <1>3 DEF Cancel, Deleted
  <2>3. revoked' \subseteq Ids /\ revokedNow' \subseteq Ids
    BY <1>3 DEF Cancel
  <2> QED
    BY <1>3, <2>1, <2>2, <2>3 DEF Cancel
<1>4. CASE Run
  BY <1>4 DEF Run, Phases
<1>5. CASE Stop
  BY <1>5 DEF Stop
<1>6. CASE Skip
  <2>1. PICK id \in Due : /\ queue' = queue \ {id}
                         /\ task' = Freed(id)
                         /\ cancelled' = cancelled \ {id}
    BY <1>6 DEF Skip
  <2>2. task' \in [Ids -> Task]
    BY <2>1, BlankTask DEF Freed
  <2> QED
    BY <1>6, <2>1, <2>2 DEF Skip
<1>7. CASE Fire
  <2>1. PICK id \in Due : /\ queue' = queue \ {id}
                         /\ current' = id
                         /\ spent' = IF task[id].period = 0 THEN spent \cup {id}
                                     ELSE spent
    BY <1>7 DEF Fire
  <2>2. id \in Ids
    BY DEF Due
  <2>3. spent' \subseteq Ids /\ queue' \subseteq Ids
    BY <2>1, <2>2
  <2> QED
    BY <1>7, <2>1, <2>2, <2>3 DEF Fire, Phases
<1>8. CASE Rearm
  <2> DEFINE t == [task[current] EXCEPT !.at = now + task[current].period]
  <2>1. current \in Ids
    BY <1>8 DEF Rearm
  <2>2. t \in Task
    BY <2>1, TimesAssumption DEF Task
  <2>3. task' = [task EXCEPT ![current] = t] /\ queue' = queue \cup {current}
    BY <1>8 DEF Rearm
  <2>4. Upserted(current, t) \in [Ids -> Row]
    <3>1. NextPos \in Nat
      BY NextPosType
    <3>2. saved[current].pos \in Nat
      BY <2>1 DEF Row
    <3>3. (IF current \in store THEN saved[current].pos ELSE NextPos) \in Nat
      BY <3>1, <3>2
    <3> HIDE DEF t
    <3> QED
      BY <3>3, <2>2 DEF Upserted, Row
  <2>5. store' \subseteq Ids /\ saved' \in [Ids -> Row]
    BY <1>8, <2>1, <2>4 DEF Rearm
  <2>6. phase' \in Phases /\ phase' # "callback" /\ current' = 0
    BY <1>8 DEF Rearm, Phases
  <2>7. UNCHANGED <<now, index, cancelled, counter, running, tick, crashes, history>>
    BY <1>8 DEF Rearm
  <2> HIDE DEF t
  <2> QED
    BY <2>1, <2>2, <2>3, <2>5, <2>6, <2>7
<1>9. CASE Finish
  <2>1. task' \in [Ids -> Task] /\ saved' \in [Ids -> Row]
    BY <1>9, BlankTask DEF Finish, Freed, Wiped
  <2>2. store' \subseteq Ids /\ index' \subseteq Ids
    BY <1>9 DEF Finish, Deleted
  <2> QED
    BY <1>9, <2>1, <2>2 DEF Finish, Phases
<1>10. CASE Sleep
  BY <1>10 DEF Sleep, Phases
<1>11. CASE Wake
  BY <1>11 DEF Wake, Phases
<1>12. CASE Crash
  <2>1. task' \in [Ids -> Task] /\ saved' \in [Ids -> Row] /\ store' \subseteq Ids
    BY <1>12, BlankTask DEF Crash, Wiped
  <2>2. phase' = "down" /\ current' = 0 /\ crashes' \in Nat /\ tick' \in Nat
    BY <1>12 DEF Crash
  <2>3. counter' \in 0 .. MaxId /\ running' \in BOOLEAN
    <3>1. counter' = 0 /\ running' = FALSE
      BY <1>12 DEF Crash
    <3>2. 0 \in 0 .. MaxId
      BY BoundsAssumption
    <3> QED
      BY <3>1, <3>2
  <2>4. queue' \subseteq Ids /\ index' \subseteq Ids /\ cancelled' \subseteq Ids
        /\ spent' \subseteq Ids
    BY <1>12 DEF Crash
  <2>5. UNCHANGED <<now, revoked, revokedNow>>
    BY <1>12 DEF Crash
  <2>6. phase' \in Phases /\ current' \in IF phase' = "callback" THEN Ids ELSE {0}
    BY <2>2 DEF Phases
  <2> QED
    BY <2>1, <2>2, <2>3, <2>4, <2>5, <2>6
<1>13. CASE Restart
  <2>1. task' \in [Ids -> Task]
    BY <1>13, BlankTask DEF Restart, Row
  <2>2. counter' \in 0 .. MaxId
    <3>1. CASE store = {}
      BY <1>13, <3>1, BoundsAssumption DEF Restart
    <3>2. CASE store # {}
      BY <1>13, <3>2, MaxOfIds, IdsAreNat, BoundsAssumption DEF Restart
    <3> QED
      BY <3>1, <3>2
  <2> QED
    BY <1>13, <2>1, <2>2 DEF Restart, Phases
<1>14. CASE UNCHANGED vars
  BY <1>14 DEF vars
<1> QED
  BY <1>1, <1>2, <1>3, <1>4, <1>5, <1>6, <1>7, <1>8, <1>9, <1>10, <1>11, <1>12,
     <1>13, <1>14 DEF Next, Api, LoopStep

LEMMA TypeInit == ASSUME Init PROVE TypeOK
<1>1. [i \in Ids |-> Blank] \in [Ids -> Task] /\ [i \in Ids |-> NoRow] \in [Ids -> Row]
  BY BlankTask
<1>2. 0 \in 0 .. MaxId /\ 0 \in Nat
  BY BoundsAssumption
<1>3. {} \subseteq Ids /\ "idle" \in Phases /\ 0 \in IF "idle" = "callback" THEN Ids ELSE {0}
  BY DEF Phases
<1>4. FALSE \in BOOLEAN
  OBVIOUS
<1> QED
  BY <1>1, <1>2, <1>3, <1>4 DEF Init, TypeOK

\* Every variable keeps its type.
THEOREM TypeCorrect == Spec => []TypeOK
BY TypeInit, TypeStep, PTL DEF Spec

-----------------------------------------------------------------------------
(* The inductive invariant.                                                *)

\* A live task has a row with its fields, a timer, and is not cancelled.
Live == PendingIsDurable /\ NoLostTimer /\ index \cap cancelled = {}

\* Ids in use were handed out in this life of the process.
Numbered ==
  /\ \A i \in queue \cup index \cup cancelled : i <= counter
  /\ phase = "callback" => current <= counter
  /\ phase # "down" => \A i \in store : i <= counter

\* What a dead process holds.
Phased == phase = "down" => /\ queue = {} /\ index = {} /\ cancelled = {}
                            /\ spent = {} /\ crashes > 0

\* The unique index of the SQLite store.
UniqueRows ==
  Durable => \A i, j \in store :
    saved[i].task.key = saved[j].task.key /\ saved[i].task.key # NoKey => i = j

\* A revoked task has no row to come back from, unless its callback runs.
Quiet ==
  /\ revoked \cap store = {}
  /\ phase = "callback" => current \notin revoked
  /\ crashes = 0 => revokedNow \cap index = {}

\* A one-shot task that was fired has no timer left.
Spent == spent \cap queue = {} /\ \A i \in spent : task[i].period = 0

IInv == TypeOK /\ Live /\ Numbered /\ Phased /\ UniqueRows /\ Quiet /\ Spent

\* The rows a new task replaces: all those under its key when it is unique.
LEMMA ReplacedRows ==
  ASSUME TypeOK, UniqueRows, NEW k \in Keys \cup {NoKey}
  PROVE  /\ Replaced(k) \subseteq store
         /\ Durable => Replaced(k) = UnderKey(k)
         /\ k = NoKey => Replaced(k) = {}
<1>1. Replaced(k) \subseteq UnderKey(k) /\ UnderKey(k) \subseteq store
  BY DEF Replaced, UnderKey
<1>2. k = NoKey => UnderKey(k) = {}
  BY DEF UnderKey
<1>3. ASSUME Durable, NEW i \in UnderKey(k) PROVE i \in Replaced(k)
  <2>1. \A j \in UnderKey(k) : j = i
    BY <1>1, <1>2, <1>3 DEF UniqueRows, UnderKey
  <2>2. saved[i].pos \in Nat
    BY <1>1 DEF TypeOK, Row
  <2> QED
    BY <2>1, <2>2 DEF Replaced
<1> QED
  BY <1>1, <1>2, <1>3

LEMMA AddInv ==
  ASSUME IInv, NEW t \in Task, Add(t)
  PROVE  IInv'
<1> DEFINE id == counter + 1
           old == Replaced(t.key)
<1>1. TypeOK'
  BY AddType DEF IInv
<1>2. id \in Ids /\ id \notin queue \cup index \cup cancelled \cup store
  <2>1. phase # "down"
    BY DEF Add, Suspended
  <2>2. counter \in Nat /\ id \in Ids
    BY BoundsAssumption DEF Add, IInv, TypeOK, Ids
  <2> QED
    BY <2>1, <2>2 DEF IInv, Numbered
<1>3. old \subseteq store /\ (Durable => old = UnderKey(t.key))
  BY ReplacedRows DEF IInv, Task
<1>4. id # current \/ phase # "callback"
  BY <1>2, IdsAreNat DEF IInv, Numbered, TypeOK
<1>5. /\ counter' = id
      /\ task' = [task EXCEPT ![id] = t]
      /\ queue' = queue \cup {id}
      /\ index' = (index \ old) \cup {id}
      /\ cancelled' = cancelled \cup old
      /\ store' = (store \ old) \cup {id}
      /\ revoked' = (revoked \cup {i \in old : ~Firing(i)}) \ {id}
      /\ revokedNow' = (revokedNow \cup {i \in old : Firing(i)}) \ {id}
      /\ spent' = spent \ {id}
      /\ UNCHANGED <<phase, current, crashes>>
  BY DEF Add, Unindexed, Deleted, loop
<1>6. saved'[id].task = t /\ \A i \in Ids \ (old \cup {id}) : saved'[i] = saved[i]
  <2>1. saved' = [Wiped(old) EXCEPT ![id] = [task |-> t, pos |-> NextPos]]
    BY DEF Add
  <2>2. Wiped(old) = [i \in Ids |-> IF i \in old THEN NoRow ELSE saved[i]]
    BY DEF Wiped
  <2> HIDE DEF old, id
  <2> QED
    BY <2>1, <2>2, <1>2
<1>7. task'[id] = t /\ \A i \in Ids \ {id} : task'[i] = task[i]
  BY <1>2, <1>5 DEF IInv, TypeOK
<1>8. /\ queue \subseteq Ids /\ index \subseteq Ids /\ cancelled \subseteq Ids
      /\ store \subseteq Ids /\ spent \subseteq Ids
  BY DEF IInv, TypeOK
<1> HIDE DEF old, id
<1>9. Live'
  <2>1. PendingIsDurable'
    BY <1>3, <1>5, <1>6, <1>7, <1>8 DEF IInv, Live, PendingIsDurable
  <2>2. NoLostTimer'
    BY <1>5 DEF IInv, Live, NoLostTimer, Firing
  <2>3. index' \cap cancelled' = {}
    BY <1>2, <1>3, <1>5 DEF IInv, Live
  <2> QED
    BY <2>1, <2>2, <2>3 DEF Live
<1>10. Numbered'
  <2>1. \A i \in Ids : i <= counter => i <= id
    BY IdsAreNat DEF IInv, TypeOK, id
  <2>2. phase # "down" /\ id <= id /\ (phase = "callback" => current \in Ids)
    BY <1>2, IdsAreNat DEF Add, Suspended, IInv, TypeOK
  <2> QED
    BY <1>3, <1>5, <1>8, <2>1, <2>2 DEF IInv, Numbered
<1>11. Phased'
  BY <1>5 DEF Add, Suspended, Phased
<1>12. UniqueRows'
  <2> SUFFICES ASSUME Durable, NEW i \in store', NEW j \in store',
                      saved'[i].task.key = saved'[j].task.key,
                      saved'[i].task.key # NoKey
               PROVE  i = j
    BY DEF UniqueRows
  <2>1. \A m \in store' \ {id} : m \in store \ UnderKey(t.key) /\ saved'[m] = saved[m]
    BY <1>3, <1>5, <1>6, <1>8
  <2>2. \A m \in store \ UnderKey(t.key) : saved[m].task.key # t.key \/ t.key = NoKey
    BY DEF UnderKey
  <2>3. saved'[id].task.key = t.key
    BY <1>6
  <2>4. CASE i # id /\ j # id
    BY <2>1, <2>4 DEF IInv, UniqueRows
  <2>5. CASE i = id
    BY <2>1, <2>2, <2>3, <2>5
  <2>6. CASE j = id
    BY <2>1, <2>2, <2>3, <2>6
  <2> QED
    BY <2>4, <2>5, <2>6
<1>13. Quiet'
  BY <1>3, <1>4, <1>5, <1>2 DEF IInv, Quiet, Firing
<1>14. Spent'
  BY <1>5, <1>7, <1>8 DEF IInv, Spent
<1> QED
  BY <1>1, <1>9, <1>10, <1>11, <1>12, <1>13, <1>14 DEF IInv

LEMMA CancelInv ==
  ASSUME IInv, NEW id \in Ids, Cancel(id), TypeOK'
  PROVE  IInv'
<1>1. /\ id \in index /\ id \in store
      /\ cancelled' = cancelled \cup {id}
      /\ index' = index \ {id}
      /\ store' = store \ {id}
      /\ saved' = [i \in Ids |-> IF i \in {id} THEN NoRow ELSE saved[i]]
      /\ revoked' = IF Firing(id) THEN revoked ELSE revoked \cup {id}
      /\ revokedNow' = IF Firing(id) THEN revokedNow \cup {id} ELSE revokedNow
      /\ UNCHANGED <<task, queue, counter, phase, current, crashes, spent>>
  BY DEF Cancel, Deleted, Wiped, loop, IInv, Live, PendingIsDurable
<1>2. Suspended /\ store \subseteq Ids
  BY DEF Cancel, IInv, TypeOK
<1>3. Live'
  BY <1>1, <1>2 DEF IInv, Live, PendingIsDurable, NoLostTimer, Firing
<1>4. Numbered'
  BY <1>1 DEF IInv, Numbered
<1>5. Phased'
  BY <1>1, <1>2 DEF Phased, Suspended
<1>6. UniqueRows'
  BY <1>1, <1>2 DEF IInv, UniqueRows
<1>7. Quiet'
  BY <1>1 DEF IInv, Quiet, Firing
<1>8. Spent'
  BY <1>1 DEF IInv, Spent
<1> QED
  BY <1>3, <1>4, <1>5, <1>6, <1>7, <1>8 DEF IInv

LEMMA SkipInv ==
  ASSUME IInv, Skip, TypeOK'
  PROVE  IInv'
<1>1. PICK id \in Due : /\ Stale(id)
                       /\ queue' = queue \ {id}
                       /\ task' = [task EXCEPT ![id] = Blank]
                       /\ cancelled' = cancelled \ {id}
  BY DEF Skip, Freed
<1>2. /\ phase = "drain"
      /\ UNCHANGED <<index, counter, phase, current, store, saved, crashes,
                     revoked, revokedNow, spent>>
  BY DEF Skip, loop, disk, history
<1>3. id \in Ids /\ id \in queue /\ id \notin index
  BY <1>1 DEF Due, Stale, IInv, TypeOK, Live
<1>4. \A i \in Ids \ {id} : task'[i] = task[i]
  BY <1>1, <1>3 DEF IInv, TypeOK
<1>5. index \subseteq Ids /\ spent \subseteq Ids
  BY DEF IInv, TypeOK
<1>6. Live'
  BY <1>1, <1>2, <1>3, <1>4, <1>5
     DEF IInv, Live, PendingIsDurable, NoLostTimer, Firing
<1>7. Numbered'
  BY <1>1, <1>2 DEF IInv, Numbered
<1>8. Phased'
  BY <1>2 DEF Phased
<1>9. UniqueRows'
  BY <1>2 DEF IInv, UniqueRows
<1>10. Quiet'
  BY <1>2 DEF IInv, Quiet
<1>11. Spent'
  BY <1>1, <1>2, <1>3, <1>4, <1>5 DEF IInv, Spent
<1> QED
  BY <1>6, <1>7, <1>8, <1>9, <1>10, <1>11 DEF IInv

LEMMA FireInv ==
  ASSUME IInv, Fire, TypeOK'
  PROVE  IInv'
<1>1. PICK id \in Due : /\ ~Stale(id)
                       /\ queue' = queue \ {id}
                       /\ current' = id
                       /\ spent' = IF task[id].period = 0 THEN spent \cup {id}
                                   ELSE spent
  BY DEF Fire
<1>2. /\ phase = "drain" /\ phase' = "callback"
      /\ UNCHANGED <<task, index, cancelled, counter, store, saved, crashes,
                     revoked, revokedNow>>
  BY DEF Fire, disk
<1>3. id \in queue /\ id \in index /\ id \in store
  BY <1>1 DEF Due, Stale, IInv, Live, PendingIsDurable
<1>4. Live'
  BY <1>1, <1>2 DEF IInv, Live, PendingIsDurable, NoLostTimer, Firing
<1>5. Numbered'
  BY <1>1, <1>2, <1>3 DEF IInv, Numbered
<1>6. Phased'
  BY <1>2 DEF Phased
<1>7. UniqueRows'
  BY <1>2 DEF IInv, UniqueRows
<1>8. Quiet'
  BY <1>1, <1>2, <1>3 DEF IInv, Quiet
<1>9. Spent'
  BY <1>1, <1>2, <1>3 DEF IInv, Spent
<1> QED
  BY <1>4, <1>5, <1>6, <1>7, <1>8, <1>9 DEF IInv

LEMMA RearmInv ==
  ASSUME IInv, Rearm, TypeOK'
  PROVE  IInv'
<1> DEFINE t == [task[current] EXCEPT !.at = now + task[current].period]
<1>1. /\ phase = "callback" /\ phase' # "callback" /\ phase' # "down"
      /\ task[current].period > 0
      /\ task' = [task EXCEPT ![current] = t]
      /\ queue' = queue \cup {current}
      /\ UNCHANGED <<index, cancelled, counter, crashes, revoked, revokedNow, spent>>
  BY DEF Rearm, Rearms, history
<1>2. current \in Ids /\ current \notin revoked /\ current <= counter
  BY <1>1 DEF IInv, TypeOK, Quiet, Numbered
<1>3. /\ task'[current] = t /\ t.key = task[current].key /\ t.period = task[current].period
      /\ \A i \in Ids \ {current} : task'[i] = task[i]
  BY <1>1, <1>2 DEF IInv, TypeOK, Task
<1>4. /\ index \subseteq Ids /\ store \subseteq Ids /\ spent \subseteq Ids
  BY DEF IInv, TypeOK
<1>5. Conflict(current, t) => current \notin index /\ UNCHANGED <<store, saved>>
  <2> HIDE DEF t
  <2>1. SUFFICES ASSUME Conflict(current, t) PROVE current \notin index
    BY DEF Rearm, disk, t
  <2>2. PICK other \in store \ {current} : saved[other].task.key = t.key
    BY <2>1 DEF Conflict
  <2>3. Durable /\ t.key # NoKey
    BY <2>1 DEF Conflict
  <2>4. CASE current \in index
    <3>1. current \in store /\ saved[current].task.key = t.key
      BY <2>4, <1>3 DEF IInv, Live, PendingIsDurable
    <3> QED
      BY <3>1, <2>2, <2>3, <1>3 DEF IInv, UniqueRows
  <2> QED
    BY <2>4
<1>6. ASSUME ~Conflict(current, t)
      PROVE  /\ store' = store \cup {current}
             /\ saved'[current].task = t
             /\ \A i \in Ids \ {current} : saved'[i] = saved[i]
  <2>1. store' = store \cup {current} /\ saved' = Upserted(current, t)
    BY <1>6 DEF Rearm
  <2> HIDE DEF t
  <2> QED
    BY <2>1, <1>2 DEF Upserted, IInv, TypeOK
<1> HIDE DEF t
<1>7. Live'
  <2>1. PendingIsDurable'
    <3>1. CASE Conflict(current, t)
      BY <3>1, <1>1, <1>3, <1>4, <1>5 DEF IInv, Live, PendingIsDurable
    <3>2. CASE ~Conflict(current, t)
      BY <3>2, <1>1, <1>3, <1>4, <1>6 DEF IInv, Live, PendingIsDurable
    <3> QED
      BY <3>1, <3>2
  <2>2. NoLostTimer'
    BY <1>1 DEF IInv, Live, NoLostTimer, Firing
  <2> QED
    BY <2>1, <2>2, <1>1 DEF IInv, Live
<1>8. Numbered'
  BY <1>1, <1>2, <1>5, <1>6 DEF IInv, Numbered
<1>9. Phased'
  BY <1>1 DEF Phased
<1>10. UniqueRows'
  <2>1. CASE Conflict(current, t)
    BY <2>1, <1>5 DEF IInv, UniqueRows
  <2>2. CASE ~Conflict(current, t)
    <3>1. Durable /\ t.key # NoKey =>
            \A other \in store \ {current} : saved[other].task.key # t.key
      BY <2>2 DEF Conflict
    <3> QED
      BY <3>1, <2>2, <1>4, <1>6 DEF IInv, UniqueRows
  <2> QED
    BY <2>1, <2>2
<1>11. Quiet'
  BY <1>1, <1>2, <1>5, <1>6 DEF IInv, Quiet
<1>12. Spent'
  <2>1. current \notin spent
    BY <1>1 DEF IInv, Spent
  <2> QED
    BY <2>1, <1>1, <1>3, <1>4 DEF IInv, Spent
<1> QED
  BY <1>7, <1>8, <1>9, <1>10, <1>11, <1>12 DEF IInv

LEMMA FinishInv ==
  ASSUME IInv, Finish, TypeOK'
  PROVE  IInv'
<1>1. /\ phase = "callback" /\ phase' = "drain"
      /\ index' = index \ {current}
      /\ store' = store \ {current}
      /\ saved' = [i \in Ids |-> IF i \in {current} THEN NoRow ELSE saved[i]]
      /\ task' = [task EXCEPT ![current] = Blank]
      /\ UNCHANGED <<queue, cancelled, counter, crashes, revoked, revokedNow, spent>>
  BY DEF Finish, Deleted, Wiped, Freed, history
<1>2. /\ current \in Ids /\ index \subseteq Ids /\ store \subseteq Ids /\ spent \subseteq Ids
      /\ \A i \in Ids \ {current} : task'[i] = task[i] /\ saved'[i] = saved[i]
      /\ task'[current] = Blank
  BY <1>1 DEF IInv, TypeOK
<1>3. Live'
  BY <1>1, <1>2 DEF IInv, Live, PendingIsDurable, NoLostTimer, Firing
<1>4. Numbered'
  BY <1>1 DEF IInv, Numbered
<1>5. Phased'
  BY <1>1 DEF Phased
<1>6. UniqueRows'
  BY <1>1, <1>2 DEF IInv, UniqueRows
<1>7. Quiet'
  BY <1>1 DEF IInv, Quiet
<1>8. Spent'
  BY <1>1, <1>2 DEF IInv, Spent, Blank
<1> QED
  BY <1>3, <1>4, <1>5, <1>6, <1>7, <1>8 DEF IInv

LEMMA CrashInv ==
  ASSUME IInv, Crash, TypeOK'
  PROVE  IInv'
<1>1. /\ phase' = "down" /\ crashes' = crashes + 1
      /\ queue' = {} /\ index' = {} /\ cancelled' = {} /\ counter' = 0 /\ spent' = {}
      /\ IF Durable THEN UNCHANGED <<store, saved>> ELSE store' = {}
      /\ UNCHANGED <<revoked, revokedNow>>
  BY DEF Crash, disk
<1>2. crashes' > 0
  BY <1>1 DEF IInv, TypeOK
<1>3. Live' /\ Spent'
  BY <1>1 DEF Live, PendingIsDurable, NoLostTimer, Spent
<1>4. Numbered' /\ Phased'
  BY <1>1, <1>2 DEF Numbered, Phased
<1>5. UniqueRows'
  BY <1>1 DEF IInv, UniqueRows
<1>6. Quiet'
  BY <1>1, <1>2 DEF IInv, Quiet
<1> QED
  BY <1>3, <1>4, <1>5, <1>6 DEF IInv

LEMMA RestartInv ==
  ASSUME IInv, Restart, TypeOK'
  PROVE  IInv'
<1>1. /\ phase = "down" /\ phase' = "idle"
      /\ task' = [i \in Ids |-> IF i \in store THEN saved[i].task ELSE Blank]
      /\ queue' = store /\ index' = store
      /\ counter' = IF store = {} THEN 0 ELSE Max(store)
      /\ UNCHANGED <<cancelled, store, saved, crashes, revoked, revokedNow, spent>>
  BY DEF Restart, disk, history
<1>2. store \subseteq Ids /\ cancelled = {} /\ spent = {} /\ crashes > 0
  BY <1>1 DEF IInv, TypeOK, Phased
<1>3. \A i \in store : i <= counter'
  BY <1>1, <1>2, MaxOfIds
<1>4. Live'
  BY <1>1, <1>2 DEF Live, PendingIsDurable, NoLostTimer, Firing
<1>5. Numbered' /\ Phased'
  BY <1>1, <1>2, <1>3 DEF Numbered, Phased
<1>6. UniqueRows'
  BY <1>1 DEF IInv, UniqueRows
<1>7. Quiet'
  BY <1>1, <1>2 DEF IInv, Quiet
<1>8. Spent'
  BY <1>1, <1>2 DEF Spent
<1> QED
  BY <1>4, <1>5, <1>6, <1>7, <1>8 DEF IInv

\* Steps that move run() or the clock and touch no task.
LEMMA MoveInv ==
  ASSUME IInv, TypeOK', UNCHANGED <<memory, disk, crashes, history>>,
         \/ /\ phase' # "callback" /\ phase' # "down"
            /\ phase # "callback" /\ phase # "down"
         \/ UNCHANGED <<phase, current>>
  PROVE  IInv'
<1> USE DEF memory, disk, history
<1>1. Live'
  BY DEF IInv, Live, PendingIsDurable, NoLostTimer, Firing
<1>2. Numbered' /\ Phased'
  BY DEF IInv, Numbered, Phased
<1>3. UniqueRows' /\ Quiet' /\ Spent'
  BY DEF IInv, UniqueRows, Quiet, Spent
<1> QED
  BY <1>1, <1>2, <1>3 DEF IInv

LEMMA InvStep == IInv /\ [Next]_vars => IInv'
<1> SUFFICES ASSUME IInv, [Next]_vars PROVE IInv'
  OBVIOUS
<1>1. TypeOK'
  BY TypeStep DEF IInv
<1>2. CASE Schedule \/ ScheduleRecurring
  BY <1>2, SchedulingAdds, AddInv DEF IInv
<1>3. CASE \E id \in Ids : Cancel(id)
  BY <1>1, <1>3, CancelInv
<1>4. CASE Skip
  BY <1>1, <1>4, SkipInv
<1>5. CASE Fire
  BY <1>1, <1>5, FireInv
<1>6. CASE Rearm
  BY <1>1, <1>6, RearmInv
<1>7. CASE Finish
  BY <1>1, <1>7, FinishInv
<1>8. CASE Crash
  BY <1>1, <1>8, CrashInv
<1>9. CASE Restart
  BY <1>1, <1>9, RestartInv
<1>10. CASE Tick \/ Run \/ Stop \/ Sleep \/ Wake
  BY <1>1, <1>10, MoveInv DEF Tick, Run, Stop, Sleep, Wake, loop
<1>11. CASE UNCHANGED vars
  BY <1>1, <1>11, MoveInv DEF vars, memory, disk, history
<1> QED
  BY <1>2, <1>3, <1>4, <1>5, <1>6, <1>7, <1>8, <1>9, <1>10, <1>11
     DEF Next, Api, LoopStep

\* Only run() starts callbacks.
LEMMA StartsFires ==
  ASSUME [Next]_vars, NEW id \in Ids, Starts(id)
  PROVE  Fire
<1>1. phase' = "callback" /\ phase # "callback"
  BY DEF Starts
<1>2. CASE Api \/ Tick \/ Stop \/ Skip \/ UNCHANGED vars
  <2>1. ASSUME NEW new, Add(new) PROVE UNCHANGED phase
    BY <2>1 DEF Add, loop
  <2>2. ASSUME NEW i \in Ids, Cancel(i) PROVE UNCHANGED phase
    BY <2>2 DEF Cancel, loop
  <2>3. CASE Api
    BY <1>1, <2>1, <2>2, <2>3 DEF Api, Schedule, ScheduleRecurring
  <2>4. CASE Tick \/ Stop \/ Skip \/ UNCHANGED vars
    BY <1>1, <2>4 DEF Tick, Stop, Skip, vars, loop
  <2> QED
    BY <1>2, <2>3, <2>4
<1>3. CASE Run \/ Rearm \/ Finish \/ Sleep \/ Wake \/ Crash \/ Restart
  <2>1. phase' \in {"drain", "dead", "sleep", "stopped", "down", "idle"}
    BY <1>3 DEF Run, Rearm, Finish, Sleep, Wake, Crash, Restart
  <2> QED
    BY <1>1, <2>1
<1> QED
  BY <1>2, <1>3 DEF Next, LoopStep

LEMMA Invariance == Spec => []IInv
<1>1. ASSUME Init PROVE IInv
  <2>1. TypeOK
    BY <1>1, TypeInit
  <2>2. Live /\ Numbered /\ Phased
    BY <1>1 DEF Init, Live, PendingIsDurable, NoLostTimer, Numbered, Phased
  <2>3. UniqueRows /\ Quiet /\ Spent
    BY <1>1 DEF Init, UniqueRows, Quiet, Spent
  <2> QED
    BY <2>1, <2>2, <2>3 DEF IInv
<1> QED
  BY <1>1, InvStep, PTL DEF Spec

-----------------------------------------------------------------------------
(* The theorems.                                                           *)

\* A crash at any await loses no live task: the task is in the store with the
\* deadline memory has (schedule, the re-arm and __init__ agree).
THEOREM LiveTasksAreDurable == Spec => []PendingIsDurable
<1>1. IInv => PendingIsDurable
  BY DEF IInv, Live
<1> QED
  BY <1>1, Invariance, PTL

\* No path of run(), schedule() or cancel() leaves a live task without a timer.
THEOREM LiveTasksHaveTimers == Spec => []NoLostTimer
<1>1. IInv => NoLostTimer
  BY DEF IInv, Live
<1> QED
  BY <1>1, Invariance, PTL

\* With the SQLite store, schedule() under a key replaces: one live task per key.
THEOREM KeysAreUnique == ASSUME Durable PROVE Spec => []OneTaskPerKey
<1>1. IInv => OneTaskPerKey
  <2>1. Durable
    OBVIOUS
  <2> QED
    BY <2>1 DEF IInv, Live, PendingIsDurable, UniqueRows, OneTaskPerKey
<1> QED
  BY <1>1, Invariance, PTL

\* cancel() and replacement are final, except for the task in its callback.
THEOREM RevocationHolds == Spec => RevokedStaysQuiet
<1>1. ASSUME IInv, [Next]_vars
      PROVE  [\A id \in Ids : Starts(id) =>
                id \notin revoked /\ (id \in revokedNow => crashes > 0)]_vars
  <2> SUFFICES ASSUME NEW id \in Ids, Starts(id)
               PROVE  id \notin revoked /\ (id \in revokedNow => crashes > 0)
    OBVIOUS
  <2>1. Fire
    BY <1>1, StartsFires
  <2>2. id \in index /\ id \in store
    BY <2>1, <1>1 DEF Fire, Starts, Stale, IInv, Live, PendingIsDurable
  <2>3. crashes = 0 \/ crashes > 0
    BY <1>1 DEF IInv, TypeOK
  <2> QED
    BY <2>2, <2>3, <1>1 DEF IInv, Quiet
<1> QED
  BY <1>1, Invariance, PTL DEF Spec, RevokedStaysQuiet

\* A one-shot task fires once per life of the process.
THEOREM OneShotFiresOnce == Spec => OneShotOncePerLife
<1>1. ASSUME IInv, [Next]_vars
      PROVE  [\A id \in Ids : Starts(id) => id \notin spent]_vars
  <2> SUFFICES ASSUME NEW id \in Ids, Starts(id) PROVE id \notin spent
    OBVIOUS
  <2>1. Fire
    BY <1>1, StartsFires
  <2>2. id \in queue
    BY <2>1 DEF Fire, Starts, Due
  <2> QED
    BY <2>2, <1>1 DEF IInv, Spent
<1> QED
  BY <1>1, Invariance, PTL DEF Spec, OneShotOncePerLife
=============================================================================

---------------------------- MODULE SqliteKVProofs ----------------------------
(***************************************************************************)
(* Proofs about the store, for every set of tasks, rows, values and        *)
(* blocks, and for any plain writes and failures.                          *)
(*                                                                         *)
(* The argument for atomicity: only who holds the lock is in a block and   *)
(* has written anything, so the connection sees in each row either what    *)
(* that block last wrote there, or, if none did or a plain write came      *)
(* later, the state without the block.  A commit makes the former part of  *)
(* the state.  What a roll-back or a crash falls back to is the committed  *)
(* state: the state without the block, but for the rows of plain writes    *)
(* not committed yet, and for those in which a plain commit saw the block. *)
(***************************************************************************)
EXTENDS SqliteKV, TLAPS

\* Whoever is on its way through a block holds the lock.
LockInv == \A t \in Tasks : pc[t] \in {"entering", "inside"} => holder = t

\* Who has written something is in a block.
WroteInv == \A t \in Tasks, k \in Keys : wrote[t][k] # None => pc[t] = "inside"

\* The connection sees the state without the block, and the block's writes.
ViewInv ==
  /\ \A t \in Tasks, k \in Keys :
       k \notin over /\ wrote[t][k] # None => view[k] = wrote[t][k]
  /\ \A k \in Keys :
       k \in over \/ (\A t \in Tasks : wrote[t][k] = None) => view[k] = base[k]

\* What is committed is the state without the block.
DiskInv == \A k \in Keys \ (torn \cup loose) : disk[k] = base[k]

\* TypeOK without the Boolean, which needs a prover of its own.
DataOK ==
  /\ disk \in [Keys -> Values] /\ view \in [Keys -> Values]
  /\ base \in [Keys -> Values]
  /\ holder \in Tasks \cup {None}
  /\ pc \in [Tasks -> Places]
  /\ left \in [plain : Nat, faults : Nat]
  /\ wrote \in [Tasks -> Writes]
  /\ over \subseteq Keys /\ loose \subseteq Keys /\ torn \subseteq Keys

Inv == DataOK /\ LockInv /\ WroteInv /\ ViewInv /\ DiskInv

-------------------------------------------------------------------------------
LEMMA InitInv == ASSUME Init PROVE Inv
<1>1. left \in [plain : Nat, faults : Nat]
  BY BudgetsAssumption DEF Init
<1>2. Nothing \in Writes /\ \A k \in Keys : Nothing[k] = None
  BY DEF Nothing, Writes
<1>3. \A t \in Tasks, k \in Keys : wrote[t][k] = None
  BY <1>2 DEF Init
<1>4. DataOK
  BY <1>1, <1>2, SeedAssumption DEF Init, DataOK, Places
<1>5. LockInv /\ DiskInv
  BY DEF Init, LockInv, DiskInv
<1>6. WroteInv
  BY <1>3 DEF WroteInv
<1>7. ViewInv
  BY <1>3 DEF ViewInv, Init
<1> QED
  BY <1>4, <1>5, <1>6, <1>7 DEF Inv

LEMMA FaultType ==
  ASSUME left \in [plain : Nat, faults : Nat], Fault
  PROVE  left' \in [plain : Nat, faults : Nat]
BY DEF Fault

LEMMA PlainType ==
  ASSUME left \in [plain : Nat, faults : Nat], left.plain > 0,
         left' = [left EXCEPT !.plain = @ - 1]
  PROVE  left' \in [plain : Nat, faults : Nat]
OBVIOUS

\* When a transaction has ended nothing of a block is left in the histories.
LEMMA EndedType ==
  ASSUME Ended
  PROVE  /\ wrote' \in [Tasks -> Writes]
         /\ over' = {} /\ loose' = {} /\ torn' = {}
         /\ \A t \in Tasks, k \in Keys : wrote'[t][k] = None
BY DEF Ended, Nothing, Writes

\* What a block writes is a value.
LEMMA WriteType ==
  ASSUME DataOK, NEW t \in Tasks, NEW puts \in Bodies, NEW k \in Keys, puts[k] # None,
         Write(t, k, puts[k])
  PROVE  /\ view' \in [Keys -> Values] /\ wrote' \in [Tasks -> Writes]
         /\ view' = [view EXCEPT ![k] = puts[k]]
         /\ \A s \in Tasks, j \in Keys :
              wrote'[s][j] = IF s = t /\ j = k THEN puts[k] ELSE wrote[s][j]
<1>1. puts[k] \in Values
  BY BodiesAssumption DEF Writes
<1>2. view' = [view EXCEPT ![k] = puts[k]] /\ wrote' = [wrote EXCEPT ![t][k] = puts[k]]
  BY DEF Write
<1>3. view' \in [Keys -> Values]
  BY <1>1, <1>2 DEF DataOK
<1>4. wrote[t] \in [Keys -> Values \cup {None}]
  BY DEF DataOK, Writes
<1>5. wrote'[t] = [wrote[t] EXCEPT ![k] = puts[k]] /\ \A s \in Tasks \ {t} : wrote'[s] = wrote[s]
  BY <1>2 DEF DataOK
<1>6. wrote'[t] \in Writes
  BY <1>1, <1>4, <1>5 DEF Writes
<1>7. wrote' \in [Tasks -> Writes]
  <2>1. wrote' = [s \in Tasks |-> wrote'[s]]
    BY <1>2 DEF DataOK
  <2>2. \A s \in Tasks : wrote'[s] \in Writes
    BY <1>5, <1>6 DEF DataOK
  <2> QED
    BY <2>1, <2>2
<1>8. ASSUME NEW s \in Tasks, NEW j \in Keys
      PROVE  wrote'[s][j] = IF s = t /\ j = k THEN puts[k] ELSE wrote[s][j]
  BY <1>4, <1>5
<1> QED
  BY <1>2, <1>3, <1>7, <1>8

LEMMA NextKeepsData == ASSUME DataOK, [Next]_vars PROVE DataOK'
<1> USE DEF DataOK, Places, Goto
<1>1. ASSUME NEW t \in Tasks, Enter(t) PROVE DataOK'
  BY <1>1 DEF Enter, history
<1>2. ASSUME NEW t \in Tasks, Acquire(t) PROVE DataOK'
  BY <1>2 DEF Acquire, history
<1>3. ASSUME NEW t \in Tasks, Begin(t) PROVE DataOK'
  BY <1>3 DEF Begin, history
<1>4. ASSUME NEW t \in Tasks, NEW puts \in Bodies, NEW k \in Keys, puts[k] # None,
             Write(t, k, puts[k])
      PROVE  DataOK'
  <2>1. view' \in [Keys -> Values] /\ wrote' \in [Tasks -> Writes]
    BY <1>4, WriteType
  <2> QED
    BY <1>4, <2>1 DEF Write
<1>5. ASSUME NEW t \in Tasks, Commit(t) PROVE DataOK'
  BY <1>5, EndedType DEF Commit
<1>6. ASSUME NEW t \in Tasks, Abort(t) PROVE DataOK'
  BY <1>6, EndedType, FaultType DEF Abort
<1>7. ASSUME NEW t \in Tasks, CancelBegin(t) PROVE DataOK'
  BY <1>7, FaultType DEF CancelBegin, history
<1>8. ASSUME NEW t \in Tasks, NEW k \in Keys, NEW v \in Values, PlainInsert(t, k, v)
      PROVE  DataOK'
  <2>1. left' \in [plain : Nat, faults : Nat]
    BY <1>8, PlainType DEF PlainInsert
  <2>2. view' \in [Keys -> Values] /\ base' \in [Keys -> Values]
    BY <1>8 DEF PlainInsert
  <2> QED
    BY <1>8, <2>1, <2>2 DEF PlainInsert
<1>9. ASSUME NEW t \in Tasks, PlainCommit(t) PROVE DataOK'
  BY <1>9 DEF PlainCommit, Standing
<1>10. ASSUME NEW t \in Tasks, PlainCancel(t) PROVE DataOK'
  BY <1>10, FaultType DEF PlainCancel, history
<1>11. CASE Crash
  BY <1>11, EndedType, FaultType DEF Crash
<1>12. CASE UNCHANGED vars
  BY <1>12 DEF vars, history
<1> QED
  BY <1>1, <1>2, <1>3, <1>4, <1>5, <1>6, <1>7, <1>8, <1>9, <1>10, <1>11, <1>12 DEF Next

LEMMA NextKeepsOpen == ASSUME open \in BOOLEAN, [Next]_vars PROVE open' \in BOOLEAN
BY Zenon DEF Next, vars, Enter, Acquire, Begin, Write, Commit, Abort, CancelBegin,
  PlainInsert, PlainCommit, PlainCancel, Crash

\* A step of one task moves no other, and takes or gives the lock alone.
LEMMA NextKeepsLock == ASSUME DataOK, LockInv, [Next]_vars PROVE LockInv'
<1> USE DEF DataOK, LockInv, Goto
<1>1. ASSUME NEW t \in Tasks, Enter(t) PROVE LockInv'
  BY <1>1 DEF Enter
<1>2. ASSUME NEW t \in Tasks, Acquire(t) PROVE LockInv'
  BY <1>2, NoneAssumption DEF Acquire
<1>3. ASSUME NEW t \in Tasks, Begin(t) PROVE LockInv'
  BY <1>3 DEF Begin
<1>4. ASSUME NEW t \in Tasks, NEW k \in Keys, NEW v, Write(t, k, v) PROVE LockInv'
  BY <1>4 DEF Write
<1>5. ASSUME NEW t \in Tasks, Commit(t) PROVE LockInv'
  BY <1>5 DEF Commit
<1>6. ASSUME NEW t \in Tasks, Abort(t) PROVE LockInv'
  BY <1>6 DEF Abort
<1>7. ASSUME NEW t \in Tasks, CancelBegin(t) PROVE LockInv'
  BY <1>7 DEF CancelBegin
<1>8. ASSUME NEW t \in Tasks, NEW k \in Keys, NEW v \in Values, PlainInsert(t, k, v)
      PROVE  LockInv'
  BY <1>8 DEF PlainInsert
<1>9. ASSUME NEW t \in Tasks, PlainCommit(t) PROVE LockInv'
  BY <1>9 DEF PlainCommit
<1>10. ASSUME NEW t \in Tasks, PlainCancel(t) PROVE LockInv'
  BY <1>10 DEF PlainCancel
<1>11. CASE Crash
  BY <1>11 DEF Crash
<1>12. CASE UNCHANGED vars
  BY <1>12 DEF vars
<1> QED
  BY <1>1, <1>2, <1>3, <1>4, <1>5, <1>6, <1>7, <1>8, <1>9, <1>10, <1>11, <1>12 DEF Next

-------------------------------------------------------------------------------
\* What the other steps of a task leave alone.
LEMMA RowsStand ==
  ASSUME WroteInv, ViewInv, DiskInv, UNCHANGED <<disk, view, history>>,
         \A t \in Tasks : pc[t] = "inside" => pc'[t] = "inside"
  PROVE  (WroteInv /\ ViewInv /\ DiskInv)'
BY DEF WroteInv, ViewInv, DiskInv, history

\* All rows are committed as the connection sees them, or it sees what is
\* committed, and no block is under way.
LEMMA RowsMeet ==
  ASSUME Ended, disk' = base', view' = base'
  PROVE  (WroteInv /\ ViewInv /\ DiskInv)'
BY EndedType DEF WroteInv, ViewInv, DiskInv

LEMMA NextKeepsRows ==
  ASSUME DataOK, LockInv, WroteInv, ViewInv, DiskInv, [Next]_vars
  PROVE  (WroteInv /\ ViewInv /\ DiskInv)'
<1>1. ASSUME NEW t \in Tasks,
             Enter(t) \/ Acquire(t) \/ Begin(t) \/ CancelBegin(t) \/ PlainCancel(t)
      PROVE  (WroteInv /\ ViewInv /\ DiskInv)'
  <2>1. UNCHANGED <<disk, view, history>>
    BY <1>1 DEF Enter, Acquire, Begin, CancelBegin, PlainCancel
  <2>2. \A s \in Tasks : pc[s] = "inside" => pc'[s] = "inside"
    BY <1>1 DEF DataOK, Goto, Enter, Acquire, Begin, CancelBegin, PlainCancel
  <2> QED
    BY <2>1, <2>2, RowsStand
<1>2. ASSUME NEW t \in Tasks, NEW puts \in Bodies, NEW k \in Keys, puts[k] # None,
             Write(t, k, puts[k])
      PROVE  (WroteInv /\ ViewInv /\ DiskInv)'
  <2>1. /\ pc[t] = "inside" /\ holder = t /\ over' = over \ {k}
        /\ UNCHANGED <<disk, pc, base, loose, torn>>
    BY <1>2 DEF Write, LockInv
  <2>2. /\ view' = [view EXCEPT ![k] = puts[k]]
        /\ \A s \in Tasks, j \in Keys :
             wrote'[s][j] = IF s = t /\ j = k THEN puts[k] ELSE wrote[s][j]
    BY <1>2, WriteType
  <2>3. \A s \in Tasks \ {t} : \A j \in Keys : wrote[s][j] = None
    BY <2>1 DEF WroteInv, LockInv
  <2>4. WroteInv'
    BY <2>1, <2>2 DEF WroteInv
  <2>5. ASSUME NEW s \in Tasks, NEW j \in Keys, j \notin over', wrote'[s][j] # None
        PROVE  view'[j] = wrote'[s][j]
    <3>1. CASE j = k
      BY <2>2, <2>3, <2>5, <3>1 DEF DataOK
    <3>2. CASE j # k
      BY <2>1, <2>2, <2>5, <3>2 DEF DataOK, ViewInv
    <3> QED
      BY <3>1, <3>2
  <2>6. ASSUME NEW j \in Keys, j \in over' \/ \A s \in Tasks : wrote'[s][j] = None
        PROVE  view'[j] = base'[j]
    <3>1. j # k
      BY <1>2, <2>1, <2>2, <2>6
    <3>2. view'[j] = view[j] /\ (j \in over \/ \A s \in Tasks : wrote[s][j] = None)
      BY <2>1, <2>2, <2>6, <3>1 DEF DataOK
    <3> QED
      BY <2>1, <3>2 DEF ViewInv
  <2>7. ViewInv'
    BY <2>5, <2>6 DEF ViewInv
  <2>8. DiskInv'
    BY <2>1 DEF DiskInv
  <2> QED
    BY <2>4, <2>7, <2>8
<1>3. ASSUME NEW t \in Tasks, Commit(t) \/ Abort(t) PROVE (WroteInv /\ ViewInv /\ DiskInv)'
  <2>1. Ended /\ disk' = base' /\ view' = base'
    BY <1>3 DEF Commit, Abort
  <2> QED
    BY <2>1, RowsMeet
<1>4. ASSUME NEW t \in Tasks, NEW k \in Keys, NEW v \in Values, PlainInsert(t, k, v)
      PROVE  (WroteInv /\ ViewInv /\ DiskInv)'
  <2>1. /\ view' = [view EXCEPT ![k] = v] /\ base' = [base EXCEPT ![k] = v]
        /\ over' = over \cup {k} /\ loose' = loose \cup {k}
        /\ UNCHANGED <<disk, wrote, torn>>
    BY <1>4 DEF PlainInsert
  <2>2. \A s \in Tasks : pc[s] = "inside" => pc'[s] = "inside"
    BY <1>4 DEF PlainInsert, Goto, DataOK
  <2>3. WroteInv'
    BY <2>1, <2>2 DEF WroteInv
  <2>4. \A j \in Keys : IF j = k THEN view'[j] = v /\ base'[j] = v
                                 ELSE view'[j] = view[j] /\ base'[j] = base[j]
    BY <2>1 DEF DataOK
  <2>5. ViewInv'
    BY <2>1, <2>4 DEF ViewInv
  <2>6. DiskInv'
    BY <2>1, <2>4 DEF DiskInv
  <2> QED
    BY <2>3, <2>5, <2>6
<1>5. ASSUME NEW t \in Tasks, PlainCommit(t) PROVE (WroteInv /\ ViewInv /\ DiskInv)'
  <2>1. disk' = view /\ torn' = Standing /\ UNCHANGED <<view, wrote, base, over>>
    BY <1>5 DEF PlainCommit
  <2>2. \A s \in Tasks : pc[s] = "inside" => pc'[s] = "inside"
    BY <1>5 DEF PlainCommit, Goto, DataOK
  <2>3. WroteInv' /\ ViewInv'
    BY <2>1, <2>2 DEF WroteInv, ViewInv
  <2>4. DiskInv'
    BY <2>1 DEF DiskInv, ViewInv, Standing
  <2> QED
    BY <2>3, <2>4
<1>6. CASE Crash
  <2>1. Ended /\ disk' = base' /\ view' = base'
    BY <1>6 DEF Crash
  <2> QED
    BY <2>1, RowsMeet
<1>7. CASE UNCHANGED vars
  BY <1>7, RowsStand DEF vars
<1> QED
  BY <1>1, <1>2, <1>3, <1>4, <1>5, <1>6, <1>7 DEF Next

LEMMA NextKeepsInv == ASSUME Inv, [Next]_vars PROVE Inv'
BY NextKeepsData, NextKeepsLock, NextKeepsRows DEF Inv

\* Every variable of the store keeps its type, and whoever is in a block holds
\* the lock: at most one block is under way (sqlite_kv.py:41-55, 231-257).
THEOREM TypeCorrect == Spec => []TypeOK
<1> DEFINE Typed == Inv /\ open \in BOOLEAN
<1>1. Typed => TypeOK
  BY Zenon DEF Inv, DataOK, LockInv, TypeOK
<1>2. Init => Typed
  <2>1. Init => Inv
    BY InitInv
  <2>2. Init => open \in BOOLEAN
    BY Zenon DEF Init
  <2> QED
    BY <2>1, <2>2
<1>3. Typed /\ [Next]_vars => Typed'
  BY NextKeepsInv, NextKeepsOpen
<1> HIDE DEF Typed
<1> QED
  BY <1>1, <1>2, <1>3, PTL DEF Spec

-------------------------------------------------------------------------------
\* Everything a block has written shows up at its commit.
LEMMA CommitIsBlock ==
  ASSUME Inv, NEW t \in Tasks, Commit(t)
  PROVE  Store!Block(wrote[t])
<1> USE DEF Inv
<1>1. pc[t] = "inside" /\ holder = t /\ base' = view /\ over' = {}
  BY EndedType DEF Commit, LockInv
<1>2. \A s \in Tasks \ {t} : \A k \in Keys : wrote[s][k] = None
  BY <1>1 DEF WroteInv, LockInv
<1>3. ASSUME NEW k \in Keys
      PROVE  view[k] = IF wrote[t][k] = None \/ k \in over THEN base[k] ELSE wrote[t][k]
  <2>1. CASE k \in over
    BY <2>1 DEF ViewInv
  <2>2. CASE k \notin over /\ wrote[t][k] # None
    BY <2>2 DEF ViewInv
  <2>3. CASE wrote[t][k] = None
    BY <1>2, <2>3 DEF ViewInv
  <2> QED
    BY <2>1, <2>2, <2>3
<1>4. view = [k \in Keys |-> IF wrote[t][k] = None \/ k \in over THEN base[k] ELSE wrote[t][k]]
  BY <1>3 DEF DataOK
<1> QED
  BY <1>1, <1>4 DEF Store!Block

\* A roll-back or a crash falls back to the state without the block.
LEMMA RollBackIsDamage ==
  ASSUME Inv, Fault, base' = disk
  PROVE  Damage
BY DEF Inv, DiskInv, Damage

\* A block changes the state at its commit, a plain write changes its row at
\* once, and a failure changes only what had been damaged before.
LEMMA NextIsAtomic ==
  ASSUME Inv, [Next]_vars
  PROVE  [Store!Next \/ Damage]_<<base, over>>
<1>1. ASSUME NEW t \in Tasks,
             \/ Enter(t) \/ Acquire(t) \/ Begin(t) \/ CancelBegin(t)
             \/ PlainCommit(t) \/ PlainCancel(t)
      PROVE  UNCHANGED <<base, over>>
  BY <1>1 DEF Enter, Acquire, Begin, CancelBegin, PlainCommit, PlainCancel, history
<1>2. ASSUME NEW t \in Tasks, NEW k \in Keys, NEW v, Write(t, k, v) PROVE Store!Next
  BY <1>2 DEF Write, Store!Next, Store!Written
<1>3. ASSUME NEW t \in Tasks, wrote[t] \in Bodies, Commit(t) PROVE Store!Next
  BY <1>3, CommitIsBlock DEF Store!Next
<1>4. ASSUME NEW t \in Tasks, NEW k \in Keys, NEW v \in Values, PlainInsert(t, k, v)
      PROVE  Store!Next
  BY <1>4 DEF PlainInsert, Store!Next, Store!Plain
<1>5. ASSUME NEW t \in Tasks, Abort(t) PROVE Damage
  BY <1>5, RollBackIsDamage DEF Abort
<1>6. CASE Crash
  BY <1>6, RollBackIsDamage DEF Crash
<1>7. CASE UNCHANGED vars
  BY <1>7 DEF vars, history
<1> QED
  BY <1>1, <1>2, <1>3, <1>4, <1>5, <1>6, <1>7 DEF Next

\* Outside blocks the connection sees the state.
LEMMA InvSettles == ASSUME Inv PROVE Settled
<1>1. ASSUME holder = None PROVE view = base
  <2>1. \A t \in Tasks : pc[t] # "inside"
    BY <1>1, NoneAssumption DEF Inv, LockInv
  <2>2. \A k \in Keys : view[k] = base[k]
    BY <2>1 DEF Inv, WroteInv, ViewInv
  <2> QED
    BY <2>2 DEF Inv, DataOK
<1> QED
  BY <1>1 DEF Inv, DiskInv, Settled

\* Whatever a block writes shows up as a whole at its commit, although plain
\* writes of any rows come between its statements; and a block that is left by
\* an exception, a cancellation or a crash takes back all it wrote and nothing
\* else, but for the rows of plain writes not committed yet and for the block's
\* rows that a plain commit made durable (sqlite_kv.py:202-257).
THEOREM BlocksAreAtomic == Spec => Atomic
<1>1. Init => Store!Init
  BY DEF Init, Store!Init
<1>2. Init => Inv
  BY InitInv
<1>3. Inv /\ [Next]_vars => Inv'
  BY NextKeepsInv
<1>4. Inv => Settled
  BY InvSettles
<1>5. ASSUME Inv, [Next]_vars
      PROVE  [(Store!Next \/ Damage \/ UNCHANGED <<base, over>>) /\ Settled']_vars
  <2>1. Store!Next \/ Damage \/ UNCHANGED <<base, over>>
    BY <1>5, NextIsAtomic
  <2>2. Settled'
    BY <1>3, <1>4, <1>5, PTL
  <2> QED
    BY <2>1, <2>2
<1> QED
  BY <1>1, <1>2, <1>3, <1>4, <1>5, PTL DEF Spec, Atomic
===============================================================================

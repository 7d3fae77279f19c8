------------------------------- MODULE SqliteKV -------------------------------
(***************************************************************************)
(* linling_core/storage/sqlite_kv.py: one shared SQLite connection.        *)
(*                                                                         *)
(* Coroutines send statements to the connection one at a time; a statement *)
(* runs as a whole, others come between two statements of one coroutine.   *)
(* The connection has at most one transaction, whoever began it.  An       *)
(* explicit one is guarded by _tx_lock; a plain write() or delete(), of    *)
(* any row, takes no lock: it begins one implicitly unless one is open,    *)
(* and its commit ends whichever is open.  Reads see what was written and  *)
(* not committed: they are on the same connection.                         *)
(***************************************************************************)
EXTENDS Integers

CONSTANTS
  Tasks,    \* coroutines that use the store
  None,     \* no task, no value
  Keys,     \* rows
  Values,   \* what a row may hold, or be missing
  Seed,     \* what the file holds at first
  Bodies,   \* what a block may write: of each row its last value, or None
  Budgets   \* bound: how many plain writes and how many faults may come

\* What a block has written of each row.
Writes == [Keys -> Values \cup {None}]
Nothing == [k \in Keys |-> None]

ASSUME SeedAssumption == Seed \in [Keys -> Values]
ASSUME BodiesAssumption == Bodies \subseteq Writes
ASSUME NoneAssumption == None \notin Tasks \cup Values
ASSUME BudgetsAssumption == Budgets \subseteq [plain : Nat, faults : Nat]

VARIABLES
  disk,     \* what is committed
  view,     \* what the connection sees
  open,     \* the connection is in a transaction
  holder,   \* who holds _tx_lock
  pc,       \* where each task is
  left,     \* the plain writes and faults still to come
  wrote,    \* history: what each task's block has written
  base,     \* history: view without the writes of the block under way
  over,     \* history: rows plainly written since that block last wrote them
  loose,    \* history: rows of plain writes that nothing has committed yet
  torn      \* history: rows of that block that a plain commit made durable

history == <<wrote, base, over, loose, torn>>
vars == <<disk, view, open, holder, pc, left, history>>

\* idle: outside; waiting: for the lock; entering: BEGIN is under way; inside:
\* in the with block; inserted: a plain write has executed its INSERT; failed:
\* an exception has left the block or the write.
Places == {"idle", "waiting", "entering", "inside", "inserted", "failed"}

Goto(t, place) == pc' = [pc EXCEPT ![t] = place]

\* The rows in which the connection sees the block under way.
Standing == {k \in Keys \ over : \E t \in Tasks : wrote[t][k] # None}

\* No transaction is under way any more, committed or rolled back.
Ended == /\ wrote' = [t \in Tasks |-> Nothing]
         /\ over' = {} /\ loose' = {} /\ torn' = {}

Init ==
  /\ disk = Seed /\ view = Seed /\ open = FALSE
  /\ holder = None
  /\ pc = [t \in Tasks |-> "idle"]
  /\ left \in Budgets
  /\ wrote = [t \in Tasks |-> Nothing] /\ base = Seed
  /\ over = {} /\ loose = {} /\ torn = {}

\* async with store.transaction(): the call, and the lock.
Enter(t) ==
  /\ pc[t] = "idle"
  /\ Goto(t, "waiting")
  /\ UNCHANGED <<disk, view, open, holder, left, history>>

\* Bug: __aenter__ does not wait for the lock.
AcquireAnyway(t) ==
  /\ pc[t] = "waiting"
  /\ holder' = t
  /\ Goto(t, "entering")
  /\ UNCHANGED <<disk, view, open, left, history>>

Acquire(t) ==
  /\ pc[t] = "waiting" /\ holder = None
  /\ holder' = t
  /\ Goto(t, "entering")
  /\ UNCHANGED <<disk, view, open, left, history>>

\* BEGIN is refused while a plain write has its implicit transaction open: the
\* lock is released and the exception goes to the caller.
Begin(t) ==
  /\ pc[t] = "entering"
  /\ \/ /\ ~open /\ open' = TRUE
        /\ Goto(t, "inside") /\ UNCHANGED holder
     \/ /\ open /\ UNCHANGED open
        /\ holder' = None /\ Goto(t, "failed")
  /\ UNCHANGED <<disk, view, left, history>>

\* Bug: a block's write commits like a plain one.
WriteCommits(t, k, v) ==
  /\ pc[t] = "inside"
  /\ view' = [view EXCEPT ![k] = v]
  /\ disk' = view' /\ open' = FALSE
  /\ wrote' = [wrote EXCEPT ![t][k] = v] /\ over' = over \ {k}
  /\ UNCHANGED <<holder, pc, left, base, loose, torn>>

\* tx.write(): begins a transaction if a plain commit has ended the block's own.
Write(t, k, v) ==
  /\ pc[t] = "inside"
  /\ view' = [view EXCEPT ![k] = v]
  /\ open' = TRUE
  /\ wrote' = [wrote EXCEPT ![t][k] = v] /\ over' = over \ {k}
  /\ UNCHANGED <<disk, holder, pc, left, base, loose, torn>>

\* The block is left: commit, and the lock is released.
Commit(t) ==
  /\ pc[t] = "inside"
  /\ disk' = view /\ base' = view /\ open' = FALSE
  /\ holder' = None
  /\ Goto(t, "idle")
  /\ Ended
  /\ UNCHANGED <<view, left>>

Fault == left.faults > 0 /\ left' = [left EXCEPT !.faults = @ - 1]

\* An exception, or the task's cancellation, leaves the block: rollback.
Abort(t) ==
  /\ pc[t] = "inside" /\ Fault
  /\ view' = disk /\ base' = disk /\ open' = FALSE
  /\ holder' = None
  /\ Goto(t, "failed")
  /\ Ended
  /\ UNCHANGED disk

\* The task is cancelled while BEGIN is under way.  CancelledError is no
\* Exception: the lock stays held.  The statement may have run all the same.
CancelBegin(t) ==
  /\ pc[t] = "entering" /\ Fault
  /\ open' \in {open, TRUE}
  /\ Goto(t, "failed")
  /\ UNCHANGED <<disk, view, holder, history>>

\* write() or delete() outside a transaction: the statement, then commit.
PlainInsert(t, k, v) ==
  /\ pc[t] = "idle" /\ left.plain > 0
  /\ view' = [view EXCEPT ![k] = v] /\ base' = [base EXCEPT ![k] = v]
  /\ open' = TRUE
  /\ left' = [left EXCEPT !.plain = @ - 1]
  /\ Goto(t, "inserted")
  /\ over' = over \cup {k} /\ loose' = loose \cup {k}
  /\ UNCHANGED <<disk, holder, wrote, torn>>

PlainCommit(t) ==
  /\ pc[t] = "inserted"
  /\ disk' = view /\ open' = FALSE
  /\ Goto(t, "idle")
  /\ loose' = {} /\ torn' = Standing
  /\ UNCHANGED <<view, holder, left, wrote, base, over>>

\* The task is cancelled between the two: the transaction stays open.
PlainCancel(t) ==
  /\ pc[t] = "inserted" /\ Fault
  /\ Goto(t, "failed")
  /\ UNCHANGED <<disk, view, open, holder, history>>

\* The process dies and starts again: every task and lock is gone.
Crash ==
  /\ Fault
  /\ view' = disk /\ base' = disk /\ open' = FALSE
  /\ holder' = None
  /\ pc' = [t \in Tasks |-> "idle"]
  /\ Ended
  /\ UNCHANGED disk

Next ==
  \/ \E t \in Tasks :
       \/ Enter(t) \/ Acquire(t) \/ Begin(t)
       \/ \E puts \in Bodies, k \in Keys : puts[k] # None /\ Write(t, k, puts[k])
       \/ wrote[t] \in Bodies /\ Commit(t)
       \/ Abort(t) \/ CancelBegin(t)
       \/ \E k \in Keys, v \in Values : PlainInsert(t, k, v)
       \/ PlainCommit(t) \/ PlainCancel(t)
  \/ Crash

Spec == Init /\ [][Next]_vars

-------------------------------------------------------------------------------
\* Every variable keeps its type, and whoever is in a block holds the lock.
TypeOK ==
  /\ disk \in [Keys -> Values] /\ view \in [Keys -> Values]
  /\ base \in [Keys -> Values]
  /\ open \in BOOLEAN
  /\ holder \in Tasks \cup {None}
  /\ pc \in [Tasks -> Places]
  /\ \A t \in Tasks : pc[t] \in {"entering", "inside"} => holder = t
  /\ left \in [plain : Nat, faults : Nat]
  /\ wrote \in [Tasks -> Writes]
  /\ over \subseteq Keys /\ loose \subseteq Keys /\ torn \subseteq Keys

\* Whatever a block writes shows up as a whole at its commit, although the
\* statements of other coroutines come in between and write the same rows; and
\* an exception, a cancellation or a crash, after any statement, takes back what
\* was written of the block and changes nothing else - but for the rows of plain
\* writes not committed yet, and for the block's rows that a plain commit made
\* durable (sqlite_kv.py:202-257).
Store == INSTANCE AtomicStore WITH data <- base, later <- over

Damage == Fault /\ \A k \in Keys \ (torn \cup loose) : base'[k] = base[k]

\* What it shows up in: the file, and outside blocks the connection.
Settled ==
  /\ \A k \in Keys \ (torn \cup loose) : disk[k] = base[k]
  /\ holder = None => view = base

Atomic ==
  /\ Store!Init /\ Settled
  /\ [][(Store!Next \/ Damage \/ UNCHANGED <<base, over>>) /\ Settled']_vars

\* "Commits on success, rolls back on exception": a block left by an exception
\* leaves no row as it wrote it (sqlite_kv.py:203-208).  A plain commit in the
\* middle of the block (sqlite_kv.py:108) breaks this.
RollsBack ==
  [][\A t \in Tasks : Abort(t) => \A k \in Keys \ loose : view'[k] = base[k]]_vars

\* The lock is held for the duration of the with block and no longer: whoever
\* holds it is on its way through the block (sqlite_kv.py:234).
LockIsForTheBlock ==
  holder # None => pc[holder] \in {"entering", "inside"}
===============================================================================

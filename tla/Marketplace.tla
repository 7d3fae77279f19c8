------------------------------ MODULE Marketplace ------------------------------
(***************************************************************************)
(* linling_tools_stdlib/trade_ops.py: players list goods for coins, buy    *)
(* from each other's listings and cancel their own.                        *)
(*                                                                         *)
(* Listing takes the goods out of the seller's bag into the listing's      *)
(* "left" (escrow).  Each operation reads the clock, then does everything  *)
(* in one transaction of the store (SqliteKV), a statement at a time.      *)
(* Expired listings are refunded lazily: by whoever tries to buy them, or  *)
(* by whoever looks at the stall, who collects them without the            *)
(* transaction's protection and refunds them in one afterwards.            *)
(*                                                                         *)
(* Listings and indexes are written by nobody else.  Coins and goods are:  *)
(* rules read such a row and later write it plainly, without the lock of   *)
(* the transaction (bot/rules/main.ling).                                  *)
(*                                                                         *)
(* Rows are keyed by tuples.  Listing ids are fresh: the code draws one of *)
(* 36^4 and does not look whether it is taken.                             *)
(***************************************************************************)
EXTENDS Integers, Sequences, FiniteSets, SequencesExt, FiniteSetsExt, TLC

CONSTANTS
  Tasks,       \* calls of the tools that may be under way
  None,
  Players,     \* who trades
  Admin,       \* _BOT_FEE_ACCOUNT
  Items,       \* TRADABLE_ITEMS
  Ids,         \* bound: the listings that can be made
  Quantities, Prices, Durations,  \* bound: what callers ask for
  Wealth, Stock,  \* coins of each player at first, and goods of each kind
  MaxActive,   \* _MAX_ACTIVE_LISTINGS_PER_SELLER
  Cooldown,    \* _BUY_COOLDOWN_S
  FeePercent,  \* _FEE_RATE
  MaxTime,     \* bound: the clock
  MaxCalls,    \* bound: how many calls are made
  Budgets      \* bound: plain writes and faults, see SqliteKV

Owners == Players \cup {Admin}

\* The rows the marketplace uses.
Coins(p) == <<"coins", p>>
Bag(p, i) == <<"bag", p, i>>
Listing(id) == <<"listing", id>>
SellerIndex(p) == <<"seller", p>>
LastBuy(id, p) == <<"bought", id, p>>
GlobalIndex == <<"global">>

Rows == {Coins(p) : p \in Owners} \cup {Bag(p, i) : p \in Players, i \in Items}
          \cup {Listing(id) : id \in Ids} \cup {SellerIndex(p) : p \in Players}
          \cup {LastBuy(id, p) : id \in Ids, p \in Players} \cup {GlobalIndex}

NoListing == [status |-> "none"]

Stocked ==
  [k \in Rows |->
     CASE k[1] = "coins" -> IF k[2] \in Players THEN Wealth ELSE 0
       [] k[1] = "bag" -> Stock
       [] k[1] = "listing" -> NoListing
       [] k[1] \in {"seller", "global"} -> {}
       [] OTHER -> 0]

VARIABLES
  disk, view, open, holder, pc, left, wrote, base, over, loose, torn,  \* SqliteKV's
  now,    \* the clock, in units of the cooldown's
  calls,  \* how many calls have been made
  call,   \* what each task was asked, with the time it read
  jobs,   \* the listings a task looking at the stall has yet to read or refund
  todo,   \* the statements each task's block has yet to run; None: undecided
  seen,   \* the coins and goods its block has read
  earned,  \* history: what rules have added, of coins and of each kind of goods
  kept,    \* history: earned at the last commit
  spoiled  \* history: how plain writes and blocks have hurt each other

KV == INSTANCE SqliteKV WITH Keys <- Rows, Seed <- Stocked, Values <- {1}, Bodies <- {}

store == <<disk, view, open, holder, pc, left, wrote, base, over, loose, torn>>
block == <<todo, seen>>
history == <<earned, kept, spoiled>>
vars == <<store, now, calls, call, jobs, block, history>>

Idle == [op |-> "idle"]

Init ==
  /\ KV!Init
  /\ now = 1 /\ calls = 0
  /\ call = [t \in Tasks |-> Idle]
  /\ jobs = [t \in Tasks |-> {}]
  /\ todo = [t \in Tasks |-> None] /\ seen = [t \in Tasks |-> <<>>]
  /\ earned = [kind \in {"coins"} \cup Items |-> 0] /\ kept = earned /\ spoiled = {}

\* The statements of a block: read a row and give up below min; write what was
\* read of a row, changed by n; write a row.
Get(k, min) == [do |-> "get", key |-> k, min |-> min]
Add(k, n) == [do |-> "add", key |-> k, by |-> n]
Put(k, v) == [do |-> "put", key |-> k, value |-> v]

\* The rows after the statements, but for coins and goods.
After(kv, todos) ==
  FoldLeft(LAMBDA acc, s : IF s.do = "put" THEN [acc EXCEPT ![s.key] = s.value] ELSE acc,
           kv, todos)

\* ceil(n * (1 + rate)): the fee is rounded up.
Gross(n) == (n * (100 + FeePercent) + 99) \div 100

-------------------------------------------------------------------------------
(* The statements of each block, given the listings, indexes and purchases *)
(* it reads; none when it refuses.                                         *)

\* _credit_inventory.
Credit(p, i, n) == <<Get(Bag(p, i), 0), Add(Bag(p, i), n)>>

\* Bug: a listing that is closed stays in the index.
DropNothing(kv, id) == <<>>

DropFromIndex(kv, id) ==
  IF id \in kv[GlobalIndex] THEN <<Put(GlobalIndex, kv[GlobalIndex] \ {id})>> ELSE <<>>

\* Give what is left back to the seller and close the listing.
Close(kv, id, status) ==
  LET l == kv[Listing(id)] IN
  (IF l.left > 0 \/ status = "cancelled" THEN Credit(l.seller, l.item, l.left) ELSE <<>>)
    \o <<Put(Listing(id), [l EXCEPT !.status = status, !.left = 0])>>
    \o DropFromIndex(kv, id)

ListBody(kv, c) ==
  LET active == {id \in kv[SellerIndex(c.who)] : kv[Listing(id)].status = "active"}
      bag == Bag(c.who, c.item) IN
  IF Cardinality(active) >= MaxActive
  THEN <<>>
  ELSE <<Get(bag, c.qty), Add(bag, -c.qty),
         Put(Listing(c.id),
             [status |-> "active", seller |-> c.who, item |-> c.item,
              total |-> c.qty, left |-> c.qty, price |-> c.price,
              expire |-> c.now + c.duration]),
         Put(SellerIndex(c.who), kv[SellerIndex(c.who)] \cup {c.id}),
         Put(GlobalIndex, kv[GlobalIndex] \cup {c.id})>>

Expired(l, time) == l.status = "expired" \/ time > l.expire

\* Bug: the last unit of the cooldown is not counted.
CoolingDownShort(kv, c) ==
  LET last == kv[LastBuy(c.id, c.who)] IN last # 0 /\ c.now - last < Cooldown - 1

CoolingDown(kv, c) ==
  LET last == kv[LastBuy(c.id, c.who)] IN last # 0 /\ c.now - last < Cooldown

\* The buyer pays, the seller and the fee account are paid, goods move.  All
\* three balances are read before the first is written.
BuyBody(kv, c) ==
  LET l == kv[Listing(c.id)]
      price == c.qty * l.price
      gross == Gross(price)
      fee == gross - price
      rest == l.left - c.qty IN
  CASE l.status = "none" -> <<>>
    [] l.status # "none" /\ Expired(l, c.now) -> Close(kv, c.id, "expired")
    [] l.status \in {"sold_out", "cancelled"} /\ ~Expired(l, c.now) -> <<>>
    [] l.status = "active" /\ ~Expired(l, c.now) ->
         IF c.who = l.seller \/ l.left < c.qty \/ CoolingDown(kv, c)
         THEN <<>>
         ELSE <<Get(Coins(c.who), gross), Get(Coins(l.seller), 0), Get(Coins(Admin), 0),
                Add(Coins(c.who), -gross), Add(Coins(l.seller), price)>>
              \o (IF fee > 0 THEN <<Add(Coins(Admin), fee)>> ELSE <<>>)
              \o Credit(c.who, l.item, c.qty)
              \o (IF rest = 0 THEN DropFromIndex(kv, c.id) ELSE <<>>)
              \o <<Put(Listing(c.id),
                       [l EXCEPT !.left = rest,
                                 !.status = IF rest = 0 THEN "sold_out" ELSE @]),
                   Put(LastBuy(c.id, c.who), c.now)>>

CancelBody(kv, c) ==
  LET l == kv[Listing(c.id)] IN
  IF l.status # "active" \/ l.seller # c.who THEN <<>> ELSE Close(kv, c.id, "cancelled")

\* The sweep reads every listing again: the snapshot is only a hint.
RefundOne(kv, id) ==
  CASE kv[Listing(id)].status = "none" -> <<>>
    [] kv[Listing(id)].status = "active" -> Close(kv, id, "expired")
    [] OTHER -> DropFromIndex(kv, id)

RefundBody(kv, due) ==
  FoldLeft(LAMBDA todos, id : todos \o RefundOne(After(kv, todos), id),
           <<>>, SetToSortSeq(due, <))

Block(kv, t) ==
  CASE call[t].op = "list" -> ListBody(kv, call[t])
    [] call[t].op = "buy" -> BuyBody(kv, call[t])
    [] call[t].op = "cancel" -> CancelBody(kv, call[t])
    [] call[t].op = "look" -> RefundBody(kv, jobs[t])

-------------------------------------------------------------------------------
Taken == {call[t].id : t \in {u \in Tasks : call[u].op = "list"}}
           \cup {id \in Ids : view[Listing(id)].status # "none"}

Requests(time) ==
  [op : {"list"}, who : Players, item : Items, qty : Quantities, price : Prices,
   duration : Durations, id : IF Ids \subseteq Taken THEN {} ELSE {Min(Ids \ Taken)},
   now : {time}]
    \cup [op : {"buy"}, who : Players, id : Taken, qty : Quantities, now : {time}]
    \cup [op : {"cancel"}, who : Players, id : Taken, now : {time}]

\* marketplace_list, _buy, _cancel: up to the transaction.  Nobody looks at the
\* clock but a call that begins: the time that has passed shows up there.
Call(t) ==
  /\ call[t].op = "idle" /\ calls < MaxCalls
  /\ calls' = calls + 1
  /\ KV!Enter(t)
  /\ \E time \in now .. MaxTime : \E c \in Requests(time) :
       now' = time /\ call' = [call EXCEPT ![t] = c]
  /\ UNCHANGED <<jobs, block, history>>

\* marketplace_list_active and market_card read the index, the clock, and then
\* one listing after the other: past-due ones are kept for the sweep.
Look(t) ==
  /\ pc[t] = "idle" /\ call[t].op = "idle" /\ calls < MaxCalls
  /\ calls' = calls + 1
  /\ now' \in now .. MaxTime
  /\ call' = [call EXCEPT ![t] = [op |-> "look", unread |-> view[GlobalIndex], now |-> now']]
  /\ UNCHANGED <<store, jobs, block, history>>

LookAt(t) ==
  /\ pc[t] = "idle" /\ call[t].op = "look"
  /\ \E id \in call[t].unread :
       LET l == view[Listing(id)]
           due == l.status = "active" /\ call[t].now > l.expire IN
       /\ call' = [call EXCEPT ![t].unread = @ \ {id}]
       /\ jobs' = [jobs EXCEPT ![t] = IF due THEN @ \cup {id} ELSE @]
  /\ UNCHANGED <<store, now, calls, block, history>>

\* Nothing is due, or the sweep's transaction begins.
Looked(t) ==
  /\ pc[t] = "idle" /\ call[t].op = "look" /\ call[t].unread = {}
  /\ IF jobs[t] = {}
     THEN call' = [call EXCEPT ![t] = Idle] /\ UNCHANGED store
     ELSE KV!Enter(t) /\ UNCHANGED call
  /\ UNCHANGED <<now, calls, jobs, block, history>>

\* The block's reads of rows that only blocks write: while the lock is held
\* they stay as they are.
Decide(t) ==
  /\ pc[t] = "inside" /\ todo[t] = None
  /\ todo' = [todo EXCEPT ![t] = Block(view, t)]
  /\ UNCHANGED <<store, now, calls, call, jobs, seen, history>>

\* The next statement of the block.
Statement(t) ==
  /\ pc[t] = "inside" /\ todo[t] \notin {None, <<>>}
  /\ LET s == Head(todo[t]) IN
       \/ /\ s.do = "get" /\ view[s.key] < s.min
          /\ todo' = [todo EXCEPT ![t] = <<>>]
          /\ UNCHANGED <<store, seen>>
       \/ /\ s.do = "get" /\ view[s.key] >= s.min
          /\ todo' = [todo EXCEPT ![t] = Tail(@)]
          /\ seen' = [seen EXCEPT ![t] = (s.key :> view[s.key]) @@ @]
          /\ UNCHANGED store
       \/ /\ s.do = "add" /\ KV!Write(t, s.key, seen[t][s.key] + s.by)
          /\ todo' = [todo EXCEPT ![t] = Tail(@)] /\ UNCHANGED seen
       \/ /\ s.do = "put" /\ KV!Write(t, s.key, s.value)
          /\ todo' = [todo EXCEPT ![t] = Tail(@)] /\ UNCHANGED seen
  /\ UNCHANGED <<now, calls, call, jobs, history>>

Acquire(t) == KV!Acquire(t) /\ UNCHANGED <<now, calls, call, jobs, block, history>>

\* Rows that are committed as a block under way has written them, or as a plain
\* write has that came upon them.
Half == torn \cup {k \in over \ loose : \E t \in Tasks : wrote[t][k] # None}

\* A roll-back leaves half a block behind, or takes plain writes with it.
RolledBack(rows) == spoiled' = spoiled \cup (IF rows = {} THEN {} ELSE {"half"})

\* The call returns, or fails.
Return(t) ==
  /\ \/ /\ (todo[t] = <<>> /\ KV!Commit(t)) \/ KV!PlainCommit(t)
        /\ kept' = earned /\ UNCHANGED spoiled
     \/ KV!Abort(t) /\ RolledBack(Half \cup loose) /\ UNCHANGED kept
     \/ (KV!CancelBegin(t) \/ KV!PlainCancel(t)) /\ UNCHANGED <<kept, spoiled>>
  /\ call' = [call EXCEPT ![t] = Idle] /\ jobs' = [jobs EXCEPT ![t] = {}]
  /\ todo' = [todo EXCEPT ![t] = None] /\ seen' = [seen EXCEPT ![t] = <<>>]
  /\ UNCHANGED <<now, calls, earned>>

\* BEGIN, which may be refused.
Begin(t) ==
  /\ KV!Begin(t)
  /\ IF pc'[t] = "inside" THEN UNCHANGED <<call, jobs>>
     ELSE call' = [call EXCEPT ![t] = Idle] /\ jobs' = [jobs EXCEPT ![t] = {}]
  /\ UNCHANGED <<now, calls, block, history>>

\* A rule earns its player a coin or a good: it reads the row, and writes it
\* plainly.
Earn(t) ==
  /\ pc[t] = "idle" /\ call[t].op = "idle" /\ calls < MaxCalls /\ left.plain > 0
  /\ calls' = calls + 1
  /\ \E p \in Players : \E k \in {Coins(p)} \cup {Bag(p, i) : i \in Items} :
       call' = [call EXCEPT ![t] = [op |-> "earn", row |-> k, value |-> view[k] + 1]]
  /\ UNCHANGED <<store, now, jobs, block, history>>

\* Has the row changed since it was read, or has a block read it to change it?
Stale(k, value) ==
  \/ view[k] + 1 # value
  \/ \E t \in Tasks : k \in DOMAIN seen[t] /\ \E s \in ToSet(todo[t]) : s.do = "add" /\ s.key = k

Earned(t) ==
  /\ call[t].op = "earn"
  /\ LET k == call[t].row
         kind == IF k[1] = "coins" THEN "coins" ELSE k[3] IN
     /\ KV!PlainInsert(t, k, call[t].value)
     /\ earned' = [earned EXCEPT ![kind] = @ + 1]
     /\ spoiled' = spoiled \cup (IF Stale(k, call[t].value) THEN {"stale"} ELSE {})
  /\ UNCHANGED <<now, calls, call, jobs, block, kept>>

\* Whoever was about to commit has not been told that its write is made.
Crash ==
  /\ KV!Crash /\ RolledBack(Half)
  /\ earned' = kept
  /\ call' = [t \in Tasks |-> Idle] /\ jobs' = [t \in Tasks |-> {}]
  /\ todo' = [t \in Tasks |-> None] /\ seen' = [t \in Tasks |-> <<>>]
  /\ UNCHANGED <<now, calls, kept>>

Next ==
  \/ \E t \in Tasks :
       \/ Call(t) \/ Look(t) \/ LookAt(t) \/ Looked(t) \/ Acquire(t) \/ Begin(t)
       \/ Decide(t) \/ Statement(t) \/ Return(t) \/ Earn(t) \/ Earned(t)
  \/ Crash

Spec == Init /\ [][Next]_vars

-------------------------------------------------------------------------------
Statuses == {"none", "active", "sold_out", "cancelled", "expired"}

TypeOK ==
  /\ holder \in Tasks \cup {None} /\ pc \in [Tasks -> KV!Places] /\ open \in BOOLEAN
  /\ \A k \in Rows : k[1] \in {"coins", "bag"} => view[k] \in Nat
  /\ \A id \in Ids :
       LET l == view[Listing(id)] IN
       /\ l.status \in Statuses
       /\ l.status # "none" => l.left \in 0 .. l.total
  /\ \A t \in Tasks : call[t].op \in {"idle", "list", "buy", "cancel", "look", "earn"}

Active(kv) == {id \in Ids : kv[Listing(id)].status = "active"}

CoinsIn(kv) == MapThenSumSet(LAMBDA p : kv[Coins(p)], Owners)

GoodsIn(kv, i) ==
  MapThenSumSet(LAMBDA p : kv[Bag(p, i)], Players)
    + MapThenSumSet(LAMBDA id : kv[Listing(id)].left,
                    {id \in Active(kv) : kv[Listing(id)].item = i})

Balanced ==
  /\ CoinsIn(view) = CoinsIn(Stocked) + earned["coins"]
  /\ \A i \in Items : GoodsIn(view, i) = GoodsIn(Stocked, i) + earned[i]

\* Outside a transaction no coin and no good has been made or lost but what
\* rules have added: buyers, sellers, cancellers and sweepers race for a
\* listing's escrow, rules write the same coins and goods between a block's
\* statements, and a call may fail or the process die after any statement.  It
\* takes a plain write of a row that changed since it was read, or of one that
\* a block has read to change it; or a plain write in a transaction that is
\* then rolled back.
Conserved == holder = None /\ spoiled = {} => Balanced

\* "Atomically execute a marketplace purchase" (trade_ops.py:368), without
\* those excuses: false as the code is.
SalesAreAtomic == holder = None => Balanced

\* Outside a transaction the global index names exactly the listings that are
\* active, so that each can be found, and each is in its seller's index, unless
\* a plain write has met a block that was then rolled back.
IndexIsExact ==
  holder = None /\ "half" \notin spoiled =>
    /\ view[GlobalIndex] = Active(view)
    /\ \A id \in Active(view) : id \in view[SellerIndex(view[Listing(id)].seller)]

\* Nobody buys twice from one listing within the cooldown, although callers
\* read the clock before they wait for the lock.
CooldownHolds ==
  [][\A id \in Ids, p \in Players :
       LET before == disk[LastBuy(id, p)]
           after == disk'[LastBuy(id, p)] IN
       before # 0 /\ after # before => after - before >= Cooldown]_disk
===============================================================================

------------------------------- MODULE MCStorage -------------------------------
(***************************************************************************)
(* Instances of the store and of the marketplace for TLC.  In a behaviour  *)
(* one of them moves, which "part" names: the store under the blocks and   *)
(* the plain writes below, or the store under the marketplace's calls.     *)
(***************************************************************************)
EXTENDS SqliteKV, TLC

CONSTANTS
  Parts,            \* which may move
  Callers,          \* of the marketplace's tools
  Players, Admin    \* of the marketplace

VARIABLES
  part,
  mdisk, mview, mopen, mholder, mpc, mleft, mwrote, mbase, mover, mloose, mtorn,
  now, calls, call, jobs, todo, seen, earned, kept, spoiled

store == vars
market == <<mdisk, mview, mopen, mholder, mpc, mleft, mwrote, mbase, mover, mloose, mtorn,
            now, calls, call, jobs, todo, seen, earned, kept, spoiled>>

\* A block that writes two rows, and one that writes one of them.
Writing(b, a) == [k \in Keys |-> IF k = "b" THEN b ELSE a]
MCBodies == {Writing(1, 1), Writing(2, None)}
MCSeed == [k \in Keys |-> 0]

\* Plain writes and faults, in any order.
MCBudgets == {[plain |-> 2, faults |-> 1], [plain |-> 1, faults |-> 2]}

\* Two players with four coins and two rods each; two listings; three calls in
\* three units of time.
Stall == INSTANCE Marketplace
  WITH Tasks <- Callers, disk <- mdisk, view <- mview, open <- mopen, holder <- mholder,
       pc <- mpc, left <- mleft, wrote <- mwrote, base <- mbase, over <- mover,
       loose <- mloose, torn <- mtorn, Items <- {"rod"}, Ids <- {1, 2},
       Quantities <- {1, 2}, Prices <- {1}, Durations <- {2}, Wealth <- 4, Stock <- 2,
       MaxActive <- 1, Cooldown <- 2, FeePercent <- 4, MaxTime <- 4, MaxCalls <- 3,
       Budgets <- {[plain |-> 1, faults |-> 1]}

MCInit ==
  /\ part \in Parts
  /\ Init /\ (part # "store" => left.plain = 2)
  /\ Stall!Init

MCNext ==
  \/ part = "store" /\ Next /\ UNCHANGED <<part, market>>
  \/ part = "market" /\ Stall!Next /\ UNCHANGED <<part, store>>

MCSpec == MCInit /\ [][MCNext]_<<part, store, market>>

Symmetry == Permutations(Callers) \cup Permutations(Players)

--------------------------------------------------------------------------------
\* Marketplace: coins and goods are neither made nor lost, and the indexes name
\* exactly what is active, whatever calls, plain writes, failures and crashes come
\* in between, unless a plain write and a block have hurt each other (spoiled).
StallIsSound == Stall!TypeOK /\ Stall!Conserved /\ Stall!IndexIsExact

\* Marketplace: nobody buys twice from one listing within the cooldown.
CooldownHolds == Stall!CooldownHolds
================================================================================

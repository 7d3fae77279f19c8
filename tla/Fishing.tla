------------------------------- MODULE Fishing -------------------------------
(***************************************************************************)
(* The pond: the rules of main.ling that cast, pull, sell, look and        *)
(* enchant, with the tools of fishing_game.py that they call, on the rows  *)
(* of one player.  Every read and every write is a step of its own, for    *)
(* none is in a transaction and the player may be in two conversations,    *)
(* each with a session of its own; a crash ends what is under way.         *)
(***************************************************************************)
EXTENDS Integers, FiniteSets, FiniteSetsExt

CONSTANTS
  Tasks,        \* conversations the player is in
  Species, Tier, BaseValue,
  OldCatch,     \* what the player's bucket held before it was kept as counts
  Times,        \* seconds from cast to pull that are tried
  Price, Charges,
  MaxCasts, MaxEnchants, MaxCrashes

VARIABLES
  rows,    \* [cast, bait, coins, bucket, worth, dex, old, buff, charges]
  task,    \* what each task does next, and what it has read
  caught, told, casts, enchants, crashes   \* what the player has seen happen

vars == <<rows, task, caught, told, casts, enchants, crashes>>

Buffs == {"none", "lucky", "clean", "timely", "plump"}
None == [s \in Species |-> 0]
Plus(a, b) == [s \in Species |-> a[s] + b[s]]
One(fish) == [s \in Species |-> IF s = fish THEN 1 ELSE 0]
Worth(bag) == MapThenSumSet(LAMBDA s : bag[s] * BaseValue[s], Species)

--------------------------------------------------------------------------------
\* What can be pulled out, when.

Window(elapsed, buff) ==
  LET eff == IF buff = "timely" THEN (16 * elapsed) \div 10 ELSE elapsed IN
  CASE elapsed < 0 \/ (elapsed < 900 /\ eff < 25) -> "early"
    [] elapsed >= 900 \/ eff >= 420 -> "gone"
    [] OTHER -> IF eff < 80 THEN "normal" ELSE IF eff < 200 THEN "golden" ELSE "late"

Tiers(window, buff) ==
  LET all == IF window = "early" THEN {"rare", "common", "junk"}
             ELSE IF window = "gone" THEN {} ELSE {"legend", "rare", "common", "junk"}
  IN all \ (IF buff = "clean" THEN {"junk"} ELSE {})

Catches(window, buff) == {s \in Species : Tier[s] \in Tiers(window, buff)}

IsJunk(fish) == Tier[fish] = "junk"

\* A price half as high again, rounded to the even one of two neighbours.
Plump(value) ==
  LET half == (3 * value) \div 2 IN IF value % 2 = 1 /\ half % 2 = 1 THEN half + 1 ELSE half

Estimate(fish, buff) ==
  IF IsJunk(fish) THEN 0 ELSE IF buff = "plump" THEN Plump(BaseValue[fish]) ELSE BaseValue[fish]

--------------------------------------------------------------------------------
Nothing == [bag |-> None, old |-> None, fish |-> "", number |-> 0, buff |-> "none"]

Init ==
  /\ rows = [cast |-> 0, bait |-> MaxCasts, coins |-> 0, bucket |-> None, worth |-> 0, dex |-> None,
             old |-> OldCatch, buff |-> "none", charges |-> 0]
  /\ task = [t \in Tasks |-> [pc |-> "idle", my |-> Nothing]]
  /\ caught = None /\ told = 0 /\ casts = 0 /\ enchants = 0 /\ crashes = 0

my(t) == task[t].my
Seen == <<caught, told, casts, enchants, crashes>>

\* Task t at from reads, keeps what it read and goes on.
Read(t, from, to, mine) ==
  /\ task[t].pc = from
  /\ task' = [task EXCEPT ![t] = [pc |-> to, my |-> IF to = "idle" THEN Nothing ELSE mine]]
  /\ UNCHANGED rows

Write(t, from, to, row, value) ==
  /\ task[t].pc = from
  /\ rows' = [rows EXCEPT ![row] = value]
  /\ task' = [task EXCEPT ![t] = [pc |-> to, my |-> IF to = "idle" THEN Nothing ELSE my(t)]]

Cast(t) ==
  \/ Read(t, "idle", IF rows.bait = 0 THEN "idle" ELSE "cast", [Nothing EXCEPT !.number = rows.bait])
       /\ UNCHANGED Seen
  \/ Read(t, "cast", IF rows.cast = 1 THEN "idle" ELSE "line out", my(t)) /\ UNCHANGED Seen
  \/ Write(t, "line out", "bait off", "cast", 1)
       /\ casts' = casts + 1 /\ UNCHANGED <<caught, told, enchants, crashes>>
  \/ Write(t, "bait off", "idle", "bait", my(t).number - 1) /\ UNCHANGED Seen

\* Whether there was a line out, what it has caught, and the tool's rows.
Pull(t) ==
  \/ Read(t, "idle", IF rows.cast = 0 THEN "idle" ELSE "line in", Nothing) /\ UNCHANGED Seen
  \/ Write(t, "line in", "draw", "cast", 0) /\ UNCHANGED Seen
  \/ \E elapsed \in Times : \E fish \in Catches(Window(elapsed, rows.buff), rows.buff) \cup {""} :
       /\ Read(t, "draw", IF fish = "" THEN "charges" ELSE "dex",
               [Nothing EXCEPT !.fish = fish, !.buff = rows.buff])
       /\ UNCHANGED Seen
  \/ Read(t, "dex", "dexed", [my(t) EXCEPT !.bag = rows.dex]) /\ UNCHANGED Seen
  \/ Write(t, "dexed", IF IsJunk(my(t).fish) THEN "charges" ELSE "bucket", "dex",
           Plus(my(t).bag, One(my(t).fish)))
       /\ caught' = Plus(caught, One(my(t).fish))
       /\ told' = told + Estimate(my(t).fish, my(t).buff) /\ UNCHANGED <<casts, enchants, crashes>>
  \/ Read(t, "bucket", "in bucket", [my(t) EXCEPT !.bag = rows.bucket]) /\ UNCHANGED Seen
  \/ Write(t, "in bucket", "worth", "bucket", Plus(my(t).bag, One(my(t).fish))) /\ UNCHANGED Seen
  \/ Read(t, "worth", "worth more", [my(t) EXCEPT !.number = rows.worth]) /\ UNCHANGED Seen
  \/ Write(t, "worth more", "charges", "worth", my(t).number + Estimate(my(t).fish, my(t).buff))
       /\ UNCHANGED Seen

\* What a buff has left, behind every pull.
Discharge(t) ==
  \/ Read(t, "charges", IF my(t).buff # "none" /\ rows.charges > 0 THEN "use up" ELSE "idle",
          [my(t) EXCEPT !.number = rows.charges]) /\ UNCHANGED Seen
  \/ Write(t, "use up", IF my(t).number <= 1 THEN "fade" ELSE "idle", "charges", my(t).number - 1)
       /\ UNCHANGED Seen
  \/ Write(t, "fade", "idle", "buff", "none") /\ UNCHANGED Seen

\* The tool empties the bucket; the rule then pays for what it held.
Sell(t) ==
  LET then == IF my(t).bag = None THEN "idle" ELSE "pay" IN
  \/ Read(t, "idle", "sell", [Nothing EXCEPT !.bag = rows.bucket]) /\ UNCHANGED Seen
  \/ Read(t, "sell", "emptied", [my(t) EXCEPT !.bag = Plus(my(t).bag, rows.old), !.old = rows.old])
       /\ UNCHANGED Seen
  \/ Write(t, "emptied", "worthless", "bucket", None) /\ UNCHANGED Seen
  \/ Write(t, "worthless", IF my(t).old = None THEN then ELSE "settled", "worth", 0) /\ UNCHANGED Seen
  \/ Write(t, "settled", then, "old", None) /\ UNCHANGED Seen
  \/ Read(t, "pay", "paid", [my(t) EXCEPT !.number = rows.coins]) /\ UNCHANGED Seen
  \/ Write(t, "paid", "idle", "coins", my(t).number + Worth(my(t).bag)) /\ UNCHANGED Seen

\* Looking merges what is left of the older bucket.
Look(t) ==
  \/ Read(t, "idle", "look", [Nothing EXCEPT !.bag = rows.bucket]) /\ UNCHANGED Seen
  \/ Read(t, "look", IF rows.old = None THEN "idle" ELSE "merge",
          [my(t) EXCEPT !.bag = Plus(my(t).bag, rows.old)]) /\ UNCHANGED Seen
  \/ Write(t, "merge", "merged", "bucket", my(t).bag) /\ UNCHANGED Seen
  \/ Write(t, "merged", "valued", "old", None) /\ UNCHANGED Seen
  \/ Write(t, "valued", "idle", "worth", Worth(my(t).bag)) /\ UNCHANGED Seen

Enchant(t) ==
  \/ /\ enchants < MaxEnchants
     /\ Read(t, "idle", IF rows.charges > 0 THEN "idle" ELSE "enchant", Nothing) /\ UNCHANGED Seen
  \/ Read(t, "enchant", IF rows.coins < Price THEN "idle" ELSE "buy", [Nothing EXCEPT !.number = rows.coins])
       /\ UNCHANGED Seen
  \/ Write(t, "buy", "roll", "coins", my(t).number - Price)
       /\ enchants' = enchants + 1 /\ UNCHANGED <<caught, told, casts, crashes>>
  \/ \E buff \in Buffs \ {"none"} : Write(t, "roll", "charge", "buff", buff) /\ UNCHANGED Seen
  \/ Write(t, "charge", "idle", "charges", Charges) /\ UNCHANGED Seen

Crash ==
  /\ crashes < MaxCrashes /\ crashes' = crashes + 1
  /\ task' = [t \in Tasks |-> [pc |-> "idle", my |-> Nothing]]
  /\ UNCHANGED <<rows, caught, told, casts, enchants>>

Next ==
  \/ \E t \in Tasks : Cast(t) \/ Pull(t) \/ Discharge(t) \/ Sell(t) \/ Look(t) \/ Enchant(t)
  \/ Crash

Spec == Init /\ [][Next]_vars

--------------------------------------------------------------------------------
TypeOK ==
  /\ rows.cast \in 0 .. 1 /\ rows.bait \in 0 .. MaxCasts /\ rows.coins \in Nat /\ rows.worth \in Nat
  /\ rows.charges \in 0 .. Charges /\ rows.buff \in Buffs
  /\ \A row \in {"bucket", "dex", "old"} : rows[row] \in [Species -> Nat]
  /\ casts \in 0 .. MaxCasts /\ enchants \in 0 .. MaxEnchants /\ crashes \in 0 .. MaxCrashes

AtRest == \A t \in Tasks : task[t].pc = "idle"
Alone == Cardinality(Tasks) = 1 /\ MaxCrashes = 0

\* Every fish is in a bucket or paid for, once, and the dex and the worth that is
\* shown are those of the catches ("this tool owns the whole catch transaction").
CatchIsWhole ==
  AtRest =>
    /\ Worth(rows.bucket) + Worth(rows.old) + rows.coins + Price * enchants = Worth(caught) + Worth(OldCatch)
    /\ rows.dex = caught
    /\ enchants = 0 /\ rows.old = None => rows.worth = Worth(rows.bucket)
    /\ MapThenSumSet(LAMBDA s : caught[s], Species) <= casts

CatchIsWholeAlone == Alone => CatchIsWhole

\* A sale pays what the pulls have told (a plump fish sells for half as much again).
SaleIsAsTold ==
  AtRest /\ rows.bucket = None /\ rows.old = None
    => rows.coins + Price * enchants = told + Worth(OldCatch)
===============================================================================

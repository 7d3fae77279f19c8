------------------------------ MODULE AtomicStore ------------------------------
(***************************************************************************)
(* What the store promises its callers while nothing fails: the writes of  *)
(* a block ("async with store.transaction()") are there together or not at *)
(* all, and a plain write() is there at once.  A block does not hide rows  *)
(* from plain writes: of a row that both write, the later one stands.      *)
(***************************************************************************)
CONSTANTS Keys, Values, None, Seed,
          Bodies   \* what blocks write: of each row its last value, or None

VARIABLES
  data,
  later   \* rows plainly written since the block under way last wrote them

Init == data = Seed /\ later = {}

\* A block comes to its end.
Block(puts) ==
  /\ data' = [k \in Keys |-> IF puts[k] = None \/ k \in later THEN data[k] ELSE puts[k]]
  /\ later' = {}

Plain(k, v) == data' = [data EXCEPT ![k] = v] /\ later' = later \cup {k}

\* The block under way writes the row (again).
Written(k) == UNCHANGED data /\ later' = later \ {k}

Next ==
  \/ \E puts \in Bodies : Block(puts)
  \/ \E k \in Keys : Written(k) \/ \E v \in Values : Plain(k, v)
===============================================================================

------------------------------- MODULE MCRouter -------------------------------
(***************************************************************************)
(* Instances of Router for TLC: which events the deliveries may carry.     *)
(***************************************************************************)
EXTENDS Router, TLC

CONSTANTS k1, k2, k3

Event(id, key, kind) == [id |-> id, key |-> key, kind |-> kind]

\* Three conversations and every kind of verdict.
AllKinds ==
  {Event(1, k1, "chat"), Event(2, k1, "command"), Event(3, k1, "help"),
   Event(4, k2, "chat"), Event(5, k3, "cancel"), Event(6, k2, "ignore")}

\* Deliveries differ in nothing but their name.
Symmetry == Permutations(Deliveries)
===============================================================================

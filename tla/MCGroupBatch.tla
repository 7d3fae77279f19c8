----------------------------- MODULE MCGroupBatch -----------------------------
(* Instances of GroupBatch for TLC: the configurations a group may have.   *)
EXTENDS GroupBatch, TLC

Setting(w, h, require, probe) ==
  [window |-> w, hold |-> h, require |-> require, probe |-> probe]

\* A probe decides about the batches nobody called for.
Probed == {Setting(1, 2, TRUE, TRUE)}

\* Attention required, without and with a probe; every message consulted.
AllSettings ==
  {Setting(0, 1, TRUE, FALSE), Setting(1, 2, TRUE, TRUE), Setting(1, 1, FALSE, FALSE)}

Symmetry == Permutations(Tasks)
===============================================================================

--------------------------- MODULE MCTaskManager ---------------------------
(* Instances of TaskManager for TLC: two tasks, one with a delay as the    *)
(* deletion tasks have (20 of 30 seconds: 2 ticks of 3) and one without,   *)
(* as page extraction; and a task that this process does not know, as one  *)
(* that another version of the program launched on the same redis.         *)
EXTENDS TaskManager, TLC

CONSTANTS l1, l2, l3, delete, extract, other

MCKeys == {delete, extract}
MCDelay == [k \in MCKeys |-> IF k = delete THEN 2 ELSE 0]
UnknownKeys == {delete, other}
UnknownDelay == [k \in UnknownKeys |-> IF k = delete THEN 2 ELSE 0]
Symmetry == Permutations(Launches)

=============================================================================

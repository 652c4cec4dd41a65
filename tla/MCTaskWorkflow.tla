--------------------------- MODULE MCTaskWorkflow ---------------------------
(* Small instances of TaskWorkflow for TLC.                                *)
EXTENDS TaskWorkflow, TLC

CONSTANTS t1, t2, t3, acc1, acc2, w1, w2

MCCostModel == [standard |-> 1, advanced |-> 10, frontier |-> 100]

(* Two escalated tasks of one account: the threshold race of the tests.    *)
Pair == {t1, t2}
PairOwner == [t \in Pair |-> acc1]
PairClassified == [t \in Pair |-> "standard"]

(* A third task, classified advanced: its reservation has the amount that  *)
(* a capped task was settled to.                                           *)
Trio == {t1, t2, t3}
TrioOwner == [t \in Trio |-> acc1]
TrioClassified == [t \in Trio |-> IF t = t3 THEN "advanced" ELSE "standard"]

(* Three tasks of one account.                                             *)
Three == {t1, t2, t3}
ThreeOwner == [t \in Three |-> acc1]
ThreeClassified == [t \in Three |-> "standard"]

One == {t1}
OneOwner == [t \in One |-> acc1]
OneClassified == [t \in One |-> "advanced"]

TaskSymmetry == Permutations(Pair)
WorkerSymmetry == Permutations({w1, w2})
=============================================================================

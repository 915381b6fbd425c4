--------------------------- MODULE MCPickingTasks ---------------------------
(* Small instances of PickingTasks.                                        *)
EXTENDS PickingTasks, TLC

CONSTANTS t1, t2, t3, r1, r2, skuA, skuB

OneSku == [r \in Rows |-> skuA]

Stock1 == [r \in Rows |-> 1]
Uneven == (r1 :> 2 @@ r2 :> 1)

TaskSymmetry == Permutations(Tasks)
=============================================================================

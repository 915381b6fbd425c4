---------------------------- MODULE MCPickingRaces ----------------------------
(***************************************************************************)
(* PickingRaces for TLC: two requests about two tasks.  Where requests     *)
(* about one task race, tasks are about one row; where they exclude each   *)
(* other, tasks take all there is of two rows, in one or the other order.  *)
(***************************************************************************)
EXTENDS PickingRaces, TLC

CONSTANTS c1, c2, t1, t2, r1, r2

OneUnit  == <<[row |-> r1, n |-> 1]>>
TwoUnits == <<[row |-> r1, n |-> 2]>>
BothRows == <<[row |-> r1, n |-> 2], [row |-> r2, n |-> 1]>>
Crossed  == <<[row |-> r2, n |-> 1], [row |-> r1, n |-> 2]>>
MCPlans  == {OneUnit, TwoUnits, BothRows, Crossed}

MCStock == (r1 :> 2 @@ r2 :> 1)

PlansHere == {<<>>} \cup IF exclusive THEN {BothRows, Crossed} ELSE {OneUnit, TwoUnits}
MCNext ==
    /\ Next
    /\ \A t \in Tasks : items'[t] \in PlansHere
    /\ \A c \in Clients : tx'[c].plan \in PlansHere
MCSpec == Init /\ [][MCNext]_vars

(* Rows of inventory add up, and none goes below zero.                     *)
RowsAddUp == TypeOK /\ NoLostUpdate

RaceSymmetry == Permutations(Clients) \cup Permutations(Tasks)
=============================================================================

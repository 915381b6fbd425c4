-------------------------- MODULE MCPickingEndpoints --------------------------
(***************************************************************************)
(* Everything the endpoints of picking tasks accept, for TLC: requests     *)
(* that are not negative and may oversell the row, or requests of either   *)
(* sign, negative for one task at a time, while no counter leaves its      *)
(* row's stock and no lot expires.                                         *)
(***************************************************************************)
EXTENDS MCPickingTasks

VARIABLE signed

EitherSign == {-1, 1}

Ordinary(t) == \A r \in Rows : alloc[t][r] >= 0 /\ picked[t][r] >= 0
OneNegative == \A t, u \in Tasks : Ordinary(t) \/ Ordinary(u) \/ t = u
Within(counter) == \A r \in Rows : counter[r] \in 0 .. InitialStock[r]
WithinStock == Within(quantity) /\ Within(reserved) /\ \A t \in Tasks : Within(shipped[t])

Allowed == IF signed THEN OneNegative /\ WithinStock /\ expired = {} ELSE \A t \in Tasks : Ordinary(t)
MCInit == Init /\ signed \in BOOLEAN
MCNext == Next /\ signed' = signed /\ Allowed'
MCSpec == MCInit /\ [][MCNext]_<<vars, signed>>
===============================================================================

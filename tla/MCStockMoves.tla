----------------------------- MODULE MCStockMoves -----------------------------
(* StockMoves for TLC: one transfer between two locations, two requests.   *)
EXTENDS StockMoves

CONSTANTS c1, c2, t1, dock, aisle

OneOrTwoLines == {<<1>>, <<1, 1>>}
SomeFiles     == {<<[at |-> aisle, quantity |-> 1], [at |-> dock, quantity |-> 1]>>,
                  <<[at |-> aisle, quantity |-> -1]>>}
EitherSign    == {-1, 1}
StockAtDock   == [l \in Locations |-> IF l = dock THEN 2 ELSE 0]

(* Where picking leaves its lifecycle, one request less.                   *)
MCNext == Next /\ (loose # {} => requests < MaxRequests)'
MCSpec == Init /\ [][MCNext]_vars

ClientSymmetry == Permutations(Clients)
=============================================================================

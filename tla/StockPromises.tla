---------------------------- MODULE StockPromises ----------------------------
(***************************************************************************)
(* What the reservation of stock promises, without statuses, counters or   *)
(* jobs.  Each holder is promised units of some rows.  A unit is promised  *)
(* to one holder at a time and only while it is on hand; it leaves the     *)
(* warehouse only for the holder it is promised to, whose promise ends.    *)
(***************************************************************************)
EXTENDS Integers, FiniteSets, StockSums

CONSTANTS Holders, Rows, InitialStock,
          Amounts     \* quantities a promise or a delivery may have on one row

VARIABLES onHand, promised

pvars == <<onHand, promised>>

NoPromise == [r \in Rows |-> 0]
Free(r) == onHand[r] - SumOver(Holders, promised, r)

PromiseInit ==
    /\ onHand = InitialStock
    /\ promised = [h \in Holders |-> NoPromise]

(* Holder h exchanges its promise (possibly none) for a, given that every  *)
(* unit of a is free or already its own.                                   *)
Promise(h, a) ==
    /\ \A r \in Rows : a[r] > 0 => a[r] <= Free(r) + promised[h][r]
    /\ promised' = [promised EXCEPT ![h] = a]
    /\ UNCHANGED onHand

Withdraw(S) ==
    /\ promised' = [h \in Holders |-> IF h \in S THEN NoPromise ELSE promised[h]]
    /\ UNCHANGED onHand

(* Holder h takes p, at most what it was promised.                         *)
Deliver(h, p) ==
    /\ \A r \in Rows : p[r] <= promised[h][r]
    /\ onHand' = [r \in Rows |-> onHand[r] - p[r]]
    /\ promised' = [promised EXCEPT ![h] = NoPromise]

PromiseNext ==
    \/ \E h \in Holders, a \in [Rows -> Amounts] : Promise(h, a)
    \/ \E S \in SUBSET Holders : Withdraw(S)
    \/ \E h \in Holders, p \in [Rows -> Amounts] : Deliver(h, p)

PromiseSpec == PromiseInit /\ [][PromiseNext]_pvars
=============================================================================

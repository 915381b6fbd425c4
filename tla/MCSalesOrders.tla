---------------------------- MODULE MCSalesOrders ----------------------------
(***************************************************************************)
(* SalesOrders for TLC.  Requests come one at a time and none fails, for   *)
(* an order of two lines and three tasks, or they race and fail, for an    *)
(* order of one line and two tasks.                                        *)
(***************************************************************************)
EXTENDS SalesOrders, TLC

CONSTANTS c1, c2, t1, t2, t3, skuA, skuB

VARIABLE serial

OneLine(quantities) == quantities[skuB] = 0

(* One task at most has its lines written by hand.                         *)
OneByHand == \A t, u \in Tasks : task[t].byHand > 0 /\ task[u].byHand > 0 => t = u

(* Who races leaves t3 and skuB alone, and writes the lines of the order   *)
(* or those of a task, not both.                                           *)
Small ==
    /\ task[t3].status = "none"
    /\ OneLine(expected) /\ \A t \in Tasks : OneLine(task[t].items)
    /\ edits = 0 \/ \A t \in Tasks : task[t].byHand = 0
    /\ \A c \in Clients :
        /\ req[c].at \in {"submit", "fulfill"} => req[c].task # t3
        /\ At(c, "update") => OneLine(req[c].new)

MCInit == Init /\ serial \in BOOLEAN /\ (serial \/ Small)
MCNext ==
    /\ serial' = serial
    /\ \/ serial /\ SerialNext
       \/ ~serial /\ Next /\ Small'
    /\ OneByHand'
MCSpec == MCInit /\ [][MCNext]_<<vars, serial>>
MCPickingSpec == Init /\ serial = FALSE /\ [][PickingOnly /\ serial' = serial]_<<vars, serial>>

(* However requests race and fail: no quantity is recorded twice, and no   *)
(* task that fulfils a backorder leaves one.                               *)
NothingCountsTwice == RecordedWithinShipped /\ BackordersDoNotNest

(* One request at a time and none failing: the delivery note says what was *)
(* shipped, and what is owed is what is missing.                           *)
SerialOrdersAddUp == serial => DeliveryAgrees /\ OwedExactly

OrderSymmetry == Permutations(Clients) \cup Permutations(Tasks) \cup Permutations(Skus)
MCSymmetry == Permutations(Clients) \cup Permutations({t1, t2})
=============================================================================

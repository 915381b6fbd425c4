------------------------------ MODULE MCReceiving ------------------------------
(* Receiving for TLC: an order of up to two lines, two requests at a time. *)
EXTENDS Receiving, TLC

CONSTANTS c1, c2, t1, t2, skuA, skuB

TwoLines == {(skuA :> 2 @@ skuB :> 1), (skuA :> 2 @@ skuB :> 0)}

Line(n, accepted, refused) ==
    [expected |-> n, received |-> Absent, accepted |-> accepted, rejected |-> refused]

(* All there was, one taken and one refused, and one unit of two with a    *)
(* negative quantity received.                                             *)
Receipts == {skuB :> Line(1, Absent, Absent), skuA :> Line(2, 1, 1),
             skuA :> [Line(1, Absent, Absent) EXCEPT !.received = -1]}

(* Lines that expect two and one, and lines of which one says how much was *)
(* accepted beforehand and the other was closed.                           *)
Plain(n) == [expected |-> n, status |-> "open", received |-> Absent, accepted |-> Absent,
             rejected |-> Absent]
FromClients == {
    (skuA :> Plain(2) @@ skuB :> Plain(1)),
    (skuA :> [Plain(2) EXCEPT !.accepted = 1] @@ skuB :> [Plain(1) EXCEPT !.status = "closed"])}

(* Of tasks made by hand there is one, while there is no other.            *)
Manual(t) == task[t] # NoTask /\ ~task[t].linked
AnotherTask == \E t, u \in Tasks : t # u /\ Manual(t)' /\ task'[u] # NoTask

(* Edits come while at most one request is under way; renumbering a task   *)
(* and deleting an article, while none is.                                 *)
Renumbers == \E t \in Tasks : task[t] # NoTask /\ task'[t].inbound # task[t].inbound
Crowded ==
    /\ edits' # edits
    /\ \/ \A c \in Clients : tx[c] # Idle
       \/ (Renumbers \/ articles' # articles) /\ \E c \in Clients : tx[c] # Idle

(* Two tasks of the order are received line by line, neither is started.   *)
StartsOneOfTwo == Cardinality(Linked)' = 2 /\ \E t \in Tasks : task'[t].status = "in_progress"

MCNext == Next /\ ~AnotherTask /\ ~Crowded /\ ~StartsOneOfTwo
MCSpec == Init /\ [][MCNext]_vars

(* Submit and the receipts: the order has one task, and its status tells   *)
(* what came.                                                              *)
OrderFollowsReceipts == OneTask /\ StatusTellsWhatCame

ReceivingSymmetry == Permutations(Clients) \cup Permutations(Tasks)
=============================================================================

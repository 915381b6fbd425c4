----------------------------- MODULE SalesOrders -----------------------------
(***************************************************************************)
(* One sales order, its picking tasks, delivery notes and backorders.      *)
(*                                                                         *)
(* Submitting the order creates a picking task.  Completing the task takes *)
(* the stock out in one transaction and then, in the same request but each *)
(* in a transaction of its own, records the quantities on the order,       *)
(* creates the delivery note, creates backorders for what is missing, and  *)
(* settles the backorder the task came from.  A step that fails is at most *)
(* printed; a server that stops in between loses the steps left.           *)
(*                                                                         *)
(* Every transaction reads without locking and writes what it concluded:   *)
(* where that matters it is two actions, Begin for its reads and Commit    *)
(* for its writes.  How a task moves its stock is the subject of           *)
(* PickingTasks; here the stock found for a task is any quantity up to the *)
(* one asked for, and a line is the quantity its allocations say was       *)
(* picked, which anyone may overwrite and nobody compares with the order.  *)
(* That quantity is never negative here, and a line of none is as good as  *)
(* no line.                                                                *)
(***************************************************************************)
EXTENDS Integers, FiniteSets, StockSums

CONSTANTS
    Clients,        \* concurrent requests about the order
    Tasks,          \* ids of the picking tasks it may get
    Skus,
    MaxQuantity,    \* the largest quantity of a line
    MaxEdits,       \* how often the model lets the order's lines be replaced
    MaxByHand       \* how often it lets the lines of a task be written

ASSUME OrdersAssumption ==
    IsFiniteSet(Tasks) /\ MaxQuantity \in Nat /\ MaxEdits \in Nat /\ MaxByHand \in Nat

VARIABLES
    order,      \* the row of sales_orders: [status, deleted, task]
    expected,   \* sales_order_items.expected_qty
    picked,     \* sales_order_items.picked_qty
    edits,      \* which list of rows of sales_order_items is in force
    task,       \* the rows of picking_tasks: [status, items, source], with what
                \* left the warehouse line by line and how often lines were written
    shipped,    \* what the completion of each task took out of stock
    notes,      \* what the delivery note of each task lists
    remaining,  \* backorders.remaining_qty, by the task that left it open
    pending,    \* the backorders, <<task, sku>>, with status pending
    req         \* each client's request: where it is and what it has read

orderVars == <<order, expected, picked, edits>>
vars == <<orderVars, task, shipped, notes, remaining, pending, req>>

Nothing == [s \in Skus |-> 0]
Quantities == [Skus -> 0 .. MaxQuantity]
AtMost(q) == {p \in Quantities : \A s \in Skus : p[s] <= q[s]}
None == <<>>        \* no task, no backorder

Terminal == {"completed", "cancelled", "abandoned"}
Idle == [at |-> "idle"]
Goes(c, r) == req' = [req EXCEPT ![c] = r]
At(c, place) == req[c].at = place

(* A new task gets an id nobody has or is about to insert.                 *)
Unused == {t \in Tasks : /\ task[t].status = "none"
                         /\ \A c \in Clients : req[c].at \in {"submit", "fulfill"} => req[c].task # t}
Insert(t, items, source) ==
    task' = [task EXCEPT ![t] = [status |-> "open", items |-> items, source |-> source,
                                 byLine |-> Nothing, byHand |-> 0]]

-----------------------------------------------------------------------------
Init ==
    /\ order = [status |-> "draft", deleted |-> FALSE, task |-> None]
    /\ expected \in Quantities \ {Nothing}
    /\ picked = Nothing
    /\ edits = 0
    /\ task = [t \in Tasks |-> [status |-> "none", items |-> Nothing, source |-> None,
                                byLine |-> Nothing, byHand |-> 0]]
    /\ shipped = [t \in Tasks |-> Nothing]
    /\ notes = [t \in Tasks |-> Nothing]
    /\ remaining = [t \in Tasks |-> Nothing]
    /\ pending = {}
    /\ req = [c \in Clients |-> Idle]

reads  == UNCHANGED <<orderVars, task, shipped, notes, remaining, pending>>
Drafts == order.status = "draft" /\ ~order.deleted

-----------------------------------------------------------------------------
(* Update: saves the whole row it read and may replace the items.          *)

BeginUpdate(c) ==
    /\ At(c, "idle") /\ Drafts
    /\ \E new \in Quantities : Goes(c, [at |-> "update", row |-> order, new |-> new])
    /\ reads

CommitUpdate(c) ==
    /\ At(c, "update")
    /\ order' = req[c].row
    /\ \/ UNCHANGED <<expected, picked, edits>>
       \/ /\ req[c].new # Nothing
          /\ edits < MaxEdits
          /\ expected' = req[c].new /\ picked' = Nothing /\ edits' = edits + 1
    /\ Goes(c, Idle)
    /\ UNCHANGED <<task, shipped, notes, remaining, pending>>

BeginDelete(c) ==
    /\ At(c, "idle") /\ Drafts
    /\ Goes(c, [at |-> "delete"])
    /\ reads

CommitDelete(c) ==
    /\ At(c, "delete")
    /\ order' = [order EXCEPT !.deleted = TRUE]
    /\ Goes(c, Idle)
    /\ UNCHANGED <<expected, picked, edits, task, shipped, notes, remaining, pending>>

(* Submit: a task for whatever part of the items is in stock, none of it   *)
(* included.                                                               *)
BeginSubmit(c) ==
    /\ At(c, "idle") /\ Drafts
    /\ \E t \in Unused, found \in AtMost(expected) :
          Goes(c, [at |-> "submit", task |-> t, items |-> found])
    /\ reads

CommitSubmit(c) ==
    /\ At(c, "submit")
    /\ Insert(req[c].task, req[c].items, None)
    /\ order' = [order EXCEPT !.status = "submitted", !.task = req[c].task]
    /\ Goes(c, Idle)
    /\ UNCHANGED <<expected, picked, edits, shipped, notes, remaining, pending>>

(* Cancel: the task the order points to is cancelled unless it was over.   *)
BeginCancel(c) ==
    /\ At(c, "idle")
    /\ ~order.deleted /\ order.status \notin {"completed", "cancelled"}
    /\ Goes(c, [at |-> "cancel", row |-> order,
                stops |-> order.task # None /\ task[order.task].status \notin Terminal])
    /\ reads

CommitCancel(c) ==
    /\ At(c, "cancel")
    /\ task' = IF req[c].stops THEN [task EXCEPT ![req[c].row.task].status = "cancelled"] ELSE task
    /\ order' = [order EXCEPT !.status = "cancelled"]
    /\ Goes(c, Idle)
    /\ UNCHANGED <<expected, picked, edits, shipped, notes, remaining, pending>>

(* Fulfill: a task for what is in stock of a pending backorder.            *)
BeginFulfill(c, b) ==
    /\ At(c, "idle")
    /\ b \in pending
    /\ \E t \in Unused, found \in 1 .. remaining[b[1]][b[2]] :
          Goes(c, [at |-> "fulfill", task |-> t, source |-> b,
                   items |-> [Nothing EXCEPT ![b[2]] = found]])
    /\ reads

CommitFulfill(c) ==
    /\ At(c, "fulfill")
    /\ Insert(req[c].task, req[c].items, req[c].source)
    /\ Goes(c, Idle)
    /\ UNCHANGED <<orderVars, shipped, notes, remaining, pending>>

-----------------------------------------------------------------------------
(* The tasks, as PickingTasks has them.                                    *)

Moves(t, from, to) ==
    /\ task[t].status \in from
    /\ task' = [task EXCEPT ![t].status = to]
    /\ UNCHANGED <<orderVars, shipped, notes, remaining, pending, req>>

StartPickingTask(t)  == Moves(t, {"open"}, "in_progress")
CancelPickingTask(t) == Moves(t, {"open", "in_progress"}, "cancelled")
AbandonStaleTask(t)  == Moves(t, {"open", "in_progress"}, "abandoned")

(* UpdatePickingTask may also set the status alone: nothing is shipped.    *)
MarkPickingTask(t)   == Moves(t, {"in_progress"}, "completed")

(* The lines are written by hand, in whatever status the task is.          *)
Rewrites(t, items, byLine) ==
    /\ task[t].status # "none"
    /\ task[t].byHand < MaxByHand
    /\ task' = [task EXCEPT ![t] =
                    [status |-> task[t].status, items |-> items, source |-> task[t].source,
                     byLine |-> byLine, byHand |-> task[t].byHand + 1]]
    /\ UNCHANGED <<orderVars, shipped, notes, remaining, pending, req>>

(* UpdatePickingTask: any articles, in any quantity.                       *)
UpdatePickingTask(t, new) == Rewrites(t, new, task[t].byLine)

(* CompletePickingLine ships the line it is sent and stores it: neither    *)
(* the order nor a note is told, and completing the task ships it again.   *)
CompletePickingLine(t, s, n) ==
    /\ task[t].items[s] > 0
    /\ task[t].byLine[s] + n <= MaxQuantity
    /\ Rewrites(t, [task[t].items EXCEPT ![s] = n], [task[t].byLine EXCEPT ![s] = @ + n])

(* The transaction of CompletePickingTask ships what the lines say; the    *)
(* order's items are loaded in it for the backorders.                      *)
Items == [expected |-> expected, picked |-> picked, edits |-> edits]

CompletePickingTask(c, t) ==
    /\ At(c, "idle")
    /\ task[t].status = "in_progress"
    /\ shipped' = [shipped EXCEPT ![t] = task[t].items]
    /\ Goes(c, [at |-> "record", task |-> t, qty |-> task[t].items, status |-> "",
                loaded |-> Items, now |-> Items, left |-> 0])
    /\ task' = [task EXCEPT ![t].status = "completed"]
    /\ UNCHANGED <<orderVars, notes, remaining, pending>>

-----------------------------------------------------------------------------
(* What follows that commit, in the same request.                          *)

Then(c, place) == Goes(c, [req[c] EXCEPT !.at = place])

(* UpdatePickedQty reads the items ...                                     *)
ReadPickedQty(c) ==
    /\ At(c, "record")
    /\ Goes(c, [req[c] EXCEPT !.at = "write", !.now = Items])
    /\ reads

(* ... and writes sums and status, of the rows it read, if any was picked. *)
Recorded(r)  == {s \in Skus : r.qty[s] > 0 /\ r.now.expected[s] > 0}

\* Mutant of NewPicked.
NewPickedAsPlanned(r) == [s \in Skus |-> r.now.picked[s] + task[r.task].items[s]]

NewPicked(r) == [s \in Skus |-> IF s \in Recorded(r) THEN r.now.picked[s] + r.qty[s]
                                ELSE r.now.picked[s]]
NewStatus(r) == IF \A s \in Skus : NewPicked(r)[s] >= r.now.expected[s]
                THEN "completed" ELSE "partial"

UpdatePickedQty(c) ==
    /\ At(c, "write")
    /\ LET r == req[c]
       IN  IF Recorded(r) = {}
           THEN Then(c, "note") /\ UNCHANGED orderVars
           ELSE /\ picked' = IF r.now.edits = edits
                             THEN [s \in Skus |-> IF s \in Recorded(r) THEN NewPicked(r)[s] ELSE picked[s]]
                             ELSE picked
                /\ order' = [order EXCEPT !.status = NewStatus(r)]
                /\ Goes(c, [r EXCEPT !.at = "note", !.status = NewStatus(r)])
                /\ UNCHANGED <<expected, edits>>
    /\ UNCHANGED <<task, shipped, notes, remaining, pending>>

\* Mutant of Noted.
NotedWhenCompleted == {"completed"}

Noted == {"completed", "partial"}
CreateDeliveryNote(c) ==
    /\ At(c, "note")
    /\ notes' = IF req[c].status \in Noted
                THEN [notes EXCEPT ![req[c].task] = req[c].qty] ELSE notes
    /\ Then(c, "backorder")
    /\ UNCHANGED <<orderVars, task, shipped, remaining, pending>>

\* Mutant of LeftOpen.
LeftOpenInTask(r) == [s \in Skus |-> LET left == task[r.task].items[s] - r.qty[s]
                                     IN  IF left > 0 THEN left ELSE 0]

(* What the items loaded in the picking transaction and this batch leave   *)
(* open; nothing for a task that came from a backorder.                    *)
LeftOpen(r) == [s \in Skus |-> LET left == r.loaded.expected[s] - (r.loaded.picked[s] + r.qty[s])
                               IN  IF left > 0 THEN left ELSE 0]

\* Mutant of LeavesBackorders.
LeavesBackordersAlways(r) == r.status = "partial"

LeavesBackorders(r) == r.status = "partial" /\ task[r.task].source = None

CreateBackorders(c) ==
    /\ At(c, "backorder")
    /\ LET r == req[c]
       IN  IF LeavesBackorders(r)
           THEN /\ remaining' = [remaining EXCEPT ![r.task] = LeftOpen(r)]
                /\ pending' = pending \cup {<<r.task, s>> : s \in {x \in Skus : LeftOpen(r)[x] > 0}}
           ELSE UNCHANGED <<remaining, pending>>
    /\ Then(c, "settle")
    /\ UNCHANGED <<orderVars, task, shipped, notes>>

(* UpdateFulfilledBackorder reads the backorder; the lock it asks GORM for *)
(* is not part of the query.                                               *)
Source(c) == task[req[c].task].source
ReadBackorder(c) ==
    /\ At(c, "settle")
    /\ IF Source(c) = None
       THEN Goes(c, Idle)
       ELSE Goes(c, [req[c] EXCEPT !.at = "reduce", !.left = remaining[Source(c)[1]][Source(c)[2]]])
    /\ reads

\* Mutant of Reduced.
ReducedWithoutFloor(left, q) == left - q

Reduced(left, q) == IF left > q THEN left - q ELSE 0
UpdateFulfilledBackorder(c) ==
    /\ At(c, "reduce")
    /\ LET b   == Source(c)
           new == Reduced(req[c].left, req[c].qty[b[2]])
       IN  /\ remaining' = [remaining EXCEPT ![b[1]][b[2]] = new]
           /\ pending' = IF new = 0 THEN pending \ {b} ELSE pending
    /\ Goes(c, Idle)
    /\ UNCHANGED <<orderVars, task, shipped, notes>>

AfterPicking(c) ==
    \/ ReadPickedQty(c) \/ UpdatePickedQty(c) \/ CreateDeliveryNote(c)
    \/ CreateBackorders(c) \/ ReadBackorder(c) \/ UpdateFulfilledBackorder(c)

(* A step fails and the next one is tried.                                 *)
NextPlace == [record |-> "note", write |-> "note", note |-> "backorder", backorder |-> "settle"]
StepFails(c) ==
    /\ req[c].at \in DOMAIN NextPlace
    /\ Then(c, NextPlace[req[c].at])
    /\ reads

(* The request ends here: a transaction rolls back, or the server stops.   *)
RequestLost(c) == ~At(c, "idle") /\ Goes(c, Idle) /\ reads

-----------------------------------------------------------------------------
OrderRequests(c) ==
    \/ BeginUpdate(c) \/ BeginDelete(c) \/ BeginSubmit(c) \/ BeginCancel(c)
Commits(c) ==
    \/ CommitUpdate(c) \/ CommitDelete(c) \/ CommitSubmit(c) \/ CommitCancel(c) \/ CommitFulfill(c)
TaskRequests(t) ==
    \/ StartPickingTask(t) \/ CancelPickingTask(t) \/ AbandonStaleTask(t) \/ MarkPickingTask(t)
    \/ \E new \in Quantities : UpdatePickingTask(t, new)
    \/ \E s \in Skus, n \in 0 .. MaxQuantity : CompletePickingLine(t, s, n)

(* Everything, at the same time.                                           *)
Progress ==
    \/ \E c \in Clients :
        \/ OrderRequests(c) \/ Commits(c) \/ AfterPicking(c)
        \/ \E b \in pending : BeginFulfill(c, b)
        \/ \E t \in Tasks : CompletePickingTask(c, t)
    \/ \E t \in Tasks : TaskRequests(t)
(* Nobody edits or stops anything.                                         *)
PickingOnly ==
    \/ \E c \in Clients :
        \/ BeginSubmit(c) \/ CommitSubmit(c) \/ CommitFulfill(c) \/ AfterPicking(c)
        \/ \E b \in pending : BeginFulfill(c, b)
        \/ \E t \in Tasks : CompletePickingTask(c, t)
    \/ \E t \in Tasks : StartPickingTask(t)
Failures == \E c \in Clients : StepFails(c) \/ RequestLost(c)
Next == Progress \/ Failures

(* One request about the order at a time; nothing fails.                   *)
Quiet == \A c \in Clients : At(c, "idle")
SerialNext ==
    \/ \E c \in Clients : Commits(c) \/ AfterPicking(c)
    \/ \E t \in Tasks : TaskRequests(t)
    \/ /\ Quiet
       /\ \E c \in Clients :
            \/ OrderRequests(c)
            \/ \E b \in pending : BeginFulfill(c, b)
            \/ \E t \in Tasks : CompletePickingTask(c, t)

Spec        == Init /\ [][Next]_vars
SerialSpec  == Init /\ [][SerialNext]_vars
PickingSpec == Init /\ [][PickingOnly]_vars

-----------------------------------------------------------------------------
Statuses == {"draft", "submitted", "partial", "completed", "cancelled"}

TypeOK ==
    /\ order \in [status : Statuses, deleted : BOOLEAN, task : Tasks \cup {None}]
    /\ expected \in Quantities
    /\ picked \in [Skus -> Nat]
    /\ edits \in 0 .. MaxEdits
    /\ task \in [Tasks -> [status : {"none", "open", "in_progress"} \cup Terminal,
                           items : Quantities, source : {None} \cup (Tasks \X Skus),
                           byLine : Quantities, byHand : 0 .. MaxByHand]]
    /\ shipped \in [Tasks -> Quantities]
    /\ notes \in [Tasks -> Quantities]
    /\ remaining \in [Tasks -> Quantities]
    /\ pending \subseteq Tasks \X Skus

Owed(s) == SumOver(Tasks, remaining, s)
Shipped(s) == SumOver(Tasks, shipped, s)

(* Some of q was ordered.                                                  *)
Counts(q) == \E s \in Skus : q[s] > 0 /\ expected[s] > 0

(* No task made for a backorder of another article shipped any of s.       *)
Straight(s) ==
    \A t \in Tasks : task[t].source # None /\ task[t].source[2] # s => shipped[t][s] = 0

(* However requests race and fail and whatever the tasks' lines are made   *)
(* to say, the order never records more than completed tasks shipped for   *)
(* it: no quantity is recorded twice.                                      *)
RecordedWithinShipped == \A s \in Skus : picked[s] <= Shipped(s)

(* Backorders have depth one: a task that fulfils one leaves none.         *)
BackordersDoNotNest == \A t \in Tasks : task[t].source # None => remaining[t] = Nothing

(* One request at a time and none failing: once it has ended, the order    *)
(* has recorded all that completed tasks shipped of the articles ordered,  *)
(* and each note lists all its task shipped, if some of it was ordered;    *)
(* there is no note otherwise.  What left line by line is in neither.      *)
DeliveryAgrees ==
    Quiet =>
        /\ \A t \in Tasks : notes[t] = IF Counts(shipped[t]) THEN shipped[t] ELSE Nothing
        /\ \A s \in Skus : picked[s] = IF expected[s] > 0 THEN Shipped(s) ELSE 0

(* ... and what backorders still owe of an article is exactly what the     *)
(* order has not got, nothing where it got as much as it asked for or      *)
(* more, however often backorders were fulfilled, by how many tasks and by *)
(* how much; of an article that a task made for another one shipped        *)
(* nothing is said, as its backorder is not told.                          *)
OwedExactly ==
    Quiet /\ picked # Nothing =>
        \A s \in Skus : Straight(s) =>
            Owed(s) = IF expected[s] > picked[s] THEN expected[s] - picked[s] ELSE 0

-----------------------------------------------------------------------------
(* What comments of the source say of the order.                           *)

(* backorders_repository.go: no update is lost when two tasks of the same  *)
(* backorder complete concurrently.                                        *)
ReducesWhatIsLeft ==
    [][\A c \in Clients : UpdateFulfilledBackorder(c) =>
        LET b == Source(c)
        IN  remaining'[b[1]][b[2]] = Reduced(remaining[b[1]][b[2]], req[c].qty[b[2]])]_vars
=============================================================================

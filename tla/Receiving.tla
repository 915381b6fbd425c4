------------------------------- MODULE Receiving -------------------------------
(***************************************************************************)
(* Receiving tasks and the purchase order they are received for.           *)
(*                                                                         *)
(* One purchase order: its lines, the task its submission creates, and the *)
(* tasks created by hand next to it.  A completion reads its task outside  *)
(* its transaction, and works on the items it read: the read, the writes   *)
(* (which lock what they write) and the commit are steps of their own,     *)
(* under READ COMMITTED.  A transaction may be rolled back at any point.   *)
(*                                                                         *)
(* Of the inventory this module keeps the inbound movements of each task's *)
(* lines; what a receipt does to the rows is in StockMoves.  Lots that     *)
(* come with a request are inserted without the tenant_id migration 30     *)
(* made mandatory, so such a request always ends in a rollback.            *)
(*                                                                         *)
(* Only the request that completes a line is validated, and of it not the  *)
(* received quantity: the items of a task are stored as the client sends   *)
(* them, with any numbers.  A task that lists an article twice is left     *)
(* out: the second line is only ever received with the whole task, like a  *)
(* line of another article.                                                *)
(***************************************************************************)
EXTENDS Integers, FiniteSets

CONSTANTS
    Clients,        \* concurrent requests
    Tasks,          \* receiving tasks
    Skus,
    Tracked,        \* the articles tracked by serial or lot
    MaxQuantity,    \* the largest quantity ordered
    Quantities,     \* the quantities an order may be made for
    Sent,           \* the items clients send for a task
    Requests,       \* the lines clients complete: functions from one article to a Request
    Absent,         \* a null pointer
    EditStatuses,   \* the statuses clients set by hand
    MaxEdits,       \* bound on edits of tasks, starting one aside, and articles deleted
    MaxInbound      \* bound on what comes in for one line

Amounts == 0 .. MaxQuantity
Optional(numbers) == {Absent} \cup numbers
Request == [expected : Nat, received : Optional(Int), accepted : Optional(Nat),
            rejected : Optional(Nat)]

(* A line of a task as it is stored; "none": the task has no such line.    *)
Item == [expected : Int, status : {"none", "open", "partial", "completed", "closed"},
         received : Optional(Int), accepted : Optional(Int), rejected : Optional(Int)]

Terminal == {"completed", "completed_with_differences", "cancelled"}
Statuses == {"open", "in_progress", "closed"} \cup Terminal

ASSUME ReceivingAssumption ==
    /\ MaxQuantity \in Nat /\ MaxEdits \in Nat /\ MaxInbound \in Nat
    /\ IsFiniteSet(Tasks) /\ Absent \notin Int
    /\ \A request \in Requests : \E s \in Skus : request \in [{s} -> Request]
    /\ Tracked \subseteq Skus /\ EditStatuses \subseteq Statuses
    /\ Quantities \subseteq [Skus -> Amounts] /\ Sent \subseteq [Skus -> Item]

VARIABLES
    order,      \* the row of purchase_orders
    ordered,    \* purchase_order_items.expected_qty, 0: no such line
    received,   \* purchase_order_items.received_qty
    rejected,   \* purchase_order_items.rejected_qty
    task,       \* the rows of receiving_tasks
    inbound,    \* inbound movements of each task, summed by line
    articles,   \* the articles there still are
    tx,         \* what each client's request is about
    whole,      \* the lines of each task received with the whole task
    spoilt,     \* tasks whose account is lost, see Spoils
    lowered,    \* lines for which a negative quantity was counted
    edits

lineVars  == <<received, rejected, lowered>>
taskVars  == <<task, inbound, whole, spoilt>>
otherVars == <<ordered, articles, edits>>
vars == <<order, lineVars, taskVars, otherVars, tx>>

OrderStatuses == {"draft", "submitted", "partial", "completed", "cancelled"}

(* The item Submit makes of a line of the order.                           *)
FreshItem(n) == [expected |-> n, status |-> IF n = 0 THEN "none" ELSE "open",
                 received |-> Absent, accepted |-> Absent, rejected |-> Absent]
Fresh(quantities) == [s \in Skus |-> FreshItem(quantities[s])]

(* A task's items are kept by article, as both completions look them up.   *)
NoTask == [status |-> "none", linked |-> FALSE, inbound |-> "none",
           items |-> Fresh([s \in Skus |-> 0])]
Lines(items) == {s \in Skus : items[s].status # "none"}
Ordered == {s \in Skus : ordered[s] > 0}

Idle == [at |-> "idle"]
Least(a, b) == IF a <= b THEN a ELSE b
OrZero(n) == IF n = Absent THEN 0 ELSE n

-----------------------------------------------------------------------------
(* updatePOFromReceivingItems: what a set of items adds to the order.      *)

Counted(item) == IF item.accepted # Absent THEN item.accepted ELSE OrZero(item.received)

\* Mutant of NewRejected.
NewRejectedUnclamped(s, item) == rejected[s] + OrZero(item.rejected)

\* Mutant of NewReceived.
NewReceivedUnclamped(s, item) == received[s] + Counted(item)

NewReceived(s, item) == Least(received[s] + Counted(item), ordered[s])
NewRejected(s, item) ==
    Least(rejected[s] + OrZero(item.rejected), ordered[s] - NewReceived(s, item))

(* The rows updated: items with nothing to add are skipped, and the UPDATE *)
(* of an article that is not on the order finds no row.                    *)
Updated(items, linked) == IF ~linked THEN {} ELSE
    {s \in DOMAIN items \cap Ordered : Counted(items[s]) # 0 \/ OrZero(items[s].rejected) # 0}

(* A negative quantity takes from the line: nothing keeps it from that.    *)
Takes(item) == Counted(item) < 0 \/ OrZero(item.rejected) < 0

\* Mutant of Verdict.
CompletedByAnyLine(rec, rej) ==
    IF \E s \in Ordered : ordered[s] <= rec[s] + rej[s] THEN "completed" ELSE "none"

(* What the lines as the transaction sees them say of the order ...        *)
Verdict(rec, rej) ==
    IF \A s \in Ordered : ordered[s] <= rec[s] + rej[s] THEN "completed"
    ELSE IF \E s \in Ordered : ordered[s] <= rec[s] + rej[s] THEN "partial" ELSE "none"

(* ... and what the conditional UPDATE makes of its status.                *)
Advanced(status, verdict) ==
    IF verdict = "none" \/ status \in {"cancelled", "completed"} THEN status ELSE verdict

-----------------------------------------------------------------------------
(* Statuses of tasks.                                                      *)

validReceivingTransitions ==
    [open        |-> {"in_progress", "cancelled"},
     in_progress |-> {"completed", "completed_with_differences", "cancelled"}]

isValidReceivingTransition(current, next) ==
    \/ current = next
    \/ current \in DOMAIN validReceivingTransitions /\ next \in validReceivingTransitions[current]

Processed(items) == \A s \in Lines(items) : items[s].status \in {"completed", "partial"}

(* Two ways to tell whether what came differs from what was expected.      *)
ReceivedDiffers(items) == \E s \in Lines(items) :
    items[s].received # Absent /\ items[s].received # items[s].expected
AcceptedDiffers(items) == \E s \in Lines(items) :
    \/ OrZero(items[s].rejected) > 0
    \/ items[s].accepted # Absent /\ items[s].accepted < items[s].expected
Closing(differs) == IF differs THEN "completed_with_differences" ELSE "completed"

-----------------------------------------------------------------------------
Init ==
    /\ order = [status |-> "draft", deleted |-> FALSE]
    /\ ordered \in Quantities
    /\ received = [s \in Skus |-> 0]
    /\ rejected = [s \in Skus |-> 0]
    /\ task = [t \in Tasks |-> NoTask]
    /\ inbound = [t \in Tasks |-> [s \in Skus |-> 0]]
    /\ articles = Skus
    /\ tx = [c \in Clients |-> Idle]
    /\ whole = [t \in Tasks |-> {}]
    /\ spoilt = {} /\ lowered = {}
    /\ edits = 0

(* A row written by an open transaction is locked until it ends.           *)
Locks(c) == IF tx[c].at = "written" THEN tx[c].locks ELSE {}

\* Mutant of Free.
FreeWhateverIsLocked(c, row) == TRUE

Free(c, row) == \A d \in Clients \ {c} : row \notin Locks(d)

Goes(c, step) == tx' = [tx EXCEPT ![c] = step]

Rollback(c) ==
    /\ tx[c] # Idle
    /\ Goes(c, Idle)
    /\ UNCHANGED <<order, lineVars, taskVars, otherVars>>

-----------------------------------------------------------------------------
(* The purchase order.                                                     *)

IsDraft == order.status = "draft" /\ ~order.deleted

(* The inbound numbers of tasks are unique: idx_receiving_tasks_inbound_   *)
(* number_tenant.  "order" is the number Submit derives from the order's.  *)
\* Mutant of InboundFree.
InboundNeverTaken(number) == TRUE

InboundFree(number) == number = "order" => \A t \in Tasks : task[t].inbound # "order"

BeginSubmit(c) ==
    /\ tx[c] = Idle /\ IsDraft /\ Ordered # {}
    /\ Goes(c, [at |-> "submit"])
    /\ UNCHANGED <<order, lineVars, taskVars, otherVars>>

CommitSubmit(c, t) ==
    /\ tx[c].at = "submit"
    /\ task[t] = NoTask /\ InboundFree("order")
    /\ Free(c, "order")
    /\ task' = [task EXCEPT ![t] = [status |-> "open", linked |-> TRUE, inbound |-> "order",
                                    items |-> Fresh(ordered)]]
    /\ order' = [order EXCEPT !.status = "submitted"]
    /\ Goes(c, Idle)
    /\ UNCHANGED <<lineVars, inbound, whole, spoilt, otherVars>>

BeginCancel(c) ==
    /\ tx[c] = Idle /\ ~order.deleted
    /\ order.status \notin {"completed", "cancelled"}
    /\ Goes(c, [at |-> "cancel"])
    /\ UNCHANGED <<order, lineVars, taskVars, otherVars>>

(* The receiving task is left as it is.                                    *)
CommitCancel(c) ==
    /\ tx[c].at = "cancel"
    /\ Free(c, "order")
    /\ order' = [order EXCEPT !.status = "cancelled"]
    /\ Goes(c, Idle)
    /\ UNCHANGED <<lineVars, taskVars, otherVars>>

BeginDelete(c) ==
    /\ tx[c] = Idle /\ IsDraft
    /\ Goes(c, [at |-> "delete"])
    /\ UNCHANGED <<order, lineVars, taskVars, otherVars>>

CommitDelete(c) ==
    /\ tx[c].at = "delete"
    /\ Free(c, "order")
    /\ order' = [order EXCEPT !.deleted = TRUE]
    /\ Goes(c, Idle)
    /\ UNCHANGED <<lineVars, taskVars, otherVars>>

-----------------------------------------------------------------------------
(* Receiving tasks: creation and edits.                                    *)

(* The lines are opened, and are for the rest what the client sent: a line *)
(* may say from the start how much of it was received or accepted.         *)
Opened(items) == [s \in Skus |-> IF s \in Lines(items) THEN [items[s] EXCEPT !.status = "open"]
                                 ELSE items[s]]

CreateReceivingTask(t, items, number) ==
    /\ task[t] = NoTask
    /\ Lines(items) \subseteq articles
    /\ InboundFree(number)
    /\ task' = [task EXCEPT ![t] = [status |-> "open", linked |-> FALSE, inbound |-> number,
                                    items |-> Opened(items)]]
    /\ UNCHANGED <<order, lineVars, inbound, whole, spoilt, otherVars, tx>>

(* A workbook without a line makes no task; one with lines makes it as a   *)
(* client would who sends expected quantities only.                        *)
ImportReceivingTaskFromExcel(t, items, number) ==
    /\ Lines(items) # {}
    /\ \A s \in Lines(items) :
            {items[s].received, items[s].accepted, items[s].rejected} = {Absent}
    /\ CreateReceivingTask(t, items, number)

(* Any status may follow any other, and new items are stored as they come, *)
(* their statuses included.  The UPDATE is not part of the transaction     *)
(* around it: it commits by itself.                                        *)
Starts(t, new) == task[t].status = "open" /\ new = [task[t] EXCEPT !.status = "in_progress"]

UpdateReceivingTask(t, new) ==
    /\ task[t] # NoTask
    /\ \A c \in Clients : t \notin Locks(c)
    /\ edits' = IF Starts(t, new) THEN edits ELSE edits + 1
    /\ edits' <= MaxEdits
    /\ new.linked = task[t].linked
    /\ new.inbound # task[t].inbound => InboundFree(new.inbound)
    /\ task' = [task EXCEPT ![t] = new]
    /\ spoilt' = IF new.items = task[t].items THEN spoilt ELSE spoilt \cup {t}
    /\ inbound' = [inbound EXCEPT ![t] = IF t \in spoilt' THEN [s \in Skus |-> 0] ELSE @]
    /\ whole' = [whole EXCEPT ![t] = IF t \in spoilt' THEN {} ELSE @]
    /\ UNCHANGED <<order, lineVars, ordered, articles, tx>>

EditTask(t) ==
    \/ \E status \in EditStatuses : UpdateReceivingTask(t, [task[t] EXCEPT !.status = status])
    \/ \E number \in {"order", "other"} :
            UpdateReceivingTask(t, [task[t] EXCEPT !.inbound = number])
    \/ \E items \in Sent : UpdateReceivingTask(t, [task[t] EXCEPT !.items = items])

(* The foreign key of its lines keeps an article of the order.  Inventory  *)
(* goes with its article, movements and tasks stay.                        *)
DeleteArticle(s) ==
    /\ s \in articles \ Ordered
    /\ edits < MaxEdits /\ edits' = edits + 1
    /\ articles' = articles \ {s}
    /\ UNCHANGED <<order, ordered, lineVars, taskVars, tx>>

-----------------------------------------------------------------------------
(* The completions: read, write, commit.                                   *)

(* What loses a task's account, and what nothing else does: items that     *)
(* changed since they were read are overwritten, a completion reports an   *)
(* error after it has booked stock, a line of a deleted article counts as  *)
(* received, or the items are edited by hand.                              *)
Spoils(t, lost) == spoilt' = IF lost THEN spoilt \cup {t} ELSE spoilt
Books(t, come) == inbound' = [inbound EXCEPT ![t] =
    [s \in Skus |-> IF t \in spoilt' THEN 0 ELSE @[s] + come[s]]]
Fits(t, come) == \A s \in Skus : inbound[t][s] + come[s] \in -MaxInbound .. MaxInbound

Begin(c, t, request) ==
    /\ tx[c] = Idle
    /\ task[t] # NoTask
    /\ Goes(c, [at |-> "read", task |-> t, read |-> [status |-> task[t].status, items |-> task[t].items],
                request |-> request])
    /\ UNCHANGED <<order, lineVars, taskVars, otherVars>>

(* The UPDATEs of the task and of the order's lines, and the SELECT of all *)
(* lines that decides about the order.                                     *)
Write(c, new, counted, come, lost) ==
    LET t    == tx[c].task
        rows == Updated(counted, task[tx[c].task].linked)
        rec  == [s \in Skus |-> IF s \in rows THEN NewReceived(s, counted[s]) ELSE received[s]]
        rej  == [s \in Skus |-> IF s \in rows THEN NewRejected(s, counted[s]) ELSE rejected[s]]
    IN  /\ \A row \in {t} \cup rows : Free(c, row)
        /\ Goes(c, [at |-> "written", task |-> t, locks |-> {t} \cup rows,
                    new |-> new, come |-> come, received |-> [s \in rows |-> rec[s]],
                    rejected |-> [s \in rows |-> rej[s]],
                    takes |-> {s \in rows : Takes(counted[s])},
                    verdict |-> IF task[tx[c].task].linked THEN Verdict(rec, rej) ELSE "none",
                    lost |-> lost \/ tx[c].read.items # task[t].items])
        /\ UNCHANGED <<order, lineVars, taskVars, otherVars>>

(* The UPDATE of the order, last, and the COMMIT.                          *)
Commit(c) ==
    /\ tx[c].at = "written"
    /\ LET t == tx[c].task
       IN  /\ Fits(t, tx[c].come)
           /\ task' = [task EXCEPT ![t].items = tx[c].new.items,
                                   ![t].status = IF tx[c].new.status = "as is" THEN @
                                                 ELSE tx[c].new.status]
           /\ Spoils(t, tx[c].lost)
           /\ Books(t, tx[c].come)
           /\ whole' = [whole EXCEPT ![t] = IF t \in spoilt' THEN {} ELSE @ \cup tx[c].new.whole]
    /\ lowered' = lowered \cup tx[c].takes
    /\ received' = [s \in Skus |-> IF s \in DOMAIN tx[c].received THEN tx[c].received[s] ELSE received[s]]
    /\ rejected' = [s \in Skus |-> IF s \in DOMAIN tx[c].received THEN tx[c].rejected[s] ELSE rejected[s]]
    /\ order' = [order EXCEPT !.status = Advanced(@, tx[c].verdict)]
    /\ Goes(c, Idle)
    /\ UNCHANGED otherVars

-----------------------------------------------------------------------------
(* CompleteReceivingLine.                                                  *)

(* applyAcceptedRejectedBackfill: what old callers send.                   *)
Backfilled(request) ==
    IF OrZero(request.accepted) = 0 /\ OrZero(request.rejected) = 0 /\ OrZero(request.received) > 0
    THEN [request EXCEPT !.accepted = request.received] ELSE request

Received(item, request) ==
    LET accepted == IF request.accepted = Absent THEN request.expected ELSE request.accepted
        all      == accepted + OrZero(request.rejected)
    IN  [expected |-> item.expected, received |-> all, accepted |-> accepted,
         rejected |-> OrZero(request.rejected),
         status |-> IF all <= 0 \/ all < item.expected THEN "partial" ELSE "completed"]

\* Mutant of LineOpen.
LineOpenWhateverItsStatus(item) == item.status # "none"

LineOpen(item) == item.status = "open"

(* The task's status is not looked at, and only written when every line is *)
(* processed and the status read may go there.  The order counts what the  *)
(* request says, not what was booked.                                      *)
CompleteReceivingLine(c) ==
    /\ tx[c].at = "read"
    /\ \E s \in articles \cap DOMAIN tx[c].request :
        LET read    == tx[c].read
            request == Backfilled(tx[c].request[s])
            items   == [read.items EXCEPT ![s] = Received(@, request)]
            closing == Closing(AcceptedDiffers(items))
        IN  /\ LineOpen(read.items[s])
            /\ Write(c,
                 [items |-> items, whole |-> {},
                  status |-> IF Processed(items) /\ isValidReceivingTransition(read.status, closing)
                             THEN closing ELSE "as is"],
                 [k \in {s} |-> request],
                 [k \in Skus |-> IF k = s THEN items[s].accepted ELSE 0], FALSE)

-----------------------------------------------------------------------------
(* CompleteFullTask.                                                       *)

Everything == <<>>   \* the request that names no line
Full(c) == tx[c].at = "read" /\ DOMAIN tx[c].request = {} /\ tx[c].read.status \notin Terminal

(* Lines somebody closed by hand are received all the same.                *)
Todo(items) == {s \in Lines(items) : LineOpen(items[s]) \/ items[s].status = "closed"}
AllReceived(items) == [s \in Skus |->
    IF s \in Todo(items) THEN [items[s] EXCEPT !.status = "completed", !.received = items[s].expected]
    ELSE items[s]]
FullStatus(items) == Closing(ReceivedDiffers(items))
Come(items, lines) == [s \in Skus |-> IF s \in lines THEN items[s].expected ELSE 0]

(* Every item counts for the order, those received line by line again.     *)
CompleteFullTask(c) ==
    /\ Full(c)
    /\ LET read  == tx[c].read
           items == AllReceived(read.items)
       IN  /\ isValidReceivingTransition(read.status, FullStatus(items))
           /\ Write(c, [items |-> items, whole |-> Todo(read.items), status |-> FullStatus(items)],
                    [s \in Lines(items) |-> items[s]],
                    Come(items, Todo(read.items) \cap articles),
                    ~(Todo(read.items) \subseteq articles))

(* Serials or lots that do not add up stop it at their line, an invalid    *)
(* transition at the end.  Either is reported, and what was booked until   *)
(* then is committed.                                                      *)
FailFullTask(c) ==
    /\ Full(c)
    /\ LET items == tx[c].read.items
           todo  == Todo(items) \cap articles
           t     == tx[c].task
           last  == FullStatus(AllReceived(items))
       IN  \E booked \in SUBSET todo :
            /\ \/ booked \cap Tracked # {}
               \/ booked = todo /\ ~isValidReceivingTransition(tx[c].read.status, last)
            /\ Fits(t, Come(items, booked))
            /\ Spoils(t, TRUE)
            /\ Books(t, Come(items, booked))
            /\ whole' = [whole EXCEPT ![t] = {}]
    /\ Goes(c, Idle)
    /\ UNCHANGED <<order, lineVars, task, otherVars>>

-----------------------------------------------------------------------------
Completes(c) == CompleteReceivingLine(c) \/ CompleteFullTask(c) \/ FailFullTask(c) \/ Commit(c)

BeginCompletion(c, t) ==
    \/ Begin(c, t, Everything)
    \/ \E request \in Requests : Begin(c, t, request)

Orders(c) ==
    \/ BeginSubmit(c) \/ BeginCancel(c) \/ CommitCancel(c) \/ BeginDelete(c) \/ CommitDelete(c)
    \/ \E t \in Tasks : CommitSubmit(c, t)

ByHand(t) ==
    \/ EditTask(t)
    \/ \E items \in Sent, number \in {"order", "other"} :
            \/ CreateReceivingTask(t, items, number)
            \/ ImportReceivingTaskFromExcel(t, items, number)

Next ==
    \/ \E c \in Clients :
        \/ Orders(c) \/ Completes(c) \/ Rollback(c)
        \/ \E t \in Tasks : BeginCompletion(c, t)
    \/ \E t \in Tasks : ByHand(t)
    \/ \E s \in Skus : DeleteArticle(s)

Spec == Init /\ [][Next]_vars

-----------------------------------------------------------------------------
TypeOK ==
    /\ order \in [status : OrderStatuses, deleted : BOOLEAN]
    /\ ordered \in [Skus -> Amounts]
    /\ received \in [Skus -> {n \in Int : n <= MaxQuantity}] /\ rejected \in [Skus -> Int]
    /\ task \in [Tasks -> [status : Statuses \cup {"none"}, linked : BOOLEAN,
                           inbound : {"none", "order", "other"}, items : [Skus -> Item]]]
    /\ inbound \in [Tasks -> [Skus -> -MaxInbound .. MaxInbound]]
    /\ whole \in [Tasks -> SUBSET Skus] /\ spoilt \subseteq Tasks
    /\ articles \subseteq Skus /\ lowered \subseteq Skus /\ edits \in 0 .. MaxEdits

(* However receipts repeat, overlap and count lines twice, the order never *)
(* shows more units received and rejected than were ordered, whatever      *)
(* numbers clients send.                                                   *)
WithinOrdered == \A s \in Skus : received[s] + rejected[s] <= ordered[s]

(* What the order has accounted for on a line is never lost again, by two  *)
(* receipts that overlap or by a rejection that gives way to a delivery:   *)
(* only lines for which a client sent a negative quantity ever shrink.     *)
AccountedNeverShrinks ==
    [][\A s \in Skus \ lowered' : /\ received'[s] >= received[s]
                                  /\ received'[s] + rejected'[s] >= received[s] + rejected[s]]_vars

(* The order is completed only when every line is accounted for, partial   *)
(* only when some line is, save for lines lowered since.  While it has no  *)
(* more than one task, it is also completed when every line is, unless it  *)
(* was cancelled: the lock on the task keeps two receipts from each        *)
(* missing the other's line.                                               *)
Linked == {t \in Tasks : task[t].linked}
In(s) == received[s] + rejected[s] = ordered[s]
AllIn == \A s \in Ordered : In(s)
StatusTellsWhatCame ==
    /\ order.status = "completed" => \A s \in Ordered \ lowered : In(s)
    /\ order.status = "partial" => \E s \in Ordered : In(s) \/ s \in lowered
    /\ AllIn /\ Ordered # {} /\ Cardinality(Linked) <= 1 => order.status \in {"completed", "cancelled"}

(* What came in for a line is what it says was accepted, and what it       *)
(* expected if it was received with the whole task (whatever it said was   *)
(* accepted before), each once; unless the account of the task is lost,    *)
(* which happens in the ways Spoils lists only.                            *)
Booked(items, withAll, s) ==
    IF items[s].status \notin {"completed", "partial"} THEN 0
    ELSE IF s \in withAll THEN items[s].expected ELSE Counted(items[s])
StockIsWhatLinesSay ==
    \A t \in Tasks \ spoilt : \A s \in Skus :
        inbound[t][s] = Booked(task[t].items, whole[t], s)

(* The order has one receiving task, as long as nobody renumbers one.      *)
OneTask == (\A t \in Linked : task[t].inbound = "order") => Cardinality(Linked) <= 1
=============================================================================
